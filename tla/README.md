# TLA+ models of the fasttravel realtime server

This directory holds the TLA+ specifications of the realtime collaboration
server in `src/fasttravel-rt` (server, services), the protocol crate
`src/fasttravel-rt-proto` and the client SDK `src/fasttravel-rt-client`. It
also holds the TLC configurations that check them and the TLAPS proofs about
them. `PROJECT.json` lists every component, run, mutant, mapped definition,
finding, hazard and theorem.

## 1. The system

Two kinds of state change run concurrently in the server:
- HTTP handlers (axum, on the tokio runtime);
- actors of the `factor` crate. Each actor has a FIFO mailbox and handles one message at a time. A handler may return a future that runs later as a spawned task.

| Part | Source | State | Operations |
|---|---|---|---|
| Cospace manager | `cospace/cospace_manager.rs`, `websocket/websocket_server.rs` | `HostedCospaces`: three DashMaps `scheduled`, `failed`, `cospaces` | `realtime_host`; `spawn_cospace_in_{main,shared,dedicated}_node` and their placement tasks; `failed`; `insert_cospace`; `realtime_status` |
| Node manager | `cospace_manager.rs` | its `cospaces` map | `CreateCospaceActorMessage` |
| Frame codec | `fasttravel-rt-proto/src/helpers.rs` | none (pure) | `process_realtime_message`; `create_{tell,request,response}_message_from_service_payload` |
| Client connection endpoint | `client/client_connection_actor.rs` | `request_id_counter`, `service_promises` | socket frame in (Tell / Request / Response / Text); service message out (Tell / Ask) |
| Connection creation | `client/client_connection_actor_creator.rs`, `websocket/websocket_actor.rs` | socket pumps | create the endpoint; `Connect` to the connection service and the cospace |
| Connection service | `client/client_connection_service_actor.rs` | client address | `Connect` / `Disconnect`; the ticket handshake |
| Cospace actor | `cospace/cospace_actor.rs` | `client_id_counter`, `clients` | `GenerateClientId`; `Connect` / `Disconnect`; client messages to services; service messages to clients |
| Service pool and service actors | `cospace/service_pool.rs`, `cospace/service_actor.rs`, `fasttravel_rt_services` | per-service actor pools | tell / broadcast / ask; the execution context back to the cospace |
| SDK broker | `fasttravel-rt-client/private/src/message_broker.rs` | `request_id_counter`, `service_promises` (RefCells), `connection`, the kernels | send text; send request; receive Text / Tell / Request / Response |
| SDK realtime module | `realtime_module.rs`, `websocket_connection.rs`, `delegate_*.rs` | the application's `join_session` calls | init kernels; join a session (fetch, socket, ticket handshake) |

How the parts interact:
- A session is set up in steps. `realtime_host` schedules a cospace, and the client then polls `realtime_status` until it answers HOSTED.
- The client then opens a websocket and sends the ticket handshake as its first request.
- After that, frames flow socket → codec → endpoint → cospace actor → service actor, and back the same way.
- Either peer may start a request: each side keeps its own promise table and request-id counter.

The behaviours that make this code hard:
- the three maps of the registry are changed by several DashMap operations, with no lock across them;
- placement tasks can fail at any `.await`;
- promises have no timeout;
- request ids start at 0 on the server, and 0 means "not a request" on the wire;
- the SDK keeps a RefCell borrow across an await;
- Disconnect is never sent;
- Connect races the socket pump.

## 2. Modules

### CospaceManager (done)

The module models:
- `realtime_host` and the three `spawn_cospace_in_*` functions;
- the placement task of each cospace, with one action per `.await` and per DashMap operation:

  | Action | Code |
  |---|---|
  | `SpawnWorker` | `spawn_worker_node` |
  | `GetRemoteAddr` | `get_remote_addr` |
  | `ShutdownWorker` | `shutdown_worker_node` |
  | `AskCreate` | the `CreateCospaceActor` ask |
  | `FailRemove` / `FailInsert` | the two halves of `HostedCospaces::failed` |
  | `InsertHosted` / `RemoveScheduled` | the two halves of `insert_cospace` |

- `realtime_status`, as a handler with one step per map lookup.

The model's state, against the code:

| Variable | Code |
|---|---|
| `scheduled`, `failed`, `hosted` | the three DashMaps |
| `task[c]` | the program counter of c's placement task |
| `workers` | the dedicated worker processes that are running |
| `actors` | the cospace actors that node managers created |
| `known` | the ids `realtime_host` returned |
| `queries` | the status handlers in flight |

Abstractions:
- A CospaceId is a model value.
- `CospaceId::generate` picks an id never generated before (a v4 uuid).
- The worker spawn, address lookup and create-actor ask each succeed or fail nondeterministically.
- A failed ask to a remote node manager may or may not have created the actor (a lost reply).

`Strategies` is the set of placements that `resolve_cospace_host_node_from_session_request` may return. The code always returns Dedicated; the other two are kept "for future use":
- the `MC_StrategiesCode` runs use {Dedicated};
- the pass run uses all three.

### FrameCodec (done)

`process_realtime_message` and the three `create_*` functions of `helpers.rs`, as operators over abstract envelopes `[header, body]`:
- a header is `Nil` or a record of two ids in `0 .. 2^IdWidth - 1`;
- a body is `Nil` or a service with a payload;
- a payload is an opaque value, or `Malformed` (it does not decode as that service's message, and prost then fails the whole decode);
- `Garbage` stands for bytes that are no `RealtimeMessage` at all.

The module's own small specification (`CodecSpec`) makes each state one use of the codec: a `create_*` call and the frame it built, or any frame a peer may send. TLC then checks the properties on every input of the bounded sets.

### ServerEndpoint (done)

The server side of one websocket. Its state, against the code:

| Variable | Code |
|---|---|
| `c2s`, `s2c` | the socket in each direction, with the actor's mailbox and `socket_tx_feeder` (FIFO) |
| `counter` | `request_id_counter` |
| `promises` | `service_promises` (request id → the ask it belongs to) |
| `alive` | FALSE once the actor panicked (debug-build overflow) |
| `tasks` | the tasks `recv_proto_req_from_client` spawned and that have not answered |
| `registered` | the cospace actor has the client in `clients` |
| `ask[a]`, `askId[a]` | the future a service holds for its ask `a`, and the id the ask was given |
| `req`, `peerReqs`, `answers`, `noise` | the peer: its own requests, the server requests it decoded, how many answers and how much noise it sent |

Each handler is one action:
- `SrvRecvText`, `SrvRecvTell`, `SrvRecvRequest`, `SrvRecvResponse` and `SrvRecvUndefined` are the dispatch arms of `recv_socket_msg_from_client` and `recv_proto_msg_from_client`.
- `TaskAnswer` is the spawned answer task. The connection service always answers the handshake. Another service answers or not (an `Err` from `answer_encoded`). A payload that cannot be framed is dropped.
- `ServiceAsk(a, s)` is `recv_req_from_service`: it reads the counter, increments it (modulo `2^IdWidth`, or not at all in a debug build at the top), builds the frame, sends it and inserts the promise. The insert replaces any promise under the same id, whose future then resolves None.
- `AskOverflowPanic` is the debug build's panic at `+= 1`: the actor dies and every pending ask resolves None.
- `AskUnrouted` is an ask that resolves None with no request: the client is not registered yet, the actor is gone, or the payload is Text.
- `ServiceTell` is `recv_tell_from_service`: Text becomes a Text frame, and Binary is sent as raw bytes (`RawFrame`).
- `CospaceConnect` is the `Connect` that `websocket_actor.rs` sends after the creator returned.

The peer is any client that speaks the envelope protocol. It sends the handshake (its request 1, to Connection) and other requests, answers the server requests it decoded (again, late, or never), and sends text, garbage, malformed and stray Tells. Payloads are tags (`AskTag(i)`, `ReqTag(k)`) that whoever answers echoes, so a property can tell whose answer arrived where.

### SdkBroker (done)

The client SDK in the browser: `RealtimeModule::join_session` and its
helpers, `WebSocketConnection::new`, the connection and core kernels, and
`RealtimeMessageBroker`. It is single-threaded wasm: every action is one run
of JS or one poll of a future up to its next await. The server at the other
end of each socket is abstracted to what the broker sees: it answers a
handshake request under the request's id (`ServerAnswer`, the connection
service), and its services push tells, requests, responses, texts and garbage
(`ServerPush`). Frames are FrameCodec envelopes, built and decoded by the
FrameCodec operators (`C == INSTANCE FrameCodec`).

| Variable | Code |
|---|---|
| `kernels` | `kernel_core`, `kernel_connection` (set by `init_core` / `init_connection`) |
| `connection` | the broker's `connection` (the join whose socket `set_connection` stored last) |
| `counter`, `borrow` | `request_id_counter`, and which pending call holds its `RefMut` |
| `promises` | `service_promises` |
| `join[j]` | the program counter of the application's j-th `join_session` call, and its handshake result |
| `opened`, `c2s`, `s2c` | the sockets that opened, and each socket in each direction |
| `panicked` | the wasm instance trapped, and on which unwrap or borrow |

Actions: `InitKernel` (`init_core` / `init_connection`); `JoinStart`,
`HostCospace` (the fetch succeeds, or join_session returns Ok at once),
`SocketRefused` (onopen never fires: the oneshot sender lives in `on_open`, so
`rx.await` never returns), `SocketOpen` (`connect_realtime`, `set_connection`,
`try_get_kernel_connection`, and `perform_websocket_ticket_handshake` through
`SendRequest`); `SendText`; `ClientRecv`, the onmessage closure and every
branch of `recv_msg_from_server`, with its kernel unwraps (`Needs`), and
`RecvResponse`. A closure of a replaced socket is dropped, so its frames are lost
(`HandlerAlive`).

Fairness: `WF` on each socket's `ClientRecv` (the browser delivers every
message event) and on `ServerAnswer` (the connection service answers every
handshake it reads). Nothing obliges the application to call anything.

### CospaceActor (done)

One cospace actor with its service pool and the attaching of sockets. Its
mailbox (`inbox`) is the one FIFO into which the creator's `GenerateClientId`
ask, the websocket actor's `Connect`, the client actors' `ClientMessage`s and
the services' `ServiceMessage`s all go. Each service's mailbox is `mbox[s]`.

| Variable | Code |
|---|---|
| `upgrade[c]` | where socket c is in `handle_on_upgrade` / `create_client_actor` |
| `cid[c]` | the `ClientId` the creator got for socket c |
| `counter`, `clients` | `client_id_counter`, `clients` (id → client actor address) |
| `sends`, `calls` | how many frames each client sent, how many calls the services made |
| `got[c]` | what the cospace delivered to client c's actor |
| `texted`, `owed` | clients that sent a text; those whose text the cospace routed after it knew them |

Actions: `CreatorAsk`, `CreatorResume` (the pumps start, so from now on frames
flow) and `UpgradeResume` (the `Connect` to the cospace after the creator
returned); `ClientText`, `ClientTell`, `ClientAsk` (the client actor's
routing of a text, a tell and a request); `CospaceStep`, which takes the head
of the mailbox and runs `GenerateClientId`, `ConnectClient`,
`HandleClientMessage` or `HandleServiceMessage`; `ServiceStep`, a service
actor's handlers running the Mocker (`MockerRecvText` replies by `tell_text`;
`answer_encoded` returns Err); `ServiceCall`, a service's own broadcast or ask.
`Broadcast` and `PoolTell` are `ServicePool::broadcast` and `tell`.

Abstractions: every service type runs the same `Mocker`, so the runs use one
service of the four; a broadcast to four identical mailboxes adds orders but no
new behaviour of the cospace. A pool has the default size 1. The `Disconnect`
branch is left out: no code sends it.

Fairness: `WF` on `CospaceStep`, each `ServiceStep`, and the creator's and
websocket actor's resumptions: the factor runtime drains every mailbox and
polls every spawned future.

### ClientIds (abstract specification)

`ClientIds.tla` states what the cospace promises about client ids. It has one variable, `ids`, and one action, `Assign(c, i)`: a client with no id gets an id that no client holds. A socket therefore gets an id at most once, the id is fresh, and it never changes. `CospaceActor` instantiates it as `Abs` with `ids <- cid`, `Clients <- Conns` and `IdSpace <- Ids`. The property `ClientIdsRefined == Abs!Spec` says that every step of the cospace is an `Assign` or leaves `cid` alone.

### CospaceLifecycle (abstract specification)

`CospaceLifecycle.tla` states what the hosted-cospace registry promises about one id (spec 4.6). It has one variable, `life`, with values in `fresh`, `scheduled`, `hosted`, `failing` and `failed`, and one action, `Move(c, p, q)`. The four moves it allows are:
- fresh → scheduled;
- scheduled → hosted;
- scheduled → failing;
- failing → failed.

`hosted` and `failed` are final. `failing` is the window inside `HostedCospaces::failed`. In that window the id has been removed from `scheduled` but not yet inserted into `failed`, so it is in no map. This is the window that `status_race` reaches.

`CospaceManager` instantiates it as `Lifecycle` with `life <- Life`. `Life[c]` is read off the maps in this order:
1. not generated: fresh;
2. in `hosted`: hosted;
3. in `failed`: failed;
4. in `scheduled`: scheduled;
5. otherwise: failing.

Because `hosted` comes first, the `insert_cospace` window, where the id is in both `cospaces` and `scheduled`, is already HOSTED. `LifecycleRefined == Lifecycle!Spec`.

### Planned modules

1. **Session.** It composes SdkBroker and ServerEndpoint over the two socket channels: request/response correlation in both directions.

## 3. Runs

Every run uses three cospace ids `c1..c3` as model values. The safety runs reduce symmetry under `Permutations`; the liveness run does not.

| Run | Expect | Checks | What it shows |
|---|---|---|---|
| `manager_safety` | pass | `RegistryDisjoint`, `IInv`, `LifecycleRefined` | With all three placements and two status requests (1.75M states), the maps are disjoint but for the insert_cospace window, the inductive invariant holds, and the registry implements `CospaceLifecycle` (so FAILED and HOSTED are final). |
| `status_race` | violation | `StatusNeverLosesKnown` | A status request for a returned id can answer NOT_FOUND. It happens between the remove and the insert of `failed()`, or when the handler reads `cospaces` just before `insert_cospace` and `scheduled` just after. |
| `placement_liveness` | violation | `PlacementResolves` | A failed create-actor ask leaves the id scheduled for ever: no `failed()`, no timeout (the TODO at line 445). The same trace leaves the dedicated worker running, where spec 7 says it is shut down. |

Frame codec and endpoint runs:

| Run | Expect | Checks | What it shows |
|---|---|---|---|
| `codec_roundtrip` | pass | `RoundTrip` | Requests and responses with a non-zero id decode as themselves. |
| `endpoint_pass` | pass | `AskAnswerCorrelated`, `HandshakeAnswered` | Two asks, two peer requests, duplicate and late answers, noise, a tell, a 2-bit counter that does not wrap (168k states): every answer reaches its own ask, and the handshake is answered. The first ask gets id 0, which decodes as a Tell (`ask_id_zero`), so only the second ask can be answered here. |
| `endpoint_panic` | pass | `AskAnswerCorrelated`, `IInv` | Four asks exhaust a 2-bit counter in a debug build: the panic resolves the pending asks None, no answer is misdelivered, and the proof's inductive invariant holds. |
| `ask_id_zero` | violation | `AskReachesPeer` | The first ask gets id 0 and the client decodes it as a Tell. |
| `raw_tell` | violation | `ServerFramesDecode` | A binary Tell of a service reaches the client as raw bytes. |

A release build, where the counter wraps, is the constant `Overflow = "wrap"`. No run of the project uses it, so the release wrap of hazard `client_connection_actor.rs:279` is not checked by any run, and the endpoint theorems assume the debug build. To reproduce it by hand, copy `MC_ServerEndpoint_panic.cfg`, set `IdWidth <- MC_Width1` and `Overflow = "wrap"`, and keep `AskAnswerCorrelated` alone. TLC then finds, in about 7k states, a third ask that takes the id of a pending one, and the late answer to the pending ask completes the new one. `insert_cospace`'s two-map window is the case `RegistryDisjoint` allows for it. `create_tell_message_from_service_payload` sets no header, so a framed Tell decodes as Undefined; its only caller is never called, so no run checks it.

SDK and cospace runs:

| Run | Expect | Checks | What it shows |
|---|---|---|---|
| `sdk_pass` | pass | `PromisesBorrowed`, `IInv`, `HandshakeResolves` | Two join_session calls, refused and opened sockets, two server pushes, a text, a 2-bit counter (15k states): every pending promise belongs to the call holding the counter's borrow and awaiting its answer, and every awaited handshake resolves or the SDK panicked; the proof's inductive invariant holds. |
| `sdk_overlap` | violation | `NoBorrowPanic` | With one push, a second join whose socket opens while the first handshake awaits its answer panics on the counter's `RefCell` (spec 8 allows several requests in flight). |
| `cospace_pass` | pass | `ReplyRoutedToSender`, `IInv`, `TextReplied`, `ClientIdsRefined` | Two sockets attach concurrently; texts, tells, asks and a service's broadcast or ask (120k states): a Mocker reply reaches only the client whose text it answers, and a text the cospace routed after the client's Connect is always replied; the proof's inductive invariant holds, and the ids follow `ClientIds`. |
| `connect_race` | violation | `TextAlwaysReplied` | The pumps run before the websocket actor's `Connect` reaches the cospace, so a first text reaches the Mocker before the client is known, and the reply is dropped at `cospace_actor.rs:73` (spec 4.5, 5). |

SDK bounds: two joins are the least that overlap; two pushes let a push
follow the handshake answer and a second socket. Cospace bounds: two sockets
make ids and addresses distinguishable, one frame each gives every order of
frames against `GenerateClientId` and `Connect`, and one service call covers
the service-side routes. Both set `CHECK_DEADLOCK FALSE`: once every bounded
step is taken, the SDK and the cospace idle.

Endpoint bounds: a counter of width 1 or 2 stands for u32. What matters is whether the counter reaches its top while asks are pending, and four asks make that happen at width 2. Two asks and two peer requests give every order of requests, answers and duplicates between the two sides. The runs set `CHECK_DEADLOCK FALSE` because a connection really does fall silent once everything is answered.

Endpoint fairness: weak fairness on the actor's receive steps (the mailbox is drained), on the answer tasks (the executor polls them), on the cospace Connect, and on the peer's reads. Nothing obliges the peer or a service to answer, since the code does not.

Why the bounds are enough:
- Three ids let two placement tasks interleave with a third id that is still unused.
- Two status requests let one request overlap each kind of task step.
- Each task is at most eight steps long, and TLC explores every interleaving of them.

`CHECK_DEADLOCK FALSE` is set because the server really does idle: once every id is generated and every task and request has finished, no step is enabled.

Fairness: `WF` on each placement task and each status handler. The tokio executor polls every spawned future that is ready, so a task that can take a step eventually does. The liveness run sets `MaxQueries` to 0, because it is about placement alone.

Every property of a pass run has a mutant in `PROJECT.json` that breaks it:

| Mutant | Breaks |
|---|---|
| `insert_cospace` without its remove | `RegistryDisjoint` |
| `failed()` with `get` instead of `remove` | `IInv`, `LifecycleRefined` |
| `create_response` filling the header as a request | `RoundTrip` |
| `recv_req_from_service` filing the promise under the incremented counter | `AskAnswerCorrelated`, `IInv` (endpoint) |
| the connection service's answer dropped like any other | `HandshakeAnswered` |
| `recv_proto_res_from_server` reading the promise without removing it | `PromisesBorrowed`, `IInv` (SDK) |
| `send_proto_request_to_server` filing the promise under the old counter | `HandshakeResolves` |
| `GenerateClientId` without the increment | `ReplyRoutedToSender`, `IInv` (cospace), `ClientIdsRefined` |
| `ServiceMessage` taking the address out of `clients` | `TextReplied` |

## 4. Proofs

`CospaceManager_proofs.tla` proves four theorems for all values of `Cospaces`, `Strategies` and `MaxQueries`:

| Theorem | Statement |
|---|---|
| `TypeCorrect` | `Spec => []TypeOK` |
| `RegistryDisjointHolds` | `Spec => []RegistryDisjoint` |
| `IInvHolds` | `Spec => []IInv` |
| `LifecycleRefinedHolds` | `Spec => LifecycleRefined` (refinement of `CospaceLifecycle`) |

`RegistryDisjoint` is not inductive on its own: whether a step keeps the maps disjoint depends on where the task is. The proofs therefore go through `IInv`, which is TypeOK plus `PcInv(c)` for every id. `PcInv(c)` ties c's task program counter to the maps that hold c:

| Task state | Maps that hold c |
|---|---|
| not generated | none |
| pending, or failed to spawn | `scheduled` only |
| at `fail_insert` | none |
| at `remove_scheduled` | `scheduled` and `hosted` |
| done | not both `scheduled` and `hosted` |

In addition, an id in `failed` has a finished task and is in no other map.

TLC checks `IInv` in `manager_safety`. TLAPS proves three things about it:
- Init implies it.
- Every step preserves it. The proof has one case per action and uses `TypeStep`.
- It implies `RegistryDisjoint`.

The temporal conclusions follow by PTL.

The refinement has two parts. First, `Init` maps every id to `fresh`. Second, lemma `LifecycleStep` shows `IInv /\ [Next]_vars => [Lifecycle!Next]_Life`, with one case per action:
- `realtime_host`: the chosen id was not generated, so by `PcInv` it is in no map. The step is fresh → scheduled.
- `scheduled.remove` in `failed()`: the task is pending, so the id is only in `scheduled`. The step is scheduled → failing.
- `failed.insert`: at `fail_insert` the id is in no map. The step is failing → failed.
- `cospaces.insert`: the id is only in `scheduled`. The step is scheduled → hosted.
- `scheduled.remove` in `insert_cospace`: the id is already in `hosted`. `Life` does not change.
- Every other step writes no map, so `Life` does not change.

Lemma `LifeMove` turns "Life changed at c only, from p to q" into `Move(c, p, q)`. The theorem follows by PTL from these two parts together with `IInvInit` and `IInvStep`.

`FrameCodec_proofs.tla` proves `RoundTripHolds` for every id width and payload set. The invariant is that the frame on the wire is the one the recorded call built.

`ServerEndpoint_proofs.tla` proves three theorems for every counter width and every bound:

| Theorem | Statement |
|---|---|
| `TypeCorrect` | `Spec => []TypeOK` |
| `AskAnswerCorrelatedHolds` | under `Overflow = "panic"`, `Spec => []AskAnswerCorrelated` |
| `IInvHolds` | under `Overflow = "panic"`, `Spec => []IInv` |

The assumptions are:
- `BoundsAssumption`: the bounds are naturals, and the peer sends at least its handshake;
- `WidthAssumption`: the width is at least 1, and the peer's ids fit in it;
- `ServicesAssumption`;
- `NilAssumption`: `Nil` is no id and no payload.

`AskAnswerCorrelated` is not inductive. Whether an answer lands on the right ask depends on the ids in flight. `IInv` adds:
- every id given out is below the counter, and an idle ask has none;
- no two asks share an id;
- a promise is filed under its ask's id;
- every Response on `c2s`, every Request on `s2c` and every request the peer holds carries the id of the ask whose tag it echoes.

The step for `ServiceAsk` is where the debug build matters. The counter never wraps there, so the new id is above every id in use. Hence no promise sits under it, and the ask's id differs from every other. The step for `SrvRecvResponse` then combines:
- the head frame's id (lemma `ClassifyAnswer`);
- the frame's conjunct;
- the promise's conjunct;
- distinctness.

The theorem is false without the assumption. With `Overflow = "wrap"` a third ask can take the id of a pending one, and the pending ask's late answer then completes the wrong future. The hand-run configuration described under the runs shows this; it is not one of the project's runs.

`SdkBroker_proofs.tla` proves three theorems for every number of joins, pushes and texts and every id width with room for one id per join:

| Theorem | Statement |
|---|---|
| `TypeCorrect` | `Spec => []TypeOK` |
| `PromisesBorrowedHolds` | `Spec => []PromisesBorrowed` |
| `IInvHolds` | `Spec => []IInv` |

The assumptions are:
- `BoundsAssumption`: the bounds are naturals;
- `NilAssumption` and `EnvelopeAssumption`: `Nil` is no id, no payload and no envelope;
- `DistinctAssumption`: the handshake, answer and push payloads decode;
- `WidthAssumption`: `MaxJoins < 2^IdWidth`, and `2^IdWidth` is at least 2.

`PromisesBorrowed` is not inductive, for two reasons. First, a response's id must index the promise table. Second, completing one promise must leave no other behind when it releases the borrow. So `IInv` (in `SdkBroker.tla`, checked by `sdk_pass`) adds:
- every frame on a socket is a text, a push or a ticket handshake or its answer (`ClientFrames`, `ServerFrames`);
- `counter` is the number of joins that sent their handshake (`Sent`), so `counter + 1` stays a request id;
- a join that has not sent has no answer;
- at most one request id has a promise (`SinglePromise`).

The step proof has one lemma per action:
- `PcStep` covers the four steps before a handshake.
- `RequestStep`: the new id exists because a join that has not sent is outside `Sent`, and no other promise exists because the borrow is free.
- `ResponseStep`: removing the one promise leaves none.
- `AnswerStep`, `PushStep` and `TextStep` keep the frames' shapes, using the decoding lemmas `ClientDecode` and `ServerDecode`.

Each `IInvHolds` states as a theorem the inductive invariant that the module's pass run checks. It follows from the same two lemmas as the module's other theorems, `Init => IInv` and `IInv /\ [Next]_vars => IInv'`.

`CospaceActor_proofs.tla` proves four theorems for every number of sockets and services, and for every bound on frames and service calls:

| Theorem | Statement |
|---|---|
| `TypeCorrect` | `Spec => []TypeOK` |
| `IInvHolds` | `Spec => []IInv` |
| `ReplyRoutedToSenderHolds` | `Spec => []ReplyRoutedToSender` |
| `ClientIdsRefinedHolds` | `Spec => Abs!Spec` (the refinement of `ClientIds`) |

The only assumption is `ConstAssumption`:
- the sets of sockets and services are finite and non-empty;
- the bounds are naturals;
- `Nil` is no socket and no number (`Option::None` is no `ClientId`).

`ReplyRoutedToSender` is not inductive. A reply is routed by the id it carries, so the proof needs three facts:
- ids are distinct;
- the clients map files an actor under its own socket's id;
- every message in flight carries its sender's id.

`IInv` (in `CospaceActor.tla`, checked by `cospace_pass`) therefore adds:
- `CounterCounts`: `client_id_counter` is one more than the number of sockets with an id (`Numbered`);
- `WaitingUnnumbered`: a socket has an id exactly when its upgrade is past the ask;
- `IdsBelowCounter` and `IdsDistinct`;
- `ClientsRegistered`: `clients[i]` is a socket whose id is i;
- `InboxTagged` and `MboxTagged`: a message in the cospace's or a service's mailbox that names a socket carries that socket's id;
- `GenidsPending` and `GenidsOnce`: a `GenerateClientId` ask in the mailbox belongs to a socket that is waiting for it and has no id, and no socket has two.

The step proof has one lemma per action. `GenidStep` carries the argument:
- the socket has no id, so handing it the counter adds it to `Numbered` and raises the count by one (`NumberOne`, from `FS_AddElement`);
- every other id is below the counter, so the new id is fresh and the counter stays at most the number of sockets plus one;
- every message in flight and every map entry names a socket that already had an id, so none of them changes meaning.

`ServiceMsgStep` then routes a reply. The clients map and the reply both carry the same id, so by `IdsDistinct` they name the same socket.

The refinement proof maps every step to an `Assign` or a stutter:
- `Init` maps to `Abs!Init`, because no socket has an id.
- `GenerateClientId` maps to `Assign(m.conn, counter)`. The socket has no id (`GenidsPending`). The counter is an id (`CounterFree`: a socket without an id leaves the count below the number of sockets). No socket holds the counter (`IdsBelowCounter`).
- Every other step leaves `cid` unchanged.

This needs `IInv` only in the state before the step, so PTL combines `AbsStep` with `IInvHolds`.

The model's ids are 1 .. the number of sockets. The u32 wrap after 2^32 connections (`cospace_actor.rs:52`) is therefore outside the proof, as the hazard list says.

What stays with TLC only: liveness (`PlacementResolves`, `HandshakeAnswered`, `HandshakeResolves`, `TextReplied`), anything about ENABLED, and the violation runs.

## 5. Not modelled

| Part | Why |
|---|---|
| JWT validation and the HTTP extractors | Cryptography; a model sees only valid or invalid. |
| Server setup and configuration | No concurrent state. |
| The mocker binaries | Test tooling outside the system. |
| The factor crate's transport | Its contract (FIFO per sender and receiver pair, at-most-once delivery, failure reported to the sender) is assumed. |
| `_terminate_cospace` and `_remove_cospace` | Never called. |
| `_send_proto_message_to_server` (SDK) | Never called. |
| Disconnect, socket close | No code sends `Disconnect` (the TODO in the socket pump), so nothing changes state on a close. |
| The HTTP and JSON glue of `host_cospace` | Modelled only as the fetch's success or failure. |
