------------------------------ MODULE SdkBroker ------------------------------
(***************************************************************************)
(* The client SDK's side of the realtime protocol: RealtimeMessageBroker   *)
(* (fasttravel-rt-client message_broker.rs), the join_session calls of     *)
(* RealtimeModule that drive it (realtime_module.rs), the websocket they   *)
(* open (websocket_connection.rs) and the ticket handshake of the          *)
(* connection kernel (delegate_connection.rs).                             *)
(*                                                                         *)
(* The SDK runs on the single thread of a browser event loop: a step is    *)
(* the code between two awaits.  A socket message event runs its handler, *)
(* and the futures it wakes run in the microtask checkpoint that follows   *)
(* it, before any other event; both are one step here.  One broker serves  *)
(* every join_session call: join j opens socket j, and set_connection      *)
(* makes it the broker's connection.  The server on each socket reads the  *)
(* client's frames and answers a handshake request with the answer to its  *)
(* ticket (its connection service always answers, see ServerEndpoint's     *)
(* HandshakeAnswered); it also pushes text, tells, requests and raw bytes. *)
(***************************************************************************)
EXTENDS Naturals, Sequences, FiniteSets

CONSTANTS
    IdWidth,   \* width of the u32 request_id_counter
    Nil,       \* an absent value (Option::None)
    Garbage,   \* bytes that are no RealtimeMessage (a raw service tell)
    Malformed, \* a payload that is no service message
    MaxJoins,  \* join_session calls of the JS application
    MaxPush,   \* frames the server pushes unasked
    MaxTexts   \* send_text_message calls of the JS application

ASSUME BoundsAssumption == {MaxJoins, MaxPush, MaxTexts} \subseteq Nat

Joins == 1 .. MaxJoins

\* The handshake request of join j carries its message ticket; the server's
\* HandshakeRes is a function of the ticket, so it names the join too.
Ticket(j) == <<"ticket", j>>
AnswerTag(j) == <<"answer", j>>
AnswerTags == {AnswerTag(j) : j \in Joins}
PushTag == "push"
Payloads == {Ticket(j) : j \in Joins} \cup AnswerTags \cup {PushTag, Malformed}

\* The absent value is no join, no request id and no payload.
ASSUME NilAssumption == Nil \notin Nat /\ Nil \notin Payloads

\* The payloads the handshake and the pushes carry decode (prost accepts
\* them); only the marker Malformed does not.
ASSUME DistinctAssumption ==
    Malformed \notin {Ticket(j) : j \in Joins} \cup AnswerTags \cup {PushTag}

C == INSTANCE FrameCodec WITH call <- Nil, wire <- Nil

Ids == C!Ids

\* Option::None is no RealtimeMessage.
ASSUME EnvelopeAssumption == Nil \notin C!Envelope

\* The counter never wraps in these runs: each join takes one id.  (The
\* provers know no powers of two; TLC checks that 2^IdWidth is at least 2.)
ASSUME WidthAssumption ==
    /\ IdWidth \in Nat \ {0}
    /\ 2^IdWidth \in Nat \ {0, 1}
    /\ MaxJoins < 2^IdWidth

\* SocketMessage::Text; every other frame is SocketMessage::Binary.
TextFrame == [text |-> "text"]
Frames == C!Envelope \cup {Garbage, TextFrame}

\* What the server may push: a text of a service, a service's ask (its first
\* has request id 0 and decodes as a Tell), and the raw bytes of a tell.
PushFrames ==
    {TextFrame, Garbage,
     C!CreateRequestMessage(0, "Core", PushTag),
     C!CreateRequestMessage(1, "Core", PushTag)}

Kernels == {"core", "connection"}
JoinPc == {"idle", "hosting", "opening", "refused", "awaiting", "done"}
Panics == {"none", "borrow", "kernel", "connection"}

VARIABLES
    kernels,    \* kernel_core / kernel_connection that are Some
    connection, \* the broker's connection: the socket of a join, or Nil
    counter,    \* request_id_counter
    borrow,     \* the join whose RefMut of request_id_counter is alive
    promises,   \* service_promises: request id -> the join awaiting it
    join,       \* each join_session call: its step and handshake answer
    opened,     \* sockets whose onopen fired
    c2s,        \* frames on socket j from the client, in order
    s2c,        \* frames on socket j from the server, in order
    pushes,     \* frames the server pushed so far
    texts,      \* texts the application sent so far
    panicked    \* the wasm module trapped on a panic, and why

vars == <<kernels, connection, counter, borrow, promises, join, opened, c2s,
          s2c, pushes, texts, panicked>>

TypeOK ==
    /\ kernels \subseteq Kernels
    /\ connection \in Joins \cup {Nil}
    /\ counter \in 0 .. MaxJoins
    /\ borrow \in Joins \cup {Nil}
    /\ promises \in [Ids -> Joins \cup {Nil}]
    /\ join \in [Joins -> [pc : JoinPc, res : AnswerTags \cup {Nil}]]
    /\ opened \subseteq Joins
    /\ c2s \in [Joins -> Seq(Frames)]
    /\ s2c \in [Joins -> Seq(Frames)]
    /\ pushes \in 0 .. MaxPush
    /\ texts \in 0 .. MaxTexts
    /\ panicked \in Panics

\* RealtimeModule::new and RealtimeMessageBroker::new: nothing set, counter 0.
Init ==
    /\ kernels = {}
    /\ connection = Nil
    /\ counter = 0
    /\ borrow = Nil
    /\ promises = [i \in Ids |-> Nil]
    /\ join = [j \in Joins |-> [pc |-> "idle", res |-> Nil]]
    /\ opened = {}
    /\ c2s = [j \in Joins |-> <<>>]
    /\ s2c = [j \in Joins |-> <<>>]
    /\ pushes = 0
    /\ texts = 0
    /\ panicked = "none"

\* A panic traps the wasm instance: nothing of the SDK runs after it.
Running == panicked = "none"

SetPc(j, pc) == join' = [join EXCEPT ![j].pc = pc]

-----------------------------------------------------------------------------
(* The JS application                                                      *)

\* init_core and init_connection: set_kernel_core / set_kernel_connection.
InitKernel ==
    /\ Running
    /\ \E k \in Kernels \ kernels : kernels' = kernels \cup {k}
    /\ UNCHANGED <<connection, counter, borrow, promises, join, opened, c2s,
                   s2c, pushes, texts, panicked>>

\* join_session: host_cospace sends its fetch.  The application may call
\* join_session again while an earlier call is pending.
JoinStart(j) ==
    /\ Running
    /\ join[j].pc = "idle"
    /\ SetPc(j, "hosting")
    /\ UNCHANGED <<kernels, connection, counter, borrow, promises, opened,
                   c2s, s2c, pushes, texts, panicked>>

\* The fetch resolves.  If it failed, join_session returns Ok(()) at once;
\* if WebSocket::new_with_str fails, it returns the error.  Otherwise
\* WebSocketConnection::new sets the handlers and awaits onopen.
HostCospace(j) ==
    /\ Running
    /\ join[j].pc = "hosting"
    /\ \E pc \in {"done", "opening"} : SetPc(j, pc)
    /\ UNCHANGED <<kernels, connection, counter, borrow, promises, opened,
                   c2s, s2c, pushes, texts, panicked>>

\* The socket errors before it opens: onopen never fires, the oneshot is
\* neither sent nor dropped, and join_session stays pending for ever.
SocketRefused(j) ==
    /\ Running
    /\ join[j].pc = "opening"
    /\ SetPc(j, "refused")
    /\ UNCHANGED <<kernels, connection, counter, borrow, promises, opened,
                   c2s, s2c, pushes, texts, panicked>>

\* Mutant: the promise filed under the counter read before the increment.
SendRequestOldId(j, svc, payload) ==
    IF borrow # Nil
    THEN /\ panicked' = "borrow"
         /\ UNCHANGED <<counter, borrow, promises, join, c2s>>
    ELSE LET id == counter + 1 IN
         /\ counter' = id
         /\ borrow' = j
         /\ c2s' = [c2s EXCEPT ![connection'] =
                       Append(@, C!CreateRequestMessage(id, svc, payload))]
         /\ promises' = [promises EXCEPT ![counter] = j]
         /\ SetPc(j, "awaiting")
         /\ UNCHANGED panicked

\* send_proto_request_to_server up to its await: borrow_mut of the counter
\* (a BorrowMutError panic if a pending call still holds it), next_id =
\* counter + 1, create_request_message_from_service_payload, send on the
\* broker's connection, and the promise under next_id.  The RefMut lives
\* until the function returns, after the awaited response.
SendRequest(j, svc, payload) ==
    IF borrow # Nil
    THEN /\ panicked' = "borrow"
         /\ UNCHANGED <<counter, borrow, promises, join, c2s>>
    ELSE LET id == counter + 1 IN
         /\ counter' = id
         /\ borrow' = j
         /\ c2s' = [c2s EXCEPT ![connection'] =
                       Append(@, C!CreateRequestMessage(id, svc, payload))]
         /\ promises' = [promises EXCEPT ![id] = j]
         /\ SetPc(j, "awaiting")
         /\ UNCHANGED panicked

\* ConnectionServiceKernel::perform_websocket_ticket_handshake: the
\* HandshakeReq with the join's message ticket, sent as a Connection request.
PerformTicketHandshake(j) == SendRequest(j, "Connection", Ticket(j))

\* onopen fires and join j resumes: connect_realtime stores the connection
\* (set_connection drops the previous one and, with it, the handlers of the
\* previous socket), then join_session sends the ticket handshake through
\* the connection kernel, or returns if init_connection was never called.
SocketOpen(j) ==
    /\ Running
    /\ join[j].pc = "opening"
    /\ opened' = opened \cup {j}
    /\ connection' = j
    /\ IF "connection" \in kernels
       THEN PerformTicketHandshake(j)
       ELSE /\ SetPc(j, "done")
            /\ UNCHANGED <<counter, borrow, promises, c2s, panicked>>
    /\ UNCHANGED <<kernels, s2c, pushes, texts>>

\* CoreServiceDelegate::send_text_message, through the core kernel, to
\* send_text_message_to_server: get_connection unwraps the broker's
\* connection (a panic before the first socket opened) and sends the text.
SendText ==
    /\ Running
    /\ "core" \in kernels
    /\ texts < MaxTexts
    /\ texts' = texts + 1
    /\ IF connection = Nil
       THEN /\ panicked' = "connection"
            /\ UNCHANGED c2s
       ELSE /\ c2s' = [c2s EXCEPT ![connection] = Append(@, TextFrame)]
            /\ UNCHANGED panicked
    /\ UNCHANGED <<kernels, connection, counter, borrow, promises, join, opened,
                   s2c, pushes>>

-----------------------------------------------------------------------------
(* The server at the other end of each socket                              *)

\* The server endpoint reads the client's next frame; its connection service
\* answers a handshake request with the answer to the ticket, under the
\* request's id.  A text goes to the cospace's services (a Mocker's reply
\* to it is one of the server's pushes).
ServerAnswer(j) ==
    /\ Running
    /\ c2s[j] # <<>>
    /\ LET f == Head(c2s[j])
           m == IF f = TextFrame THEN [kind |-> "Text"]
                ELSE C!ProcessRealtimeMessage(f)
       IN
       /\ c2s' = [c2s EXCEPT ![j] = Tail(@)]
       /\ s2c' = IF m.kind = "Request" /\ m.svc = "Connection"
                 THEN [s2c EXCEPT ![j] = Append(@,
                         C!CreateResponseMessage(m.id, "Connection",
                                                 AnswerTag(m.payload[2])))]
                 ELSE s2c
    /\ UNCHANGED <<kernels, connection, counter, borrow, promises, join,
                   opened, pushes, texts, panicked>>

\* A service of the cospace tells, texts or asks the client (the server's
\* recv_tell_from_service or recv_req_from_service).
ServerPush(j) ==
    /\ Running
    /\ j \in opened
    /\ pushes < MaxPush
    /\ \E f \in PushFrames : s2c' = [s2c EXCEPT ![j] = Append(@, f)]
    /\ pushes' = pushes + 1
    /\ UNCHANGED <<kernels, connection, counter, borrow, promises, join,
                   opened, c2s, texts, panicked>>

-----------------------------------------------------------------------------
(* The broker's socket message handler                                     *)

\* Mutant: the promise is read with get, not removed, before completion.
RecvResponseKeep(id, payload) ==
    IF promises[id] # Nil
    THEN /\ promises' = promises
         /\ join' = [join EXCEPT ![promises[id]] =
                        [pc |-> "done", res |-> payload]]
         /\ borrow' = Nil
    ELSE UNCHANGED <<promises, join, borrow>>

\* recv_proto_res_from_server: remove the promise and complete it; the
\* awaiting handshake resumes in the following microtask checkpoint, drops
\* the counter's RefMut as send_proto_request_to_server returns, decodes
\* the HandshakeRes and join_session returns.  An unknown id is logged.
RecvResponse(id, payload) ==
    IF promises[id] # Nil
    THEN /\ promises' = [promises EXCEPT ![id] = Nil]
         /\ join' = [join EXCEPT ![promises[id]] =
                        [pc |-> "done", res |-> payload]]
         /\ borrow' = Nil
    ELSE UNCHANGED <<promises, join, borrow>>

\* The kernels a handler unwraps: recv_text_msg_from_server takes the core
\* kernel, recv_proto_tell_from_server and recv_proto_req_from_server take
\* both (get_kernel_*: a panic when init_* was not called).
Needs(kind) ==
    CASE kind = "Text" -> {"core"}
      [] kind \in {"Tell", "Request"} -> Kernels
      [] OTHER -> {}

\* The onmessage closure of socket j lives in the WebSocketConnection that
\* set_connection stored; the one of an earlier socket was dropped with it.
HandlerAlive(j) == connection = j

\* The onmessage closure of socket j, then recv_msg_from_server.  After
\* set_connection replaced socket j's connection the closure is dropped and
\* the event throws in JS: the frame is lost.  Spawned kernel tasks change
\* nothing here: both kernels' answer_proto_req_from_server return None, so
\* no request of the server is ever answered.
ClientRecv(j) ==
    /\ Running
    /\ s2c[j] # <<>>
    /\ s2c' = [s2c EXCEPT ![j] = Tail(@)]
    /\ LET f == Head(s2c[j])
           m == IF f = TextFrame THEN [kind |-> "Text"]
                ELSE C!ProcessRealtimeMessage(f)
       IN  IF ~HandlerAlive(j)
           THEN UNCHANGED <<promises, join, borrow, panicked>>
           ELSE IF ~(Needs(m.kind) \subseteq kernels)
           THEN /\ panicked' = "kernel"
                /\ UNCHANGED <<promises, join, borrow>>
           ELSE IF m.kind = "Response"
           THEN RecvResponse(m.id, m.payload) /\ UNCHANGED panicked
           ELSE UNCHANGED <<promises, join, borrow, panicked>>
    /\ UNCHANGED <<kernels, connection, counter, opened, c2s, pushes, texts>>

-----------------------------------------------------------------------------

Next ==
    \/ InitKernel
    \/ SendText
    \/ \E j \in Joins :
         \/ JoinStart(j) \/ HostCospace(j) \/ SocketRefused(j)
         \/ SocketOpen(j) \/ ServerAnswer(j) \/ ServerPush(j) \/ ClientRecv(j)

\* The browser's event loop delivers every socket event and runs every woken
\* future; the server's connection service answers every handshake it reads.
Fairness ==
    \A j \in Joins : WF_vars(ClientRecv(j)) /\ WF_vars(ServerAnswer(j))

Spec == Init /\ [][Next]_vars /\ Fairness

-----------------------------------------------------------------------------
(* Properties                                                              *)

\* send_proto_request_to_server keeps the RefMut of request_id_counter
\* across its await: a promise in service_promises belongs to the call that
\* holds that borrow, and goes when the call resumes.  A second handshake
\* can thus never be pending beside it, and no promise outlives its call.
PromisesBorrowed ==
    \A i \in Ids : promises[i] # Nil => /\ borrow = promises[i]
                                        /\ join[promises[i]].pc = "awaiting"

\* A join_session whose ticket handshake was sent gets its answer: the
\* server answers on the socket, recv_proto_res_from_server completes the
\* promise and the call returns, unless the SDK panicked meanwhile.
HandshakeResolves ==
    \A j \in Joins :
        join[j].pc = "awaiting" ~> (join[j].pc = "done" \/ panicked # "none")

\* Spec 8, scenario 4: a client may have two requests outstanding at once and
\* both futures resolve.  With send_proto_request_to_server holding the
\* counter's borrow across its await, the second call must not panic.
NoBorrowPanic == panicked # "borrow"

-----------------------------------------------------------------------------
(* The inductive invariant of the proof of PromisesBorrowed                *)

\* What the client writes: texts and ticket handshakes.
ClientFrames ==
    {TextFrame} \cup
    {C!CreateRequestMessage(i, "Connection", Ticket(k)) : i \in Ids, k \in Joins}

\* What the server writes: its pushes and the answers to handshakes.
ServerFrames ==
    PushFrames \cup
    {C!CreateResponseMessage(i, "Connection", AnswerTag(k)) : i \in Ids, k \in Joins}

\* The joins that sent their handshake: each took one id of the counter.
Sent == {j \in Joins : join[j].pc = "awaiting" \/ join[j].res # Nil}

\* At most one request id has a promise.
SinglePromise ==
    \A i, k \in Ids : promises[i] # Nil /\ promises[k] # Nil => i = k

\* PromisesBorrowed is not inductive: a response must carry an id of the
\* promise table (so the counter stays below 2^IdWidth: one id per join
\* that sent its handshake), and completing one promise must leave no other
\* behind when it releases the borrow.
IInv ==
    /\ TypeOK
    /\ c2s \in [Joins -> Seq(ClientFrames)]
    /\ s2c \in [Joins -> Seq(ServerFrames)]
    /\ counter = Cardinality(Sent)
    /\ \A j \in Joins :
         join[j].pc \in {"idle", "hosting", "opening", "refused"} => join[j].res = Nil
    /\ SinglePromise
    /\ PromisesBorrowed

=============================================================================
