--------------------------- MODULE CospaceManager ---------------------------
(***************************************************************************)
(* The cospace allocator of the realtime server (cospace_manager.rs) and   *)
(* the two HTTP handlers that use it (websocket_server.rs):                *)
(*                                                                         *)
(*  - realtime_host schedules a cospace: it generates a CospaceId, puts it *)
(*    in the `scheduled` DashMap and spawns a placement task;              *)
(*  - the placement task (spawn_cospace_in_dedicated_node and              *)
(*    spawn_cospace_in_node) spawns a worker process, looks up its node    *)
(*    manager, asks it to create the CospaceActor and records the outcome  *)
(*    in the `hosted` or `failed` DashMap;                                 *)
(*  - realtime_status answers HOSTED / SCHEDULED / FAILED / NOT_FOUND by   *)
(*    three separate DashMap lookups.                                      *)
(*                                                                         *)
(* Every DashMap operation is atomic on its own and is one step here; an   *)
(* `.await` of the placement task is one step.  The HTTP handlers and the  *)
(* placement tasks run concurrently on the tokio runtime.                  *)
(***************************************************************************)
EXTENDS Naturals, FiniteSets

CONSTANTS
    Cospaces,     \* the CospaceIds that CospaceId::generate may return
    Strategies,   \* the host nodes resolve_cospace_host_node_... may pick
    MaxQueries    \* bound on the /realtime/status requests of a behaviour

ASSUME StrategiesAssumption ==
    /\ Strategies \subseteq {"Main", "Shared", "Dedicated"}
    /\ Strategies # {}
ASSUME MaxQueriesAssumption == MaxQueries \in Nat

VARIABLES
    generated,   \* ids CospaceId::generate has returned
    known,       \* ids realtime_host returned to its caller
    scheduled,   \* HostedCospacesInner.scheduled
    failed,      \* HostedCospacesInner.failed
    hosted,      \* HostedCospacesInner.cospaces
    alloc,       \* host node chosen for each id
    task,        \* program counter of each id's placement task
    workers,     \* ids whose dedicated worker process is running
    actors,      \* ids for which a node manager created a CospaceActor
    queries      \* the /realtime/status handlers, by request number

vars == <<generated, known, scheduled, failed, hosted, alloc, task,
          workers, actors, queries>>

QueryIds == 1..MaxQueries

\* Program counter of a placement task: "none" before it exists (or when
\* it was never run), then the .await or the DashMap operation it is at.
TaskPc == {"none", "spawn_worker", "get_addr", "shutdown", "ask_create",
           "fail_remove", "fail_insert", "insert_hosted",
           "remove_scheduled", "done"}

Answers == {"HOSTED", "SCHEDULED", "FAILED", "NOT_FOUND"}

\* Program counter of a status handler: the lookup it does next.
QueryPc == {"idle", "read_hosted", "read_scheduled", "read_failed", "done"}

NoId == "no_id"

Query == [id : Cospaces \cup {NoId}, pc : QueryPc,
          ans : Answers \cup {"none"}, known : BOOLEAN]

TypeOK ==
    /\ generated \subseteq Cospaces
    /\ known \subseteq generated
    /\ scheduled \subseteq Cospaces
    /\ failed \subseteq Cospaces
    /\ hosted \subseteq Cospaces
    /\ alloc \in [Cospaces -> Strategies \cup {"none"}]
    /\ task \in [Cospaces -> TaskPc]
    /\ workers \subseteq Cospaces
    /\ actors \subseteq Cospaces
    /\ queries \in [QueryIds -> Query]

Init ==
    /\ generated = {}
    /\ known = {}
    /\ scheduled = {}
    /\ failed = {}
    /\ hosted = {}
    /\ alloc = [c \in Cospaces |-> "none"]
    /\ task = [c \in Cospaces |-> "none"]
    /\ workers = {}
    /\ actors = {}
    /\ queries = [q \in QueryIds |->
                    [id |-> NoId, pc |-> "idle", ans |-> "none", known |-> FALSE]]

-----------------------------------------------------------------------------
(* The HashMap side of HostedCospaces.                                     *)

\* HostedCospaces::scheduled: insert the id into the scheduled map.
ScheduleId(c) == scheduled' = scheduled \cup {c}

\* The node manager's CreateCospaceActorMessage handler builds the actor
\* (with the shared pool or a fresh dedicated pool) and records it in its
\* own cospaces map; it always answers Some(addr).
CreateCospaceActor(c) == actors' = actors \cup {c}

\* The manager's ask to a node manager reaches another process for the
\* shared and dedicated nodes; only those asks can fail in transport.
RemoteNode(s) == s \in {"Shared", "Dedicated"}

-----------------------------------------------------------------------------
(* realtime_host and the three spawn_cospace_in_* functions.  Each runs    *)
(* synchronously in the HTTP handler: generate the id, build the task,     *)
(* mark the id scheduled, hand the task to the executor, return the id.    *)

\* spawn_cospace_in_dedicated_node: spawn_with_handle may fail, in which case
\* the id stays scheduled, no task runs and the handler answers an error.
SpawnInDedicated(c) ==
    /\ ScheduleId(c)
    /\ alloc' = [alloc EXCEPT ![c] = "Dedicated"]
    /\ \/ /\ task' = [task EXCEPT ![c] = "spawn_worker"]
          /\ known' = known \cup {c}
       \/ /\ UNCHANGED <<task, known>>

\* spawn_cospace_in_main_node: spawn_ok, the task starts with the ask.
SpawnInMain(c) ==
    /\ ScheduleId(c)
    /\ alloc' = [alloc EXCEPT ![c] = "Main"]
    /\ task' = [task EXCEPT ![c] = "ask_create"]
    /\ known' = known \cup {c}

\* spawn_cospace_in_shared_node: as the main node, with the shared node's
\* manager.
SpawnInShared(c) ==
    /\ ScheduleId(c)
    /\ alloc' = [alloc EXCEPT ![c] = "Shared"]
    /\ task' = [task EXCEPT ![c] = "ask_create"]
    /\ known' = known \cup {c}

\* realtime_host: resolve the host node and schedule a fresh id there
\* (CospaceId::generate draws a random v4 uuid).
RealtimeHost ==
    \E c \in Cospaces \ generated, s \in Strategies :
        /\ generated' = generated \cup {c}
        /\ \/ s = "Main" /\ SpawnInMain(c)
           \/ s = "Shared" /\ SpawnInShared(c)
           \/ s = "Dedicated" /\ SpawnInDedicated(c)
        /\ UNCHANGED <<failed, hosted, workers, actors, queries>>

-----------------------------------------------------------------------------
(* The placement task, one step per .await and per DashMap operation.      *)

\* system.spawn_worker_node(config).await: a worker process starts, or the
\* task marks the id failed and ends.
SpawnWorker(c) ==
    /\ task[c] = "spawn_worker"
    /\ \/ /\ task' = [task EXCEPT ![c] = "get_addr"]
          /\ workers' = workers \cup {c}
       \/ /\ task' = [task EXCEPT ![c] = "fail_remove"]
          /\ UNCHANGED workers
    /\ UNCHANGED <<generated, known, scheduled, failed, hosted, alloc,
                   actors, queries>>

\* system.get_remote_addr(node_id, NODE_MANAGER_TAG).await: on None the task
\* shuts the worker down before marking the id failed.
GetRemoteAddr(c) ==
    /\ task[c] = "get_addr"
    /\ \/ task' = [task EXCEPT ![c] = "ask_create"]
       \/ task' = [task EXCEPT ![c] = "shutdown"]
    /\ UNCHANGED <<generated, known, scheduled, failed, hosted, alloc,
                   workers, actors, queries>>

\* system.shutdown_worker_node(&node_id).await
ShutdownWorker(c) ==
    /\ task[c] = "shutdown"
    /\ workers' = workers \ {c}
    /\ task' = [task EXCEPT ![c] = "fail_remove"]
    /\ UNCHANGED <<generated, known, scheduled, failed, hosted, alloc,
                   actors, queries>>

\* spawn_cospace_in_node: node_mgr_addr.ask_addr(msg).await.  Ok(Some(addr))
\* goes on to insert_cospace.  A transport error is only logged: either the
\* message never reached the node manager, or it did and the answer was
\* lost.  Ok(None) cannot happen: the handler always answers Some.
AskCreate(c) ==
    /\ task[c] = "ask_create"
    /\ \/ /\ CreateCospaceActor(c)
          /\ task' = [task EXCEPT ![c] = "insert_hosted"]
       \/ /\ RemoteNode(alloc[c])
          /\ task' = [task EXCEPT ![c] = "done"]
          /\ \/ CreateCospaceActor(c)
             \/ UNCHANGED actors
    /\ UNCHANGED <<generated, known, scheduled, failed, hosted, alloc,
                   workers, queries>>

\* Mutant: HostedCospaces::failed reads the scheduled entry (get) instead
\* of removing it.
FailRemoveKeepsScheduled(c) ==
    /\ task[c] = "fail_remove"
    /\ task' = [task EXCEPT ![c] = IF c \in scheduled THEN "fail_insert"
                                                       ELSE "done"]
    /\ UNCHANGED <<generated, known, scheduled, failed, hosted, alloc, workers,
                   actors, queries>>

\* HostedCospaces::failed, first lookup: scheduled.remove(&uuid).  The insert
\* into failed only happens when the remove found the id.
FailRemove(c) ==
    /\ task[c] = "fail_remove"
    /\ scheduled' = scheduled \ {c}
    /\ task' = [task EXCEPT ![c] = IF c \in scheduled THEN "fail_insert"
                                                       ELSE "done"]
    /\ UNCHANGED <<generated, known, failed, hosted, alloc, workers,
                   actors, queries>>

\* HostedCospaces::failed, second lookup: failed.insert(pair).
FailInsert(c) ==
    /\ task[c] = "fail_insert"
    /\ failed' = failed \cup {c}
    /\ task' = [task EXCEPT ![c] = "done"]
    /\ UNCHANGED <<generated, known, scheduled, hosted, alloc, workers,
                   actors, queries>>

\* HostedCospaces::insert_cospace, first lookup: cospaces.insert.
InsertHosted(c) ==
    /\ task[c] = "insert_hosted"
    /\ hosted' = hosted \cup {c}
    /\ task' = [task EXCEPT ![c] = "remove_scheduled"]
    /\ UNCHANGED <<generated, known, scheduled, failed, alloc, workers,
                   actors, queries>>

\* Mutant: insert_cospace forgets to remove the id from `scheduled`.
RemoveScheduledKeepsScheduled(c) ==
    /\ task[c] = "remove_scheduled"
    /\ task' = [task EXCEPT ![c] = "done"]
    /\ UNCHANGED <<generated, known, scheduled, failed, hosted, alloc, workers,
                   actors, queries>>

\* HostedCospaces::insert_cospace, second lookup: scheduled.remove.
RemoveScheduled(c) ==
    /\ task[c] = "remove_scheduled"
    /\ scheduled' = scheduled \ {c}
    /\ task' = [task EXCEPT ![c] = "done"]
    /\ UNCHANGED <<generated, known, failed, hosted, alloc, workers,
                   actors, queries>>

PlacementStep(c) ==
    \/ SpawnWorker(c)
    \/ GetRemoteAddr(c)
    \/ ShutdownWorker(c)
    \/ AskCreate(c)
    \/ FailRemove(c)
    \/ FailInsert(c)
    \/ InsertHosted(c)
    \/ RemoveScheduled(c)

-----------------------------------------------------------------------------
(* realtime_status: is_hosted, then is_scheduled, then is_failed, each a   *)
(* separate DashMap lookup.  A caller may ask about any uuid; `known`      *)
(* records whether realtime_host had returned it when the request came.   *)

StatusRequest(q) ==
    /\ queries[q].pc = "idle"
    /\ \E c \in Cospaces :
          queries' = [queries EXCEPT ![q] = [id |-> c, pc |-> "read_hosted",
                                             ans |-> "none", known |-> c \in known]]
    /\ UNCHANGED <<generated, known, scheduled, failed, hosted, alloc, task,
                   workers, actors>>

\* One lookup of the handler: answer when it finds the id, else go on.
\* Answer(q, a) ends the handler with a; NextLookup(q, pc) goes to the next
\* lookup.
Answer(q, a) == queries' = [queries EXCEPT ![q].pc = "done", ![q].ans = a]
NextLookup(q, pc) == queries' = [queries EXCEPT ![q].pc = pc]

StatusLookup(q) ==
    LET c == queries[q].id IN
    /\ \/ /\ queries[q].pc = "read_hosted"
          /\ IF c \in hosted THEN Answer(q, "HOSTED")
                             ELSE NextLookup(q, "read_scheduled")
       \/ /\ queries[q].pc = "read_scheduled"
          /\ IF c \in scheduled THEN Answer(q, "SCHEDULED")
                                ELSE NextLookup(q, "read_failed")
       \/ /\ queries[q].pc = "read_failed"
          /\ IF c \in failed THEN Answer(q, "FAILED")
                             ELSE Answer(q, "NOT_FOUND")
    /\ UNCHANGED <<generated, known, scheduled, failed, hosted, alloc, task,
                   workers, actors>>

-----------------------------------------------------------------------------

Next ==
    \/ RealtimeHost
    \/ \E c \in Cospaces : PlacementStep(c)
    \/ \E q \in QueryIds : StatusRequest(q) \/ StatusLookup(q)

\* The tokio executor keeps running every spawned placement task and every
\* status handler: each future that can make progress eventually does.
Fairness ==
    /\ \A c \in Cospaces : WF_vars(PlacementStep(c))
    /\ \A q \in QueryIds : WF_vars(StatusLookup(q))

Spec == Init /\ [][Next]_vars /\ Fairness

-----------------------------------------------------------------------------
(* Properties                                                              *)

\* The three maps of HostedCospaces never share an id, except while a
\* placement task is between the two lookups of insert_cospace (the id is
\* already in `cospaces` and not yet removed from `scheduled`).
RegistryDisjoint ==
    /\ hosted \cap failed = {}
    /\ scheduled \cap failed = {}
    /\ \A c \in scheduled \cap hosted : task[c] = "remove_scheduled"

\* realtime_status never answers NOT_FOUND for a uuid that realtime_host had
\* returned before the status request arrived: the id is inserted into
\* `scheduled` before it is returned and only leaves it for `cospaces` or
\* `failed` (spec 4.6 step 1 and 7).
StatusNeverLosesKnown ==
    \A q \in QueryIds :
        queries[q].pc = "done" /\ queries[q].known => queries[q].ans # "NOT_FOUND"

\* Every cospace realtime_host returned is eventually hosted or failed: the
\* placement task does not leave it scheduled (spec 4.6 step 4 and 7).
PlacementResolves ==
    \A c \in Cospaces : c \in known ~> (c \in hosted \/ c \in failed)

\* The lifecycle phase of each id as the generator and the three maps show
\* it: an id generated and in no map is between the two lookups of
\* HostedCospaces::failed.
Life ==
    [c \in Cospaces |->
        IF c \notin generated THEN "fresh"
        ELSE IF c \in hosted THEN "hosted"
        ELSE IF c \in failed THEN "failed"
        ELSE IF c \in scheduled THEN "scheduled"
        ELSE "failing"]

Lifecycle == INSTANCE CospaceLifecycle WITH Ids <- Cospaces, life <- Life

\* Spec 4.6: the registry implements CospaceLifecycle.  Every id realtime_host
\* returns is scheduled once and leaves SCHEDULED at most once, for HOSTED
\* (insert_cospace) or, through the window inside HostedCospaces::failed,
\* for FAILED; no placement task, retry or status request moves it back.
LifecycleRefined == Lifecycle!Spec

\* The inductive form of RegistryDisjoint.  A placement task keeps the maps
\* disjoint only because its program counter tells which maps its id can be
\* in: PcInv(c) states that link, one conjunct per group of program counters.
\* It fails as soon as a DashMap write of the task is dropped or reordered.
\* The program counters at which the id is still only in `scheduled`: from
\* the HTTP handler's scheduled() to the first DashMap write of the task.
Pending == {"spawn_worker", "get_addr", "shutdown", "ask_create",
            "fail_remove", "insert_hosted"}

\* Which of the three maps hold id c, given where its placement task is.
PcInv(c) ==
    /\ c \notin generated =>
          /\ task[c] = "none"
          /\ c \notin scheduled \cup failed \cup hosted
    /\ (task[c] \in Pending \/ (task[c] = "none" /\ c \in generated)) =>
          /\ c \in scheduled
          /\ c \notin failed \cup hosted
    /\ task[c] = "fail_insert" => c \notin scheduled \cup failed \cup hosted
    /\ task[c] = "remove_scheduled" =>
          /\ c \in scheduled \cap hosted
          /\ c \notin failed
    /\ task[c] = "done" => ~(c \in scheduled /\ c \in hosted)
    /\ c \in failed => task[c] = "done" /\ c \notin scheduled \cup hosted

IInv == TypeOK /\ \A c \in Cospaces : PcInv(c)

=============================================================================
