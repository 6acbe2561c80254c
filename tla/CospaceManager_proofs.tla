------------------------ MODULE CospaceManager_proofs ------------------------
(***************************************************************************)
(* Proofs about the cospace allocator, for every set of ids, every set of  *)
(* host strategies and every number of status requests.                    *)
(*                                                                         *)
(* RegistryDisjoint is not inductive; the proofs go through IInv, defined *)
(* in CospaceManager and checked there by TLC.                            *)
(***************************************************************************)
EXTENDS CospaceManager, TLAPS


-----------------------------------------------------------------------------
(* Type correctness                                                        *)

\* Every step of realtime_host, of a placement task and of a status handler
\* keeps the DashMaps, the task counters and the handlers' records well typed.
LEMMA TypeInit == Init => TypeOK
<1> SUFFICES ASSUME Init PROVE TypeOK
  OBVIOUS
<1>1. [id |-> NoId, pc |-> "idle", ans |-> "none", known |-> FALSE] \in Query
  BY DEF Query, QueryPc, Answers
<1>2. queries \in [QueryIds -> Query]
  BY <1>1 DEF Init
<1>. QED
  BY <1>2 DEF Init, TypeOK, TaskPc

LEMMA TypeStep == TypeOK /\ [Next]_vars => TypeOK'
<1> SUFFICES ASSUME TypeOK, [Next]_vars PROVE TypeOK'
  OBVIOUS
<1>1. CASE RealtimeHost
  <2>1. PICK c \in Cospaces \ generated, s \in Strategies :
          /\ generated' = generated \cup {c}
          /\ \/ s = "Main" /\ SpawnInMain(c)
             \/ s = "Shared" /\ SpawnInShared(c)
             \/ s = "Dedicated" /\ SpawnInDedicated(c)
          /\ UNCHANGED <<failed, hosted, workers, actors, queries>>
    BY <1>1 DEF RealtimeHost
  <2>2. CASE s = "Main" /\ SpawnInMain(c)
    BY <2>1, <2>2 DEF SpawnInMain, ScheduleId, TypeOK, TaskPc
  <2>3. CASE s = "Shared" /\ SpawnInShared(c)
    BY <2>1, <2>3 DEF SpawnInShared, ScheduleId, TypeOK, TaskPc
  <2>4. CASE s = "Dedicated" /\ SpawnInDedicated(c)
    BY <2>1, <2>4 DEF SpawnInDedicated, ScheduleId, TypeOK, TaskPc
  <2>. QED
    BY <2>1, <2>2, <2>3, <2>4
<1>2. ASSUME NEW c \in Cospaces, PlacementStep(c) PROVE TypeOK'
  BY <1>2 DEF PlacementStep, SpawnWorker, GetRemoteAddr, ShutdownWorker,
     AskCreate, CreateCospaceActor, FailRemove, FailInsert, InsertHosted,
     RemoveScheduled, TypeOK, TaskPc
<1>3. ASSUME NEW q \in QueryIds, StatusRequest(q) PROVE TypeOK'
  BY <1>3 DEF StatusRequest, TypeOK, Query, QueryPc, Answers
<1>4. ASSUME NEW q \in QueryIds, StatusLookup(q) PROVE TypeOK'
  BY <1>4 DEF StatusLookup, Answer, NextLookup, TypeOK, Query, QueryPc,
     Answers
<1>5. CASE UNCHANGED vars
  BY <1>5 DEF vars, TypeOK
<1>. QED
  BY <1>1, <1>2, <1>3, <1>4, <1>5 DEF Next

\* Type correctness of the whole specification.
THEOREM TypeCorrect == Spec => []TypeOK
BY TypeInit, TypeStep, PTL DEF Spec

-----------------------------------------------------------------------------
(* The registry invariant                                                  *)

LEMMA IInvInit == Init => IInv
BY TypeInit DEF Init, IInv, PcInv, Pending

\* Each step keeps, for every id, the link between its placement task's
\* program counter and the maps that hold it.
LEMMA IInvStep == IInv /\ [Next]_vars => IInv'
<1> SUFFICES ASSUME IInv, [Next]_vars PROVE IInv'
  OBVIOUS
<1>0. TypeOK /\ TypeOK'
  BY TypeStep DEF IInv
<1>1. CASE RealtimeHost
  <2>1. PICK c0 \in Cospaces \ generated, s \in Strategies :
          /\ generated' = generated \cup {c0}
          /\ \/ s = "Main" /\ SpawnInMain(c0)
             \/ s = "Shared" /\ SpawnInShared(c0)
             \/ s = "Dedicated" /\ SpawnInDedicated(c0)
          /\ UNCHANGED <<failed, hosted, workers, actors, queries>>
    BY <1>1 DEF RealtimeHost
  <2>2. /\ scheduled' = scheduled \cup {c0}
        /\ task' \in {task, [task EXCEPT ![c0] = "spawn_worker"],
                       [task EXCEPT ![c0] = "ask_create"]}
    BY <2>1 DEF SpawnInMain, SpawnInShared, SpawnInDedicated, ScheduleId
  <2>. QED
    BY <1>0, <2>1, <2>2 DEF IInv, PcInv, Pending, TypeOK
<1>2. ASSUME NEW c0 \in Cospaces, PlacementStep(c0) PROVE IInv'
  <2>. USE <1>0 DEF IInv, PcInv, Pending, TypeOK
  <2>1. CASE SpawnWorker(c0)
    BY <2>1 DEF SpawnWorker
  <2>2. CASE GetRemoteAddr(c0)
    BY <2>2 DEF GetRemoteAddr
  <2>3. CASE ShutdownWorker(c0)
    BY <2>3 DEF ShutdownWorker
  <2>4. CASE AskCreate(c0)
    BY <2>4 DEF AskCreate, CreateCospaceActor
  <2>5. CASE FailRemove(c0)
    BY <2>5 DEF FailRemove
  <2>6. CASE FailInsert(c0)
    BY <2>6 DEF FailInsert
  <2>7. CASE InsertHosted(c0)
    BY <2>7 DEF InsertHosted
  <2>8. CASE RemoveScheduled(c0)
    BY <2>8 DEF RemoveScheduled
  <2>. QED
    BY <1>2, <2>1, <2>2, <2>3, <2>4, <2>5, <2>6, <2>7, <2>8 DEF PlacementStep
<1>3. ASSUME NEW q \in QueryIds, StatusRequest(q) \/ StatusLookup(q)
      PROVE IInv'
  <2>1. UNCHANGED <<generated, scheduled, failed, hosted, task>>
    BY <1>3 DEF StatusRequest, StatusLookup
  <2>. QED
    BY <1>0, <2>1 DEF IInv, PcInv, Pending
<1>4. CASE UNCHANGED vars
  BY <1>0, <1>4 DEF vars, IInv, PcInv, Pending
<1>. QED
  BY <1>1, <1>2, <1>3, <1>4 DEF Next

\* The inductive invariant the manager's runs check: each id's placement
\* task program counter agrees with the DashMaps that hold the id, in every
\* behaviour of realtime_host, the placement tasks and realtime_status.
THEOREM IInvHolds == Spec => []IInv
BY IInvInit, IInvStep, PTL DEF Spec

\* The three DashMaps of HostedCospaces stay disjoint, but for the window
\* inside insert_cospace, in every behaviour of realtime_host, the
\* placement tasks and realtime_status.
THEOREM RegistryDisjointHolds == Spec => []RegistryDisjoint
<1>1. IInv => RegistryDisjoint
  <2> SUFFICES ASSUME IInv PROVE RegistryDisjoint
    OBVIOUS
  <2>1. hosted \cap failed = {} /\ scheduled \cap failed = {}
    BY DEF IInv, PcInv, TypeOK
  <2>2. ASSUME NEW c \in scheduled \cap hosted PROVE task[c] = "remove_scheduled"
    <3>1. c \in Cospaces /\ task[c] \in TaskPc /\ PcInv(c)
      BY DEF IInv, TypeOK
    <3>. QED
      BY <3>1 DEF PcInv, Pending, TaskPc
  <2>. QED
    BY <2>1, <2>2 DEF RegistryDisjoint
<1>. QED
  BY <1>1, IInvInit, IInvStep, PTL DEF Spec

-----------------------------------------------------------------------------
(* Refinement of CospaceLifecycle                                          *)

\* If Life changes at id c0 only, from p to q, the step is a Move of c0.
LEMMA LifeMove ==
    ASSUME NEW c0 \in Cospaces, NEW p, NEW q,
           Life[c0] = p, Life'[c0] = q,
           \A d \in Cospaces : d # c0 => Life'[d] = Life[d]
    PROVE  Lifecycle!Move(c0, p, q)
BY DEF Lifecycle!Move, Life

\* Every step of the registry is a lifecycle move or leaves Life alone:
\* realtime_host takes a fresh id to SCHEDULED, scheduled.remove in
\* HostedCospaces::failed takes it to the failing window, failed.insert ends
\* that window, cospaces.insert takes it to HOSTED; every other step writes
\* no map, or (the scheduled.remove of insert_cospace) writes one that Life
\* does not read for a hosted id.
LEMMA LifecycleStep == IInv /\ [Next]_vars => [Lifecycle!Next]_Life
<1> SUFFICES ASSUME IInv, [Next]_vars PROVE [Lifecycle!Next]_Life
  OBVIOUS
<1>. DEFINE Same(c0) == \A d \in Cospaces : d # c0 =>
                          /\ (d \in generated' <=> d \in generated)
                          /\ (d \in scheduled' <=> d \in scheduled)
                          /\ (d \in failed' <=> d \in failed)
                          /\ (d \in hosted' <=> d \in hosted)
<1>0. ASSUME NEW c0 \in Cospaces, Same(c0)
      PROVE \A d \in Cospaces : d # c0 => Life'[d] = Life[d]
  BY <1>0 DEF Life
<1>1. CASE RealtimeHost
  <2>1. PICK c0 \in Cospaces \ generated, s \in Strategies :
          /\ generated' = generated \cup {c0}
          /\ \/ SpawnInMain(c0) \/ SpawnInShared(c0) \/ SpawnInDedicated(c0)
          /\ UNCHANGED <<failed, hosted>>
    BY <1>1 DEF RealtimeHost
  <2>2. scheduled' = scheduled \cup {c0}
    BY <2>1 DEF SpawnInMain, SpawnInShared, SpawnInDedicated, ScheduleId
  <2>3. c0 \notin failed \cup hosted
    BY <2>1 DEF IInv, PcInv
  <2>4. Lifecycle!Move(c0, "fresh", "scheduled")
    <3>1. Life[c0] = "fresh" /\ Life'[c0] = "scheduled"
      BY <2>1, <2>2, <2>3 DEF Life
    <3>2. Same(c0)
      BY <2>1, <2>2
    <3>. QED
      BY <3>1, <3>2, <1>0, LifeMove
  <2>. QED
    BY <2>4 DEF Lifecycle!Next
<1>2. ASSUME NEW c0 \in Cospaces, PlacementStep(c0)
      PROVE [Lifecycle!Next]_Life
  <2>0. PcInv(c0) /\ TypeOK
    BY DEF IInv
  <2>1. Same(c0)
    BY <1>2 DEF PlacementStep, SpawnWorker, GetRemoteAddr, ShutdownWorker,
       AskCreate, CreateCospaceActor, FailRemove, FailInsert, InsertHosted,
       RemoveScheduled
  <2>2. CASE SpawnWorker(c0) \/ GetRemoteAddr(c0) \/ ShutdownWorker(c0)
             \/ AskCreate(c0)
    <3>1. UNCHANGED <<generated, scheduled, failed, hosted>>
      BY <2>2 DEF SpawnWorker, GetRemoteAddr, ShutdownWorker, AskCreate
    <3>. QED
      BY <3>1 DEF Life
  <2>3. CASE FailRemove(c0)
    <3>1. c0 \in generated /\ c0 \in scheduled /\ c0 \notin failed \cup hosted
      BY <2>0, <2>3 DEF FailRemove, PcInv, Pending
    <3>2. Life[c0] = "scheduled" /\ Life'[c0] = "failing"
      BY <2>3, <3>1 DEF FailRemove, Life
    <3>. QED
      BY <3>2, <2>1, <1>0, LifeMove DEF Lifecycle!Next
  <2>4. CASE FailInsert(c0)
    <3>1. c0 \in generated /\ c0 \notin scheduled \cup failed \cup hosted
      BY <2>0, <2>4 DEF FailInsert, PcInv
    <3>2. Life[c0] = "failing" /\ Life'[c0] = "failed"
      BY <2>4, <3>1 DEF FailInsert, Life
    <3>. QED
      BY <3>2, <2>1, <1>0, LifeMove DEF Lifecycle!Next
  <2>5. CASE InsertHosted(c0)
    <3>1. c0 \in generated /\ c0 \in scheduled /\ c0 \notin failed \cup hosted
      BY <2>0, <2>5 DEF InsertHosted, PcInv, Pending
    <3>2. Life[c0] = "scheduled" /\ Life'[c0] = "hosted"
      BY <2>5, <3>1 DEF InsertHosted, Life
    <3>. QED
      BY <3>2, <2>1, <1>0, LifeMove DEF Lifecycle!Next
  <2>6. CASE RemoveScheduled(c0)
    <3>1. c0 \in generated /\ c0 \in hosted
      BY <2>0, <2>6 DEF RemoveScheduled, PcInv
    <3>2. Life'[c0] = Life[c0]
      BY <2>6, <3>1 DEF RemoveScheduled, Life
    <3>3. Life' = Life
      BY <3>2, <2>1, <1>0 DEF Life
    <3>. QED
      BY <3>3
  <2>. QED
    BY <1>2, <2>2, <2>3, <2>4, <2>5, <2>6 DEF PlacementStep
<1>3. ASSUME NEW q \in QueryIds, StatusRequest(q) \/ StatusLookup(q)
      PROVE [Lifecycle!Next]_Life
  BY <1>3 DEF StatusRequest, StatusLookup, Life
<1>4. CASE UNCHANGED vars
  BY <1>4 DEF vars, Life
<1>. QED
  BY <1>1, <1>2, <1>3, <1>4 DEF Next

\* The registry implements CospaceLifecycle: every id realtime_host returns
\* is scheduled once and leaves SCHEDULED at most once, for HOSTED or,
\* through the failing window, for FAILED, in every behaviour.
THEOREM LifecycleRefinedHolds == Spec => LifecycleRefined
<1>1. Init => Lifecycle!Init
  BY DEF Init, Lifecycle!Init, Life
<1>. QED
  BY <1>1, IInvInit, IInvStep, LifecycleStep, PTL
  DEF Spec, LifecycleRefined, Lifecycle!Spec

====
