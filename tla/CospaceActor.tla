---------------------------- MODULE CospaceActor ----------------------------
(***************************************************************************)
(* One cospace on the server: the CospaceActor (cospace/cospace_actor.rs), *)
(* its ServicePool (cospace/service_pool.rs) of ServiceActors running the  *)
(* Mocker service (cospace/service_actor.rs, services/mocker.rs), and the  *)
(* steps that attach a client socket to it: the creator's GenerateClientId *)
(* ask and socket pumps (client_connection_actor_creator.rs), then the     *)
(* websocket actor's Connect (websocket_actor.rs).  A client's frames      *)
(* reach the cospace through its ClientConnectionActor, whose dispatch     *)
(* ServerEndpoint models; here it is one step that queues the ClientMessage *)
(* it builds.                                                              *)
(*                                                                         *)
(* Every actor handles one message at a time from a FIFO mailbox; a pool   *)
(* has the default size 1, so a service's mailbox is FIFO too.  What a     *)
(* message carries beyond its route is a ghost field `from`: the socket    *)
(* whose text a reply answers, so that a property can tell where a reply   *)
(* should have gone.                                                       *)
(***************************************************************************)
EXTENDS Naturals, Sequences, FiniteSets, Functions

CONSTANTS
    Conns,        \* client sockets upgraded into this cospace
    PoolServices, \* the services of the pool (Core, Presence, ...)
    MaxSends,     \* frames each client sends to the cospace
    MaxSvcCalls,  \* calls the services make of their own (broadcast, ask)
    Nil           \* an absent value (Option::None)

ASSUME ConstAssumption ==
    /\ IsFiniteSet(Conns) /\ Conns # {}
    /\ IsFiniteSet(PoolServices) /\ PoolServices # {}
    /\ MaxSends \in Nat /\ MaxSvcCalls \in Nat
    /\ Nil \notin Conns /\ Nil \notin Nat

\* ClientId.id values the counter hands out (it starts at 1 and never
\* passes u32::MAX with this many sockets).
Ids == 1 .. Cardinality(Conns)

\* What a ClientConnectionActor receives from the cospace.
Delivered == [kind : {"reply", "bcast", "ask"}, svc : PoolServices,
              from : Conns \cup {Nil}]

\* Messages in the cospace's mailbox.
CospaceMsg ==
         [kind : {"genid"}, conn : Conns]
    \cup [kind : {"connect", "text"}, id : Ids, from : Conns]
    \cup [kind : {"tell", "ask"}, id : Ids, svc : PoolServices, from : Conns]
    \cup [kind : {"reply"}, id : Ids, svc : PoolServices, from : Conns]
    \cup [kind : {"bcast"}, svc : PoolServices]
    \cup [kind : {"sask"}, id : Ids, svc : PoolServices]

\* Messages in a service's mailbox.
ServiceMsg == [kind : {"connect", "text", "encoded", "ask"}, id : Ids,
               from : Conns]

VARIABLES
    upgrade,  \* each socket's creator / websocket actor step
    cid,      \* the ClientId.id the socket's ask returned, or Nil
    counter,  \* client_id_counter
    clients,  \* clients: id -> the socket's ClientConnectionActor, or Nil
    inbox,    \* the cospace actor's mailbox
    mbox,     \* each service's mailbox
    sends,    \* frames each client sent
    calls,    \* calls the services made of their own
    got,      \* what each socket's ClientConnectionActor received
    texted,   \* sockets whose client sent a text
    owed      \* sockets whose text the cospace broadcast while registered

vars == <<upgrade, cid, counter, clients, inbox, mbox, sends, calls, got,
          texted, owed>>

UpgradePc == {"idle", "asking", "answered", "pumping", "told"}

TypeOK ==
    /\ upgrade \in [Conns -> UpgradePc]
    /\ cid \in [Conns -> Ids \cup {Nil}]
    /\ counter \in 1 .. Cardinality(Conns) + 1
    /\ clients \in [Ids -> Conns \cup {Nil}]
    /\ inbox \in Seq(CospaceMsg)
    /\ mbox \in [PoolServices -> Seq(ServiceMsg)]
    /\ sends \in [Conns -> 0 .. MaxSends]
    /\ calls \in 0 .. MaxSvcCalls
    /\ got \in [Conns -> SUBSET Delivered]
    /\ texted \subseteq Conns
    /\ owed \subseteq Conns

\* CospaceActor::new: the counter starts at 1, no client.
Init ==
    /\ upgrade = [c \in Conns |-> "idle"]
    /\ cid = [c \in Conns |-> Nil]
    /\ counter = 1
    /\ clients = [i \in Ids |-> Nil]
    /\ inbox = <<>>
    /\ mbox = [s \in PoolServices |-> <<>>]
    /\ sends = [c \in Conns |-> 0]
    /\ calls = 0
    /\ got = [c \in Conns |-> {}]
    /\ texted = {}
    /\ owed = {}

-----------------------------------------------------------------------------
(* Attaching a socket                                                      *)

\* create_client_actor: split the socket, then ask the cospace for an id.
CreatorAsk(c) ==
    /\ upgrade[c] = "idle"
    /\ upgrade' = [upgrade EXCEPT ![c] = "asking"]
    /\ inbox' = Append(inbox, [kind |-> "genid", conn |-> c])
    /\ UNCHANGED <<cid, counter, clients, mbox, sends, calls, got, texted, owed>>

\* The ask returns: the creator creates the connection service actor and
\* the ClientConnectionActor, spawns the socket pumps (from now on the
\* client's frames reach the cospace), tells the connection service
\* Connect and returns the id and address to the websocket actor.
CreatorResume(c) ==
    /\ upgrade[c] = "answered"
    /\ upgrade' = [upgrade EXCEPT ![c] = "pumping"]
    /\ UNCHANGED <<cid, counter, clients, inbox, mbox, sends, calls, got, texted,
                   owed>>

\* handle_on_upgrade resumes after its ask of the creator and tells the
\* cospace Connect.
UpgradeResume(c) ==
    /\ upgrade[c] = "pumping"
    /\ upgrade' = [upgrade EXCEPT ![c] = "told"]
    /\ inbox' = Append(inbox, [kind |-> "connect", id |-> cid[c], from |-> c])
    /\ UNCHANGED <<cid, counter, clients, mbox, sends, calls, got, texted, owed>>

-----------------------------------------------------------------------------
(* The client's frames, through its ClientConnectionActor                  *)

Pumping(c) == upgrade[c] \in {"pumping", "told"} /\ sends[c] < MaxSends

SendToCospace(c, m) ==
    /\ sends' = [sends EXCEPT ![c] = @ + 1]
    /\ inbox' = Append(inbox, m)
    /\ UNCHANGED <<upgrade, cid, counter, clients, mbox, calls, got, owed>>

\* recv_text_message_from_client: a text is a Tell to Broadcast(Default).
ClientText(c) ==
    /\ Pumping(c)
    /\ SendToCospace(c, [kind |-> "text", id |-> cid[c], from |-> c])
    /\ texted' = texted \cup {c}

\* recv_proto_tell_from_client for a service other than Connection.
ClientTell(c) ==
    /\ Pumping(c)
    /\ \E s \in PoolServices :
         SendToCospace(c, [kind |-> "tell", id |-> cid[c], svc |-> s, from |-> c])
    /\ UNCHANGED texted

\* recv_proto_req_from_client for a service other than Connection: an ask
\* of the cospace, whose answer the spawned task would frame.
ClientAsk(c) ==
    /\ Pumping(c)
    /\ \E s \in PoolServices :
         SendToCospace(c, [kind |-> "ask", id |-> cid[c], svc |-> s, from |-> c])
    /\ UNCHANGED texted

-----------------------------------------------------------------------------
(* The cospace actor                                                       *)

\* Mutant: a broadcast that leaves out all but one service of the pool.
BroadcastOne(msg) ==
    LET s0 == CHOOSE s \in PoolServices : TRUE IN
    mbox' = [mbox EXCEPT ![s0] = Append(@, msg)]

\* ServicePool::broadcast: tell each of the pool's services, in turn.
Broadcast(msg) == mbox' = [s \in PoolServices |-> Append(mbox[s], msg)]

\* ServicePool::tell on message_addr(service): one service's mailbox.
PoolTell(s, msg) == mbox' = [mbox EXCEPT ![s] = Append(@, msg)]

\* Mutant: the counter is not incremented after the id is taken.
GenerateClientIdNoIncrement(m) ==
    /\ cid' = [cid EXCEPT ![m.conn] = counter]
    /\ counter' = counter
    /\ upgrade' = [upgrade EXCEPT ![m.conn] = "answered"]
    /\ UNCHANGED <<clients, mbox, got, texted, owed>>

\* GenerateClientIdMessage: the id is the counter, then the counter += 1.
GenerateClientId(m) ==
    /\ cid' = [cid EXCEPT ![m.conn] = counter]
    /\ counter' = counter + 1
    /\ upgrade' = [upgrade EXCEPT ![m.conn] = "answered"]
    /\ UNCHANGED <<clients, mbox, got, texted, owed>>

\* ClientConnectionMessage::Connect: insert the address under the id and
\* broadcast the Connect to the services.
ConnectClient(m) ==
    /\ clients' = [clients EXCEPT ![m.id] = m.from]
    /\ Broadcast([kind |-> "connect", id |-> m.id, from |-> m.from])
    /\ UNCHANGED <<upgrade, cid, counter, got, texted, owed>>

\* ClientMessage: Tell(Broadcast) goes to every service, Tell(Service(s))
\* and Ask(s) to service s (get_server_service_from_realtime_service maps
\* the pool's services to themselves).
HandleClientMessage(m) ==
    /\ \/ /\ m.kind = "text"
          /\ Broadcast([kind |-> "text", id |-> m.id, from |-> m.from])
          /\ owed' = IF clients[m.id] = m.from THEN owed \cup {m.from} ELSE owed
       \/ /\ m.kind = "tell"
          /\ PoolTell(m.svc, [kind |-> "encoded", id |-> m.id, from |-> m.from])
          /\ UNCHANGED owed
       \/ /\ m.kind = "ask"
          /\ PoolTell(m.svc, [kind |-> "ask", id |-> m.id, from |-> m.from])
          /\ UNCHANGED owed
    /\ UNCHANGED <<upgrade, cid, counter, clients, got, texted>>

\* Mutant: the recipient's address is taken out of the map (remove, not get)
\* when a service tells or asks a client.
HandleServiceMessageTake(m) ==
    /\ got' =
         CASE m.kind = "reply" ->
                IF clients[m.id] = Nil THEN got
                ELSE [got EXCEPT ![clients[m.id]] = @ \cup
                        {[kind |-> "reply", svc |-> m.svc, from |-> m.from]}]
           [] m.kind = "bcast" ->
                [c \in Conns |->
                   IF \E i \in Ids : clients[i] = c
                   THEN got[c] \cup {[kind |-> "bcast", svc |-> m.svc, from |-> Nil]}
                   ELSE got[c]]
           [] m.kind = "sask" ->
                IF clients[m.id] = Nil THEN got
                ELSE [got EXCEPT ![clients[m.id]] = @ \cup
                        {[kind |-> "ask", svc |-> m.svc, from |-> Nil]}]
    /\ clients' = IF m.kind = "bcast" THEN clients
                  ELSE [clients EXCEPT ![m.id] = Nil]
    /\ UNCHANGED <<upgrade, cid, counter, mbox, texted, owed>>

\* ServiceMessage: Tell(Client(id)) goes to clients.get(id), or is logged
\* and dropped; Tell(Broadcast) goes to every client in the map; Ask(id) is
\* forwarded to the client's actor, or answered None at once.
HandleServiceMessage(m) ==
    /\ got' =
         CASE m.kind = "reply" ->
                IF clients[m.id] = Nil THEN got
                ELSE [got EXCEPT ![clients[m.id]] = @ \cup
                        {[kind |-> "reply", svc |-> m.svc, from |-> m.from]}]
           [] m.kind = "bcast" ->
                [c \in Conns |->
                   IF \E i \in Ids : clients[i] = c
                   THEN got[c] \cup {[kind |-> "bcast", svc |-> m.svc, from |-> Nil]}
                   ELSE got[c]]
           [] m.kind = "sask" ->
                IF clients[m.id] = Nil THEN got
                ELSE [got EXCEPT ![clients[m.id]] = @ \cup
                        {[kind |-> "ask", svc |-> m.svc, from |-> Nil]}]
    /\ UNCHANGED <<upgrade, cid, counter, clients, mbox, texted, owed>>

\* The cospace actor takes the next message of its mailbox.
CospaceStep ==
    /\ inbox # <<>>
    /\ inbox' = Tail(inbox)
    /\ LET m == Head(inbox) IN
       CASE m.kind = "genid" -> GenerateClientId(m)
         [] m.kind = "connect" -> ConnectClient(m)
         [] m.kind \in {"text", "tell", "ask"} -> HandleClientMessage(m)
         [] m.kind \in {"reply", "bcast", "sask"} -> HandleServiceMessage(m)
    /\ UNCHANGED <<sends, calls>>

-----------------------------------------------------------------------------
(* The service actors, each running a Mocker                               *)

\* Mocker::recv_text replies "MOCKER_REPLY_TO_CLIENT" to the sender by
\* ServiceExecutionContext::tell_text: cospace_addr finds the cospace (it is
\* alive, so the Dedicated weak address upgrades and the Shared map holds
\* it) and the reply is a ServiceMessage Tell(Client(id)) to it.
MockerRecvText(s, m) ==
    inbox' = Append(inbox, [kind |-> "reply", id |-> m.id, svc |-> s,
                            from |-> m.from])

\* ServiceActor's handlers, running a Mocker: Connect calls recv_connect,
\* which prints; a Text tell calls recv_text; a Binary tell calls
\* recv_encoded, which prints; an ask calls answer_encoded, which returns
\* Err, so the future resolves None and the client's request is never
\* answered.
ServiceStep(s) ==
    /\ mbox[s] # <<>>
    /\ mbox' = [mbox EXCEPT ![s] = Tail(@)]
    /\ LET m == Head(mbox[s]) IN
       IF m.kind = "text" THEN MockerRecvText(s, m) ELSE UNCHANGED inbox
    /\ UNCHANGED <<upgrade, cid, counter, clients, sends, calls, got, texted,
                   owed>>

\* A service's own use of its ExecutionContext: tell_text to
\* Broadcast(Cospace), or ask_encoded of a client by id.
ServiceCall(s) ==
    /\ calls < MaxSvcCalls
    /\ calls' = calls + 1
    /\ \/ inbox' = Append(inbox, [kind |-> "bcast", svc |-> s])
       \/ \E i \in Ids : inbox' = Append(inbox, [kind |-> "sask", id |-> i, svc |-> s])
    /\ UNCHANGED <<upgrade, cid, counter, clients, mbox, sends, got, texted, owed>>

-----------------------------------------------------------------------------

Next ==
    \/ CospaceStep
    \/ \E s \in PoolServices : ServiceStep(s) \/ ServiceCall(s)
    \/ \E c \in Conns :
         \/ CreatorAsk(c) \/ CreatorResume(c) \/ UpgradeResume(c)
         \/ ClientText(c) \/ ClientTell(c) \/ ClientAsk(c)

\* Every actor's mailbox is drained by the thread pool, and spawned tasks
\* (the creator's continuation, handle_on_upgrade) run to their end.
Fairness ==
    /\ WF_vars(CospaceStep)
    /\ \A s \in PoolServices : WF_vars(ServiceStep(s))
    /\ \A c \in Conns : WF_vars(CreatorResume(c)) /\ WF_vars(UpgradeResume(c))

Spec == Init /\ [][Next]_vars /\ Fairness

-----------------------------------------------------------------------------
(* Properties                                                              *)

\* A Mocker's reply goes to the client whose text it answers: tell_text
\* addresses it by the ClientId.id the service got with the text, and the
\* cospace's clients map sends it to the actor registered under that id.
\* It fails if two sockets could hold one id, or the map an address under
\* another socket's id.
ReplyRoutedToSender ==
    \A c \in Conns : \A r \in got[c] : r.kind = "reply" => r.from = c

\* Sockets the cospace has given a ClientId.
Numbered == {c \in Conns : cid[c] # Nil}

\* A message that names a client carries the id that client was given.
Tagged(m) ==
    m.kind \in {"connect", "text", "tell", "ask", "reply", "encoded"} =>
        cid[m.from] = m.id

\* client_id_counter is one more than the ids handed out so far.
CounterCounts == counter = Cardinality(Numbered) + 1

\* A socket has an id exactly when its ask has been answered.
WaitingUnnumbered ==
    \A c \in Conns : upgrade[c] \in {"idle", "asking"} <=> cid[c] = Nil

\* Every id handed out lies below the counter.
IdsBelowCounter == \A c \in Numbered : cid[c] < counter

\* No two sockets hold one id.
IdsDistinct == \A c, d \in Numbered : cid[c] = cid[d] => c = d

\* The clients map holds a socket's actor only under that socket's id.
ClientsRegistered ==
    \A i \in Ids : clients[i] # Nil => cid[clients[i]] = i

\* Messages in flight name their socket by its id.
InboxTagged == \A m \in Range(inbox) : Tagged(m)
MboxTagged == \A s \in PoolServices : \A m \in Range(mbox[s]) : Tagged(m)

\* A pending GenerateClientId ask: its socket waits for it and has no id.
GenidsPending ==
    \A m \in Range(inbox) :
        m.kind = "genid" => upgrade[m.conn] = "asking" /\ cid[m.conn] = Nil

\* No socket has two GenerateClientId asks in a mailbox.
GenidsOnce(q) ==
    \A k, l \in DOMAIN q : q[k].kind = "genid" /\ q[l] = q[k] => k = l

\* The inductive invariant behind ReplyRoutedToSender: the counter counts
\* the ids handed out, which lie below it, so no two sockets share one;
\* the clients map and every message in flight name a socket by its own id.
IInv ==
    /\ TypeOK
    /\ CounterCounts
    /\ WaitingUnnumbered
    /\ IdsBelowCounter
    /\ IdsDistinct
    /\ ClientsRegistered
    /\ InboxTagged
    /\ GenidsPending
    /\ GenidsOnce(inbox)
    /\ MboxTagged
    /\ ReplyRoutedToSender

\* A client's text that the cospace broadcast after it had registered the
\* client is answered by every service of the pool: the Connect, the
\* broadcast text and the Mocker's reply pass FIFO mailboxes in that order.
TextReplied ==
    \A c \in Conns :
        c \in owed ~> \A s \in PoolServices :
                        [kind |-> "reply", svc |-> s, from |-> c] \in got[c]

\* Spec 4.5 and 5: Connect reaches the cospace and its services so that they
\* can serve the client, and order is kept from a client through its
\* endpoint into the cospace: every text a client sends gets each Mocker's
\* reply.
TextAlwaysReplied ==
    \A c \in Conns :
        c \in texted ~> \A s \in PoolServices :
                          [kind |-> "reply", svc |-> s, from |-> c] \in got[c]

\* The ClientIds specification, with the socket's id as its id.
Abs == INSTANCE ClientIds WITH Clients <- Conns, IdSpace <- Ids, ids <- cid

\* Spec 4.5: the cospace actor implements ClientIds.  GenerateClientId
\* gives each socket that asks one id, which no other socket holds, and no
\* step ever changes or takes back a socket's id.  It fails if the counter
\* repeats an id, or a socket's ask is answered twice.
ClientIdsRefined == Abs!Spec

=============================================================================
