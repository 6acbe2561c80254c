------------------------ MODULE CospaceActor_proofs ------------------------
(***************************************************************************)
(* For every number of sockets and services and every bound: a Mocker's   *)
(* reply reaches the socket whose text it answers.  The proof goes through *)
(* IInv, defined in CospaceActor and checked by TLC in cospace_pass: the   *)
(* counter counts the ids GenerateClientId handed out, so ids are distinct *)
(* and every message in flight and every entry of the clients map names a  *)
(* socket by its own id.                                                   *)
(***************************************************************************)
EXTENDS CospaceActor, FiniteSetTheorems, TLAPS

USE ConstAssumption

-----------------------------------------------------------------------------
(* Counting and sequences                                                  *)

\* The number of sockets is a natural, so Ids is an interval of naturals
\* without Nil.
LEMMA IdsNat ==
    /\ Cardinality(Conns) \in Nat
    /\ Ids \subseteq Nat
    /\ Nil \notin Ids
BY FS_CardinalityType DEF Ids

\* The sockets an id map has numbered form a finite set, no larger than
\* Conns.
LEMMA NumberedFinite ==
    ASSUME NEW f
    PROVE  /\ IsFiniteSet({c \in Conns : f[c] # Nil})
           /\ Cardinality({c \in Conns : f[c] # Nil}) \in Nat
           /\ Cardinality({c \in Conns : f[c] # Nil}) <= Cardinality(Conns)
BY FS_Subset, FS_CardinalityType

\* Numbering one more socket adds one to the count, which stayed below the
\* number of sockets.
LEMMA NumberOne ==
    ASSUME NEW f \in [Conns -> Ids \cup {Nil}], NEW x \in Conns, f[x] = Nil,
           NEW v, v # Nil
    PROVE  /\ {c \in Conns : [f EXCEPT ![x] = v][c] # Nil}
                = {c \in Conns : f[c] # Nil} \cup {x}
           /\ Cardinality({c \in Conns : [f EXCEPT ![x] = v][c] # Nil})
                = Cardinality({c \in Conns : f[c] # Nil}) + 1
           /\ Cardinality({c \in Conns : f[c] # Nil}) < Cardinality(Conns)
<1> DEFINE N == {c \in Conns : f[c] # Nil}
           M == {c \in Conns : [f EXCEPT ![x] = v][c] # Nil}
<1>1. M = N \cup {x}
  OBVIOUS
<1>2. IsFiniteSet(N) /\ x \notin N
  BY FS_Subset
<1>3. Cardinality(M) = Cardinality(N) + 1
  BY <1>1, <1>2, FS_AddElement
<1>4. Cardinality(M) <= Cardinality(Conns)
  BY NumberedFinite
<1>5. Cardinality(N) \in Nat
  BY <1>2, FS_CardinalityType
<1>. QED
  BY <1>1, <1>3, <1>4, <1>5, IdsNat

\* What a mailbox holds after a message is put on it.
LEMMA RangeAppend ==
    ASSUME NEW S, NEW s \in Seq(S), NEW x
    PROVE  Range(Append(s, x)) = Range(s) \cup {x}
<1>1. Range(Append(s, x)) \subseteq Range(s) \cup {x}
  BY DEF Range
<1>2. Range(s) \subseteq Range(Append(s, x))
  <2> SUFFICES ASSUME NEW k \in 1 .. Len(s) PROVE s[k] \in Range(Append(s, x))
    BY DEF Range
  <2>. QED
    BY Len(Append(s, x)) = Len(s) + 1 DEF Range
<1>3. x \in Range(Append(s, x))
  BY DEF Range
<1>. QED
  BY <1>1, <1>2, <1>3

\* What a mailbox holds after its head is taken.
LEMMA RangeTail ==
    ASSUME NEW S, NEW s \in Seq(S), s # <<>>
    PROVE  /\ Tail(s) \in Seq(S)
           /\ Range(Tail(s)) \subseteq Range(s)
           /\ Head(s) \in Range(s)
BY DEF Range

\* A mailbox holds messages of its type.
LEMMA RangeSeq ==
    ASSUME NEW S, NEW s \in Seq(S)
    PROVE  Range(s) \subseteq S
BY DEF Range

\* The fields of a GenerateClientId ask, and of a message that names a
\* client.
LEMMA MsgFields ==
    ASSUME NEW m \in CospaceMsg
    PROVE  /\ m.kind = "genid" =>
                m.conn \in Conns /\ m = [kind |-> "genid", conn |-> m.conn]
           /\ m.kind \in {"tell", "ask", "reply", "bcast", "sask"} =>
                m.svc \in PoolServices
           /\ m.kind \in {"connect", "text", "tell", "ask", "reply"} =>
                m.from \in Conns /\ m.id \in Ids
           /\ m.kind \in {"reply", "sask"} => m.id \in Ids
           /\ m.kind \in {"genid", "connect", "text", "tell", "ask", "reply",
                          "bcast", "sask"}
BY DEF CospaceMsg

\* A GenerateClientId ask put on a mailbox that holds none for its socket
\* keeps the mailbox's asks one per socket.
LEMMA OnceAppend ==
    ASSUME NEW S, NEW s \in Seq(S), NEW x, GenidsOnce(s),
           x.kind = "genid" => x \notin Range(s)
    PROVE  GenidsOnce(Append(s, x))
BY DEF GenidsOnce, Range

\* After its head is taken a mailbox still holds one ask per socket, and
\* none for the socket of the ask just taken.
LEMMA OnceTail ==
    ASSUME NEW S, NEW s \in Seq(S), s # <<>>, GenidsOnce(s)
    PROVE  /\ GenidsOnce(Tail(s))
           /\ Head(s).kind = "genid" => Head(s) \notin Range(Tail(s))
BY DEF GenidsOnce, Range

-----------------------------------------------------------------------------
(* The inductive invariant                                                 *)

LEMMA InitIInv == Init => IInv
<1> SUFFICES ASSUME Init PROVE IInv
  OBVIOUS
<1>1. Numbered = {}
  BY DEF Init, Numbered
<1>2. TypeOK
  <2>1. counter \in 1 .. Cardinality(Conns) + 1
    BY IdsNat DEF Init
  <2>2. clients \in [Ids -> Conns \cup {Nil}] /\ cid \in [Conns -> Ids \cup {Nil}]
    BY DEF Init
  <2>3. inbox \in Seq(CospaceMsg) /\ mbox \in [PoolServices -> Seq(ServiceMsg)]
    BY DEF Init
  <2>4. upgrade \in [Conns -> UpgradePc] /\ sends \in [Conns -> 0 .. MaxSends]
    BY DEF Init, UpgradePc
  <2>5. calls \in 0 .. MaxSvcCalls /\ got \in [Conns -> SUBSET Delivered]
        /\ texted \subseteq Conns /\ owed \subseteq Conns
    BY DEF Init
  <2>. QED
    BY <2>1, <2>2, <2>3, <2>4, <2>5 DEF TypeOK
<1>3. CounterCounts
  <2>1. Cardinality(Numbered) = 0
    BY <1>1, FS_EmptySet
  <2>. QED
    BY <2>1 DEF Init, CounterCounts
<1>4. Range(inbox) = {} /\ \A s \in PoolServices : Range(mbox[s]) = {}
  BY DEF Init, Range
<1>. QED
  BY <1>1, <1>2, <1>3, <1>4, IdsNat
  DEF Init, IInv, WaitingUnnumbered, IdsBelowCounter, IdsDistinct,
      ClientsRegistered, InboxTagged, GenidsPending, GenidsOnce, MboxTagged,
      ReplyRoutedToSender

\* The conjuncts about ids hold in any step that leaves ids, the counter
\* and the clients map alone.
LEMMA IdsStable ==
    ASSUME IInv, UNCHANGED <<cid, counter, clients>>
    PROVE  (CounterCounts /\ IdsBelowCounter /\ IdsDistinct /\ ClientsRegistered)'
BY DEF IInv, CounterCounts, IdsBelowCounter, IdsDistinct, ClientsRegistered,
   Numbered

\* A message that names its socket by its id, put on the cospace's
\* mailbox, keeps the mailbox's conjuncts, if no waiting socket moves on.
LEMMA InboxAppend ==
    ASSUME IInv, NEW x \in CospaceMsg, x.kind # "genid", Tagged(x),
           inbox' = Append(inbox, x), UNCHANGED cid,
           \A d \in Conns : upgrade[d] = "asking" => upgrade'[d] = "asking"
    PROVE  /\ inbox' \in Seq(CospaceMsg)
           /\ InboxTagged' /\ GenidsPending' /\ GenidsOnce(inbox')
<1>1. inbox \in Seq(CospaceMsg)
  BY DEF IInv, TypeOK
<1>2. Range(inbox') = Range(inbox) \cup {x}
  BY <1>1, RangeAppend
<1>3. InboxTagged'
  BY <1>2 DEF IInv, InboxTagged, Tagged
<1>4. GenidsPending'
  <2>1. \A m \in Range(inbox) : m.kind = "genid" => m.conn \in Conns
    BY <1>1, RangeSeq, MsgFields
  <2>. QED
    BY <1>2, <2>1 DEF IInv, GenidsPending
<1>5. GenidsOnce(inbox')
  BY <1>1, OnceAppend DEF IInv
<1>. QED
  BY <1>1, <1>3, <1>4, <1>5

\* create_client_actor asks the cospace for an id.
LEMMA CreatorAskStep ==
    ASSUME IInv, NEW c \in Conns, CreatorAsk(c)
    PROVE  IInv'
<1> DEFINE x == [kind |-> "genid", conn |-> c]
<1>1. inbox \in Seq(CospaceMsg) /\ x \in CospaceMsg /\ inbox' = Append(inbox, x)
  BY DEF IInv, TypeOK, CospaceMsg, CreatorAsk
<1>2. Range(inbox') = Range(inbox) \cup {x}
  BY <1>1, RangeAppend
<1>3. upgrade[c] = "idle" /\ cid[c] = Nil /\ upgrade' = [upgrade EXCEPT ![c] = "asking"]
  BY DEF CreatorAsk, IInv, WaitingUnnumbered
<1>4. x \notin Range(inbox)
  BY <1>3 DEF IInv, GenidsPending
<1>5. TypeOK'
  BY <1>1, <1>3 DEF IInv, TypeOK, CreatorAsk, UpgradePc
<1>6. WaitingUnnumbered'
  BY <1>3 DEF IInv, TypeOK, CreatorAsk, WaitingUnnumbered
<1>7. InboxTagged'
  BY <1>2 DEF IInv, InboxTagged, Tagged, CreatorAsk
<1>8. GenidsPending'
  <2>1. \A m \in Range(inbox) : m.kind = "genid" => m.conn \in Conns
    BY <1>1, RangeSeq, MsgFields
  <2>2. \A m \in Range(inbox) : m.kind = "genid" => m.conn # c
    BY <1>3, Zenon DEF IInv, GenidsPending
  <2>3. \A m \in Range(inbox) : m.kind = "genid" =>
           upgrade'[m.conn] = "asking" /\ cid'[m.conn] = Nil
    BY <1>3, <2>1, <2>2 DEF IInv, GenidsPending, CreatorAsk
  <2>4. upgrade'[c] = "asking" /\ cid'[c] = Nil
    BY <1>3 DEF IInv, TypeOK, CreatorAsk
  <2>. QED
    BY <1>2, <2>3, <2>4 DEF GenidsPending
<1>9. GenidsOnce(inbox')
  BY <1>1, <1>4, OnceAppend DEF IInv
<1>10. (MboxTagged /\ ReplyRoutedToSender)'
  BY DEF IInv, MboxTagged, Tagged, ReplyRoutedToSender, CreatorAsk
<1>. QED
  BY <1>5, <1>6, <1>7, <1>8, <1>9, <1>10, IdsStable DEF IInv, CreatorAsk

\* A socket that has its id moving on in its upgrade keeps the socket
\* conjuncts, and every waiting socket waits still.
LEMMA UpgradeMoves ==
    ASSUME IInv, NEW c \in Conns, upgrade[c] \notin {"idle", "asking"},
           NEW v \in UpgradePc \ {"idle", "asking"},
           upgrade' = [upgrade EXCEPT ![c] = v], UNCHANGED cid
    PROVE  /\ upgrade' \in [Conns -> UpgradePc]
           /\ WaitingUnnumbered'
           /\ \A d \in Conns : upgrade[d] = "asking" => upgrade'[d] = "asking"
BY DEF IInv, TypeOK, WaitingUnnumbered

\* With the mailbox left alone, waiting sockets that wait still keep their
\* asks pending.
LEMMA PendingKept ==
    ASSUME IInv, UNCHANGED <<cid, inbox>>,
           \A d \in Conns : upgrade[d] = "asking" => upgrade'[d] = "asking"
    PROVE  (InboxTagged /\ GenidsPending /\ GenidsOnce(inbox))'
<1>1. \A m \in Range(inbox) : m.kind = "genid" => m.conn \in Conns
  BY RangeSeq, MsgFields DEF IInv, TypeOK
<1>. QED
  BY <1>1 DEF IInv, InboxTagged, Tagged, GenidsPending

\* The creator's continuation spawns the pumps.
LEMMA CreatorResumeStep ==
    ASSUME IInv, NEW c \in Conns, CreatorResume(c)
    PROVE  IInv'
<1>1. upgrade[c] = "answered" /\ upgrade' = [upgrade EXCEPT ![c] = "pumping"]
      /\ UNCHANGED <<cid, inbox>>
  BY DEF CreatorResume
<1>2. /\ upgrade' \in [Conns -> UpgradePc]
      /\ WaitingUnnumbered'
      /\ \A d \in Conns : upgrade[d] = "asking" => upgrade'[d] = "asking"
  BY <1>1, UpgradeMoves DEF UpgradePc
<1>3. (InboxTagged /\ GenidsPending /\ GenidsOnce(inbox))'
  BY <1>1, <1>2, PendingKept
<1>4. TypeOK'
  BY <1>2 DEF IInv, TypeOK, CreatorResume
<1>5. (MboxTagged /\ ReplyRoutedToSender)'
  BY DEF IInv, MboxTagged, Tagged, ReplyRoutedToSender, CreatorResume
<1>. QED
  BY <1>2, <1>3, <1>4, <1>5, IdsStable DEF IInv, CreatorResume

\* A socket past its ask has an id.
LEMMA NumberedSocket ==
    ASSUME IInv, NEW c \in Conns, upgrade[c] \notin {"idle", "asking"}
    PROVE  cid[c] \in Ids
BY DEF IInv, TypeOK, WaitingUnnumbered

\* handle_on_upgrade tells the cospace Connect.
LEMMA UpgradeResumeStep ==
    ASSUME IInv, NEW c \in Conns, UpgradeResume(c)
    PROVE  IInv'
<1> DEFINE x == [kind |-> "connect", id |-> cid[c], from |-> c]
<1>1. upgrade[c] = "pumping" /\ upgrade' = [upgrade EXCEPT ![c] = "told"]
      /\ UNCHANGED cid /\ inbox' = Append(inbox, x)
  BY DEF UpgradeResume
<1>2. /\ upgrade' \in [Conns -> UpgradePc]
      /\ WaitingUnnumbered'
      /\ \A d \in Conns : upgrade[d] = "asking" => upgrade'[d] = "asking"
  BY <1>1, UpgradeMoves DEF UpgradePc
<1>3. x \in CospaceMsg /\ Tagged(x)
  BY <1>1, NumberedSocket DEF CospaceMsg, Tagged
<1>4. /\ inbox' \in Seq(CospaceMsg)
      /\ (InboxTagged /\ GenidsPending /\ GenidsOnce(inbox))'
  BY <1>1, <1>2, <1>3, InboxAppend
<1>5. TypeOK'
  BY <1>2, <1>4 DEF IInv, TypeOK, UpgradeResume
<1>6. (MboxTagged /\ ReplyRoutedToSender)'
  BY DEF IInv, MboxTagged, Tagged, ReplyRoutedToSender, UpgradeResume
<1>. QED
  BY <1>2, <1>4, <1>5, <1>6, IdsStable DEF IInv, UpgradeResume

\* A frame of the client, queued by its ClientConnectionActor, names the
\* client by its id.
LEMMA SendStep ==
    ASSUME IInv, NEW c \in Conns, Pumping(c), NEW x \in CospaceMsg,
           x.kind # "genid", x.from = c, x.id = cid[c],
           SendToCospace(c, x), texted' \subseteq Conns
    PROVE  IInv'
<1>1. Tagged(x)
  BY DEF Tagged
<1>2. /\ inbox' \in Seq(CospaceMsg)
      /\ (InboxTagged /\ GenidsPending /\ GenidsOnce(inbox))'
  BY <1>1, InboxAppend DEF SendToCospace
<1>3. sends' \in [Conns -> 0 .. MaxSends]
  BY DEF IInv, TypeOK, Pumping, SendToCospace
<1>4. TypeOK'
  BY <1>2, <1>3 DEF IInv, TypeOK, SendToCospace
<1>5. (WaitingUnnumbered /\ MboxTagged /\ ReplyRoutedToSender)'
  BY DEF IInv, WaitingUnnumbered, MboxTagged, Tagged, ReplyRoutedToSender,
     SendToCospace
<1>. QED
  BY <1>2, <1>4, <1>5, IdsStable DEF IInv, SendToCospace

\* recv_text_message_from_client, recv_proto_tell_from_client and
\* recv_proto_req_from_client queue a message of the socket for the cospace.
LEMMA ClientSendStep ==
    ASSUME IInv, NEW c \in Conns, ClientText(c) \/ ClientTell(c) \/ ClientAsk(c)
    PROVE  IInv'
<1>1. cid[c] \in Ids
  BY NumberedSocket DEF Pumping, ClientText, ClientTell, ClientAsk
<1>2. CASE ClientText(c)
  <2> DEFINE x == [kind |-> "text", id |-> cid[c], from |-> c]
  <2>1. x \in CospaceMsg
    BY <1>1 DEF CospaceMsg
  <2>. QED
    BY <1>2, <2>1, SendStep DEF ClientText, IInv, TypeOK
<1>3. CASE ClientTell(c)
  <2> PICK s \in PoolServices :
        SendToCospace(c, [kind |-> "tell", id |-> cid[c], svc |-> s, from |-> c])
    BY <1>3 DEF ClientTell
  <2>1. [kind |-> "tell", id |-> cid[c], svc |-> s, from |-> c] \in CospaceMsg
    BY <1>1 DEF CospaceMsg
  <2>. QED
    BY <1>3, <2>1, SendStep DEF ClientTell, IInv, TypeOK
<1>4. CASE ClientAsk(c)
  <2> PICK s \in PoolServices :
        SendToCospace(c, [kind |-> "ask", id |-> cid[c], svc |-> s, from |-> c])
    BY <1>4 DEF ClientAsk
  <2>1. [kind |-> "ask", id |-> cid[c], svc |-> s, from |-> c] \in CospaceMsg
    BY <1>1 DEF CospaceMsg
  <2>. QED
    BY <1>4, <2>1, SendStep DEF ClientAsk, IInv, TypeOK
<1>. QED
  BY <1>2, <1>3, <1>4

\* The fields of a message in a service's mailbox.
LEMMA ServiceMsgFields ==
    ASSUME NEW m \in ServiceMsg
    PROVE  m.id \in Ids /\ m.from \in Conns
BY DEF ServiceMsg

\* ServicePool::broadcast of a message that names its socket by its id.
LEMMA BroadcastKeeps ==
    ASSUME IInv, NEW y \in ServiceMsg, Tagged(y), Broadcast(y), UNCHANGED cid
    PROVE  mbox' \in [PoolServices -> Seq(ServiceMsg)] /\ MboxTagged'
<1>1. mbox' \in [PoolServices -> Seq(ServiceMsg)]
  BY DEF IInv, TypeOK, Broadcast
<1>2. \A s \in PoolServices : Range(mbox'[s]) = Range(mbox[s]) \cup {y}
  BY RangeAppend DEF IInv, TypeOK, Broadcast
<1>. QED
  BY <1>1, <1>2 DEF IInv, MboxTagged, Tagged

\* ServicePool::tell of a message that names its socket by its id.
LEMMA PoolTellKeeps ==
    ASSUME IInv, NEW s \in PoolServices, NEW y \in ServiceMsg, Tagged(y),
           PoolTell(s, y), UNCHANGED cid
    PROVE  mbox' \in [PoolServices -> Seq(ServiceMsg)] /\ MboxTagged'
<1>1. mbox' \in [PoolServices -> Seq(ServiceMsg)]
  BY DEF IInv, TypeOK, PoolTell
<1>2. Range(mbox'[s]) = Range(mbox[s]) \cup {y}
  BY RangeAppend DEF IInv, TypeOK, PoolTell
<1>3. \A t \in PoolServices \ {s} : mbox'[t] = mbox[t]
  BY DEF IInv, TypeOK, PoolTell
<1>. QED
  BY <1>1, <1>2, <1>3 DEF IInv, MboxTagged, Tagged

\* A service takes the head of its mailbox; a Mocker replies to a text.
LEMMA ServiceStepStep ==
    ASSUME IInv, NEW s \in PoolServices, ServiceStep(s)
    PROVE  IInv'
<1> DEFINE m == Head(mbox[s])
           x == [kind |-> "reply", id |-> m.id, svc |-> s, from |-> m.from]
<1>1. mbox[s] \in Seq(ServiceMsg) /\ mbox[s] # <<>>
  BY DEF IInv, TypeOK, ServiceStep
<1>2. m \in ServiceMsg /\ Tagged(m) /\ Range(Tail(mbox[s])) \subseteq Range(mbox[s])
      /\ Tail(mbox[s]) \in Seq(ServiceMsg)
  BY <1>1, RangeTail DEF IInv, MboxTagged
<1>3. mbox' \in [PoolServices -> Seq(ServiceMsg)] /\ MboxTagged'
  <2>1. mbox' = [mbox EXCEPT ![s] = Tail(mbox[s])]
    BY DEF ServiceStep
  <2>. QED
    BY <1>2, <2>1 DEF IInv, TypeOK, MboxTagged, Tagged, ServiceStep
<1>4. /\ inbox' \in Seq(CospaceMsg)
      /\ (InboxTagged /\ GenidsPending /\ GenidsOnce(inbox))'
  <2>1. CASE m.kind = "text"
    <3>1. inbox' = Append(inbox, x)
      BY <2>1 DEF ServiceStep, MockerRecvText
    <3>2. m.id \in Ids /\ m.from \in Conns
      BY <1>2, ServiceMsgFields
    <3>3. x \in CospaceMsg
      BY <3>2 DEF CospaceMsg
    <3>4. Tagged(x)
      BY <1>2, <2>1 DEF Tagged
    <3>. QED
      BY <3>1, <3>3, <3>4, InboxAppend DEF ServiceStep
  <2>2. CASE m.kind # "text"
    <3>1. UNCHANGED inbox
      BY <2>2 DEF ServiceStep
    <3>. QED
      BY <3>1, PendingKept DEF ServiceStep, IInv, TypeOK
  <2>. QED
    BY <2>1, <2>2
<1>5. TypeOK'
  BY <1>3, <1>4 DEF IInv, TypeOK, ServiceStep
<1>6. (WaitingUnnumbered /\ ReplyRoutedToSender)'
  BY DEF IInv, WaitingUnnumbered, ReplyRoutedToSender, ServiceStep
<1>. QED
  BY <1>3, <1>4, <1>5, <1>6, IdsStable DEF IInv, ServiceStep

\* A service's own tell_text to Broadcast(Cospace) or ask_encoded.
LEMMA ServiceCallStep ==
    ASSUME IInv, NEW s \in PoolServices, ServiceCall(s)
    PROVE  IInv'
<1>1. PICK x \in CospaceMsg : x.kind \in {"bcast", "sask"} /\ inbox' = Append(inbox, x)
  BY DEF ServiceCall, CospaceMsg
<1>2. /\ inbox' \in Seq(CospaceMsg)
      /\ (InboxTagged /\ GenidsPending /\ GenidsOnce(inbox))'
  BY <1>1, InboxAppend DEF ServiceCall, Tagged
<1>3. TypeOK'
  BY <1>2 DEF IInv, TypeOK, ServiceCall
<1>4. (WaitingUnnumbered /\ MboxTagged /\ ReplyRoutedToSender)'
  BY DEF IInv, WaitingUnnumbered, MboxTagged, Tagged, ReplyRoutedToSender,
     ServiceCall
<1>. QED
  BY <1>2, <1>3, <1>4, IdsStable DEF IInv, ServiceCall

\* The head of the cospace's mailbox, and what is left behind it.
LEMMA HeadFacts ==
    ASSUME IInv, inbox # <<>>
    PROVE  LET m == Head(inbox) IN
           /\ m \in CospaceMsg
           /\ Tagged(m)
           /\ m.kind = "genid" =>
                /\ upgrade[m.conn] = "asking" /\ cid[m.conn] = Nil
                /\ m \notin Range(Tail(inbox))
           /\ Tail(inbox) \in Seq(CospaceMsg)
           /\ Range(Tail(inbox)) \subseteq Range(inbox)
           /\ GenidsOnce(Tail(inbox))
<1>1. inbox \in Seq(CospaceMsg) /\ GenidsOnce(inbox)
  BY DEF IInv, TypeOK
<1>2. /\ Tail(inbox) \in Seq(CospaceMsg)
      /\ Range(Tail(inbox)) \subseteq Range(inbox)
      /\ Head(inbox) \in Range(inbox)
  BY <1>1, RangeTail
<1>3. GenidsOnce(Tail(inbox))
      /\ (Head(inbox).kind = "genid" => Head(inbox) \notin Range(Tail(inbox)))
  BY <1>1, OnceTail
<1>4. Head(inbox) \in CospaceMsg
  BY <1>1, <1>2, RangeSeq
<1>. QED
  BY <1>2, <1>3, <1>4 DEF IInv, InboxTagged, GenidsPending

\* Taking the head of the cospace's mailbox keeps its conjuncts when no
\* id is handed out and no waiting socket moves on.
LEMMA TailKept ==
    ASSUME IInv, inbox # <<>>, inbox' = Tail(inbox), UNCHANGED <<cid, upgrade>>
    PROVE  (InboxTagged /\ GenidsPending /\ GenidsOnce(inbox))'
BY HeadFacts DEF IInv, InboxTagged, Tagged, GenidsPending

\* ClientConnectionMessage::Connect.
LEMMA ConnectStep ==
    ASSUME IInv, inbox # <<>>, inbox' = Tail(inbox), UNCHANGED <<sends, calls>>,
           Head(inbox).kind = "connect", ConnectClient(Head(inbox))
    PROVE  IInv'
<1> DEFINE m == Head(inbox)
           y == [kind |-> "connect", id |-> m.id, from |-> m.from]
<1>1. m \in CospaceMsg /\ Tagged(m)
  BY HeadFacts
<1>2. m.id \in Ids /\ m.from \in Conns /\ cid[m.from] = m.id
  BY <1>1, MsgFields DEF Tagged
<1>3. y \in ServiceMsg /\ Tagged(y)
  BY <1>2 DEF ServiceMsg, Tagged
<1>4. mbox' \in [PoolServices -> Seq(ServiceMsg)] /\ MboxTagged'
  BY <1>3, BroadcastKeeps DEF ConnectClient
<1>5. clients' = [clients EXCEPT ![m.id] = m.from]
  BY DEF ConnectClient
<1>6. ClientsRegistered'
  BY <1>2, <1>5 DEF IInv, TypeOK, ClientsRegistered, ConnectClient
<1>7. (CounterCounts /\ IdsBelowCounter /\ IdsDistinct /\ WaitingUnnumbered)'
  BY DEF IInv, CounterCounts, IdsBelowCounter, IdsDistinct, WaitingUnnumbered,
     Numbered, ConnectClient
<1>8. (InboxTagged /\ GenidsPending /\ GenidsOnce(inbox))'
  BY TailKept DEF ConnectClient
<1>9. TypeOK'
  BY <1>2, <1>4, <1>5, HeadFacts DEF IInv, TypeOK, ConnectClient
<1>10. ReplyRoutedToSender'
  BY DEF IInv, ReplyRoutedToSender, ConnectClient
<1>. QED
  BY <1>4, <1>6, <1>7, <1>8, <1>9, <1>10 DEF IInv

\* A ClientMessage: a text is broadcast, a tell or an ask goes to one
\* service.
LEMMA ClientMsgStep ==
    ASSUME IInv, inbox # <<>>, inbox' = Tail(inbox), UNCHANGED <<sends, calls>>,
           Head(inbox).kind \in {"text", "tell", "ask"},
           HandleClientMessage(Head(inbox))
    PROVE  IInv'
<1> DEFINE m == Head(inbox)
<1>1. m \in CospaceMsg /\ Tagged(m)
  BY HeadFacts
<1>2. m.id \in Ids /\ m.from \in Conns /\ cid[m.from] = m.id
  BY <1>1, MsgFields DEF Tagged
<1>3. mbox' \in [PoolServices -> Seq(ServiceMsg)] /\ MboxTagged'
  <2>1. CASE m.kind = "text"
    <3>1. [kind |-> "text", id |-> m.id, from |-> m.from] \in ServiceMsg
          /\ Tagged([kind |-> "text", id |-> m.id, from |-> m.from])
      BY <1>2 DEF ServiceMsg, Tagged
    <3>. QED
      BY <2>1, <3>1, BroadcastKeeps DEF HandleClientMessage
  <2>2. CASE m.kind = "tell"
    <3>1. [kind |-> "encoded", id |-> m.id, from |-> m.from] \in ServiceMsg
          /\ Tagged([kind |-> "encoded", id |-> m.id, from |-> m.from])
          /\ m.svc \in PoolServices
      BY <1>1, <1>2, <2>2, MsgFields DEF ServiceMsg, Tagged
    <3>. QED
      BY <2>2, <3>1, PoolTellKeeps DEF HandleClientMessage
  <2>3. CASE m.kind = "ask"
    <3>1. [kind |-> "ask", id |-> m.id, from |-> m.from] \in ServiceMsg
          /\ Tagged([kind |-> "ask", id |-> m.id, from |-> m.from])
          /\ m.svc \in PoolServices
      BY <1>1, <1>2, <2>3, MsgFields DEF ServiceMsg, Tagged
    <3>. QED
      BY <2>3, <3>1, PoolTellKeeps DEF HandleClientMessage
  <2>. QED
    BY <2>1, <2>2, <2>3
<1>4. owed' \subseteq Conns
  BY <1>2 DEF IInv, TypeOK, HandleClientMessage
<1>5. (InboxTagged /\ GenidsPending /\ GenidsOnce(inbox))'
  BY TailKept DEF HandleClientMessage
<1>6. TypeOK'
  BY <1>3, <1>4, HeadFacts DEF IInv, TypeOK, HandleClientMessage
<1>7. (WaitingUnnumbered /\ ReplyRoutedToSender)'
  BY DEF IInv, WaitingUnnumbered, ReplyRoutedToSender, HandleClientMessage
<1>. QED
  BY <1>3, <1>5, <1>6, <1>7, IdsStable DEF IInv, HandleClientMessage

\* A ServiceMessage: a reply reaches the actor registered under its id,
\* which is the actor of the socket it answers.
LEMMA ServiceMsgStep ==
    ASSUME IInv, inbox # <<>>, inbox' = Tail(inbox), UNCHANGED <<sends, calls>>,
           Head(inbox).kind \in {"reply", "bcast", "sask"},
           HandleServiceMessage(Head(inbox))
    PROVE  IInv'
<1> DEFINE m == Head(inbox)
<1>1. m \in CospaceMsg /\ Tagged(m)
  BY HeadFacts
<1>2. m.svc \in PoolServices
  BY <1>1, MsgFields
<1>3. got' \in [Conns -> SUBSET Delivered] /\ ReplyRoutedToSender'
  <2>1. CASE m.kind = "reply" /\ clients[m.id] = Nil
    BY <2>1 DEF HandleServiceMessage, IInv, TypeOK, ReplyRoutedToSender
  <2>2. CASE m.kind = "reply" /\ clients[m.id] # Nil
    <3> DEFINE d == clients[m.id]
               r == [kind |-> "reply", svc |-> m.svc, from |-> m.from]
    <3>1. m.id \in Ids /\ m.from \in Conns /\ cid[m.from] = m.id
      BY <1>1, <2>2, MsgFields DEF Tagged
    <3>2. d \in Conns /\ cid[d] = m.id
      BY <2>2, <3>1 DEF IInv, TypeOK, ClientsRegistered
    <3>3. d = m.from
      BY <3>1, <3>2, IdsNat DEF IInv, IdsDistinct, Numbered
    <3>4. got' = [got EXCEPT ![d] = @ \cup {r}]
      BY <2>2 DEF HandleServiceMessage
    <3>5. r \in Delivered
      BY <1>2, <3>1 DEF Delivered
    <3>6. got' \in [Conns -> SUBSET Delivered]
      BY <3>2, <3>4, <3>5 DEF IInv, TypeOK
    <3>7. ASSUME NEW c \in Conns, NEW q \in got'[c], q.kind = "reply"
          PROVE  q.from = c
      <4>1. CASE c = d
        BY <3>2, <3>3, <3>4, <3>7, <4>1 DEF IInv, TypeOK, ReplyRoutedToSender
      <4>2. CASE c # d
        BY <3>4, <3>7, <4>2 DEF IInv, TypeOK, ReplyRoutedToSender
      <4>. QED
        BY <4>1, <4>2
    <3>. QED
      BY <3>6, <3>7 DEF ReplyRoutedToSender
  <2>3. CASE m.kind = "bcast"
    <3>1. got' = [c \in Conns |->
                   IF \E i \in Ids : clients[i] = c
                   THEN got[c] \cup {[kind |-> "bcast", svc |-> m.svc, from |-> Nil]}
                   ELSE got[c]]
      BY <2>3 DEF HandleServiceMessage
    <3>2. [kind |-> "bcast", svc |-> m.svc, from |-> Nil] \in Delivered
      BY <1>2 DEF Delivered
    <3>. QED
      BY <3>1, <3>2 DEF IInv, TypeOK, ReplyRoutedToSender
  <2>4. CASE m.kind = "sask"
    <3>1. m.id \in Ids
      BY <1>1, <2>4, MsgFields
    <3>2. [kind |-> "ask", svc |-> m.svc, from |-> Nil] \in Delivered
      BY <1>2 DEF Delivered
    <3>3. got' = IF clients[m.id] = Nil THEN got
                 ELSE [got EXCEPT ![clients[m.id]] = @ \cup
                         {[kind |-> "ask", svc |-> m.svc, from |-> Nil]}]
      BY <2>4 DEF HandleServiceMessage
    <3>4. clients[m.id] \in Conns \cup {Nil}
      BY <3>1 DEF IInv, TypeOK
    <3>. QED
      BY <3>2, <3>3, <3>4 DEF IInv, TypeOK, ReplyRoutedToSender
  <2>. QED
    BY <2>1, <2>2, <2>3, <2>4
<1>4. (InboxTagged /\ GenidsPending /\ GenidsOnce(inbox))'
  BY TailKept DEF HandleServiceMessage
<1>5. TypeOK'
  BY <1>3, HeadFacts DEF IInv, TypeOK, HandleServiceMessage
<1>6. (WaitingUnnumbered /\ MboxTagged)'
  BY DEF IInv, WaitingUnnumbered, MboxTagged, Tagged, HandleServiceMessage
<1>. QED
  BY <1>3, <1>4, <1>5, <1>6, IdsStable DEF IInv, HandleServiceMessage

\* Handing an id to a socket that had none leaves every other socket's id
\* alone.
LEMMA OthersKeepIds ==
    ASSUME IInv, NEW c \in Conns, cid[c] = Nil, NEW v,
           cid' = [cid EXCEPT ![c] = v]
    PROVE  \A d \in Conns : cid[d] \in Ids => cid'[d] = cid[d]
BY IdsNat DEF IInv, TypeOK

\* GenerateClientIdMessage: the waiting socket gets the counter as its id,
\* then the counter grows.  The id is new because every id handed out lies
\* below the counter, and it is a u32 in range because the counter counts
\* the sockets numbered so far.
LEMMA GenidStep ==
    ASSUME IInv, inbox # <<>>, inbox' = Tail(inbox), UNCHANGED <<sends, calls>>,
           Head(inbox).kind = "genid", GenerateClientId(Head(inbox))
    PROVE  IInv'
<1> DEFINE m == Head(inbox)
           c == m.conn
<1>1. m \in CospaceMsg /\ c \in Conns /\ m = [kind |-> "genid", conn |-> c]
  BY HeadFacts, MsgFields
<1>2. upgrade[c] = "asking" /\ cid[c] = Nil /\ m \notin Range(Tail(inbox))
  BY HeadFacts
<1>3. /\ cid' = [cid EXCEPT ![c] = counter]
      /\ counter' = counter + 1
      /\ upgrade' = [upgrade EXCEPT ![c] = "answered"]
      /\ UNCHANGED <<clients, mbox, got, texted, owed>>
  BY DEF GenerateClientId
<1>4. counter \in Nat /\ counter # Nil
  BY IdsNat DEF IInv, TypeOK
<1>5. /\ Numbered' = Numbered \cup {c}
      /\ Cardinality(Numbered') = Cardinality(Numbered) + 1
      /\ Cardinality(Numbered) < Cardinality(Conns)
  <2>1. cid \in [Conns -> Ids \cup {Nil}]
    BY DEF IInv, TypeOK
  <2>2. Numbered' = {d \in Conns : [cid EXCEPT ![c] = counter][d] # Nil}
    BY <1>3 DEF Numbered
  <2>3. /\ {d \in Conns : [cid EXCEPT ![c] = counter][d] # Nil}
             = {d \in Conns : cid[d] # Nil} \cup {c}
        /\ Cardinality({d \in Conns : [cid EXCEPT ![c] = counter][d] # Nil})
             = Cardinality({d \in Conns : cid[d] # Nil}) + 1
        /\ Cardinality({d \in Conns : cid[d] # Nil}) < Cardinality(Conns)
    BY <1>1, <1>2, <1>4, <2>1, NumberOne
  <2>. QED
    BY <2>2, <2>3 DEF Numbered
<1>6. counter \in Ids /\ counter' = Cardinality(Numbered') + 1
  <2>1. Cardinality(Numbered) \in Nat
    BY NumberedFinite DEF Numbered
  <2>. QED
    BY <1>3, <1>5, <2>1, IdsNat DEF IInv, CounterCounts, Ids
<1>7. \A d \in Conns : cid[d] \in Ids => cid'[d] = cid[d]
  BY <1>1, <1>2, <1>3, OthersKeepIds
<1>8. TypeOK'
  <2>1. cid' \in [Conns -> Ids \cup {Nil}] /\ upgrade' \in [Conns -> UpgradePc]
    BY <1>1, <1>3, <1>6 DEF IInv, TypeOK, UpgradePc
  <2>2. counter' \in 1 .. Cardinality(Conns) + 1
    BY <1>3, <1>6, IdsNat DEF Ids
  <2>. QED
    BY <2>1, <2>2, <1>3, HeadFacts DEF IInv, TypeOK
<1>9. CounterCounts'
  BY <1>6 DEF CounterCounts
<1>10. WaitingUnnumbered'
  BY <1>1, <1>3, <1>4 DEF IInv, TypeOK, WaitingUnnumbered
<1>11. (IdsBelowCounter /\ IdsDistinct)'
  <2>1. \A d \in Numbered : d \in Conns /\ cid[d] < counter /\ cid[d] \in Ids
    BY DEF IInv, TypeOK, IdsBelowCounter, Numbered
  <2>2. \A d \in Numbered' : d = c \/ (d \in Numbered /\ cid'[d] = cid[d])
    BY <1>5, <1>7, <2>1
  <2>3. cid'[c] = counter
    BY <1>1, <1>3 DEF IInv, TypeOK
  <2>4. ASSUME NEW d \in Numbered' PROVE cid'[d] < counter'
    <3>1. CASE d = c
      BY <1>3, <1>4, <2>3, <3>1
    <3>2. CASE d # c
      <4>1. d \in Numbered /\ cid'[d] = cid[d]
        BY <2>2, <3>2
      <4>2. cid[d] < counter /\ cid[d] \in Nat
        BY <2>1, <4>1, IdsNat
      <4>. QED
        BY <1>3, <1>4, <4>1, <4>2
    <3>. QED
      BY <3>1, <3>2
  <2>6. IdsBelowCounter'
    BY <2>4 DEF IdsBelowCounter
  <2>5. IdsDistinct'
    BY <1>4, <2>1, <2>2, <2>3, IdsNat DEF IInv, IdsDistinct
  <2>. QED
    BY <2>5, <2>6
<1>12. ClientsRegistered'
  <2>1. \A i \in Ids : clients[i] # Nil => clients[i] \in Conns /\ cid[clients[i]] = i
    BY DEF IInv, TypeOK, ClientsRegistered
  <2>. QED
    BY <1>3, <1>7, <2>1 DEF ClientsRegistered
<1>13. InboxTagged' /\ MboxTagged'
  <2>1. \A q \in Range(Tail(inbox)) : Tagged(q) /\ q \in CospaceMsg
    BY HeadFacts, RangeSeq DEF IInv, InboxTagged
  <2>2. InboxTagged'
    BY <1>3, <1>7, <2>1, MsgFields DEF InboxTagged, Tagged
  <2>3. \A t \in PoolServices : \A q \in Range(mbox[t]) : Tagged(q) /\ q \in ServiceMsg
    BY RangeSeq DEF IInv, TypeOK, MboxTagged
  <2>4. MboxTagged'
    BY <1>3, <1>7, <2>3, ServiceMsgFields DEF MboxTagged, Tagged
  <2>. QED
    BY <2>2, <2>4
<1>14. GenidsPending' /\ GenidsOnce(inbox')
  <2>1. \A q \in Range(Tail(inbox)) :
          q.kind = "genid" => q \in CospaceMsg /\ q.conn # c
    BY <1>1, <1>2, HeadFacts, RangeSeq, MsgFields
  <2>2. \A q \in Range(Tail(inbox)) :
          q.kind = "genid" => upgrade[q.conn] = "asking" /\ cid[q.conn] = Nil
    BY HeadFacts DEF IInv, GenidsPending
  <2>3. GenidsPending'
    BY <1>3, <2>1, <2>2, MsgFields DEF GenidsPending
  <2>. QED
    BY <2>3, HeadFacts
<1>15. ReplyRoutedToSender'
  BY <1>3 DEF IInv, ReplyRoutedToSender
<1>. QED
  BY <1>8, <1>9, <1>10, <1>11, <1>12, <1>13, <1>14, <1>15 DEF IInv

\* The cospace actor's step, by the kind of the message it takes.
LEMMA CospaceStepStep ==
    ASSUME IInv, CospaceStep
    PROVE  IInv'
<1> DEFINE m == Head(inbox)
<1>1. inbox # <<>> /\ inbox' = Tail(inbox) /\ UNCHANGED <<sends, calls>>
  BY DEF CospaceStep
<1>2. m.kind \in {"genid", "connect", "text", "tell", "ask", "reply", "bcast",
                  "sask"}
  BY <1>1, HeadFacts, MsgFields
<1>3. CASE m.kind = "genid"
  BY <1>1, <1>3, GenidStep DEF CospaceStep
<1>4. CASE m.kind = "connect"
  BY <1>1, <1>4, ConnectStep DEF CospaceStep
<1>5. CASE m.kind \in {"text", "tell", "ask"}
  BY <1>1, <1>5, ClientMsgStep DEF CospaceStep
<1>6. CASE m.kind \in {"reply", "bcast", "sask"}
  BY <1>1, <1>6, ServiceMsgStep DEF CospaceStep
<1>. QED
  BY <1>2, <1>3, <1>4, <1>5, <1>6

LEMMA IInvStep == IInv /\ [Next]_vars => IInv'
<1> SUFFICES ASSUME IInv, [Next]_vars PROVE IInv'
  OBVIOUS
<1>1. CASE CospaceStep
  BY <1>1, CospaceStepStep
<1>2. ASSUME NEW s \in PoolServices, ServiceStep(s) PROVE IInv'
  BY <1>2, ServiceStepStep
<1>3. ASSUME NEW s \in PoolServices, ServiceCall(s) PROVE IInv'
  BY <1>3, ServiceCallStep
<1>4. ASSUME NEW c \in Conns, CreatorAsk(c) PROVE IInv'
  BY <1>4, CreatorAskStep
<1>5. ASSUME NEW c \in Conns, CreatorResume(c) PROVE IInv'
  BY <1>5, CreatorResumeStep
<1>6. ASSUME NEW c \in Conns, UpgradeResume(c) PROVE IInv'
  BY <1>6, UpgradeResumeStep
<1>7. ASSUME NEW c \in Conns, ClientText(c) \/ ClientTell(c) \/ ClientAsk(c)
      PROVE IInv'
  BY <1>7, ClientSendStep
<1>8. CASE UNCHANGED vars
  BY <1>8 DEF vars, IInv, TypeOK, CounterCounts, WaitingUnnumbered,
     IdsBelowCounter, IdsDistinct, ClientsRegistered, InboxTagged,
     GenidsPending, GenidsOnce, MboxTagged, ReplyRoutedToSender, Tagged,
     Numbered
<1>. QED
  BY <1>1, <1>2, <1>3, <1>4, <1>5, <1>6, <1>7, <1>8 DEF Next

-----------------------------------------------------------------------------
(* Theorems                                                                *)

\* Every reachable state of the cospace is well typed: in particular every
\* ClientId.id GenerateClientIdMessage hands out lies in 1 .. the number of
\* sockets, whatever that number is.
THEOREM TypeCorrect == Spec => []TypeOK
<1>1. IInv => TypeOK
  BY DEF IInv
<1>. QED
  BY <1>1, InitIInv, IInvStep, PTL DEF Spec

\* The inductive invariant cospace_pass checks: the counter counts the ids
\* handed out, ids are distinct, and the clients map and every message in
\* flight name a socket by its own id.
THEOREM IInvHolds == Spec => []IInv
BY InitIInv, IInvStep, PTL DEF Spec

\* A Mocker's reply, addressed by tell_text to the ClientId.id the service
\* got with the text, is handed by the cospace's clients map to the actor
\* of the socket that sent the text, for every number of sockets, services,
\* frames and service calls.
THEOREM ReplyRoutedToSenderHolds == Spec => []ReplyRoutedToSender
<1>1. IInv => ReplyRoutedToSender
  BY DEF IInv
<1>. QED
  BY <1>1, InitIInv, IInvStep, PTL DEF Spec

-----------------------------------------------------------------------------
(* Refinement of ClientIds                                                 *)

\* A socket without an id leaves room for one more: the counter is an id.
LEMMA CounterFree ==
    ASSUME IInv, NEW c \in Conns, cid[c] = Nil
    PROVE  counter \in Ids
<1>1. Cardinality(Numbered) < Cardinality(Conns)
  <2>1. cid \in [Conns -> Ids \cup {Nil}] /\ counter # Nil
    BY IdsNat DEF IInv, TypeOK
  <2>. QED
    BY <2>1, NumberOne DEF Numbered
<1>2. Cardinality(Numbered) \in Nat
  BY NumberedFinite DEF Numbered
<1>. QED
  BY <1>1, <1>2, IdsNat DEF IInv, CounterCounts, Ids

\* Every step hands out a fresh id to a socket that had none, or leaves
\* every id alone.
LEMMA AbsStep == IInv /\ [Next]_vars => [Abs!Next]_cid
<1> SUFFICES ASSUME IInv, [Next]_vars PROVE [Abs!Next]_cid
  OBVIOUS
<1>1. CASE CospaceStep /\ Head(inbox).kind = "genid"
  <2> DEFINE m == Head(inbox)
             c == m.conn
  <2>1. GenerateClientId(m) /\ inbox # <<>>
    BY <1>1 DEF CospaceStep
  <2>2. c \in Conns /\ cid[c] = Nil
    BY <1>1, <2>1, HeadFacts, MsgFields
  <2>3. counter \in Ids
    BY <2>2, CounterFree
  <2>4. \A d \in Conns : cid[d] # counter
    BY <2>3, IdsNat DEF IInv, TypeOK, IdsBelowCounter, Numbered
  <2>5. cid' = [cid EXCEPT ![c] = counter]
    BY <2>1 DEF GenerateClientId
  <2>6. Abs!Assign(c, counter)
    BY <2>2, <2>4, <2>5 DEF Abs!Assign
  <2>. QED
    BY <2>2, <2>3, <2>6 DEF Abs!Next
<1>2. CASE CospaceStep /\ Head(inbox).kind # "genid"
  <2>1. Head(inbox).kind \in {"connect", "text", "tell", "ask", "reply", "bcast",
                              "sask"}
    BY <1>2, HeadFacts, MsgFields DEF CospaceStep
  <2>. QED
    BY <1>2, <2>1 DEF CospaceStep, ConnectClient, HandleClientMessage,
       HandleServiceMessage
<1>3. CASE ~CospaceStep
  BY <1>3 DEF Next, vars, ServiceStep, ServiceCall, CreatorAsk, CreatorResume,
     UpgradeResume, ClientText, ClientTell, ClientAsk, SendToCospace
<1>. QED
  BY <1>1, <1>2, <1>3

\* Spec 4.5: the cospace actor implements ClientIds under ids <- cid.  Each
\* GenerateClientIdMessage gives the asking socket an id no socket holds,
\* and no handler changes or takes back an id, for every number of sockets
\* and services.
THEOREM ClientIdsRefinedHolds == Spec => ClientIdsRefined
<1>1. Init => Abs!Init
  BY DEF Init, Abs!Init
<1>. QED
  BY <1>1, InitIInv, IInvStep, AbsStep, PTL DEF Spec, ClientIdsRefined, Abs!Spec

====
