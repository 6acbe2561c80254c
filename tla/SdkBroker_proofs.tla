--------------------------- MODULE SdkBroker_proofs ---------------------------
(***************************************************************************)
(* For every number of join_session calls, pushes and texts, and every id *)
(* width wide enough for the joins: a promise of the SDK broker belongs to *)
(* the call that holds the borrow of request_id_counter, and that call is *)
(* awaiting its answer.  The proof goes through IInv, defined in SdkBroker *)
(* and checked by TLC in the run sdk_pass.                                 *)
(***************************************************************************)
EXTENDS SdkBroker, FiniteSetTheorems, TLAPS

USE BoundsAssumption, NilAssumption, DistinctAssumption

-----------------------------------------------------------------------------
(* Frames                                                                  *)

\* The counter's values up to the number of joins are request ids.
LEMMA JoinIds == \A n \in 0 .. MaxJoins : n \in Ids
<1> DEFINE N == 2^IdWidth
<1>1. N \in Nat /\ MaxJoins < N
  BY WidthAssumption
<1>. QED
  BY <1>1 DEF Ids, C!Ids

\* Request ids 0 and 1 exist for every width.
LEMMA SmallIds == 0 \in Ids /\ 1 \in Ids
<1> DEFINE N == 2^IdWidth
<1>1. N \in Nat \ {0, 1}
  BY WidthAssumption
<1>. QED
  BY <1>1 DEF Ids, C!Ids

\* The payloads of the handshake, of its answer and of a push decode.
LEMMA PayloadsDecode ==
    ASSUME NEW p \in {Ticket(j) : j \in Joins} \cup AnswerTags \cup {PushTag}
    PROVE  /\ p \in Payloads
           /\ C!Decodes(p)
BY DEF Payloads, C!Decodes

\* The envelope create_rt_message_from_service_payload builds for a payload
\* that decodes, to Connection or Core.
LEMMA RtMessage ==
    ASSUME NEW s \in {"Connection", "Core"}, NEW p \in Payloads, C!Decodes(p)
    PROVE  /\ C!CreateRtMessage(s, p) =
                 [header |-> Nil, body |-> [svc |-> s, payload |-> p]]
           /\ C!CreateRtMessage(s, p) \in C!Envelope
           /\ C!CreateRtMessage(s, p) # Nil
<1>1. C!CreateRtMessage(s, p) =
        [header |-> Nil, body |-> [svc |-> s, payload |-> p]]
  BY DEF C!CreateRtMessage, C!NoHeader
<1>2. [header |-> Nil, body |-> [svc |-> s, payload |-> p]] \in C!Envelope
  BY DEF C!Envelope, C!NoHeader, C!Body, C!BodyServices, C!Services
<1>. QED
  BY <1>1, <1>2, EnvelopeAssumption

\* The request and the response the code builds from it.
LEMMA RequestFrame ==
    ASSUME NEW i \in Ids, NEW s \in {"Connection", "Core"}, NEW p \in Payloads,
           C!Decodes(p)
    PROVE  /\ C!CreateRequestMessage(i, s, p) =
                 [header |-> [request_id |-> i, response_id |-> 0],
                  body |-> [svc |-> s, payload |-> p]]
           /\ C!CreateRequestMessage(i, s, p) \in C!Envelope
<1>1. 0 \in Ids
  BY SmallIds
<1>2. C!CreateRequestMessage(i, s, p) =
        [header |-> [request_id |-> i, response_id |-> 0],
         body |-> [svc |-> s, payload |-> p]]
  BY RtMessage DEF C!CreateRequestMessage, C!None
<1>. QED
  BY <1>1, <1>2 DEF C!Envelope, C!Header, C!Body, C!BodyServices, C!Services,
     Ids

LEMMA ResponseFrame ==
    ASSUME NEW i \in Ids, NEW s \in {"Connection", "Core"}, NEW p \in Payloads,
           C!Decodes(p)
    PROVE  /\ C!CreateResponseMessage(i, s, p) =
                 [header |-> [request_id |-> 0, response_id |-> i],
                  body |-> [svc |-> s, payload |-> p]]
           /\ C!CreateResponseMessage(i, s, p) \in C!Envelope
<1>1. 0 \in Ids
  BY SmallIds
<1>2. C!CreateResponseMessage(i, s, p) =
        [header |-> [request_id |-> 0, response_id |-> i],
         body |-> [svc |-> s, payload |-> p]]
  BY RtMessage DEF C!CreateResponseMessage, C!None
<1>. QED
  BY <1>1, <1>2 DEF C!Envelope, C!Header, C!Body, C!BodyServices, C!Services,
     Ids

\* Everything either side writes is a socket frame.
LEMMA FramesType == ClientFrames \subseteq Frames /\ ServerFrames \subseteq Frames
<1>1. ASSUME NEW i \in Ids, NEW k \in Joins
      PROVE  C!CreateRequestMessage(i, "Connection", Ticket(k)) \in Frames
  BY PayloadsDecode, RequestFrame DEF Frames
<1>2. ASSUME NEW i \in Ids, NEW k \in Joins
      PROVE  C!CreateResponseMessage(i, "Connection", AnswerTag(k)) \in Frames
  <2>1. AnswerTag(k) \in AnswerTags
    BY DEF AnswerTags
  <2>. QED
    BY <2>1, PayloadsDecode, ResponseFrame DEF Frames
<1>3. PushFrames \subseteq Frames
  BY SmallIds, PayloadsDecode, RequestFrame DEF PushFrames, Frames
<1>. QED
  BY <1>1, <1>2, <1>3 DEF ClientFrames, ServerFrames, Frames

\* A handshake request the server decodes carries a request id and the
\* ticket of a join.
LEMMA ClientDecode ==
    ASSUME NEW f \in ClientFrames, f # TextFrame,
           C!ProcessRealtimeMessage(f).kind = "Request"
    PROVE  /\ C!ProcessRealtimeMessage(f).id \in Ids
           /\ C!ProcessRealtimeMessage(f).payload[2] \in Joins
<1>1. PICK i \in Ids, k \in Joins :
        f = C!CreateRequestMessage(i, "Connection", Ticket(k))
  BY DEF ClientFrames
<1>2. f = [header |-> [request_id |-> i, response_id |-> 0],
           body |-> [svc |-> "Connection", payload |-> Ticket(k)]]
  BY <1>1, RequestFrame, PayloadsDecode
<1>3. C!ProcessRealtimeMessage(f) = C!ProcessHeaderAndMessage(f)
  BY DEF C!ProcessRealtimeMessage, C!Undefined
<1>. QED
  BY <1>2, <1>3 DEF C!ProcessHeaderAndMessage, C!ExtractServicePayload,
     C!Proto, C!Undefined, C!NoHeader, C!NoBody, Ticket

\* A response the SDK decodes is the answer to a handshake: its id is a
\* request id and its payload the answer to a ticket.
LEMMA ServerDecode ==
    ASSUME NEW f \in ServerFrames, f # TextFrame,
           C!ProcessRealtimeMessage(f).kind = "Response"
    PROVE  /\ C!ProcessRealtimeMessage(f).id \in Ids
           /\ C!ProcessRealtimeMessage(f).payload \in AnswerTags
<1>1. C!ProcessRealtimeMessage(f) = C!ProcessHeaderAndMessage(f) /\ f # Garbage
  BY DEF C!ProcessRealtimeMessage, C!DecodeFails, C!Undefined
<1>2. CASE f \in PushFrames
  <2>1. PICK i \in {0, 1} : f = C!CreateRequestMessage(i, "Core", PushTag)
    BY <1>1, <1>2 DEF PushFrames
  <2>2. f = [header |-> [request_id |-> i, response_id |-> 0],
             body |-> [svc |-> "Core", payload |-> PushTag]]
    BY <2>1, SmallIds, RequestFrame, PayloadsDecode
  <2>. QED
    BY <1>1, <2>2 DEF C!ProcessHeaderAndMessage, C!ExtractServicePayload,
       C!Proto, C!Undefined, C!NoHeader, C!NoBody
<1>3. CASE f \notin PushFrames
  <2>1. PICK i \in Ids, k \in Joins :
          f = C!CreateResponseMessage(i, "Connection", AnswerTag(k))
    BY <1>3 DEF ServerFrames
  <2>2. AnswerTag(k) \in AnswerTags
    BY DEF AnswerTags
  <2>3. f = [header |-> [request_id |-> 0, response_id |-> i],
             body |-> [svc |-> "Connection", payload |-> AnswerTag(k)]]
    BY <2>1, <2>2, ResponseFrame, PayloadsDecode
  <2>. QED
    BY <1>1, <2>2, <2>3 DEF C!ProcessHeaderAndMessage, C!ExtractServicePayload,
       C!Proto, C!Undefined, C!NoHeader, C!NoBody
<1>. QED
  BY <1>2, <1>3

-----------------------------------------------------------------------------
(* The joins that sent their handshake                                     *)

LEMMA SentFinite ==
    ASSUME NEW S \in SUBSET Joins
    PROVE  IsFiniteSet(S) /\ Cardinality(S) <= MaxJoins
<1>1. IsFiniteSet(Joins) /\ Cardinality(Joins) = MaxJoins
  BY FS_Interval DEF Joins
<1>. QED
  BY <1>1, FS_Subset

\* A step that moves join j between two states other than "awaiting", and
\* keeps its answer, keeps the set of joins that sent their handshake.
LEMMA SentPc ==
    ASSUME NEW jn \in [Joins -> [pc : JoinPc, res : AnswerTags \cup {Nil}]],
           NEW j \in Joins, NEW pc,
           jn[j].pc # "awaiting", pc # "awaiting"
    PROVE  LET jn2 == [jn EXCEPT ![j].pc = pc] IN
           {x \in Joins : jn2[x].pc = "awaiting" \/ jn2[x].res # Nil} =
           {x \in Joins : jn[x].pc = "awaiting" \/ jn[x].res # Nil}
BY Zenon

-----------------------------------------------------------------------------
(* The inductive invariant                                                 *)

LEMMA InitIInv == Init => IInv
<1> SUFFICES ASSUME Init PROVE IInv
  OBVIOUS
<1>1. Sent = {}
  BY DEF Init, Sent
<1>2. Cardinality(Sent) = 0
  BY <1>1, FS_EmptySet
<1>3. TypeOK
  BY DEF Init, TypeOK, JoinPc, Panics
<1>. QED
  BY <1>2, <1>3 DEF Init, IInv, SinglePromise, PromisesBorrowed

\* The four steps that only move a join between states before its handshake
\* (JoinStart, HostCospace, SocketRefused, and SocketOpen without the
\* connection kernel) keep the invariant.
LEMMA PcStep ==
    ASSUME IInv, NEW j \in Joins, NEW pc \in JoinPc \ {"awaiting"},
           join[j].pc \in {"idle", "hosting", "opening"},
           join' = [join EXCEPT ![j].pc = pc],
           UNCHANGED <<counter, borrow, promises, c2s, s2c, pushes, texts,
                       panicked>>,
           kernels' \subseteq Kernels, connection' \in Joins \cup {Nil},
           opened' \subseteq Joins
    PROVE  IInv'
<1>1. Sent' = Sent
  BY SentPc DEF IInv, TypeOK, Sent
<1>2. TypeOK'
  BY DEF IInv, TypeOK
<1>3. \A x \in Joins :
        join'[x].pc \in {"idle", "hosting", "opening", "refused"} => join'[x].res = Nil
  BY DEF IInv, TypeOK
<1>4. PromisesBorrowed'
  BY DEF IInv, TypeOK, PromisesBorrowed
<1>. QED
  BY <1>1, <1>2, <1>3, <1>4 DEF IInv, SinglePromise

\* send_proto_request_to_server, when no call holds the borrow: the join
\* takes the next id, which exists because every join takes one, and its
\* promise is the only one.
LEMMA RequestStep ==
    ASSUME IInv, NEW j \in Joins, join[j].pc = "opening", borrow = Nil,
           connection' = j,
           SendRequest(j, "Connection", Ticket(j)),
           UNCHANGED <<kernels, s2c, pushes, texts>>,
           opened' \subseteq Joins
    PROVE  IInv'
<1> DEFINE id == counter + 1
<1>1. j \notin Sent
  BY DEF IInv, Sent
<1>2. counter + 1 <= MaxJoins /\ counter \in Nat
  <2>1. Sent \subseteq Joins \ {j}
    BY <1>1 DEF Sent
  <2>2. IsFiniteSet(Joins) /\ Cardinality(Joins) = MaxJoins
    BY FS_Interval DEF Joins
  <2>3. IsFiniteSet(Joins \ {j}) /\ Cardinality(Joins \ {j}) = MaxJoins - 1
    BY <2>2, FS_RemoveElement
  <2>4. Cardinality(Sent) <= MaxJoins - 1
    BY <2>1, <2>3, FS_Subset
  <2>. QED
    BY <2>4 DEF IInv, TypeOK
<1>3. id \in Ids /\ id \in 1 .. MaxJoins
  BY <1>2, JoinIds
<1>4. /\ counter' = id
      /\ borrow' = j
      /\ c2s' = [c2s EXCEPT ![j] =
                   Append(@, C!CreateRequestMessage(id, "Connection", Ticket(j)))]
      /\ promises' = [promises EXCEPT ![id] = j]
      /\ join' = [join EXCEPT ![j].pc = "awaiting"]
      /\ panicked' = panicked
  BY DEF SendRequest, SetPc
<1>5. \A i \in Ids : promises[i] = Nil
  BY DEF IInv, PromisesBorrowed
<1>6. Sent' = Sent \cup {j}
  BY <1>4 DEF IInv, TypeOK, Sent
<1>7. counter' = Cardinality(Sent')
  <2>1. IsFiniteSet(Sent)
    BY SentFinite DEF Sent
  <2>. QED
    BY <1>1, <1>4, <1>6, <2>1, FS_AddElement DEF IInv
<1>8. C!CreateRequestMessage(id, "Connection", Ticket(j)) \in ClientFrames
  BY <1>3 DEF ClientFrames
<1>9. c2s' \in [Joins -> Seq(ClientFrames)] /\ c2s' \in [Joins -> Seq(Frames)]
  BY <1>4, <1>8, FramesType DEF IInv
<1>10. TypeOK'
  BY <1>3, <1>4, <1>9 DEF IInv, TypeOK, JoinPc
<1>11. SinglePromise' /\ PromisesBorrowed'
  BY <1>3, <1>4, <1>5 DEF IInv, TypeOK, SinglePromise, PromisesBorrowed
<1>12. \A x \in Joins :
         join'[x].pc \in {"idle", "hosting", "opening", "refused"} => join'[x].res = Nil
  BY <1>4 DEF IInv, TypeOK
<1>. QED
  BY <1>7, <1>9, <1>10, <1>11, <1>12 DEF IInv

\* recv_proto_res_from_server on an answer to a handshake.
LEMMA ResponseStep ==
    ASSUME IInv, NEW id \in Ids, NEW p \in AnswerTags, RecvResponse(id, p),
           UNCHANGED <<kernels, connection, counter, opened, c2s, pushes, texts,
                       panicked>>,
           s2c' \in [Joins -> Seq(ServerFrames)]
    PROVE  IInv'
<1>1. s2c' \in [Joins -> Seq(Frames)]
  BY FramesType
<1>2. CASE promises[id] = Nil
  <2>1. UNCHANGED <<promises, join, borrow>>
    BY <1>2 DEF RecvResponse
  <2>2. Sent' = Sent
    BY <2>1 DEF Sent
  <2>. QED
    BY <1>1, <2>1, <2>2 DEF IInv, TypeOK, SinglePromise, PromisesBorrowed
<1>3. CASE promises[id] # Nil
  <2> DEFINE k == promises[id]
  <2>1. k \in Joins /\ borrow = k /\ join[k].pc = "awaiting"
    BY <1>3 DEF IInv, TypeOK, PromisesBorrowed
  <2>2. /\ promises' = [promises EXCEPT ![id] = Nil]
        /\ join' = [join EXCEPT ![k] = [pc |-> "done", res |-> p]]
        /\ borrow' = Nil
    BY <1>3 DEF RecvResponse
  <2>3. \A i \in Ids : promises'[i] = Nil
    BY <1>3, <2>2 DEF IInv, TypeOK, SinglePromise
  <2>4. p # Nil
    BY DEF AnswerTags, Payloads
  <2>5. Sent' = Sent
    BY <2>1, <2>2, <2>4 DEF IInv, TypeOK, Sent
  <2>6. TypeOK'
    BY <1>1, <2>1, <2>2 DEF IInv, TypeOK, JoinPc
  <2>7. \A x \in Joins :
          join'[x].pc \in {"idle", "hosting", "opening", "refused"} => join'[x].res = Nil
    BY <2>1, <2>2 DEF IInv, TypeOK
  <2>. QED
    BY <2>3, <2>5, <2>6, <2>7 DEF IInv, SinglePromise, PromisesBorrowed
<1>. QED
  BY <1>2, <1>3

\* The socket message handler of socket j.
LEMMA RecvStep ==
    ASSUME IInv, NEW j \in Joins, ClientRecv(j)
    PROVE  IInv'
<1> DEFINE f == Head(s2c[j])
           m == IF f = TextFrame THEN [kind |-> "Text"]
                ELSE C!ProcessRealtimeMessage(f)
<1>1. s2c[j] # <<>> /\ s2c' = [s2c EXCEPT ![j] = Tail(@)]
  BY DEF ClientRecv
<1>2. f \in ServerFrames /\ s2c' \in [Joins -> Seq(ServerFrames)]
  BY <1>1 DEF IInv
<1>3. UNCHANGED <<kernels, connection, counter, opened, c2s, pushes, texts>>
  BY DEF ClientRecv
<1>4. CASE HandlerAlive(j) /\ Needs(m.kind) \subseteq kernels /\ m.kind = "Response"
  <2>1. RecvResponse(m.id, m.payload) /\ UNCHANGED panicked
    BY <1>4 DEF ClientRecv
  <2>2. f # TextFrame
    BY <1>4
  <2>3. m.id \in Ids /\ m.payload \in AnswerTags
    BY <1>2, <1>4, <2>2, ServerDecode
  <2>. QED
    BY <1>2, <1>3, <2>1, <2>3, ResponseStep
<1>5. CASE ~(HandlerAlive(j) /\ Needs(m.kind) \subseteq kernels /\ m.kind = "Response")
  <2>1. UNCHANGED <<promises, join, borrow>> /\ panicked' \in Panics
    BY <1>5 DEF ClientRecv, Panics, IInv, TypeOK
  <2>2. Sent' = Sent
    BY <2>1 DEF Sent
  <2>3. s2c' \in [Joins -> Seq(Frames)]
    BY <1>2, FramesType
  <2>. QED
    BY <1>2, <1>3, <2>1, <2>2, <2>3 DEF IInv, TypeOK, SinglePromise,
       PromisesBorrowed
<1>. QED
  BY <1>4, <1>5

\* onopen of socket j and the rest of join_session.
LEMMA OpenStep ==
    ASSUME IInv, NEW j \in Joins, SocketOpen(j)
    PROVE  IInv'
<1>1. join[j].pc = "opening" /\ connection' = j /\ opened' \subseteq Joins
      /\ UNCHANGED <<kernels, s2c, pushes, texts>>
  BY DEF SocketOpen, IInv, TypeOK
<1>2. CASE "connection" \in kernels /\ borrow = Nil
  BY <1>1, <1>2, RequestStep DEF SocketOpen, PerformTicketHandshake
<1>3. CASE "connection" \in kernels /\ borrow # Nil
  <2>1. panicked' = "borrow" /\ UNCHANGED <<counter, borrow, promises, join, c2s>>
    BY <1>3 DEF SocketOpen, PerformTicketHandshake, SendRequest
  <2>2. Sent' = Sent
    BY <2>1 DEF Sent
  <2>. QED
    BY <1>1, <2>1, <2>2 DEF IInv, TypeOK, Panics, SinglePromise,
       PromisesBorrowed
<1>4. CASE "connection" \notin kernels
  <2>1. join' = [join EXCEPT ![j].pc = "done"]
        /\ UNCHANGED <<counter, borrow, promises, c2s, panicked>>
    BY <1>4 DEF SocketOpen, SetPc
  <2>. QED
    BY <1>1, <2>1, PcStep DEF IInv, TypeOK, JoinPc
<1>. QED
  BY <1>2, <1>3, <1>4

\* The server reads the client's next frame and answers a handshake.
LEMMA AnswerStep ==
    ASSUME IInv, NEW j \in Joins, ServerAnswer(j)
    PROVE  IInv'
<1> DEFINE f == Head(c2s[j])
           m == IF f = TextFrame THEN [kind |-> "Text"]
                ELSE C!ProcessRealtimeMessage(f)
           r == C!CreateResponseMessage(m.id, "Connection", AnswerTag(m.payload[2]))
<1>1. c2s[j] # <<>> /\ c2s' = [c2s EXCEPT ![j] = Tail(@)]
      /\ UNCHANGED <<kernels, connection, counter, borrow, promises, join,
                     opened, pushes, texts, panicked>>
  BY DEF ServerAnswer
<1>2. f \in ClientFrames /\ c2s' \in [Joins -> Seq(ClientFrames)]
  BY <1>1 DEF IInv
<1>3. s2c' = IF m.kind = "Request" /\ m.svc = "Connection"
             THEN [s2c EXCEPT ![j] = Append(@, r)] ELSE s2c
  BY DEF ServerAnswer
<1>4. m.kind = "Request" /\ m.svc = "Connection" => r \in ServerFrames
  <2> SUFFICES ASSUME m.kind = "Request" PROVE r \in ServerFrames
    OBVIOUS
  <2>1. f # TextFrame
    OBVIOUS
  <2>2. m.id \in Ids /\ m.payload[2] \in Joins
    BY <1>2, <2>1, ClientDecode
  <2>. QED
    BY <2>2 DEF ServerFrames
<1>5. s2c' \in [Joins -> Seq(ServerFrames)]
  BY <1>3, <1>4 DEF IInv
<1>6. s2c' \in [Joins -> Seq(Frames)] /\ c2s' \in [Joins -> Seq(Frames)]
  BY <1>2, <1>5, FramesType
<1>7. Sent' = Sent
  BY <1>1 DEF Sent
<1>. QED
  BY <1>1, <1>2, <1>5, <1>6, <1>7 DEF IInv, TypeOK, SinglePromise,
     PromisesBorrowed

\* A push of the server.
LEMMA PushStep ==
    ASSUME IInv, NEW j \in Joins, ServerPush(j)
    PROVE  IInv'
<1>1. PICK f \in PushFrames : s2c' = [s2c EXCEPT ![j] = Append(@, f)]
  BY DEF ServerPush
<1>2. s2c' \in [Joins -> Seq(ServerFrames)]
  <2>1. f \in ServerFrames
    BY DEF ServerFrames
  <2>. QED
    BY <1>1, <2>1 DEF IInv
<1>3. s2c' \in [Joins -> Seq(Frames)]
  BY <1>2, FramesType
<1>4. pushes' \in 0 .. MaxPush
  BY DEF ServerPush, IInv, TypeOK
<1>5. UNCHANGED <<kernels, connection, counter, borrow, promises, join,
                 opened, c2s, texts, panicked>>
  BY DEF ServerPush
<1>6. Sent' = Sent
  BY <1>5 DEF Sent
<1>. QED
  BY <1>2, <1>3, <1>4, <1>5, <1>6 DEF IInv, TypeOK, SinglePromise,
     PromisesBorrowed

\* send_text_message_to_server.
LEMMA TextStep ==
    ASSUME IInv, SendText
    PROVE  IInv'
<1>1. UNCHANGED <<kernels, connection, counter, borrow, promises, join, opened,
                 s2c, pushes>> /\ texts' \in 0 .. MaxTexts /\ panicked' \in Panics
  BY DEF SendText, IInv, TypeOK, Panics
<1>2. c2s' \in [Joins -> Seq(ClientFrames)]
  <2>1. CASE connection = Nil
    BY <2>1 DEF SendText, IInv
  <2>2. CASE connection # Nil
    <3>1. TextFrame \in ClientFrames /\ connection \in Joins
      BY <2>2 DEF ClientFrames, IInv, TypeOK
    <3>2. c2s' = [c2s EXCEPT ![connection] = Append(@, TextFrame)]
      BY <2>2 DEF SendText
    <3>. QED
      BY <3>1, <3>2 DEF IInv
  <2>. QED
    BY <2>1, <2>2
<1>3. c2s' \in [Joins -> Seq(Frames)]
  BY <1>2, FramesType
<1>4. Sent' = Sent
  BY <1>1 DEF Sent
<1>. QED
  BY <1>1, <1>2, <1>3, <1>4 DEF IInv, TypeOK, SinglePromise, PromisesBorrowed

LEMMA IInvStep == IInv /\ [Next]_vars => IInv'
<1> SUFFICES ASSUME IInv, [Next]_vars PROVE IInv'
  OBVIOUS
<1>1. CASE InitKernel
  <2>1. kernels' \subseteq Kernels
    BY <1>1 DEF InitKernel, IInv, TypeOK
  <2>2. UNCHANGED <<connection, counter, borrow, promises, join, opened, c2s,
                    s2c, pushes, texts, panicked>>
    BY <1>1 DEF InitKernel
  <2>3. Sent' = Sent
    BY <2>2 DEF Sent
  <2>. QED
    BY <2>1, <2>2, <2>3 DEF IInv, TypeOK, SinglePromise, PromisesBorrowed
<1>2. CASE SendText
  BY <1>2, TextStep
<1>0. kernels \subseteq Kernels /\ connection \in Joins \cup {Nil} /\ opened \subseteq Joins
  BY DEF IInv, TypeOK
<1>3. ASSUME NEW j \in Joins, JoinStart(j)
      PROVE  IInv'
  <2>1. /\ join[j].pc = "idle" /\ join' = [join EXCEPT ![j].pc = "hosting"]
        /\ UNCHANGED <<kernels, connection, opened, counter, borrow, promises, c2s,
                       s2c, pushes, texts, panicked>>
    BY <1>3 DEF JoinStart, SetPc
  <2>2. "hosting" \in JoinPc \ {"awaiting"}
    BY DEF JoinPc
  <2>. QED
    BY <1>0, <2>1, <2>2, PcStep
<1>4. ASSUME NEW j \in Joins, HostCospace(j)
      PROVE  IInv'
  <2>1. PICK pc \in {"done", "opening"} :
          /\ join[j].pc = "hosting" /\ join' = [join EXCEPT ![j].pc = pc]
          /\ UNCHANGED <<kernels, connection, opened, counter, borrow, promises, c2s,
                       s2c, pushes, texts, panicked>>
    BY <1>4 DEF HostCospace, SetPc
  <2>2. pc \in JoinPc \ {"awaiting"}
    BY DEF JoinPc
  <2>. QED
    BY <1>0, <2>1, <2>2, PcStep
<1>5. ASSUME NEW j \in Joins, SocketRefused(j)
      PROVE  IInv'
  <2>1. /\ join[j].pc = "opening" /\ join' = [join EXCEPT ![j].pc = "refused"]
        /\ UNCHANGED <<kernels, connection, opened, counter, borrow, promises, c2s,
                       s2c, pushes, texts, panicked>>
    BY <1>5 DEF SocketRefused, SetPc
  <2>2. "refused" \in JoinPc \ {"awaiting"}
    BY DEF JoinPc
  <2>. QED
    BY <1>0, <2>1, <2>2, PcStep
<1>6. ASSUME NEW j \in Joins, SocketOpen(j) PROVE IInv'
  BY <1>6, OpenStep
<1>7. ASSUME NEW j \in Joins, ServerAnswer(j) PROVE IInv'
  BY <1>7, AnswerStep
<1>8. ASSUME NEW j \in Joins, ServerPush(j) PROVE IInv'
  BY <1>8, PushStep
<1>9. ASSUME NEW j \in Joins, ClientRecv(j) PROVE IInv'
  BY <1>9, RecvStep
<1>10. CASE UNCHANGED vars
  <2>1. Sent' = Sent
    BY <1>10 DEF vars, Sent
  <2>. QED
    BY <1>10, <2>1 DEF vars, IInv, TypeOK, SinglePromise, PromisesBorrowed
<1>. QED
  BY <1>1, <1>2, <1>3, <1>4, <1>5, <1>6, <1>7, <1>8, <1>9, <1>10 DEF Next

-----------------------------------------------------------------------------
(* Theorems                                                                *)

\* Every reachable state of the SDK broker is well typed: in particular the
\* request ids send_proto_request_to_server takes stay below 2^IdWidth, for
\* every number of join_session calls the width allows.
THEOREM TypeCorrect == Spec => []TypeOK
<1>1. IInv => TypeOK
  BY DEF IInv
<1>. QED
  BY <1>1, InitIInv, IInvStep, PTL DEF Spec

\* send_proto_request_to_server holds the counter's RefMut across its await:
\* every promise in service_promises belongs to the join_session call that
\* holds the borrow and awaits its answer, for every bound and id width.
THEOREM PromisesBorrowedHolds == Spec => []PromisesBorrowed
<1>1. IInv => PromisesBorrowed
  BY DEF IInv
<1>. QED
  BY <1>1, InitIInv, IInvStep, PTL DEF Spec

\* The inductive invariant sdk_pass checks: every frame on a socket is a
\* text, a push or a ticket handshake or its answer, the request counter
\* counts the join_session calls that sent, and at most one promise exists.
THEOREM IInvHolds == Spec => []IInv
BY InitIInv, IInvStep, PTL DEF Spec

====
