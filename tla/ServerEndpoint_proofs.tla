----------------------- MODULE ServerEndpoint_proofs -----------------------
(***************************************************************************)
(* Type correctness of the client connection endpoint for every id width  *)
(* and every bound, and, for a debug build (the counter panics instead of *)
(* wrapping), that an answer completes the promise of its own ask.  The   *)
(* correlation proof goes through IInv, defined and checked by TLC in     *)
(* ServerEndpoint.                                                        *)
(***************************************************************************)
EXTENDS ServerEndpoint, TLAPS

USE BoundsAssumption, NilAssumption

-----------------------------------------------------------------------------
(* Frames                                                                  *)

\* Text frames and raw service payloads are no envelopes.
LEMMA NotEnvelope ==
    /\ TextFrame \notin C!Envelope
    /\ \A s : RawFrame(s) \notin C!Envelope
<1>1. TextFrame \notin C!Envelope
  BY DEF TextFrame, C!Envelope
<1>2. ASSUME NEW s PROVE RawFrame(s) \notin C!Envelope
  BY DEF RawFrame, C!Envelope
<1>. QED
  BY <1>1, <1>2

\* A frame that process_realtime_message classifies as a Request or a
\* Response has a header and a body, and the message carries the body's
\* service and payload and the id of the header.
LEMMA ClassifyAnswer ==
    ASSUME NEW f \in Frames, f # TextFrame,
           Classify(f).kind \in {"Request", "Response"}
    PROVE  /\ Framed(f)
           /\ f.header \in C!Header /\ f.body \in C!Body
           /\ Classify(f).svc = f.body.svc
           /\ Classify(f).payload = f.body.payload
           /\ Classify(f).kind = "Request" =>
                 Classify(f).id = f.header.request_id /\ f.header.request_id # 0
           /\ Classify(f).kind = "Response" =>
                 Classify(f).id = f.header.response_id /\ f.header.response_id # 0
<1>2. f # Garbage
  BY DEF Classify, C!ProcessRealtimeMessage, C!DecodeFails, C!Undefined
<1>1. f \notin RawFrames
  BY <1>2 DEF Classify, C!Undefined
<1>3. f \in C!Envelope
  BY <1>1, <1>2 DEF Frames
<1>4. Classify(f) = C!ProcessHeaderAndMessage(f)
  BY <1>1, <1>2 DEF Classify, C!ProcessRealtimeMessage, C!Undefined
<1>5. f.header # Nil /\ f.body # Nil
  BY <1>4 DEF C!ProcessHeaderAndMessage, C!Undefined, C!NoHeader, C!NoBody
<1>6. f.header \in C!Header /\ f.body \in C!Body
  BY <1>3, <1>5 DEF C!Envelope, C!NoHeader, C!NoBody
<1>. QED
  BY <1>2, <1>3, <1>4, <1>5, <1>6
     DEF Framed, C!ProcessHeaderAndMessage, C!Undefined, C!NoHeader, C!NoBody,
         C!ExtractServicePayload, C!Proto

\* A frame with a header and a body has a header of two ids and a body.
LEMMA FramedParts ==
    ASSUME NEW f \in Frames, Framed(f)
    PROVE  /\ f.header \in C!Header /\ f.body \in C!Body
           /\ f.header.request_id \in Nat /\ f.header.response_id \in Nat
<1>1. f \in C!Envelope
  BY DEF Framed
<1>2. f.header \in C!Header /\ f.body \in C!Body
  BY <1>1 DEF Framed, C!Envelope, C!NoHeader, C!NoBody
<1>. QED
  BY <1>2 DEF C!Header, C!Ids

\* create_response_message_from_service_payload, when it returns a frame,
\* returns the envelope with the response id and the service's body.
LEMMA ResponseFrame ==
    ASSUME NEW i \in Ids, NEW s \in C!Services, NEW p \in Payloads,
           C!CreateResponseMessage(i, s, p) # Nil
    PROVE  /\ C!CreateResponseMessage(i, s, p) =
                 [header |-> [request_id |-> 0, response_id |-> i],
                  body |-> [svc |-> s, payload |-> p]]
           /\ C!CreateResponseMessage(i, s, p) \in C!Envelope
<1>1. s \in {"Connection", "Core"} /\ p # Malformed
  BY DEF C!CreateResponseMessage, C!CreateRtMessage, C!None, C!Decodes
<1>2. 0 \in Ids
  BY WidthAssumption DEF Ids, C!Ids
<1>. QED
  BY <1>1, <1>2 DEF C!CreateResponseMessage, C!CreateRtMessage, C!None,
     C!Decodes, C!NoHeader, C!Envelope, C!Header, C!Body, C!BodyServices,
     C!Services, Ids

\* The same for create_request_message_from_service_payload.
LEMMA RequestFrame ==
    ASSUME NEW i \in Ids, NEW s \in C!Services, NEW p \in Payloads,
           C!CreateRequestMessage(i, s, p) # Nil
    PROVE  /\ C!CreateRequestMessage(i, s, p) =
                 [header |-> [request_id |-> i, response_id |-> 0],
                  body |-> [svc |-> s, payload |-> p]]
           /\ C!CreateRequestMessage(i, s, p) \in C!Envelope
<1>1. s \in {"Connection", "Core"} /\ p # Malformed
  BY DEF C!CreateRequestMessage, C!CreateRtMessage, C!None, C!Decodes
<1>2. 0 \in Ids
  BY WidthAssumption DEF Ids, C!Ids
<1>. QED
  BY <1>1, <1>2 DEF C!CreateRequestMessage, C!CreateRtMessage, C!None,
     C!Decodes, C!NoHeader, C!Envelope, C!Header, C!Body, C!BodyServices,
     C!Services, Ids

-----------------------------------------------------------------------------
(* Type correctness                                                        *)

LEMMA TypeInit == Init => TypeOK
<1> SUFFICES ASSUME Init PROVE TypeOK
  OBVIOUS
<1>1. 0 \in Ids
  BY WidthAssumption DEF Ids, C!Ids
<1>2. [st |-> "idle", ans |-> Nil] \in AskState
  BY DEF AskState
<1>3. [st |-> "idle", ans |-> Nil] \in ReqState
  BY DEF ReqState
<1>4. 0 \in 0 .. MaxTells /\ 0 \in 0 .. MaxAnswers /\ 0 \in 0 .. MaxNoise
  BY BoundsAssumption
<1>5. c2s \in Seq(Frames) /\ s2c \in Seq(Frames)
  BY DEF Init
<1>6. promises \in [Ids -> AskTags \cup {Nil}] /\ counter \in Ids
  BY <1>1 DEF Init
<1>7. ask \in [AskTags -> AskState] /\ askId \in [AskTags -> Ids \cup {Nil}]
  BY <1>2 DEF Init
<1>8. req \in [ReqTags -> ReqState]
  BY <1>3 DEF Init
<1>. QED
  BY <1>4, <1>5, <1>6, <1>7, <1>8 DEF Init, TypeOK

\* The message the actor takes from its mailbox is a frame, and what is
\* left is a sequence of frames.
LEMMA RecvType ==
    ASSUME TypeOK, Recv
    PROVE  Head(c2s) \in Frames /\ c2s' \in Seq(Frames)
BY DEF TypeOK, Recv

\* A request the actor or the peer decodes has an id, a service with a
\* body and a payload.
LEMMA RequestType ==
    ASSUME NEW f \in Frames, f # TextFrame, Classify(f).kind = "Request"
    PROVE  [id |-> Classify(f).id, svc |-> Classify(f).svc,
            payload |-> Classify(f).payload] \in Task
BY ClassifyAnswer DEF Task, PeerReq, C!Header, C!Body, Ids

\* A response the actor or the peer decodes has an id and a payload.
LEMMA ResponseType ==
    ASSUME NEW f \in Frames, f # TextFrame, Classify(f).kind = "Response"
    PROVE  Classify(f).id \in Ids \ {0} /\ Classify(f).payload \in Payloads
BY ClassifyAnswer DEF C!Header, C!Body, Ids

LEMMA TypeStep == TypeOK /\ [Next]_vars => TypeOK'
<1> SUFFICES ASSUME TypeOK, [Next]_vars PROVE TypeOK'
  OBVIOUS
<1>1. CASE SrvRecvText \/ SrvRecvTell \/ SrvRecvUndefined
  BY <1>1, RecvType DEF SrvRecvText, SrvRecvTell, SrvRecvUndefined, TypeOK,
     srvVars, peerVars
<1>2. CASE SrvRecvRequest
  BY <1>2, RecvType, RequestType DEF SrvRecvRequest, InMsg, TypeOK, peerVars
<1>3. CASE SrvRecvResponse
  <2>1. Head(c2s) \in Frames /\ c2s' \in Seq(Frames)
    BY <1>3, RecvType DEF SrvRecvResponse
  <2>2. InMsg.id \in Ids /\ InMsg.payload \in Payloads
    BY <1>3, <2>1, ResponseType DEF SrvRecvResponse, InMsg
  <2>3. [st |-> "done", ans |-> InMsg.payload] \in AskState
    BY <2>2 DEF AskState
  <2>4. promises[InMsg.id] \in AskTags \cup {Nil}
    BY <2>2 DEF TypeOK
  <2>5. CASE promises[InMsg.id] # Nil
    <3>1. promises' = [promises EXCEPT ![InMsg.id] = Nil]
          /\ ask' = [ask EXCEPT ![promises[InMsg.id]] =
                                  [st |-> "done", ans |-> InMsg.payload]]
      BY <1>3, <2>5 DEF SrvRecvResponse
    <3>2. promises' \in [Ids -> AskTags \cup {Nil}]
      BY <3>1, <2>2 DEF TypeOK
    <3>3. ask' \in [AskTags -> AskState]
      BY <3>1, <2>3, <2>4, <2>5 DEF TypeOK
    <3>. QED
      BY <1>3, <2>1, <3>2, <3>3 DEF SrvRecvResponse, TypeOK, peerVars
  <2>6. CASE promises[InMsg.id] = Nil
    BY <1>3, <2>1, <2>6 DEF SrvRecvResponse, TypeOK, peerVars
  <2>. QED
    BY <2>5, <2>6
<1>4. CASE TaskAnswer
  <2>1. PICK t \in tasks, answered \in BOOLEAN :
           /\ tasks' = tasks \ {t}
           /\ LET frame == C!CreateResponseMessage(t.id, t.svc, t.payload) IN
              s2c' = IF answered /\ frame # Nil THEN Append(s2c, frame) ELSE s2c
           /\ UNCHANGED <<c2s, counter, alive, promises, registered, ask, askId,
                          tells, routed, peerVars>>
    BY <1>4 DEF TaskAnswer
  <2>2. C!CreateResponseMessage(t.id, t.svc, t.payload) \in Frames \cup {Nil}
    BY ResponseFrame DEF TypeOK, Task, Frames, C!BodyServices
  <2>. QED
    BY <2>1, <2>2 DEF TypeOK, peerVars
<1>5. CASE CospaceConnect
  BY <1>5 DEF CospaceConnect, TypeOK, peerVars
<1>14. CASE AskUnrouted
  <2>1. PICK a \in AskTags :
           /\ ask' = [ask EXCEPT ![a] = Resolve(a)]
           /\ UNCHANGED <<c2s, s2c, counter, alive, promises, tasks, registered,
                          askId, tells, routed, peerVars>>
    BY <1>14 DEF AskUnrouted
  <2>2. Resolve(a) \in AskState
    BY DEF Resolve, AskState
  <2>. QED
    BY <2>1, <2>2 DEF TypeOK, peerVars
<1>6. CASE AskOverflowPanic
  <2>1. PICK a \in AskTags :
           /\ alive' = FALSE
           /\ promises' = [i \in Ids |-> Nil]
           /\ ask' = [b \in AskTags |->
                        IF b = a \/ ask[b].st = "pending" THEN Resolve(b) ELSE ask[b]]
           /\ UNCHANGED <<c2s, s2c, counter, tasks, registered, askId, tells,
                          routed, peerVars>>
    BY <1>6 DEF AskOverflowPanic
  <2>2. \A b \in AskTags : Resolve(b) \in AskState
    BY DEF Resolve, AskState
  <2>3. ask' \in [AskTags -> AskState]
    BY <2>1, <2>2 DEF TypeOK
  <2>. QED
    BY <2>1, <2>3 DEF TypeOK, peerVars
<1>7. ASSUME NEW a \in AskTags, NEW s \in AskSenders, ServiceAsk(a, s)
       PROVE TypeOK'
  <2> DEFINE frame == C!CreateRequestMessage(counter, s, a)
  <2>1. counter' \in Ids /\ askId' \in [AskTags -> Ids \cup {Nil}]
    <3>1. counter' = (counter + 1) % 2^IdWidth /\ askId' = [askId EXCEPT ![a] = counter]
      BY <1>7 DEF ServiceAsk
    <3>2. counter' \in Ids
      <4> DEFINE N == 2^IdWidth
      <4>1. N \in Nat \ {0} /\ counter \in 0 .. N - 1
        BY WidthAssumption DEF TypeOK, Ids, C!Ids
      <4>2. (counter + 1) % N \in 0 .. N - 1
        BY <4>1
      <4>. QED
        BY <3>1, <4>2 DEF Ids, C!Ids
    <3>. QED
      BY <3>1, <3>2 DEF TypeOK
  <2>2. Resolve(a) \in AskState /\ [st |-> "pending", ans |-> Nil] \in AskState
    BY DEF Resolve, AskState
  <2>3. CASE frame = Nil
    BY <1>7, <2>1, <2>2, <2>3 DEF ServiceAsk, TypeOK, peerVars
  <2>4. CASE frame # Nil
    <3>1. frame \in Frames
      BY <2>4, RequestFrame, ServicesAssumption DEF TypeOK, Frames, Payloads
    <3>2. s2c' = Append(s2c, frame) /\ promises' = [promises EXCEPT ![counter] = a]
      BY <1>7, <2>4 DEF ServiceAsk
    <3>3. ask' \in [AskTags -> AskState]
      BY <1>7, <2>4, <2>2 DEF ServiceAsk, TypeOK, Resolve, AskState
    <3>. QED
      BY <1>7, <2>1, <3>1, <3>2, <3>3 DEF ServiceAsk, TypeOK, peerVars
  <2>. QED
    BY <2>3, <2>4
<1>8. CASE ServiceTell
  <2>1. PICK f \in {TextFrame} \cup {RawFrame(x) : x \in AskSenders} :
           /\ tells < MaxTells
           /\ tells' = tells + 1
           /\ s2c' = Append(s2c, f)
           /\ UNCHANGED <<c2s, counter, alive, promises, tasks, registered, ask,
                          askId, routed, peerVars>>
    BY <1>8 DEF ServiceTell
  <2>2. f \in Frames
    BY ServicesAssumption DEF Frames, RawFrames
  <2>. QED
    BY <2>1, <2>2 DEF TypeOK, peerVars
<1>9. CASE PeerRequest
  <2>1. PICK k \in 1 .. MaxReqs, s \in PeerServices \cup {"Connection"} :
           /\ req[ReqTag(k)].st = "idle"
           /\ req' = [req EXCEPT ![ReqTag(k)].st = "sent"]
           /\ LET frame == C!CreateRequestMessage(k, s, ReqTag(k)) IN
              c2s' = IF frame = Nil THEN c2s ELSE Append(c2s, frame)
           /\ UNCHANGED <<s2c, srvVars, peerReqs, answers, noise>>
    BY <1>9 DEF PeerRequest
  <2>2. k \in Ids /\ ReqTag(k) \in ReqTags /\ ReqTag(k) \in Payloads
    <3>1. k \in Ids
      <4> DEFINE N == 2^IdWidth
      <4>1. N \in Nat /\ MaxReqs < N
        BY WidthAssumption
      <4>2. k \in 0 .. N - 1
        BY <4>1
      <4>. QED
        BY <4>2 DEF Ids, C!Ids
    <3>2. ReqTag(k) \in ReqTags
      BY DEF ReqTags
    <3>. QED
      BY <3>1, <3>2 DEF Payloads
  <2>3. s \in C!Services
    BY ServicesAssumption DEF C!BodyServices, C!Services
  <2>4. C!CreateRequestMessage(k, s, ReqTag(k)) \in Frames \cup {Nil}
    BY <2>2, <2>3, RequestFrame DEF Frames
  <2>5. req' \in [ReqTags -> ReqState]
    BY <2>1, <2>2 DEF TypeOK, ReqState
  <2>. QED
    BY <2>1, <2>4, <2>5 DEF TypeOK, srvVars
<1>10. CASE PeerRecv
  <2> DEFINE f == Head(s2c)
             m == IF f = TextFrame THEN C!Undefined ELSE Classify(f)
  <2>1. s2c # <<>> /\ s2c' = Tail(s2c)
    BY <1>10 DEF PeerRecv
  <2>7. /\ peerReqs' = IF m.kind = "Request"
                       THEN peerReqs \cup {[id |-> m.id, svc |-> m.svc, payload |-> m.payload]}
                       ELSE peerReqs
        /\ req' = IF m.kind = "Response" /\ m.id \in 1 .. MaxReqs
                     /\ req[ReqTag(m.id)].st = "sent"
                  THEN [req EXCEPT ![ReqTag(m.id)] = [st |-> "done", ans |-> m.payload]]
                  ELSE req
    BY <1>10 DEF PeerRecv
  <2>8. UNCHANGED <<c2s, srvVars, answers, noise>>
    BY <1>10 DEF PeerRecv
  <2>2. f \in Frames /\ s2c' \in Seq(Frames)
    BY <2>1 DEF TypeOK
  <2>3. m.kind = "Request" =>
          [id |-> m.id, svc |-> m.svc, payload |-> m.payload] \in PeerReq
    BY <2>2, RequestType DEF C!Undefined, Task, PeerReq
  <2>4. m.kind = "Response" => m.payload \in Payloads
    BY <2>2, ResponseType DEF C!Undefined
  <2>5. peerReqs' \subseteq PeerReq
    BY <2>7, <2>3 DEF TypeOK
  <2>6. req' \in [ReqTags -> ReqState]
    BY <2>7, <2>4 DEF TypeOK, ReqState, ReqTags
  <2>. QED
    BY <2>2, <2>5, <2>6, <2>8 DEF TypeOK, srvVars
<1>11. CASE PeerAnswer
  <2>1. PICK r \in peerReqs :
           /\ answers < MaxAnswers
           /\ answers' = answers + 1
           /\ LET frame == C!CreateResponseMessage(r.id, r.svc, r.payload) IN
              c2s' = IF frame = Nil THEN c2s ELSE Append(c2s, frame)
           /\ UNCHANGED <<s2c, srvVars, req, peerReqs, noise>>
    BY <1>11 DEF PeerAnswer
  <2>2. C!CreateResponseMessage(r.id, r.svc, r.payload) \in Frames \cup {Nil}
    BY ResponseFrame DEF TypeOK, PeerReq, Frames, C!BodyServices
  <2>. QED
    BY <2>1, <2>2 DEF TypeOK, srvVars
<1>12. CASE PeerNoise
  <2>1. /\ 0 \in Ids
        /\ Malformed \in Payloads /\ ReqTag(1) \in Payloads
        /\ "Core" \in C!BodyServices
    BY WidthAssumption DEF Ids, C!Ids, Payloads, ReqTags, C!BodyServices,
       C!Services
  <2>2. \A p \in {Malformed, ReqTag(1)} :
          [header |-> [request_id |-> 0, response_id |-> 0],
           body |-> [svc |-> "Core", payload |-> p]] \in Frames
    BY <2>1 DEF Frames, C!Envelope, C!Header, C!Body, Ids
  <2>3. TextFrame \in Frames /\ Garbage \in Frames
    BY DEF Frames
  <2>. QED
    BY <1>12, <2>2, <2>3 DEF PeerNoise, TypeOK, srvVars
<1>13. CASE UNCHANGED vars
  BY <1>13 DEF vars, srvVars, peerVars, TypeOK
<1>. QED
  BY <1>1, <1>2, <1>3, <1>4, <1>5, <1>6, <1>7, <1>8, <1>9, <1>10, <1>11,
     <1>12, <1>13, <1>14 DEF Next, ServerNext, PeerNext

\* Type correctness, for every width and every bound.
THEOREM TypeCorrect == Spec => []TypeOK
BY TypeInit, TypeStep, PTL DEF Spec

-----------------------------------------------------------------------------
(* Correlation of asks and answers in a debug build                        *)

\* What is left of a FIFO channel after its head is taken.
LEMMA TailElems ==
    ASSUME NEW S, NEW s \in Seq(S), s # <<>>
    PROVE  /\ Tail(s) \in Seq(S)
           /\ Len(Tail(s)) = Len(s) - 1
           /\ \A i \in 1 .. Len(Tail(s)) : Tail(s)[i] = s[i + 1]
OBVIOUS

\* A FIFO channel after a frame is put on it.
LEMMA AppendElems ==
    ASSUME NEW S, NEW s \in Seq(S), NEW x
    PROVE  /\ Len(Append(s, x)) = Len(s) + 1
           /\ \A i \in 1 .. Len(s) : Append(s, x)[i] = s[i]
           /\ Append(s, x)[Len(s) + 1] = x
OBVIOUS

\* The conjuncts about asks, ids and promises hold in any step that leaves
\* those alone.
LEMMA AsksStable ==
    ASSUME IInv, UNCHANGED <<counter, promises, ask, askId>>
    PROVE  (IdsBelowCounter /\ IdleUnnumbered /\ IdsDistinct /\ PromisesFiled
            /\ AskAnswerCorrelated)'
BY DEF IInv, IdsBelowCounter, IdleUnnumbered, IdsDistinct, PromisesFiled,
   AskAnswerCorrelated

\* A channel or the peer's requests left alone keep their conjunct.
LEMMA ChannelsStable ==
    ASSUME IInv, UNCHANGED askId
    PROVE  /\ UNCHANGED c2s => ResponsesInFlight'
           /\ UNCHANGED s2c => RequestsInFlight'
           /\ UNCHANGED peerReqs => PeerRequestsOK'
BY DEF IInv, ResponsesInFlight, RequestsInFlight, PeerRequestsOK, ResponseOK,
   RequestOK, Framed

\* Taking the head of a channel keeps its conjunct.
LEMMA TailStable ==
    ASSUME IInv, UNCHANGED askId
    PROVE  /\ c2s # <<>> /\ c2s' = Tail(c2s) => ResponsesInFlight'
           /\ s2c # <<>> /\ s2c' = Tail(s2c) => RequestsInFlight'
<1>1. ASSUME c2s # <<>>, c2s' = Tail(c2s) PROVE ResponsesInFlight'
  <2>1. \A i \in 1 .. Len(c2s') : c2s'[i] = c2s[i + 1] /\ i + 1 \in 1 .. Len(c2s)
    BY <1>1, TailElems DEF IInv, TypeOK
  <2>. QED
    BY <2>1 DEF IInv, ResponsesInFlight, ResponseOK, Framed
<1>2. ASSUME s2c # <<>>, s2c' = Tail(s2c) PROVE RequestsInFlight'
  <2>1. \A i \in 1 .. Len(s2c') : s2c'[i] = s2c[i + 1] /\ i + 1 \in 1 .. Len(s2c)
    BY <1>2, TailElems DEF IInv, TypeOK
  <2>. QED
    BY <2>1 DEF IInv, RequestsInFlight, RequestOK, Framed
<1>. QED
  BY <1>1, <1>2

LEMMA IInvInit == Init => IInv
BY TypeInit DEF Init, IInv, IdsBelowCounter, IdleUnnumbered, IdsDistinct,
   PromisesFiled, ResponsesInFlight, RequestsInFlight, PeerRequestsOK,
   AskAnswerCorrelated

\* The actor's receive steps: a Text, a Tell, an Undefined frame or a
\* request leave asks and promises alone.
LEMMA RecvOtherStep ==
    ASSUME IInv, SrvRecvText \/ SrvRecvTell \/ SrvRecvUndefined \/ SrvRecvRequest
    PROVE  IInv'
<1>1. TypeOK'
  BY TypeStep DEF IInv, Next, ServerNext
<1>2. c2s # <<>> /\ c2s' = Tail(c2s)
      /\ UNCHANGED <<s2c, counter, promises, ask, askId, peerReqs>>
  BY DEF SrvRecvText, SrvRecvTell, SrvRecvUndefined, SrvRecvRequest, Recv,
     srvVars, peerVars
<1>. QED
  BY <1>1, <1>2, AsksStable, ChannelsStable, TailStable DEF IInv

\* recv_proto_res_from_client completes the promise filed under the
\* response id with the payload: the ask whose tag the answer echoes.
LEMMA RecvResponseStep ==
    ASSUME IInv, SrvRecvResponse
    PROVE  IInv'
<1> DEFINE f == Head(c2s)
           id == InMsg.id
           a == promises[id]
<1>1. TypeOK'
  BY TypeStep DEF IInv, Next, ServerNext
<1>2. c2s # <<>> /\ c2s' = Tail(c2s) /\ f # TextFrame /\ InMsg.kind = "Response"
      /\ UNCHANGED <<s2c, counter, askId, peerReqs>>
  BY DEF SrvRecvResponse, Recv, srvVars, peerVars
<1>3. (ResponsesInFlight /\ RequestsInFlight /\ PeerRequestsOK)'
  BY <1>2, ChannelsStable, TailStable
<1>4. CASE a = Nil
  <2>1. UNCHANGED <<promises, ask>>
    BY <1>4 DEF SrvRecvResponse
  <2>. QED
    BY <1>1, <1>2, <1>3, <2>1, AsksStable DEF IInv
<1>5. CASE a # Nil
  <2>1. f \in Frames
    BY <1>2 DEF IInv, TypeOK
  <2>2. /\ Framed(f) /\ f.header.response_id # 0
        /\ id = f.header.response_id /\ InMsg.payload = f.body.payload
        /\ id \in Ids
    <3>1. Classify(f).kind \in {"Request", "Response"}
      BY <1>2 DEF InMsg
    <3>2. f.header \in C!Header /\ Classify(f).kind = "Response"
      BY <1>2, <2>1, <3>1, ClassifyAnswer DEF InMsg
    <3>. QED
      BY <1>2, <2>1, <3>1, <3>2, ClassifyAnswer DEF InMsg, C!Header, Ids
  <2>3. ResponseOK(f)
    BY <1>2 DEF IInv, ResponsesInFlight, TypeOK
  <2>4. InMsg.payload \in AskTags /\ askId[InMsg.payload] = id
    BY <2>2, <2>3 DEF ResponseOK
  <2>5. a \in AskTags /\ askId[a] = id
    BY <1>5, <2>2 DEF IInv, PromisesFiled, TypeOK
  <2>6. InMsg.payload = a
    <3>1. askId[a] # Nil
      BY <2>2, <2>5 DEF Ids, C!Ids
    <3>. QED
      BY <2>4, <2>5, <3>1 DEF IInv, IdsDistinct
  <2>7. /\ promises' = [promises EXCEPT ![id] = Nil]
        /\ ask' = [ask EXCEPT ![a] = [st |-> "done", ans |-> InMsg.payload]]
    BY <1>5 DEF SrvRecvResponse
  <2>8. PromisesFiled'
    BY <1>2, <2>7 DEF IInv, PromisesFiled, TypeOK
  <2>9. (IdsBelowCounter /\ IdleUnnumbered /\ IdsDistinct)'
    BY <1>2, <2>5, <2>7 DEF IInv, IdsBelowCounter, IdleUnnumbered,
       IdsDistinct, TypeOK
  <2>10. AskAnswerCorrelated'
    BY <2>5, <2>6, <2>7 DEF IInv, AskAnswerCorrelated, TypeOK
  <2>. QED
    BY <1>1, <1>3, <2>8, <2>9, <2>10 DEF IInv
<1>. QED
  BY <1>4, <1>5

\* A frame sent to the peer that carries no request id keeps
\* RequestsInFlight, and one sent by the peer that carries no response id
\* keeps ResponsesInFlight.
LEMMA AppendStable ==
    ASSUME IInv, UNCHANGED askId
    PROVE  /\ \A x : RequestOK(x) /\ s2c' = Append(s2c, x) => RequestsInFlight'
           /\ \A x : ResponseOK(x) /\ c2s' = Append(c2s, x) => ResponsesInFlight'
<1>1. ASSUME NEW x, RequestOK(x), s2c' = Append(s2c, x) PROVE RequestsInFlight'
  <2>1. /\ Len(s2c') = Len(s2c) + 1
        /\ \A i \in 1 .. Len(s2c) : s2c'[i] = s2c[i]
        /\ s2c'[Len(s2c) + 1] = x
    BY <1>1, AppendElems DEF IInv, TypeOK
  <2>2. ASSUME NEW i \in 1 .. Len(s2c') PROVE RequestOK(s2c[i])'
    <3>1. CASE i \in 1 .. Len(s2c)
      BY <2>1, <3>1 DEF IInv, RequestsInFlight, RequestOK, Framed
    <3>2. CASE i = Len(s2c) + 1
      BY <1>1, <2>1, <3>2 DEF RequestOK, Framed
    <3>3. i \in 1 .. Len(s2c) \/ i = Len(s2c) + 1
      BY <2>1 DEF IInv, TypeOK
    <3>. QED
      BY <3>1, <3>2, <3>3
  <2>. QED
    BY <2>2 DEF RequestsInFlight
<1>2. ASSUME NEW x, ResponseOK(x), c2s' = Append(c2s, x) PROVE ResponsesInFlight'
  <2>1. /\ Len(c2s') = Len(c2s) + 1
        /\ \A i \in 1 .. Len(c2s) : c2s'[i] = c2s[i]
        /\ c2s'[Len(c2s) + 1] = x
    BY <1>2, AppendElems DEF IInv, TypeOK
  <2>2. ASSUME NEW i \in 1 .. Len(c2s') PROVE ResponseOK(c2s[i])'
    <3>1. CASE i \in 1 .. Len(c2s)
      BY <2>1, <3>1 DEF IInv, ResponsesInFlight, ResponseOK, Framed
    <3>2. CASE i = Len(c2s) + 1
      BY <1>2, <2>1, <3>2 DEF ResponseOK, Framed
    <3>3. i \in 1 .. Len(c2s) \/ i = Len(c2s) + 1
      BY <2>1 DEF IInv, TypeOK
    <3>. QED
      BY <3>1, <3>2, <3>3
  <2>. QED
    BY <2>2 DEF ResponsesInFlight
<1>. QED
  BY <1>1, <1>2

\* A spawned task's answer is a Response: it carries no request id.
LEMMA TaskAnswerStep ==
    ASSUME IInv, TaskAnswer
    PROVE  IInv'
<1>1. TypeOK'
  BY TypeStep DEF IInv, Next, ServerNext
<1>2. PICK t \in tasks, answered \in BOOLEAN :
         /\ LET frame == C!CreateResponseMessage(t.id, t.svc, t.payload) IN
            s2c' = IF answered /\ frame # Nil THEN Append(s2c, frame) ELSE s2c
         /\ UNCHANGED <<c2s, counter, promises, ask, askId, peerVars>>
  BY DEF TaskAnswer
<1>3. RequestsInFlight'
  <2> DEFINE frame == C!CreateResponseMessage(t.id, t.svc, t.payload)
  <2>1. CASE answered /\ frame # Nil
    <3>1. frame.header.request_id = 0
      BY <2>1, ResponseFrame DEF IInv, TypeOK, Task, C!BodyServices
    <3>. QED
      BY <1>2, <2>1, <3>1, AppendStable DEF RequestOK
  <2>2. CASE ~(answered /\ frame # Nil)
    BY <1>2, <2>2, ChannelsStable
  <2>. QED
    BY <2>1, <2>2
<1>. QED
  BY <1>1, <1>2, <1>3, AsksStable, ChannelsStable DEF IInv, peerVars

\* The cospace's Connect touches no ask.
LEMMA ConnectStep ==
    ASSUME IInv, CospaceConnect
    PROVE  IInv'
<1>1. TypeOK'
  BY TypeStep DEF IInv, Next, ServerNext
<1>2. UNCHANGED <<c2s, s2c, counter, promises, ask, askId, peerReqs>>
  BY DEF CospaceConnect, peerVars
<1>. QED
  BY <1>1, <1>2, AsksStable, ChannelsStable DEF IInv

\* An ask with no route resolves None and gets no id.
LEMMA AskUnroutedStep ==
    ASSUME IInv, AskUnrouted
    PROVE  IInv'
<1>1. TypeOK'
  BY TypeStep DEF IInv, Next, ServerNext
<1>2. PICK a \in AskTags :
         /\ ask' = [ask EXCEPT ![a] = Resolve(a)]
         /\ UNCHANGED <<c2s, s2c, counter, promises, askId, peerReqs>>
  BY DEF AskUnrouted, peerVars
<1>3. (IdsBelowCounter /\ IdleUnnumbered /\ IdsDistinct /\ PromisesFiled
       /\ AskAnswerCorrelated)'
  BY <1>2 DEF IInv, TypeOK, Resolve, IdsBelowCounter, IdleUnnumbered,
     IdsDistinct, PromisesFiled, AskAnswerCorrelated
<1>. QED
  BY <1>1, <1>2, <1>3, ChannelsStable DEF IInv

\* The panic drops every promise and resolves the pending asks None.
LEMMA OverflowPanicStep ==
    ASSUME IInv, AskOverflowPanic
    PROVE  IInv'
<1>1. TypeOK'
  BY TypeStep DEF IInv, Next, ServerNext
<1>2. PICK a \in AskTags :
         /\ promises' = [i \in Ids |-> Nil]
         /\ ask' = [b \in AskTags |->
                      IF b = a \/ ask[b].st = "pending" THEN Resolve(b) ELSE ask[b]]
         /\ UNCHANGED <<c2s, s2c, counter, askId, peerReqs>>
  BY DEF AskOverflowPanic, peerVars
<1>3. (IdsBelowCounter /\ IdleUnnumbered /\ IdsDistinct /\ PromisesFiled
       /\ AskAnswerCorrelated)'
  BY <1>2 DEF IInv, TypeOK, Resolve, IdsBelowCounter, IdleUnnumbered,
     IdsDistinct, PromisesFiled, AskAnswerCorrelated
<1>. QED
  BY <1>1, <1>2, <1>3, ChannelsStable DEF IInv

\* A service's Tell puts a Text frame or raw bytes on the socket: neither
\* is an envelope with a request id.
LEMMA ServiceTellStep ==
    ASSUME IInv, ServiceTell
    PROVE  IInv'
<1>1. TypeOK'
  BY TypeStep DEF IInv, Next, ServerNext
<1>2. PICK f \in {TextFrame} \cup {RawFrame(x) : x \in AskSenders} :
         /\ s2c' = Append(s2c, f)
         /\ UNCHANGED <<c2s, counter, promises, ask, askId, peerVars>>
  BY DEF ServiceTell
<1>3. RequestOK(f)
  BY NotEnvelope DEF RequestOK, Framed
<1>. QED
  BY <1>1, <1>2, <1>3, AsksStable, ChannelsStable, AppendStable DEF IInv,
     peerVars

\* The peer's own request carries no response id.
LEMMA PeerRequestStep ==
    ASSUME IInv, PeerRequest
    PROVE  IInv'
<1>1. TypeOK'
  BY TypeStep DEF IInv, Next, PeerNext
<1>2. PICK k \in 1 .. MaxReqs, s \in PeerServices \cup {"Connection"} :
         /\ LET frame == C!CreateRequestMessage(k, s, ReqTag(k)) IN
            c2s' = IF frame = Nil THEN c2s ELSE Append(c2s, frame)
         /\ UNCHANGED <<s2c, counter, promises, ask, askId, peerReqs>>
  BY DEF PeerRequest, srvVars
<1>3. ResponsesInFlight'
  <2> DEFINE frame == C!CreateRequestMessage(k, s, ReqTag(k))
  <2>1. CASE frame # Nil
    <3>1. k \in Ids /\ ReqTag(k) \in Payloads /\ s \in C!Services
      <4> DEFINE N == 2^IdWidth
      <4>1. N \in Nat /\ MaxReqs < N
        BY WidthAssumption
      <4>2. k \in 0 .. N - 1
        BY <4>1
      <4>. QED
        BY <4>2, ServicesAssumption DEF Ids, C!Ids, ReqTags, Payloads,
           C!BodyServices, C!Services
    <3>2. frame.header.response_id = 0
      BY <2>1, <3>1, RequestFrame
    <3>. QED
      BY <1>2, <2>1, <3>2, AppendStable DEF ResponseOK
  <2>2. CASE frame = Nil
    BY <1>2, <2>2, ChannelsStable
  <2>. QED
    BY <2>1, <2>2
<1>. QED
  BY <1>1, <1>2, <1>3, AsksStable, ChannelsStable DEF IInv

\* The peer remembers a request it reads with the id the frame carries.
LEMMA PeerRecvStep ==
    ASSUME IInv, PeerRecv
    PROVE  IInv'
<1> DEFINE f == Head(s2c)
           m == IF f = TextFrame THEN C!Undefined ELSE Classify(f)
<1>1. TypeOK'
  BY TypeStep DEF IInv, Next, PeerNext
<1>2. /\ s2c # <<>> /\ s2c' = Tail(s2c)
      /\ peerReqs' = IF m.kind = "Request"
                     THEN peerReqs \cup {[id |-> m.id, svc |-> m.svc, payload |-> m.payload]}
                     ELSE peerReqs
      /\ UNCHANGED <<c2s, counter, promises, ask, askId>>
  BY DEF PeerRecv, srvVars
<1>3. PeerRequestsOK'
  <2>1. CASE m.kind = "Request"
    <3>1. f \in Frames /\ f # TextFrame /\ Classify(f).kind = "Request"
      BY <1>2, <2>1 DEF IInv, TypeOK, C!Undefined
    <3>2. Framed(f) /\ f.header.request_id # 0
          /\ m.id = f.header.request_id /\ m.payload = f.body.payload
      BY <3>1, ClassifyAnswer
    <3>3. RequestOK(f)
      <4>1. s2c \in Seq(Frames) /\ Len(s2c) >= 1
        BY <1>2 DEF IInv, TypeOK
      <4>2. f = s2c[1] /\ 1 \in 1 .. Len(s2c)
        BY <4>1
      <4>. QED
        BY <4>2 DEF IInv, RequestsInFlight
    <3>4. m.payload \in AskTags /\ askId[m.payload] = m.id
      BY <3>2, <3>3 DEF RequestOK
    <3>. QED
      BY <1>2, <2>1, <3>4 DEF IInv, PeerRequestsOK
  <2>2. CASE m.kind # "Request"
    BY <1>2, <2>2 DEF IInv, PeerRequestsOK
  <2>. QED
    BY <2>1, <2>2
<1>. QED
  BY <1>1, <1>2, <1>3, AsksStable, ChannelsStable, TailStable DEF IInv

\* The peer's answer echoes the id and the payload of the request it read.
LEMMA PeerAnswerStep ==
    ASSUME IInv, PeerAnswer
    PROVE  IInv'
<1>1. TypeOK'
  BY TypeStep DEF IInv, Next, PeerNext
<1>2. PICK r \in peerReqs :
         /\ LET frame == C!CreateResponseMessage(r.id, r.svc, r.payload) IN
            c2s' = IF frame = Nil THEN c2s ELSE Append(c2s, frame)
         /\ UNCHANGED <<s2c, counter, promises, ask, askId, peerReqs>>
  BY DEF PeerAnswer, srvVars
<1>3. ResponsesInFlight'
  <2> DEFINE frame == C!CreateResponseMessage(r.id, r.svc, r.payload)
  <2>1. CASE frame # Nil
    <3>1. r \in PeerReq
      BY DEF IInv, TypeOK
    <3>2. frame.header.response_id = r.id /\ frame.body.payload = r.payload
      BY <2>1, <3>1, ResponseFrame DEF PeerReq, C!BodyServices
    <3>3. r.payload \in AskTags /\ askId[r.payload] = r.id
      BY DEF IInv, PeerRequestsOK
    <3>. QED
      BY <1>2, <2>1, <3>2, <3>3, AppendStable DEF ResponseOK
  <2>2. CASE frame = Nil
    BY <1>2, <2>2, ChannelsStable
  <2>. QED
    BY <2>1, <2>2
<1>. QED
  BY <1>1, <1>2, <1>3, AsksStable, ChannelsStable DEF IInv

\* Text, garbage and tells of the peer carry no response id.
LEMMA PeerNoiseStep ==
    ASSUME IInv, PeerNoise
    PROVE  IInv'
<1>1. TypeOK'
  BY TypeStep DEF IInv, Next, PeerNext
<1>2. PICK f \in {TextFrame, Garbage,
                  [header |-> [request_id |-> 0, response_id |-> 0],
                   body |-> [svc |-> "Core", payload |-> Malformed]],
                  [header |-> [request_id |-> 0, response_id |-> 0],
                   body |-> [svc |-> "Core", payload |-> ReqTag(1)]]} :
         /\ c2s' = Append(c2s, f)
         /\ UNCHANGED <<s2c, counter, promises, ask, askId, peerReqs>>
  BY DEF PeerNoise, srvVars
<1>3. ResponseOK(f)
  BY NotEnvelope DEF ResponseOK, Framed
<1>. QED
  BY <1>1, <1>2, <1>3, AsksStable, ChannelsStable, AppendStable DEF IInv

\* recv_req_from_service in a debug build: the id is the counter, which no
\* earlier ask was given, so no promise is filed under it and the new
\* promise and the request frame carry an id of this ask alone.
LEMMA ServiceAskStep ==
    ASSUME IInv, Overflow = "panic",
           NEW a \in AskTags, NEW s \in AskSenders, ServiceAsk(a, s)
    PROVE  IInv'
<1> DEFINE frame == C!CreateRequestMessage(counter, s, a)
<1>1. TypeOK'
  BY TypeStep DEF IInv, Next, ServerNext
<1>2. /\ ask[a].st = "idle"
      /\ counter' = counter + 1
      /\ askId' = [askId EXCEPT ![a] = counter]
      /\ UNCHANGED <<c2s, peerReqs>>
  <2>1. counter < 2^IdWidth - 1 /\ counter' = (counter + 1) % 2^IdWidth
    BY DEF ServiceAsk
  <2>2. (counter + 1) % 2^IdWidth = counter + 1
    <3> DEFINE N == 2^IdWidth
    <3>1. N \in Nat /\ counter \in Nat /\ counter < N - 1
      BY <2>1, WidthAssumption DEF IInv, TypeOK, Ids, C!Ids
    <3>. QED
      BY <3>1
  <2>. QED
    BY <2>1, <2>2 DEF ServiceAsk, peerVars
<1>3. askId[a] = Nil /\ counter \in Ids /\ counter \in Nat
  BY <1>2 DEF IInv, IdleUnnumbered, TypeOK, Ids, C!Ids
\* The counter is no ask's id, so every numbered ask but a keeps its id.
<1>4. \A b \in AskTags : askId[b] # Nil => askId[b] # counter /\ b # a
  BY <1>3 DEF IInv, IdsBelowCounter, TypeOK, Ids, C!Ids
<1>5. promises[counter] = Nil
  BY <1>3, <1>4, NilAssumption DEF IInv, PromisesFiled, TypeOK, Ids, C!Ids
<1>6. IdsBelowCounter' /\ IdsDistinct'
  <2>1. IdsBelowCounter'
    BY <1>2, <1>3, <1>4 DEF IInv, TypeOK, IdsBelowCounter, Ids, C!Ids
  <2>2. IdsDistinct'
    BY <1>2, <1>3, <1>4 DEF IInv, TypeOK, IdsDistinct, Ids, C!Ids
  <2>. QED
    BY <2>1, <2>2
<1>7. ResponsesInFlight' /\ PeerRequestsOK'
  <2>1. ASSUME NEW i \in 1 .. Len(c2s) PROVE ResponseOK(c2s[i])'
    <3>a. c2s \in Seq(Frames)
      BY DEF IInv, TypeOK
    <3>b. c2s[i] \in Frames
      BY <3>a
    <3>c. ResponseOK(c2s[i])
      BY Zenon DEF IInv, ResponsesInFlight
    <3>1. c2s[i] \in Frames /\ ResponseOK(c2s[i])
      BY <3>b, <3>c
    <3>2. Framed(c2s[i]) => c2s[i].header.response_id \in Nat
      BY <3>1, FramedParts
    <3>. QED
      BY <1>2, <1>4, <3>1, <3>2, NilAssumption DEF ResponseOK
  <2>2. PeerRequestsOK'
    BY <1>2, <1>4, NilAssumption DEF IInv, TypeOK, PeerRequestsOK, PeerReq,
       Ids, C!Ids
  <2>. QED
    BY <1>2, <2>1, <2>2 DEF ResponsesInFlight
\* The requests already in flight keep their ids.
<1>8. \A i \in 1 .. Len(s2c) :
        LET f == s2c[i] IN
        Framed(f) /\ f.header.request_id # 0
          => f.body.payload \in AskTags /\ askId'[f.body.payload] = f.header.request_id
  <2>1. ASSUME NEW i \in 1 .. Len(s2c) PROVE
          LET f == s2c[i] IN
          Framed(f) /\ f.header.request_id # 0
            => f.body.payload \in AskTags /\ askId'[f.body.payload] = f.header.request_id
    <3>a. s2c \in Seq(Frames)
      BY DEF IInv, TypeOK
    <3>b. s2c[i] \in Frames
      BY <3>a
    <3>c. RequestOK(s2c[i])
      BY Zenon DEF IInv, RequestsInFlight
    <3>1. s2c[i] \in Frames /\ RequestOK(s2c[i])
      BY <3>b, <3>c
    <3>2. Framed(s2c[i]) => s2c[i].header.request_id \in Nat
      BY <3>1, FramedParts
    <3>. QED
      BY <1>2, <1>4, <3>1, <3>2, NilAssumption DEF RequestOK
  <2>. QED
    BY <2>1
<1>9. CASE frame = Nil
  <2>1. /\ ask' = [ask EXCEPT ![a] = Resolve(a)]
        /\ UNCHANGED <<s2c, promises>>
    BY <1>9 DEF ServiceAsk
  <2>2. IdleUnnumbered' /\ AskAnswerCorrelated'
    BY <1>2, <2>1 DEF IInv, TypeOK, Resolve, IdleUnnumbered,
       AskAnswerCorrelated
  <2>4. PromisesFiled'
    <3>1. ASSUME NEW i \in Ids, promises[i] # Nil
          PROVE  askId'[promises[i]] = i
      <4>1. promises[i] \in AskTags /\ askId[promises[i]] = i /\ i \in Nat
        BY <3>1 DEF IInv, TypeOK, PromisesFiled, Ids, C!Ids
      <4>2. askId[promises[i]] # Nil
        BY <4>1, NilAssumption
      <4>. QED
        BY <1>2, <1>4, <4>1, <4>2
    <3>. QED
      BY <2>1, <3>1 DEF PromisesFiled
  <2>3. RequestsInFlight'
    BY <1>8, <2>1 DEF RequestsInFlight, RequestOK
  <2>. QED
    BY <1>1, <1>6, <1>7, <2>2, <2>3, <2>4 DEF IInv
<1>10. CASE frame # Nil
  <2>1. /\ s2c' = Append(s2c, frame)
        /\ promises' = [promises EXCEPT ![counter] = a]
        /\ ask' = [b \in AskTags |->
                     CASE b = a -> [st |-> "pending", ans |-> Nil]
                       [] b = promises[counter] -> Resolve(b)
                       [] OTHER -> ask[b]]
    BY <1>10 DEF ServiceAsk
  <2>2. ask' = [ask EXCEPT ![a] = [st |-> "pending", ans |-> Nil]]
    BY <1>5, <2>1, NilAssumption DEF IInv, TypeOK, Payloads
  <2>3. (IdleUnnumbered /\ PromisesFiled /\ AskAnswerCorrelated)'
    BY <1>2, <1>3, <1>4, <2>1, <2>2 DEF IInv, TypeOK, IdleUnnumbered,
       PromisesFiled, AskAnswerCorrelated, Ids, C!Ids
  <2>4. frame.header.request_id = counter /\ frame.body.payload = a
    BY <1>3, <1>10, RequestFrame, ServicesAssumption DEF Payloads
  <2>5. frame.body.payload \in AskTags
        /\ askId'[frame.body.payload] = frame.header.request_id
    BY <1>2, <2>4 DEF IInv, TypeOK
  <2>6. RequestsInFlight'
    <3>1. /\ Len(s2c') = Len(s2c) + 1
          /\ \A i \in 1 .. Len(s2c) : s2c'[i] = s2c[i]
          /\ s2c'[Len(s2c) + 1] = frame
      BY <2>1, AppendElems DEF IInv, TypeOK
    <3>2. ASSUME NEW i \in 1 .. Len(s2c') PROVE RequestOK(s2c[i])'
      <4>1. i \in 1 .. Len(s2c) \/ i = Len(s2c) + 1
        BY <3>1 DEF IInv, TypeOK
      <4>2. CASE i \in 1 .. Len(s2c)
        BY <1>8, <3>1, <4>2 DEF RequestOK
      <4>3. CASE i = Len(s2c) + 1
        BY <2>5, <3>1, <4>3 DEF RequestOK
      <4>. QED
        BY <4>1, <4>2, <4>3
    <3>. QED
      BY <3>2 DEF RequestsInFlight
  <2>. QED
    BY <1>1, <1>6, <1>7, <2>3, <2>6 DEF IInv
<1>. QED
  BY <1>9, <1>10

\* Every step of a debug build keeps IInv.
LEMMA IInvStep ==
    ASSUME Overflow = "panic"
    PROVE  IInv /\ [Next]_vars => IInv'
<1> SUFFICES ASSUME IInv, [Next]_vars PROVE IInv'
  OBVIOUS
<1>1. CASE SrvRecvText \/ SrvRecvTell \/ SrvRecvUndefined \/ SrvRecvRequest
  BY <1>1, RecvOtherStep
<1>2. CASE SrvRecvResponse
  BY <1>2, RecvResponseStep
<1>3. CASE TaskAnswer
  BY <1>3, TaskAnswerStep
<1>4. CASE CospaceConnect
  BY <1>4, ConnectStep
<1>5. CASE AskUnrouted
  BY <1>5, AskUnroutedStep
<1>6. CASE AskOverflowPanic
  BY <1>6, OverflowPanicStep
<1>7. CASE \E a \in AskTags, s \in AskSenders : ServiceAsk(a, s)
  BY <1>7, ServiceAskStep
<1>8. CASE ServiceTell
  BY <1>8, ServiceTellStep
<1>9. CASE PeerRequest
  BY <1>9, PeerRequestStep
<1>10. CASE PeerRecv
  BY <1>10, PeerRecvStep
<1>11. CASE PeerAnswer
  BY <1>11, PeerAnswerStep
<1>12. CASE PeerNoise
  BY <1>12, PeerNoiseStep
<1>13. CASE UNCHANGED vars
  BY <1>13 DEF vars, srvVars, peerVars, IInv, TypeOK, IdsBelowCounter,
     IdleUnnumbered, IdsDistinct, PromisesFiled, ResponsesInFlight,
     RequestsInFlight, PeerRequestsOK, ResponseOK, RequestOK, Framed,
     AskAnswerCorrelated
<1>. QED
  BY <1>1, <1>2, <1>3, <1>4, <1>5, <1>6, <1>7, <1>8, <1>9, <1>10, <1>11,
     <1>12, <1>13 DEF Next, ServerNext, PeerNext

\* Spec 4.2, for every id width and every bound, in a debug build: the
\* answer recv_proto_res_from_client hands to a service's ask is the
\* client's answer to that very ask.  The id of each ask is the counter,
\* which only grows, so no two asks share an id, and service_promises.insert
\* never replaces a live promise.
THEOREM AskAnswerCorrelatedHolds ==
    ASSUME Overflow = "panic"
    PROVE  Spec => []AskAnswerCorrelated
<1>1. IInv => AskAnswerCorrelated
  BY DEF IInv
<1>. QED
  BY <1>1, IInvInit, IInvStep, PTL DEF Spec

\* The inductive invariant endpoint_panic checks, for every id width and
\* bound in a debug build: ask ids lie below the counter and are distinct,
\* every service promise is filed under its ask, and every request and
\* response on the two channels matches an ask in flight.
THEOREM IInvHolds ==
    ASSUME Overflow = "panic"
    PROVE  Spec => []IInv
BY IInvInit, IInvStep, PTL DEF Spec

====
