------------------------- MODULE FrameCodec_proofs -------------------------
(***************************************************************************)
(* The codec's round trip and its rejection of malformed frames, for every *)
(* id width and every set of payloads.  The harness keeps, as its          *)
(* inductive invariant, that the frame on the wire is the one the recorded *)
(* create_* call built.                                                    *)
(***************************************************************************)
EXTENDS FrameCodec, TLAPS

CInv ==
    /\ CodecTypeOK
    /\ call # NoCall => wire = Make(call)

\* Every create_* call returns an envelope or None.
LEMMA MakeType ==
    ASSUME NEW c \in Call
    PROVE  Make(c) \in Envelope \cup {None}
<1>1. 0 \in Ids /\ c.id \in Ids
  BY IdWidthAssumption DEF Ids, Call
<1>2. CreateRtMessage(c.svc, c.payload) \in Envelope \cup {None}
  BY DEF CreateRtMessage, Envelope, Body, BodyServices, Services, NoHeader,
     None, Call
<1>3. CreateRequestMessage(c.id, c.svc, c.payload) \in Envelope \cup {None}
  BY <1>1, <1>2 DEF CreateRequestMessage, Envelope, Header
<1>4. CreateResponseMessage(c.id, c.svc, c.payload) \in Envelope \cup {None}
  BY <1>1, <1>2 DEF CreateResponseMessage, Envelope, Header
<1>. QED
  BY <1>2, <1>3, <1>4 DEF Make, CreateTellMessage, Call, Ops

\* A request or response built with a non-zero id is decoded as itself: the
\* header create_*_message sets is the one process_header_and_message reads.
LEMMA RoundTripLemma ==
    ASSUME NEW c \in Call, c.op \in {"request", "response"}, c.id # 0,
           Make(c) # None
    PROVE  ProcessRealtimeMessage(Make(c)) =
               Proto(KindOf[c.op], c.id, c.svc, c.payload)
<1>. DEFINE m == CreateRtMessage(c.svc, c.payload)
<1>1. m # None
  BY DEF Make, CreateRequestMessage, CreateResponseMessage
<1>2. m = [header |-> NoHeader, body |-> [svc |-> c.svc, payload |-> c.payload]]
  BY <1>1 DEF CreateRtMessage
<1>3. Make(c) # Garbage
  BY MakeType, MarkerAssumption
<1>6. /\ [svc |-> c.svc, payload |-> c.payload] \in Body
      /\ [request_id |-> c.id, response_id |-> 0] \in Header
      /\ [request_id |-> 0, response_id |-> c.id] \in Header
  <2>1. c.svc \in {"Connection", "Core"} /\ c.payload \in Payloads
    BY <1>1 DEF CreateRtMessage, Call
  <2>2. 0 \in Ids /\ c.id \in Ids
    BY IdWidthAssumption DEF Ids, Call
  <2>. QED
    BY <2>1, <2>2 DEF Body, Header, BodyServices, Services
<1>7. Decodes(c.payload)
  BY <1>1 DEF CreateRtMessage
<1>4. CASE c.op = "request"
  <2>1. Make(c) = [header |-> [request_id |-> c.id, response_id |-> 0],
                   body |-> [svc |-> c.svc, payload |-> c.payload]]
    BY <1>1, <1>2, <1>4 DEF Make, CreateRequestMessage
  <2>. QED
    BY <1>3, <1>4, <1>6, <1>7, <2>1, MarkerAssumption
       DEF ProcessRealtimeMessage, DecodeFails, ProcessHeaderAndMessage, ExtractServicePayload,
           KindOf, Proto, NoHeader, NoBody, Header
<1>5. CASE c.op = "response"
  <2>1. Make(c) = [header |-> [request_id |-> 0, response_id |-> c.id],
                   body |-> [svc |-> c.svc, payload |-> c.payload]]
    BY <1>1, <1>2, <1>5 DEF Make, CreateResponseMessage
  <2>. QED
    BY <1>3, <1>5, <1>6, <1>7, <2>1, MarkerAssumption
       DEF ProcessRealtimeMessage, DecodeFails, ProcessHeaderAndMessage, ExtractServicePayload,
           KindOf, Proto, NoHeader, NoBody, Header
<1>. QED
  BY <1>4, <1>5

LEMMA CInvInit == CodecInitState => CInv
BY MakeType DEF CodecInitState, CInv, CodecTypeOK, Frames, NoCall

LEMMA CInvStep == CInv /\ [Use]_codecVars => CInv'
<1> SUFFICES ASSUME CInv, [Use]_codecVars PROVE CInv'
  OBVIOUS
<1>1. CASE Use
  BY <1>1, MakeType DEF Use, CInv, CodecTypeOK, Frames, NoCall
<1>2. CASE UNCHANGED codecVars
  BY <1>2 DEF codecVars, CInv, CodecTypeOK
<1>. QED
  BY <1>1, <1>2

\* Spec 8, for every id width: a request or a response built by the
\* sender's create_* function with a non-zero id reaches the peer's
\* process_realtime_message as that request or response.
THEOREM RoundTripHolds == CodecSpec => []RoundTrip
<1>1. CInv => RoundTrip
  BY RoundTripLemma, MarkerAssumption DEF CInv, CodecTypeOK, RoundTrip, NoCall
<1>. QED
  BY <1>1, CInvInit, CInvStep, PTL DEF CodecSpec
====
