----------------------------- MODULE FrameCodec -----------------------------
(***************************************************************************)
(* The frame codec of fasttravel-rt-proto (helpers.rs), used by the server *)
(* endpoint and by the SDK broker.                                         *)
(*                                                                         *)
(* A binary frame is abstracted to the RealtimeMessage it decodes to: an   *)
(* optional Header {request_id, response_id} and an optional Body, the     *)
(* service-tagged inner message.  An inner message is a payload value; a   *)
(* payload either decodes as a service message or is Malformed.  prost     *)
(* keeps an absent header absent through encode/decode, and a header with  *)
(* both ids 0 present, so the envelope is what travels.  Bytes that do not *)
(* decode as a RealtimeMessage at all are the frame Garbage.               *)
(***************************************************************************)
EXTENDS Naturals

CONSTANTS
    Payloads,   \* inner service messages, as opaque values
    Malformed,  \* a payload that does not decode as any service message
    IdWidth,    \* width of RequestId on the wire (u32 in the code)
    Nil,        \* an absent Option value (no header, no body, None)
    Garbage     \* bytes that do not decode as a RealtimeMessage

ASSUME IdWidthAssumption == IdWidth \in Nat \ {0}
ASSUME MalformedAssumption == Malformed \in Payloads

\* RequestId values; 0 means "not a request" / "not a response".
Ids == 0 .. (2^IdWidth - 1)

\* RealtimeService (fasttravel-rt-proto lib.rs)
Services == {"Undefined", "Connection", "Core", "Presence", "Activity", "Model"}

\* The variants of RealtimeMessage.body, one per service but Undefined.
BodyServices == Services \ {"Undefined"}

\* prost decoding of an inner service message.
Decodes(p) == p # Malformed

NoHeader == Nil
NoBody == Nil
None == Nil

Header == [request_id : Ids, response_id : Ids]
Body == [svc : BodyServices, payload : Payloads]
Envelope == [header : Header \cup {NoHeader}, body : Body \cup {NoBody}]
Frames == Envelope \cup {Garbage}

\* ProtoMessage: Undefined, Tell, Request(request_id), Response(response_id).
ProtoKinds == {"Undefined", "Tell", "Request", "Response"}
ProtoMessage == [kind : ProtoKinds, id : Ids, svc : Services,
                 payload : Payloads \cup {None}]
Undefined == [kind |-> "Undefined", id |-> 0, svc |-> "Undefined", payload |-> None]
Proto(k, i, s, p) == [kind |-> k, id |-> i, svc |-> s, payload |-> p]

-----------------------------------------------------------------------------
(* Decoding                                                                *)

\* extract_service_payload_from_rt_message: the service of the body variant
\* and the re-encoded inner message.
ExtractServicePayload(body) == [svc |-> body.svc, payload |-> body.payload]

\* process_header_and_message
ProcessHeaderAndMessage(env) ==
    IF env.header = NoHeader \/ env.body = NoBody THEN Undefined
    ELSE LET h == env.header
             x == ExtractServicePayload(env.body)
         IN  IF h.request_id # 0 /\ h.response_id # 0 THEN Undefined
             ELSE IF h.request_id # 0
                  THEN Proto("Request", h.request_id, x.svc, x.payload)
             ELSE IF h.response_id # 0
                  THEN Proto("Response", h.response_id, x.svc, x.payload)
             ELSE Proto("Tell", 0, x.svc, x.payload)

\* RealtimeMessage::decode fails on bytes that are no RealtimeMessage and,
\* prost decoding nested messages eagerly, on a body whose inner service
\* message does not decode.
DecodeFails(frame) ==
    \/ frame = Garbage
    \/ frame.body # NoBody /\ ~Decodes(frame.body.payload)

\* process_realtime_message: RealtimeMessage::decode, then the header.
ProcessRealtimeMessage(frame) ==
    IF DecodeFails(frame) THEN Undefined ELSE ProcessHeaderAndMessage(frame)

-----------------------------------------------------------------------------
(* Encoding                                                                *)

\* create_rt_message_from_service_payload: only the Connection and Core
\* payloads can be put in a body; every other service gives None.
CreateRtMessage(service, payload) ==
    IF service \in {"Connection", "Core"} /\ Decodes(payload)
    THEN [header |-> NoHeader, body |-> [svc |-> service, payload |-> payload]]
    ELSE None

\* create_tell_message_from_service_payload: the envelope as it comes.
CreateTellMessage(service, payload) == CreateRtMessage(service, payload)

\* Mutant: the response header is filled in as a request header.
CreateResponseMessageAsRequest(response_id, service, payload) ==
    LET m == CreateRtMessage(service, payload) IN
    IF m = None THEN None
    ELSE [m EXCEPT !.header = [request_id |-> response_id, response_id |-> 0]]

\* create_response_message_from_service_payload
CreateResponseMessage(response_id, service, payload) ==
    LET m == CreateRtMessage(service, payload) IN
    IF m = None THEN None
    ELSE [m EXCEPT !.header = [request_id |-> 0, response_id |-> response_id]]

\* create_request_message_from_service_payload
CreateRequestMessage(request_id, service, payload) ==
    LET m == CreateRtMessage(service, payload) IN
    IF m = None THEN None
    ELSE [m EXCEPT !.header = [request_id |-> request_id, response_id |-> 0]]

-----------------------------------------------------------------------------
(* The codec's callers.  Each state is one use of the codec: either a call *)
(* of a create_* function, with the frame it produced on the wire, or any  *)
(* frame a peer may send.  Next is any other use, so that TLC checks the   *)
(* properties on every input of the bounded sets.                          *)

VARIABLES
    call,   \* the create_* call that produced `wire`, or NoCall
    wire    \* the frame that process_realtime_message receives

codecVars == <<call, wire>>

NoCall == Nil

Ops == {"tell", "request", "response"}
Call == [op : Ops, id : Ids, svc : Services, payload : Payloads]

\* The absent value and the undecodable frame are neither envelopes nor
\* calls, and differ from each other.
ASSUME MarkerAssumption ==
    /\ Nil \notin Header \cup Body \cup Envelope \cup Call
    /\ Garbage \notin Envelope
    /\ Garbage # Nil

\* The frame a create_* call puts on the socket.
Make(c) ==
    CASE c.op = "tell"     -> CreateTellMessage(c.svc, c.payload)
      [] c.op = "request"  -> CreateRequestMessage(c.id, c.svc, c.payload)
      [] c.op = "response" -> CreateResponseMessage(c.id, c.svc, c.payload)

\* A codec use: a create_* call on the sender's side, or a frame as is.
Use ==
    \/ \E c \in Call : call' = c /\ wire' = Make(c)
    \/ \E f \in Frames : call' = NoCall /\ wire' = f

CodecInitState ==
    \/ \E c \in Call : call = c /\ wire = Make(c)
    \/ \E f \in Frames : call = NoCall /\ wire = f

CodecSpec == CodecInitState /\ [][Use]_codecVars

CodecTypeOK ==
    /\ call \in Call \cup {NoCall}
    /\ wire \in Frames \cup {None}

\* ProtoMessage kind of the frame a create_* operation builds.
KindOf == [tell |-> "Tell", request |-> "Request", response |-> "Response"]

\* Spec 8: a request or a response built by the sender's create_* function
\* with a non-zero id is classified by process_realtime_message as that
\* request or response, with the same id, service and payload.
RoundTrip ==
    (/\ call # NoCall /\ call.op \in {"request", "response"}
     /\ call.id # 0 /\ wire # None)
        => ProcessRealtimeMessage(wire) =
               Proto(KindOf[call.op], call.id, call.svc, call.payload)

=============================================================================
