--------------------------- MODULE ServerEndpoint ---------------------------
(***************************************************************************)
(* The server side of one client websocket: the ClientConnectionActor      *)
(* (client/client_connection_actor.rs), the tasks it spawns for the        *)
(* client's requests, the connection service's handshake answer, the       *)
(* cospace's registration of the client and the services that tell and ask *)
(* the client through it.  The client is any websocket peer that speaks    *)
(* the envelope protocol of FrameCodec: it sends requests, tells, text and *)
(* undecodable bytes, and answers the server's requests it recognises, in  *)
(* any order, late or twice.                                               *)
(*                                                                         *)
(* The two socket directions are FIFO sequences (a websocket and the       *)
(* actor's mailbox keep order).  Payloads are tags: an ask of the server   *)
(* carries AskTag(i) and a request of the peer ReqTag(k); whoever answers  *)
(* echoes the tag, so that a property can tell whose answer arrived where. *)
(***************************************************************************)
EXTENDS Naturals, Sequences

CONSTANTS
    IdWidth,      \* width of the u32 request-id counter
    Nil,          \* an absent value (Option::None, no promise)
    Garbage,      \* bytes that are no RealtimeMessage
    Malformed,    \* a payload that is no service message
    MaxAsks,      \* asks of the services to this client
    MaxReqs,      \* requests of the peer
    MaxAnswers,   \* answers the peer sends, duplicates included
    MaxNoise,     \* tells, text and garbage the peer sends
    MaxTells,     \* tells of the services to this client
    AskSenders,   \* services that ask the client (ServiceMessage.sender)
    PeerServices, \* services the peer addresses its requests to
    Overflow      \* what `request_id_counter += 1` does at 2^IdWidth

ASSUME BoundsAssumption ==
    /\ {MaxAsks, MaxReqs, MaxAnswers, MaxNoise, MaxTells} \subseteq Nat
    /\ MaxReqs # 0   \* the peer's first request is the handshake
    /\ Overflow \in {"wrap", "panic"}

AskTag(i) == <<"ask", i>>
ReqTag(k) == <<"req", k>>
AskTags == {AskTag(i) : i \in 1 .. MaxAsks}
ReqTags == {ReqTag(k) : k \in 1 .. MaxReqs}

\* Every payload a frame may carry.
Payloads == AskTags \cup ReqTags \cup {Malformed}

\* The absent value is no request id and no payload.
ASSUME NilAssumption == Nil \notin Nat /\ Nil \notin Payloads

C == INSTANCE FrameCodec WITH call <- Nil, wire <- Nil

Ids == C!Ids

\* Services address each other by RealtimeService values.
ASSUME ServicesAssumption ==
    AskSenders \subseteq C!Services /\ PeerServices \subseteq C!BodyServices

\* The counter has at least one bit, so that 2^IdWidth is at least 2 (the
\* provers know no powers of two; TLC checks it), and the peer's own
\* request ids fit in it.
ASSUME WidthAssumption ==
    /\ IdWidth \in Nat \ {0}
    /\ 2^IdWidth \in Nat \ {0, 1}
    /\ MaxReqs < 2^IdWidth

\* Socket frames that are not envelopes: a Text frame, and the raw service
\* payload recv_tell_from_service puts in a Binary frame.
TextFrame == [text |-> "text"]
RawFrame(s) == [raw |-> s]
RawFrames == {RawFrame(s) : s \in C!Services}

\* process_realtime_message on a Binary frame.  The raw bytes of a service
\* message are taken not to decode as a RealtimeMessage.
Classify(f) ==
    IF f # Garbage /\ f \in RawFrames THEN C!Undefined
    ELSE C!ProcessRealtimeMessage(f)

VARIABLES
    c2s,        \* frames from the peer, in socket and mailbox order
    s2c,        \* frames to the peer, in socket_tx_feeder order
    counter,    \* ClientConnectionActor.request_id_counter
    alive,      \* FALSE once the actor panicked
    promises,   \* service_promises: request id -> ask tag, or Nil
    tasks,      \* spawned response tasks of the peer's requests
    registered, \* the cospace actor has the client in `clients`
    ask,        \* state of each ask of a service
    askId,      \* the request id each ask was given
    tells,      \* tells of the services sent so far
    routed,     \* kinds of the peer's messages handed to the services
    req,        \* state of each request of the peer
    peerReqs,   \* server requests the peer has decoded and may answer
    answers,    \* answers the peer has sent
    noise       \* tells, text and garbage the peer has sent

srvVars == <<counter, alive, promises, tasks, registered, ask, askId, tells,
            routed>>
peerVars == <<req, peerReqs, answers, noise>>
vars == <<c2s, s2c, srvVars, peerVars>>

AskState == [st : {"idle", "pending", "done"}, ans : Payloads \cup {Nil}]
ReqState == [st : {"idle", "sent", "done"}, ans : Payloads \cup {Nil}]
Task == [id : Ids, svc : C!BodyServices, payload : Payloads]
PeerReq == [id : Ids, svc : C!BodyServices, payload : Payloads]
Frames == C!Envelope \cup {Garbage, TextFrame} \cup RawFrames

TypeOK ==
    /\ c2s \in Seq(Frames)
    /\ s2c \in Seq(Frames)
    /\ counter \in Ids
    /\ alive \in BOOLEAN
    /\ promises \in [Ids -> AskTags \cup {Nil}]
    /\ tasks \subseteq Task
    /\ registered \in BOOLEAN
    /\ ask \in [AskTags -> AskState]
    /\ askId \in [AskTags -> Ids \cup {Nil}]
    /\ tells \in 0 .. MaxTells
    /\ routed \subseteq {"text", "tell"}
    /\ req \in [ReqTags -> ReqState]
    /\ peerReqs \subseteq PeerReq
    /\ answers \in 0 .. MaxAnswers
    /\ noise \in 0 .. MaxNoise

\* ClientConnectionActor::new: counter 0, no promise.  The actor and the
\* socket pumps exist; the cospace has not yet been told of the client.
Init ==
    /\ c2s = <<>> /\ s2c = <<>>
    /\ counter = 0
    /\ alive = TRUE
    /\ promises = [i \in Ids |-> Nil]
    /\ tasks = {}
    /\ registered = FALSE
    /\ ask = [a \in AskTags |-> [st |-> "idle", ans |-> Nil]]
    /\ askId = [a \in AskTags |-> Nil]
    /\ tells = 0
    /\ routed = {}
    /\ req = [k \in ReqTags |-> [st |-> "idle", ans |-> Nil]]
    /\ peerReqs = {}
    /\ answers = 0
    /\ noise = 0

-----------------------------------------------------------------------------
(* The actor's socket handler: recv_proto_msg_from_client and              *)
(* recv_text_message_from_client, one action per dispatch arm.             *)

\* The live actor takes the frame at the head of its mailbox.
Recv == alive /\ c2s # <<>> /\ c2s' = Tail(c2s)

\* That frame, as process_realtime_message classifies it.
InMsg == Classify(Head(c2s))

\* A Text frame is broadcast to the cospace's services.
SrvRecvText ==
    /\ Recv /\ Head(c2s) = TextFrame
    /\ routed' = routed \cup {"text"}
    /\ UNCHANGED <<s2c, counter, alive, promises, tasks, registered, ask,
                   askId, tells, peerVars>>

\* A Tell goes to the connection service or to the cospace; neither
\* answers it.
SrvRecvTell ==
    /\ Recv /\ Head(c2s) # TextFrame /\ InMsg.kind = "Tell"
    /\ routed' = routed \cup {"tell"}
    /\ UNCHANGED <<s2c, counter, alive, promises, tasks, registered, ask,
                   askId, tells, peerVars>>

\* recv_proto_req_from_client: the ask to the service runs in a spawned
\* task, so the actor goes on with its mailbox.
SrvRecvRequest ==
    /\ Recv /\ Head(c2s) # TextFrame /\ InMsg.kind = "Request"
    /\ tasks' = tasks \cup {[id |-> InMsg.id, svc |-> InMsg.svc, payload |-> InMsg.payload]}
    /\ UNCHANGED <<s2c, counter, alive, promises, registered, ask, askId,
                   tells, routed, peerVars>>

\* recv_proto_res_from_client: the promise of response_id, if any, is
\* removed and completed with the payload; otherwise the frame is logged.
SrvRecvResponse ==
    /\ Recv /\ Head(c2s) # TextFrame /\ InMsg.kind = "Response"
    /\ LET a == promises[InMsg.id] IN
       IF a # Nil
       THEN /\ promises' = [promises EXCEPT ![InMsg.id] = Nil]
            /\ ask' = [ask EXCEPT ![a] = [st |-> "done", ans |-> InMsg.payload]]
       ELSE UNCHANGED <<promises, ask>>
    /\ UNCHANGED <<s2c, counter, alive, tasks, registered, askId, tells,
                   routed, peerVars>>

\* A frame that classifies as Undefined is logged and dropped.
SrvRecvUndefined ==
    /\ Recv /\ Head(c2s) # TextFrame /\ InMsg.kind = "Undefined"
    /\ UNCHANGED <<s2c, srvVars, peerVars>>

\* Mutant: the connection service's answer may be dropped like any other.
TaskAnswerMayDrop ==
    \E t \in tasks, answered \in BOOLEAN :
        /\ tasks' = tasks \ {t}
        /\ LET frame == C!CreateResponseMessage(t.id, t.svc, t.payload) IN
           s2c' = IF answered /\ frame # Nil THEN Append(s2c, frame) ELSE s2c
        /\ UNCHANGED <<c2s, counter, alive, promises, registered, ask, askId,
                       tells, routed, peerVars>>

\* The spawned task of a request: the connection service answers the
\* handshake (handle_handshake_request returns Some); another service, via
\* the cospace, answers Some or None (an Err of answer_encoded).  A Some is
\* framed with the request's id and service; a payload that cannot be
\* framed is logged and nothing is sent.
TaskAnswer ==
    \E t \in tasks, answered \in BOOLEAN :
        /\ t.svc = "Connection" => answered
        /\ tasks' = tasks \ {t}
        /\ LET frame == C!CreateResponseMessage(t.id, t.svc, t.payload) IN
           s2c' = IF answered /\ frame # Nil THEN Append(s2c, frame) ELSE s2c
        /\ UNCHANGED <<c2s, counter, alive, promises, registered, ask, askId,
                       tells, routed, peerVars>>

-----------------------------------------------------------------------------
(* The services' side: the cospace registration, ServiceMessage asks and   *)
(* tells that reach the actor through the cospace.                         *)

\* websocket_actor.rs: after the creator returned, the cospace is told
\* Connect and inserts the client.
CospaceConnect ==
    /\ ~registered
    /\ registered' = TRUE
    /\ UNCHANGED <<c2s, s2c, counter, alive, promises, tasks, ask, askId,
                   tells, routed, peerVars>>

\* The ask's future resolves None.
Resolve(a) == [st |-> "done", ans |-> Nil]

\* A service's ask resolves None with no request sent: the cospace does not
\* know the client yet (cospace_actor.rs:104), the actor is gone and the
\* ask errs (line 99), or the payload is Text, which recv_req_from_service
\* refuses before it reads the counter.  The last can happen at any time.
AskUnrouted ==
    \E a \in AskTags :
        /\ ask[a].st = "idle"
        /\ ask' = [ask EXCEPT ![a] = Resolve(a)]
        /\ UNCHANGED <<c2s, s2c, counter, alive, promises, tasks, registered,
                       askId, tells, routed, peerVars>>

\* recv_req_from_service: the request id is the counter, then the counter
\* is incremented; a debug build panics when it passes u32::MAX, killing
\* the actor and dropping every promise.
AskOverflowPanic ==
    \E a \in AskTags :
        /\ ask[a].st = "idle" /\ registered /\ alive
        /\ Overflow = "panic" /\ counter = 2^IdWidth - 1
        /\ alive' = FALSE
        /\ promises' = [i \in Ids |-> Nil]
        /\ ask' = [b \in AskTags |->
                     IF b = a \/ ask[b].st = "pending" THEN Resolve(b) ELSE ask[b]]
        /\ UNCHANGED <<c2s, s2c, counter, tasks, registered, askId, tells, routed,
                       peerVars>>

\* Mutant: the promise is inserted under the incremented counter rather
\* than under the id the request frame carries.
ServiceAskInsertsNextId(a, s) ==
    /\ ask[a].st = "idle" /\ registered /\ alive
    /\ Overflow = "panic" => counter < 2^IdWidth - 1
    /\ counter' = (counter + 1) % 2^IdWidth
    /\ askId' = [askId EXCEPT ![a] = counter]
    /\ LET frame == C!CreateRequestMessage(counter, s, a)
           old == promises[counter']
       IN  IF frame = Nil
           THEN /\ ask' = [ask EXCEPT ![a] = Resolve(a)]
                /\ UNCHANGED <<s2c, promises>>
           ELSE /\ s2c' = Append(s2c, frame)
                /\ promises' = [promises EXCEPT ![counter'] = a]
                /\ ask' = [b \in AskTags |->
                             CASE b = a -> [st |-> "pending", ans |-> Nil]
                               [] b = old -> Resolve(b)
                               [] OTHER -> ask[b]]
    /\ UNCHANGED <<c2s, alive, tasks, registered, tells, routed, peerVars>>

\* recv_req_from_service: a sender whose payload cannot be framed gets
\* None; otherwise the request goes to the socket and the promise is
\* inserted under the id, replacing (and so dropping) one already there.
ServiceAsk(a, s) ==
    /\ ask[a].st = "idle" /\ registered /\ alive
    /\ Overflow = "panic" => counter < 2^IdWidth - 1
    /\ counter' = (counter + 1) % 2^IdWidth
    /\ askId' = [askId EXCEPT ![a] = counter]
    /\ LET frame == C!CreateRequestMessage(counter, s, a)
           old == promises[counter]
       IN  IF frame = Nil
           THEN /\ ask' = [ask EXCEPT ![a] = Resolve(a)]
                /\ UNCHANGED <<s2c, promises>>
           ELSE /\ s2c' = Append(s2c, frame)
                /\ promises' = [promises EXCEPT ![counter] = a]
                /\ ask' = [b \in AskTags |->
                             CASE b = a -> [st |-> "pending", ans |-> Nil]
                               [] b = old -> Resolve(b)
                               [] OTHER -> ask[b]]
    /\ UNCHANGED <<c2s, alive, tasks, registered, tells, routed, peerVars>>

\* recv_tell_from_service: a Text payload becomes a Text frame, a Binary
\* payload is sent as it is, without an envelope.
ServiceTell ==
    \E f \in {TextFrame} \cup {RawFrame(s) : s \in AskSenders} :
        /\ registered /\ alive /\ tells < MaxTells
        /\ tells' = tells + 1
        /\ s2c' = Append(s2c, f)
        /\ UNCHANGED <<c2s, counter, alive, promises, tasks, registered, ask,
                       askId, routed, peerVars>>

-----------------------------------------------------------------------------
(* The peer.                                                               *)

\* A request of the peer, with its own id k: the first is the ticket
\* handshake to the connection service (spec 4.7), the others go to one of
\* PeerServices.
PeerRequest ==
    \E k \in 1 .. MaxReqs, s \in PeerServices \cup {"Connection"} :
        /\ req[ReqTag(k)].st = "idle"
        /\ k = 1 <=> s = "Connection"
        /\ req' = [req EXCEPT ![ReqTag(k)].st = "sent"]
        /\ LET frame == C!CreateRequestMessage(k, s, ReqTag(k)) IN
           c2s' = IF frame = Nil THEN c2s ELSE Append(c2s, frame)
        /\ UNCHANGED <<s2c, srvVars, peerReqs, answers, noise>>

\* The peer reads a frame: a request is remembered to be answered, a
\* response completes the peer's request of that id; the rest is ignored.
PeerRecv ==
    /\ s2c # <<>>
    /\ s2c' = Tail(s2c)
    /\ LET f == Head(s2c)
           m == IF f = TextFrame THEN C!Undefined ELSE Classify(f)
       IN  /\ peerReqs' = IF m.kind = "Request"
                          THEN peerReqs \cup {[id |-> m.id, svc |-> m.svc, payload |-> m.payload]}
                          ELSE peerReqs
           /\ req' = IF m.kind = "Response" /\ m.id \in 1 .. MaxReqs
                        /\ req[ReqTag(m.id)].st = "sent"
                     THEN [req EXCEPT ![ReqTag(m.id)] = [st |-> "done", ans |-> m.payload]]
                     ELSE req
    /\ UNCHANGED <<c2s, srvVars, answers, noise>>

\* The peer answers a request it decoded, possibly again.
PeerAnswer ==
    \E r \in peerReqs :
        /\ answers < MaxAnswers
        /\ answers' = answers + 1
        /\ LET frame == C!CreateResponseMessage(r.id, r.svc, r.payload) IN
           c2s' = IF frame = Nil THEN c2s ELSE Append(c2s, frame)
        /\ UNCHANGED <<s2c, srvVars, req, peerReqs, noise>>

\* The peer sends a text, a tell or bytes that do not decode.
PeerNoise ==
    \E f \in {TextFrame, Garbage,
              [header |-> [request_id |-> 0, response_id |-> 0],
               body |-> [svc |-> "Core", payload |-> Malformed]],
              [header |-> [request_id |-> 0, response_id |-> 0],
               body |-> [svc |-> "Core", payload |-> ReqTag(1)]]} :
        /\ noise < MaxNoise
        /\ noise' = noise + 1
        /\ c2s' = Append(c2s, f)
        /\ UNCHANGED <<s2c, srvVars, req, peerReqs, answers>>

-----------------------------------------------------------------------------

ServerNext ==
    \/ SrvRecvText \/ SrvRecvTell \/ SrvRecvRequest \/ SrvRecvResponse
    \/ SrvRecvUndefined \/ TaskAnswer
    \/ CospaceConnect \/ AskUnrouted \/ AskOverflowPanic
    \/ \E a \in AskTags, s \in AskSenders : ServiceAsk(a, s)
    \/ ServiceTell

PeerNext == PeerRequest \/ PeerRecv \/ PeerAnswer \/ PeerNoise

Next == ServerNext \/ PeerNext

\* The actor handles its mailbox and the executor runs every spawned task;
\* the peer reads its socket.  Nothing obliges the peer to answer.
Fairness ==
    /\ WF_vars(SrvRecvText \/ SrvRecvTell \/ SrvRecvRequest \/ SrvRecvResponse
               \/ SrvRecvUndefined)
    /\ WF_vars(TaskAnswer)
    /\ WF_vars(CospaceConnect)
    /\ WF_vars(PeerRecv)

Spec == Init /\ [][Next]_vars /\ Fairness

-----------------------------------------------------------------------------
(* Properties                                                              *)

\* A frame whose envelope carries the tag as its payload.
CarriesTag(f, a) ==
    f # Garbage /\ f \in C!Envelope /\ f.body # Nil /\ f.body.payload = a

\* Spec 4.2: service_promises correlates a server ask with the client's
\* answer to it: when recv_proto_res_from_client completes the promise of
\* a service's ask, the payload is the client's answer to that very ask,
\* not to an earlier one that had the same request id.
AskAnswerCorrelated ==
    \A a \in AskTags : ask[a].ans # Nil => ask[a].ans = a

\* Spec 4.7 and scenario 1: the ticket handshake the client sends first is
\* eventually answered on the socket, whatever the services do.
HandshakeAnswered ==
    req[ReqTag(1)].st = "sent" ~> req[ReqTag(1)].ans = ReqTag(1)

\* Spec 4.3: an ask of a service reaches the client as a Request frame: once
\* the client has read the frame recv_req_from_service sent, it holds a
\* request it can answer.
AskReachesPeer ==
    \A a \in AskTags :
        (/\ ask[a].st = "pending"
         /\ \A i \in 1 .. Len(s2c) : ~CarriesTag(s2c[i], a))
            => \E r \in peerReqs : r.payload = a

\* Spec 4.3: a Tell of a service is put on the socket as an envelope, so
\* every Binary frame the server sends decodes at the client.
ServerFramesDecode ==
    \A i \in 1 .. Len(s2c) :
        s2c[i] # TextFrame => Classify(s2c[i]).kind # "Undefined"

-----------------------------------------------------------------------------
(* The inductive invariant of a debug build, where the counter never wraps *)

\* A frame with both a header and a body.
Framed(f) == f # Garbage /\ f \in C!Envelope /\ f.header # Nil /\ f.body # Nil

\* A frame from the peer with a response id answers the ask of that id.
ResponseOK(f) ==
    Framed(f) /\ f.header.response_id # 0
        => /\ f.body.payload \in AskTags
           /\ askId[f.body.payload] = f.header.response_id

\* A frame to the peer with a request id is the request of that ask.
RequestOK(f) ==
    Framed(f) /\ f.header.request_id # 0
        => /\ f.body.payload \in AskTags
           /\ askId[f.body.payload] = f.header.request_id

\* Every id handed out is below the counter.
IdsBelowCounter == \A a \in AskTags : askId[a] # Nil => askId[a] < counter

\* Only asks that were taken up have an id.
IdleUnnumbered == \A a \in AskTags : ask[a].st = "idle" => askId[a] = Nil

\* No two asks share an id.
IdsDistinct ==
    \A a, b \in AskTags : askId[a] # Nil /\ askId[a] = askId[b] => a = b

\* A promise is filed under its ask's id.
PromisesFiled == \A i \in Ids : promises[i] # Nil => askId[promises[i]] = i

\* Every response and request in flight, and every request the peer holds,
\* carries the id of the ask whose tag it echoes.
ResponsesInFlight == \A i \in 1 .. Len(c2s) : ResponseOK(c2s[i])
RequestsInFlight == \A i \in 1 .. Len(s2c) : RequestOK(s2c[i])
PeerRequestsOK ==
    \A r \in peerReqs : r.payload \in AskTags /\ askId[r.payload] = r.id

IInv ==
    /\ TypeOK
    /\ IdsBelowCounter /\ IdleUnnumbered /\ IdsDistinct /\ PromisesFiled
    /\ ResponsesInFlight /\ RequestsInFlight /\ PeerRequestsOK
    /\ AskAnswerCorrelated

=============================================================================
