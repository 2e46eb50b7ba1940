------------------------------ MODULE PeerLink ------------------------------
(***************************************************************************)
(* The link to a remote replica, both ends: the originator's               *)
(* peer_supervisor and DnodeServerConn (dynomited/src/server.rs,           *)
(* net/dnode_server.rs), the TCP connection, and the receiver's            *)
(* dnode_client_loop (net/dnode_client.rs).                                *)
(*                                                                         *)
(* The originator matches replies to requests by position; the receiver    *)
(* writes replies in the order its dispatcher produced them.  What the     *)
(* receiver's dispatcher does with a request is a constant.  A message is  *)
(* the request it carries or answers.                                      *)
(***************************************************************************)
EXTENDS Integers, Sequences, Functions

CONSTANTS
    Reqs,              \* data-plane requests
    Dated,             \* those that carry a deadline; hints, repairs and
                       \* anti-entropy requests carry none
    Control,           \* gossip frames: fire and forget
    ChannelCap,        \* capacity of the per-peer outbound channel
    ReceiverOutcomes   \* what the receiver's dispatcher may do

\* "backend": queued to the local datastore, which answers in order
\* (BackendLink!AnsweredInOrder).  "inline": answered at once (state refusal,
\* datastore channel full).  "spawned": an embedder's datastore hook, one task
\* per request.  "drop": never answered.
ASSUME OutcomesAssumption == ReceiverOutcomes \subseteq {"backend", "inline", "spawned", "drop"}
ASSUME ControlAssumption == Reqs \cap Control = {}
ASSUME DatedAssumption == Dated \subseteq Reqs
ASSUME ChannelCapAssumption == ChannelCap \in Nat \ {0}

VARIABLES
    chan,        \* the dispatcher's per-peer channel
    conn,        \* "dialing", "up", "failing" or "backoff"
    held,        \* held_control: control frames that arrived while down
    first,       \* DnodeServerConn.first
    pending,     \* DnodeServerConn.pending
    out, back,   \* requests and replies in the connection's two directions
    backend,     \* receiver: requests its datastore has not answered
    spawned,     \* receiver: requests its hook tasks have not answered
    rsp,         \* receiver: the connection's response channel
    answer,      \* what each request got
    in_order,    \* the receiver gave every request to its datastore (history)
    accepted,    \* control frames in the order they were accepted (history)
    gossiped,    \* control frames in the order they were written (history)
    dropped      \* control frames that went with a lost driver's `first` (history)

originator == <<chan, conn, held, first, pending>>
receiver == <<backend, spawned, rsp>>
hist == <<answer, in_order, accepted, gossiped, dropped>>
vars == <<originator, out, back, receiver, hist>>

Init ==
    /\ chan = <<>> /\ conn = "dialing" /\ held = <<>> /\ first = <<>> /\ pending = <<>>
    /\ out = <<>> /\ back = <<>>
    /\ backend = <<>> /\ spawned = {} /\ rsp = <<>>
    /\ answer = [r \in Reqs |-> "none"] /\ in_order = TRUE /\ accepted = <<>> /\ gossiped = <<>>
    /\ dropped = {}

Reply(r, a) == answer' = [answer EXCEPT ![r] = a]

-----------------------------------------------------------------------------
(* The originator                                                          *)

\* fanout_send: try_send on the per-peer channel.  A full channel is the
\* dispatcher's to handle (FanOut): the link never saw the request.
Accept(m) ==
    /\ IF m \in Reqs THEN answer[m] = "none" ELSE m \notin Range(accepted)
    /\ Len(chan) < ChannelCap
    /\ chan' = Append(chan, m)
    /\ IF m \in Reqs THEN Reply(m, "owed") /\ UNCHANGED accepted
       ELSE accepted' = Append(accepted, m) /\ UNCHANGED answer
    /\ UNCHANGED <<conn, held, first, pending, out, back, receiver, in_order, gossiped, dropped>>

\* A fresh DnodeServerConn: the held control frames go first.
DialOk ==
    /\ conn = "dialing" /\ conn' = "up"
    /\ first' = held /\ held' = <<>> /\ pending' = <<>>
    /\ UNCHANGED <<chan, out, back, receiver, hist>>

\* The dial or the TLS handshake failed.
DialFailed ==
    /\ conn = "dialing" /\ conn' = "backoff"
    /\ UNCHANGED <<chan, held, first, pending, out, back, receiver, hist>>

BackoffOver ==
    /\ conn = "backoff" /\ conn' = "dialing"
    /\ UNCHANGED <<chan, held, first, pending, out, back, receiver, hist>>

\* Mutant: control frames are kept newest first.
RefuseNewestFirst ==
    LET m == Head(chan) IN
    /\ conn = "backoff" /\ chan # <<>>
    /\ chan' = Tail(chan)
    /\ IF m \in Control THEN held' = <<m>> \o held /\ UNCHANGED answer
       ELSE Reply(m, "error") /\ UNCHANGED held
    /\ UNCHANGED <<conn, first, pending, out, back, receiver, in_order, accepted, gossiped, dropped>>

\* refuse_peer_requests_while: requests are answered at once, control frames
\* are kept for the next connection.
Refuse ==
    LET m == Head(chan) IN
    /\ conn = "backoff" /\ chan # <<>>
    /\ chan' = Tail(chan)
    /\ IF m \in Control THEN held' = Append(held, m) /\ UNCHANGED answer
       ELSE Reply(m, "error") /\ UNCHANGED held
    /\ UNCHANGED <<conn, first, pending, out, back, receiver, in_order, accepted, gossiped, dropped>>

\* run_conn takes the next message and writes it.  A gossip frame is not
\* answered and its arrival changes nothing here: `out` carries the requests.
Write ==
    LET m == IF first # <<>> THEN Head(first) ELSE Head(chan) IN
    /\ conn = "up" /\ (first # <<>> \/ chan # <<>>)
    /\ IF first # <<>> THEN first' = Tail(first) /\ UNCHANGED chan
       ELSE chan' = Tail(chan) /\ UNCHANGED first
    /\ IF m \in Control THEN gossiped' = Append(gossiped, m) /\ UNCHANGED <<pending, out>>
       ELSE pending' = Append(pending, m) /\ out' = Append(out, m) /\ UNCHANGED gossiped
    /\ UNCHANGED <<conn, held, back, receiver, answer, in_order, accepted, dropped>>

\* drive_response: the reply goes to the oldest pending request, whatever id
\* the frame carries; with none pending it is dropped.
ReadReply ==
    /\ conn = "up" /\ back # <<>>
    /\ back' = Tail(back)
    /\ IF pending = <<>> THEN UNCHANGED <<pending, answer>>
       ELSE /\ Reply(Head(pending), IF Head(pending) = Head(back) THEN "own" ELSE "crossed")
            /\ pending' = Tail(pending)
    /\ UNCHANGED <<chan, conn, held, first, out, receiver, in_order, accepted, gossiped, dropped>>

\* The connection ends: everything in it, and what the receiver would have
\* answered on it, is gone.  `first` goes with the driver: the held frames it
\* had not written yet are lost.
Disconnect ==
    /\ conn = "up" /\ conn' = "failing"
    /\ first' = <<>> /\ dropped' = dropped \cup Range(first)
    /\ out' = <<>> /\ back' = <<>>
    /\ backend' = <<>> /\ spawned' = {} /\ rsp' = <<>>
    /\ UNCHANGED <<chan, held, pending, answer, in_order, accepted, gossiped>>

\* EOF, an I/O or a parse error at either end, the peer's crash.
Lost == Disconnect

\* Mutant: the late request is answered and the connection kept.
TimeoutKeepsConnection ==
    /\ conn = "up" /\ Range(pending) \cap Dated # {}
    /\ Reply(Head(pending), "error") /\ pending' = Tail(pending)
    /\ UNCHANGED <<chan, conn, held, first, out, back, receiver, in_order, accepted, gossiped, dropped>>

\* The earliest pending deadline passed; without one no timer is armed.
Timeout == Range(pending) \cap Dated # {} /\ Disconnect


\* fail_pending, then the supervisor backs off.
FailNext ==
    /\ conn = "failing"
    /\ IF pending # <<>>
       THEN Reply(Head(pending), "error") /\ pending' = Tail(pending) /\ UNCHANGED conn
       ELSE conn' = "backoff" /\ UNCHANGED <<pending, answer>>
    /\ UNCHANGED <<chan, held, first, out, back, receiver, in_order, accepted, gossiped, dropped>>

-----------------------------------------------------------------------------
(* The receiver                                                            *)

\* drive_dnode_parser: the next request is dispatched, to the local node only.
Parse(outcome) ==
    LET m == Head(out) IN
    /\ out # <<>>
    /\ out' = Tail(out)
    /\ backend' = IF outcome = "backend" THEN Append(backend, m) ELSE backend
    /\ spawned' = IF outcome = "spawned" THEN spawned \cup {m} ELSE spawned
    /\ rsp' = IF outcome = "inline" THEN Append(rsp, m) ELSE rsp
    /\ in_order' = (in_order /\ outcome = "backend")
    /\ UNCHANGED <<originator, back, answer, accepted, gossiped, dropped>>

BackendReply ==
    /\ backend # <<>>
    /\ rsp' = Append(rsp, Head(backend)) /\ backend' = Tail(backend)
    /\ UNCHANGED <<originator, out, back, spawned, hist>>

\* The hook's task finished: with an Err it sends nothing.
SpawnedReply(r) ==
    /\ r \in spawned
    /\ spawned' = spawned \ {r}
    /\ rsp' = Append(rsp, r) \/ UNCHANGED rsp
    /\ UNCHANGED <<originator, out, back, backend, hist>>

\* dnode_client_loop writes replies as they come.
WriteReply ==
    /\ rsp # <<>>
    /\ back' = Append(back, Head(rsp)) /\ rsp' = Tail(rsp)
    /\ UNCHANGED <<originator, out, backend, spawned, hist>>

-----------------------------------------------------------------------------

Next ==
    \/ \E m \in Reqs \cup Control : Accept(m)
    \/ DialOk \/ DialFailed \/ BackoffOver \/ Refuse
    \/ Write \/ ReadReply \/ Lost \/ Timeout \/ FailNext
    \/ \E o \in ReceiverOutcomes : Parse(o)
    \/ BackendReply \/ WriteReply
    \/ \E r \in Reqs : SpawnedReply(r)

\* Only the originator's own tasks and the timers it armed: nothing is assumed of
\* the receiver or the network.  A ready request is read in preference to a backoff
\* still sleeping (100 ms or more), hence SF on Refuse.
Fairness ==
    /\ WF_vars(DialOk \/ DialFailed) /\ WF_vars(BackoffOver) /\ SF_vars(Refuse)
    /\ SF_vars(Write) /\ WF_vars(Timeout) /\ WF_vars(FailNext)

Spec == Init /\ [][Next]_vars /\ Fairness

-----------------------------------------------------------------------------
(* Properties                                                              *)

Messages == Reqs \cup Control

\* Types; the per-peer channel never holds more than its capacity (fanout_send),
\* and only control frames wait for the next connection (held_control).
TypeOK ==
    /\ chan \in Seq(Messages) /\ Len(chan) <= ChannelCap
    /\ conn \in {"dialing", "up", "failing", "backoff"}
    /\ held \in Seq(Control) /\ first \in Seq(Control) /\ pending \in Seq(Reqs)
    /\ out \in Seq(Reqs) /\ back \in Seq(Reqs)
    /\ backend \in Seq(Reqs) /\ spawned \subseteq Reqs /\ rsp \in Seq(Reqs)
    /\ answer \in [Reqs -> {"none", "owed", "own", "error", "crossed"}]
    /\ in_order \in BOOLEAN
    /\ accepted \in Seq(Control) /\ gossiped \in Seq(Control) /\ dropped \subseteq Control

\* A request still owed an answer waits in exactly one queue of the originator,
\* whatever became of the connection, and no frame is queued twice (run_with,
\* refuse_peer_requests_while).
OwedOnce ==
    LET waiting == chan \o pending
    IN  /\ \A i, j \in DOMAIN waiting : waiting[i] = waiting[j] => i = j
        /\ Range(waiting) \cap Reqs = {r \in Reqs : answer[r] = "owed"}

\* While the receiver has given every request to its datastore, which answers
\* in order, what is in the connection and at the receiver answers the pending
\* requests in their order: the reason matching by position is right at all
\* (drive_response).
PipelineInOrder ==
    in_order /\ conn = "up" => ((back \o rsp) \o backend) \o out = pending

\* Under the same condition no request gets another's reply, across timeouts,
\* lost connections and redials (drive_response, run_with).
NoCrossedReply == in_order => \A r \in Reqs : answer[r] # "crossed"

\* Gossip frames are written in the order they were handed over, across
\* reconnects: an older state never follows a newer one (held_control, first).
ControlInOrder ==
    \A i, j \in DOMAIN gossiped : i < j =>
        \E a, b \in DOMAIN accepted :
            a < b /\ accepted[a] = gossiped[i] /\ accepted[b] = gossiped[j]

\* A gossip frame handed over still waits, was written, or was lost with a
\* connection that had been given the held frames and ended before it wrote this
\* one, and only one of these: a frame in the channel or held through a backoff
\* is not lost, and none is sent again (run_with, refuse_peer_requests_while).
FramesOnce ==
    LET waiting == (Range(chan) \cap Control) \cup Range(held) \cup Range(first)
    IN  /\ Range(accepted) = (waiting \cup Range(gossiped)) \cup dropped
        /\ waiting \cap Range(gossiped) = {}
        /\ (waiting \cup Range(gossiped)) \cap dropped = {}

\* What the originator was handed is neither doubled nor reordered by a lost
\* connection; no request is forgotten, and a gossip frame only if it was held
\* and the next connection ended before writing it (run_with,
\* refuse_peer_requests_while).
TrafficAccounted == OwedOnce /\ ControlInOrder /\ FramesOnce

\* The requests no timer covers: written, with no deadline among the pending.
Untimed ==
    IF conn = "up" /\ Range(pending) \cap Dated = {} THEN Range(pending) ELSE {}

\* The link as the dispatcher sees it.
StatusOf(a) ==
    CASE a = "none" -> "new" [] a \in {"own", "crossed"} -> "reply" [] OTHER -> a
LinkStatus == [r \in Reqs |-> StatusOf(answer[r])]

Contract == INSTANCE ReplyContract WITH status <- LinkStatus, waits <- Untimed


-----------------------------------------------------------------------------
(* What the documentation says, where the code does otherwise              *)

\* dnode_server.rs, drive_response: "Pop the pending entry whose req_id this
\* reply answers (dnode replies arrive in request order), recovering its paired
\* responder so the reply goes back to the request that issued it."
ReplyReachesItsRequest == \A r \in Reqs : answer[r] # "crossed"
=============================================================================
