----------------------------- MODULE BackendLink -----------------------------
(***************************************************************************)
(* The link to the local datastore: the node-state gate with its held      *)
(* queue (cluster/dispatch.rs, LocalBackend) and the supervisor that owns  *)
(* the datastore connection (dynomited/src/server.rs, backend_supervisor). *)
(*                                                                         *)
(* Tasks that interleave: the dispatcher (Send and the flush it does under *)
(* the held queue's lock), expire_held, and the supervisor.  A request is  *)
(* a model value; the datastore answers in the order it was written to,    *)
(* and a memcache `noreply` request not at all.                            *)
(***************************************************************************)
EXTENDS Integers, Sequences

CONSTANTS
    Reqs,        \* requests bound for the local datastore
    Reads,       \* those that are reads
    Scripts,     \* those that carry a repair script, on a Valkey datastore
    Silent,      \* those marked noreply, on a memcache datastore
    DateSets,    \* which requests may carry a deadline: a set of sets of requests
    ChannelCap,  \* capacity of the supervisor's request channel
    DynStates,   \* node states the operator may set
    NoReq        \* not a request

ASSUME ReqsAssumption ==
    /\ Reads \subseteq Reqs /\ Scripts \subseteq Reqs /\ Silent \subseteq Reqs
    /\ DateSets \subseteq SUBSET Reqs /\ NoReq \notin Reqs
ASSUME ChannelCapAssumption == ChannelCap \in Nat \ {0}
ASSUME StatesAssumption ==
    DynStates \subseteq {"Normal", "Standby", "WritesOnly", "Resuming", "Joining"}

VARIABLES
    data_store,  \* "Valkey" or "Memcache": one kind for the life of the process
    dated,       \* the requests whose sender gave them a deadline
    state,       \* ServerPool::local_state
    held,        \* LocalBackend.held
    flushing,    \* the request whose send holds the lock and flushes, or NoReq
    expired,     \* drained by expire_held, not answered yet
    chan,        \* the supervisor's request channel
    conn,        \* "dialing", "up", "failing" (answering the lost) or "backoff"
    pending,     \* written, reply owed
    script,      \* the script run_repair_script is running, or NoReq
    wire,        \* requests the datastore will answer and has not, on this connection
    muted,       \* written as a noreply request, or behind a muted one (history)
    answer,      \* what each request got
    order,       \* requests in the order they were accepted (history)
    answered     \* requests in the order they were answered (history)

conf == <<data_store, dated>>
gate == <<state, held, flushing, expired>>
sup == <<conn, pending, script, wire, muted>>
hist == <<answer, order, answered>>
vars == <<conf, gate, chan, sup, hist>>

Init ==
    /\ data_store \in {"Valkey", "Memcache"} /\ dated \in DateSets
    /\ state \in DynStates /\ held = <<>> /\ flushing = NoReq /\ expired = <<>>
    /\ chan = <<>> /\ conn = "dialing" /\ pending = <<>> /\ script = NoReq /\ wire = <<>>
    /\ muted = {}
    /\ answer = [r \in Reqs |-> "none"] /\ order = <<>> /\ answered = <<>>

\* A script is looked for on any datastore but memcache; noreply is memcache's,
\* and the pool arms no deadline for a request no client waits for.
IsScript(r) == r \in Scripts /\ data_store # "Memcache"
IsSilent(r) == r \in Silent /\ data_store = "Memcache"
HasDeadline(r) == r \in dated /\ ~IsSilent(r)

\* earliest_deadline is Some: a timer runs for these requests.
TimerFor(rs) == \E r \in rs : HasDeadline(r)

Room == Len(chan) < ChannelCap

\* The responder of r receives a.
Reply(r, a) ==
    /\ answer' = [answer EXCEPT ![r] = a]
    /\ answered' = Append(answered, r)

Owed(r) ==
    /\ answer' = [answer EXCEPT ![r] = "owed"]
    /\ order' = Append(order, r)
    /\ UNCHANGED answered

-----------------------------------------------------------------------------
(* The gate                                                                *)

\* local_gate.
LocalGate(s, is_read) ==
    CASE s = "Normal" -> "SendIfIdle"
      [] s = "Standby" -> "Refuse"
      [] s \in {"WritesOnly", "Resuming"} /\ is_read -> "Refuse"
      [] s = "Resuming" -> "Send"
      [] OTHER -> "Hold"

\* The operator or gossip sets this node's state.
SetState(s) ==
    /\ state' = s
    /\ UNCHANGED <<conf, held, flushing, expired, chan, sup, hist>>

\* try_send: the request joins the channel, or is turned away inline.
TrySend(r) ==
    IF Room
    THEN chan' = Append(chan, r) /\ Owed(r)
    ELSE Reply(r, "refused") /\ UNCHANGED <<chan, order>>

\* LocalBackend::send.  Under RESUMING the lock is kept while the held requests
\* are moved into the channel, which the supervisor may be draining.
Send(r) ==
    LET g == LocalGate(state, r \in Reads)
    IN  /\ answer[r] = "none" /\ flushing = NoReq
        /\ \/ g = "Refuse" /\ Reply(r, "refused") /\ UNCHANGED <<held, flushing, chan, order>>
           \/ g = "SendIfIdle" /\ held = <<>> /\ TrySend(r) /\ UNCHANGED <<held, flushing>>
           \/ /\ g = "Hold" \/ (g = "SendIfIdle" /\ held # <<>>)
              /\ held' = Append(held, r) /\ Owed(r)
              /\ UNCHANGED <<flushing, chan>>
           \/ /\ g = "Send" /\ flushing' = r
              /\ UNCHANGED <<held, chan, hist>>
        /\ UNCHANGED <<conf, state, expired, sup>>

Flush ==
    /\ flushing # NoReq
    /\ \/ /\ held # <<>> /\ Room
          /\ chan' = Append(chan, Head(held)) /\ held' = Tail(held)
          /\ UNCHANGED <<flushing, hist>>
       \/ /\ held # <<>> /\ ~Room
          /\ held' = Append(held, flushing) /\ Owed(flushing)
          /\ flushing' = NoReq
          /\ UNCHANGED chan
       \/ /\ held = <<>>
          /\ TrySend(flushing) /\ flushing' = NoReq
          /\ UNCHANGED held
    /\ UNCHANGED <<conf, state, expired, sup>>

\* expire_held: a held request's deadline passed, so every held request is
\* drained under the lock and answered afterwards.
ExpireHeld ==
    /\ TimerFor({held[i] : i \in DOMAIN held}) /\ flushing = NoReq /\ expired = <<>>
    /\ expired' = held /\ held' = <<>>
    /\ UNCHANGED <<conf, state, flushing, chan, sup, hist>>

AnswerExpired ==
    /\ expired # <<>>
    /\ Reply(Head(expired), "expired")
    /\ expired' = Tail(expired)
    /\ UNCHANGED <<conf, state, held, flushing, chan, sup, order>>

-----------------------------------------------------------------------------
(* The supervisor                                                          *)

DialOk ==
    /\ conn = "dialing" /\ conn' = "up" /\ pending' = <<>>
    /\ UNCHANGED <<conf, gate, chan, script, wire, muted, hist>>

\* Refused, timed out, or AUTH rejected.
DialFailed ==
    /\ conn = "dialing" /\ conn' = "backoff"
    /\ UNCHANGED <<conf, gate, chan, pending, script, wire, muted, hist>>

BackoffOver ==
    /\ conn = "backoff" /\ conn' = "dialing"
    /\ UNCHANGED <<conf, gate, chan, pending, script, wire, muted, hist>>

\* serve_errors_while: a request that arrives during the backoff.
ServeError ==
    /\ conn = "backoff" /\ chan # <<>>
    /\ Reply(Head(chan), "error")
    /\ chan' = Tail(chan)
    /\ UNCHANGED <<conf, gate, sup, order>>

\* run_one_backend_conn takes the next request: a script runs at once, and no
\* other request is read until it ends; anything else is queued and written, a
\* noreply request too, to which the datastore will send nothing.
Recv ==
    LET r == Head(chan) IN
    /\ conn = "up" /\ script = NoReq /\ chan # <<>>
    /\ chan' = Tail(chan)
    /\ IF IsScript(r)
       THEN script' = r /\ UNCHANGED <<pending, wire, muted>>
       ELSE /\ pending' = Append(pending, r) /\ UNCHANGED script
            /\ wire' = IF IsSilent(r) THEN wire ELSE Append(wire, r)
            /\ muted' = IF IsSilent(r) \/ \E i \in DOMAIN pending : pending[i] \in muted
                        THEN muted \cup {r} ELSE muted
    /\ UNCHANGED <<conf, gate, conn, hist>>

\* A datastore reply arrives and deliver_replies gives it to the oldest pending
\* request (also while a script waits for the pipeline to drain).
DeliverReply ==
    /\ conn = "up" /\ wire # <<>>
    /\ wire' = Tail(wire)
    /\ IF pending = <<>> THEN UNCHANGED <<pending, hist>>
       ELSE /\ Reply(Head(pending), IF Head(pending) = Head(wire) THEN "own" ELSE "crossed")
            /\ pending' = Tail(pending)
            /\ UNCHANGED order
    /\ UNCHANGED <<conf, gate, chan, conn, script, muted>>

\* run_repair_script: the pipeline is empty, the script's commands are written
\* and answered one by one, and its result is the reply.
ScriptDone ==
    /\ conn = "up" /\ script # NoReq /\ pending = <<>>
    /\ Reply(script, "own") /\ script' = NoReq
    /\ UNCHANGED <<conf, gate, chan, conn, pending, wire, muted, order>>

\* What the connection's timer watches: what was written and the running script.
InFlight == {pending[i] : i \in DOMAIN pending} \cup ({script} \ {NoReq})

\* Mutant: the late request is answered and the connection kept.
TimeoutKeepsConnection ==
    /\ conn = "up" /\ pending # <<>> /\ TimerFor(InFlight)
    /\ Reply(Head(pending), "error") /\ pending' = Tail(pending)
    /\ UNCHANGED <<conf, gate, chan, conn, script, wire, muted, order>>

\* The earliest deadline passed: the connection is closed.  A running script is
\* put with the pending requests.
Timeout ==
    /\ conn = "up" /\ TimerFor(InFlight)
    /\ conn' = "failing" /\ wire' = <<>> /\ script' = NoReq
    /\ pending' = IF script # NoReq THEN Append(pending, script) ELSE pending
    /\ UNCHANGED <<conf, gate, chan, muted, hist>>

\* EOF, an I/O error or an unparseable reply.  A running script's request is
\* dropped with its responder (`r?`).
IoError ==
    /\ conn = "up"
    /\ conn' = "failing" /\ wire' = <<>> /\ script' = NoReq
    /\ answer' = IF script # NoReq THEN [answer EXCEPT ![script] = "dropped"] ELSE answer
    /\ UNCHANGED <<conf, gate, chan, pending, muted, order, answered>>


\* Mutant: what is queued is answered before what was written.
FailQueuedFirst ==
    /\ conn = "failing"
    /\ \/ /\ chan # <<>>
          /\ Reply(Head(chan), "error") /\ chan' = Tail(chan)
          /\ UNCHANGED <<pending, conn, order>>
       \/ /\ chan = <<>> /\ pending # <<>>
          /\ Reply(Head(pending), "error") /\ pending' = Tail(pending)
          /\ UNCHANGED <<chan, conn, order>>
       \/ /\ pending = <<>> /\ chan = <<>>
          /\ conn' = "backoff"
          /\ UNCHANGED <<pending, chan, hist>>
    /\ UNCHANGED <<conf, gate, script, wire, muted>>

\* fail_backend_requests: what was written, then what is queued behind it.
FailNext ==
    /\ conn = "failing"
    /\ \/ /\ pending # <<>>
          /\ Reply(Head(pending), "error") /\ pending' = Tail(pending)
          /\ UNCHANGED <<chan, conn, order>>
       \/ /\ pending = <<>> /\ chan # <<>>
          /\ Reply(Head(chan), "error") /\ chan' = Tail(chan)
          /\ UNCHANGED <<pending, conn, order>>
       \/ /\ pending = <<>> /\ chan = <<>>
          /\ conn' = "backoff"
          /\ UNCHANGED <<pending, chan, hist>>
    /\ UNCHANGED <<conf, gate, script, wire, muted>>

-----------------------------------------------------------------------------

Gate ==
    \/ \E s \in DynStates : SetState(s)
    \/ \E r \in Reqs : Send(r)
    \/ Flush \/ ExpireHeld \/ AnswerExpired

Supervisor ==
    \/ DialOk \/ DialFailed \/ BackoffOver \/ ServeError
    \/ Recv \/ DeliverReply \/ ScriptDone \/ Timeout \/ IoError \/ FailNext

Next == Gate \/ Supervisor

\* tokio fires the timers that are armed: a held queue with a deadline in it
\* expires, a datastore silent past the earliest deadline is timed out, a dial
\* and a backoff end.  Without a deadline in flight no timer runs, and the
\* datastore owes nothing.  A ready request is read in preference to a backoff
\* still sleeping, hence SF on ServeError.
Fairness ==
    /\ WF_vars(Flush) /\ WF_vars(ExpireHeld) /\ WF_vars(AnswerExpired)
    /\ WF_vars(DialOk \/ DialFailed) /\ WF_vars(BackoffOver) /\ SF_vars(ServeError)
    /\ SF_vars(Recv) /\ WF_vars(Timeout) /\ WF_vars(FailNext)

Spec == Init /\ [][Next]_vars /\ Fairness

-----------------------------------------------------------------------------
(* Properties                                                              *)

Results == {"none", "owed", "own", "error", "expired", "refused", "dropped", "crossed"}

\* Types, and the supervisor's channel never over its capacity (LocalBackend::send
\* uses try_send).
TypeOK ==
    /\ data_store \in {"Valkey", "Memcache"} /\ dated \subseteq Reqs /\ muted \subseteq Reqs
    /\ state \in DynStates
    /\ held \in Seq(Reqs) /\ flushing \in Reqs \cup {NoReq} /\ expired \in Seq(Reqs)
    /\ chan \in Seq(Reqs) /\ Len(chan) <= ChannelCap
    /\ conn \in {"dialing", "up", "failing", "backoff"}
    /\ pending \in Seq(Reqs) /\ script \in Reqs \cup {NoReq} /\ wire \in Seq(Reqs)
    /\ answer \in [Reqs -> Results]
    /\ order \in Seq(Reqs) /\ answered \in Seq(Reqs)

\* Everything the link holds, oldest obligations first.
Holding ==
    pending \o (IF script = NoReq THEN <<>> ELSE <<script>>) \o chan \o held \o expired

\* A request the link owes an answer is in exactly one of its queues, and the
\* queues hold nothing else: no path through the gate, the flush, the expiry or
\* a lost connection forgets a request or keeps it twice (LocalBackend,
\* run_one_backend_conn, fail_backend_requests).
HeldOnce ==
    /\ \A i, j \in DOMAIN Holding : Holding[i] = Holding[j] => i = j
    /\ {Holding[i] : i \in DOMAIN Holding} = {r \in Reqs : answer[r] = "owed"}

\* A request gets another request's reply only if it was itself a memcache
\* noreply request, or was written behind one on the same connection: timeouts,
\* lost connections, redials and scripts that interrupt the pipeline cross
\* nothing, though replies are matched by position only (deliver_replies), and
\* what a noreply request shifts does not outlive its connection.
NoCrossedReply == \A r \in Reqs : answer[r] = "crossed" => r \in muted

\* Only a repair script's request is ever dropped unanswered.
OnlyScriptsDropped == \A r \in Reqs : answer[r] = "dropped" => IsScript(r)

\* What the datastore side owes and answers, the requests the gate refuses or
\* expires and the dropped scripts left out: accepted requests are answered
\* once and in the order they were accepted, errors included, whatever the
\* node's state and the held queue do.  A peer's connection matches replies by
\* position and relies on it (PeerLink).
AnsweredInOrder ==
    LET expiring == {expired[i] : i \in DOMAIN expired}
        due(r) == answer[r] \notin {"dropped", "expired"} /\ r \notin expiring
    IN  /\ \A a, b \in DOMAIN answered : answered[a] = answered[b] => a = b
        /\ \A b \in DOMAIN answered :
              answer[answered[b]] = "refused" \/ \E j \in DOMAIN order : order[j] = answered[b]
        /\ \A i, j \in DOMAIN order, b \in DOMAIN answered :
              (i < j /\ due(order[i]) /\ due(order[j]) /\ answered[b] = order[j])
                 => \E a \in 1..(b - 1) : answered[a] = order[i]

\* No request, a script's included, is forgotten, kept twice or answered out of
\* turn (LocalBackend, run_one_backend_conn, fail_backend_requests).
RequestsAccounted == HeldOnce /\ OnlyScriptsDropped /\ AnsweredInOrder

\* The requests no timer covers: held with no deadline among the held, or on a
\* connection with no deadline in flight, written or behind the running script.
Untimed ==
    LET heldNow == {held[i] : i \in DOMAIN held}
        queued == {chan[i] : i \in DOMAIN chan}
    IN  (IF TimerFor(heldNow) THEN {} ELSE heldNow)
           \cup (IF conn # "up" \/ TimerFor(InFlight) THEN {}
                 ELSE IF script = NoReq THEN InFlight ELSE InFlight \cup queued)

\* The gate and the supervisor together, as the dispatcher sees them, for the
\* requests that carry no script.
StatusOf(a) ==
    CASE a = "none" -> "new"
      [] a \in {"refused", "expired"} -> "error"
      [] a \in {"own", "crossed"} -> "reply"
      [] OTHER -> a
LinkStatus == [r \in Reqs \ Scripts |-> StatusOf(answer[r])]

Contract == INSTANCE ReplyContract WITH Reqs <- Reqs \ Scripts, status <- LinkStatus,
                                           waits <- Untimed

=============================================================================
