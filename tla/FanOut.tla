------------------------------- MODULE FanOut -------------------------------
(***************************************************************************)
(* One client request through ClusterDispatcher (cluster/dispatch.rs): the *)
(* plan, the per-target fan-out with hinted handoff, the coalesce_actor    *)
(* task that turns the replicas' replies into the one reply the client     *)
(* gets, and the read-repair and delete-marker traffic it causes.          *)
(*                                                                         *)
(* Processes that interleave: the dispatching task (Dispatch, FanOutNext), *)
(* one link per replica (LinkReply, LinkDrop; ReplyContract is what a link *)
(* promises), and the actor (Recv, Close).  The failure detector changes   *)
(* peer states under them: the plan and the fan-out each take their own    *)
(* snapshot.                                                               *)
(***************************************************************************)
EXTENDS Coalesce, Sequences

CONSTANTS
    RackOf,      \* [Peers -> rack name]
    LocalRack,   \* this node's rack
    Ring,        \* the peers, each its rack's owner of the key, in table order:
                 \* by datacenter, then rack
    Removed,     \* payloads that are a delete's version, in a repairable read
    Contents,    \* the payloads of replies that carry no version
    NVals,       \* bucket-type n_val caps (0: no cap)
    Workload     \* the requests clients send

ASSUME RemovedAssumption == Removed \subseteq Payloads \ {0}
ASSUME ContentsAssumption == Contents \subseteq Payloads
ASSUME RingAssumption ==
    /\ Ring \in Seq(Peers)
    /\ \A i, j \in DOMAIN Ring : Ring[i] = Ring[j] => i = j
    /\ \A p \in Peers : \E i \in DOMAIN Ring : Ring[i] = p

VARIABLES
    pc,          \* "idle", "fan_out", "actor", "direct", "done"
    req,         \* the request being served
    targets,     \* DispatchPlan::Replicas targets
    down,        \* targets the fan-out's snapshot saw Down
    todo,        \* targets the fan-out loop has not reached
    sent,        \* targets fanout_send handed the request to
    in_flight,   \* targets whose link still holds the responder
    chan,        \* the intermediate channel
    received,    \* CoalesceTracker.received
    decided,     \* CoalesceTracker.decided
    emitted,     \* coalesce_actor: the client has its reply
    ts_replies,  \* coalesce_actor: timestamped replies in arrival order
    replied,     \* coalesce_actor: envelopes received
    good,        \* coalesce_actor: envelopes that were not errors
    repaired,    \* targets sent a repair write
    cleaned,     \* the delete markers were dropped
    hinted,      \* targets recorded in the hint store
    said,        \* what each link answered (history)
    answers      \* envelopes pushed to the client's sink (history)

actorVars == <<received, decided, emitted, ts_replies, replied, good, repaired, cleaned>>
planVars == <<req, targets, down>>
vars == <<pc, planVars, todo, sent, in_flight, chan, actorVars, hinted, said, answers>>

-----------------------------------------------------------------------------
(* The request and its plan                                                *)

\* script: the repair script the request is rewritten into, if any: a
\* repairable read, a delete, or another write.  mine: the key's owner on this
\* rack is this node.  hook: the node has an embedder's in-process datastore.
\* room: the client's sink has room during the dispatch.
Requests ==
    {r \in [level : Levels, is_read : BOOLEAN, handoff : BOOLEAN, mine : BOOLEAN, hook : BOOLEAN,
            routing : {"key", "all_nodes", "local_node"},
            script : {"none", "read", "delete", "write"},
            n_val : NVals, room : BOOLEAN] :
        /\ r.script = "read" => r.is_read
        /\ r.script \in {"delete", "write"} => ~r.is_read
        /\ r.routing # "key" => r.script = "none" /\ r.n_val = 0
        /\ r.routing # "key" => r.mine
        /\ ~r.room => r.handoff /\ ~r.is_read}

ASSUME WorkloadAssumption == Workload \subseteq Requests

\* The peer states a plan tells apart; Joining is routed like Normal, Unknown
\* and Reset like Leaving.
PeerStates == {"Normal", "Standby", "Down", "Leaving"}

InOwnRack(p) == DcOf[p] = LocalDc /\ RackOf[p] = LocalRack

\* The tables a plan may find.  Standby is told from Leaving in the own rack
\* only.
PeerTables ==
    {state \in [Peers -> PeerStates] : \A p \in Peers : state[p] = "Standby" => InOwnRack(p)}

IsLocal(r, p) == r.mine /\ InOwnRack(p)

\* Hinted handoff is on and the request is a write.
HandoffActive(r) == r.handoff /\ ~r.is_read

\* collect_routable's acceptance of one rack's candidate.
Routable(r, state, p) ==
    \/ IsLocal(r, p) /\ state[p] = "Standby"
    \/ state[p] = "Normal"
    \/ HandoffActive(r) /\ state[p] = "Down"

\* A plan lists the local datacenter's candidates first, each part in ring order.
Candidates == {Ring[i] : i \in DOMAIN Ring}
Pos(p) == CHOOSE i \in DOMAIN Ring : Ring[i] = p
Precedes(q, p) ==
    \/ DcOf[q] = LocalDc /\ DcOf[p] # LocalDc
    \/ (DcOf[q] = LocalDc <=> DcOf[p] = LocalDc) /\ Pos(q) < Pos(p)

Foremost(S) == {p \in S : \A q \in S : ~Precedes(q, p)}
FirstOf(n, S) == {p \in S : Cardinality({q \in S : Precedes(q, p)}) < n}

\* DC_ONE read: the first candidate at the smallest rack distance.
Nearest(S) ==
    LET own == {p \in S : InOwnRack(p)} IN Foremost(IF own # {} THEN own ELSE S)

LocalDatastore == [plan |-> "local"]
NoTargets == [plan |-> "none"]
Replicas(level, S) == [plan |-> "replicas", level |-> level, targets |-> S]

\* plan_with_consistency, for the routable candidates here and elsewhere.
PlanWithConsistency(r, local, remote) ==
    IF local = {} /\ r.level # "DC_EACH_SAFE_QUORUM" THEN NoTargets
    ELSE CASE r.level = "DC_ONE" ->
              LET S == IF r.is_read THEN Nearest(local) ELSE local
              IN  IF \E p \in S : S = {p} /\ IsLocal(r, p) THEN LocalDatastore
                  ELSE Replicas("DC_ONE", S)
           [] r.level = "DC_EACH_SAFE_QUORUM" -> Replicas(r.level, local \cup remote)
           [] OTHER -> Replicas(r.level, local)

\* cap_replicas.
Capped(plan, n_val) ==
    IF plan.plan = "replicas" /\ n_val # 0
    THEN [plan EXCEPT !.targets = FirstOf(n_val, @)] ELSE plan

\* ClusterDispatcher::plan.  A request to all nodes goes to every peer there is,
\* whatever its state.
Plan(r, state) ==
    LET routable == {p \in Candidates : Routable(r, state, p)}
        local == {p \in routable : DcOf[p] = LocalDc}
    IN  CASE r.routing = "local_node" -> LocalDatastore
          [] r.routing = "all_nodes" -> Replicas("DC_ONE", Peers)
          [] OTHER -> IF routable = {} THEN NoTargets
                      ELSE Capped(PlanWithConsistency(r, local, routable \ local), r.n_val)

-----------------------------------------------------------------------------
(* Replies                                                                 *)

ErrorReply == [err |-> TRUE, val |-> 0]
SynthOk == [err |-> FALSE, val |-> 1]       \* synth_hint_reply: +OK

\* A reply as the client sees it.  The payload of a repairable read's reply is
\* the version (timestamp) the replica holds, 0 for no record; a removed and an
\* absent value both read as nil.
TsRead(r) == r.script = "read"
Plain(r, rsp) ==
    IF TsRead(r) /\ ~rsp.err
    THEN [rsp EXCEPT !.val = IF rsp.val \in Removed THEN 0 ELSE rsp.val]
    ELSE rsp

ToClient(rsp) == [kind |-> "reply", rsp |-> rsp]
NoQuorum == [kind |-> "no_quorum"]
InvalidState == [kind |-> "invalid_state"]

\* Under DC_ONE only the first target in this node's own rack answers, if there
\* is one; the other replies are swallowed.
Answering == IF req.level = "DC_ONE" THEN Foremost({p \in targets : InOwnRack(p)}) ELSE {}

-----------------------------------------------------------------------------

NoRequest == [level |-> "DC_ONE", is_read |-> TRUE, handoff |-> FALSE, mine |-> TRUE,
              hook |-> FALSE, routing |-> "local_node", script |-> "none", n_val |-> 0, room |-> TRUE]

EmptyMap == [p \in {} |-> ErrorReply]

Init ==
    /\ pc = "idle" /\ req = NoRequest /\ targets = {} /\ down = {} /\ todo = {}
    /\ sent = {} /\ in_flight = {} /\ chan = <<>>
    /\ received = EmptyMap /\ decided = FALSE /\ emitted = FALSE
    /\ ts_replies = <<>> /\ replied = 0 /\ good = 0
    /\ repaired = {} /\ cleaned = FALSE
    /\ hinted = {} /\ said = EmptyMap /\ answers = <<>>

\* This node is itself a peer of the pool, in its own rack.
ASSUME OwnRackAssumption == \E p \in Peers : InOwnRack(p)

\* The local datastore has no plan targets: its link is the own-rack owner's.
OwnRackPeer == CHOOSE p \in Peers : InOwnRack(p)

\* ClusterDispatcher::dispatch, up to the fan-out loop.  `state` is what the
\* plan reads, `later_down` the peers Down when snapshot_peer_states reads the
\* table again: it may change in between, and matters to a write with handoff
\* only.  The LocalDatastore plan is a direct send that never hints, to the
\* embedder's datastore if there is one, which gets the request as it came.
Dispatch(r, state, later_down) ==
    LET plan == Plan(r, state)
        S == CASE plan.plan = "replicas" -> plan.targets
               [] plan.plan = "local" -> {OwnRackPeer}
               [] OTHER -> {}
    IN  /\ pc = "idle"
        /\ req' = [r EXCEPT !.level = IF plan.plan = "replicas" THEN plan.level ELSE @,
                            !.handoff = @ /\ plan.plan # "local",
                            !.hook = @ /\ plan.plan = "local",
                            !.script = IF r.hook /\ plan.plan = "local" THEN "none" ELSE @,
                            !.room = @ \/ plan.plan = "local"]
        /\ targets' = S /\ todo' = S
        /\ down' = {p \in S : p \in later_down /\ ~IsLocal(r, p)}
        /\ pc' = CASE S = {} -> "done" [] Cardinality(S) = 1 -> "direct" [] OTHER -> "fan_out"
        /\ answers' = IF S = {} THEN <<NoQuorum>> ELSE <<>>
        /\ UNCHANGED <<sent, in_flight, chan, actorVars, hinted, said>>

\* The request's task has ended and its state is gone.
Retire ==
    /\ pc = "done" /\ in_flight = {}
    /\ pc' = "idle" /\ req' = NoRequest /\ targets' = {} /\ down' = {} /\ todo' = {}
    /\ sent' = {} /\ in_flight' = {} /\ chan' = <<>>
    /\ received' = EmptyMap /\ decided' = FALSE /\ emitted' = FALSE
    /\ ts_replies' = <<>> /\ replied' = 0 /\ good' = 0
    /\ repaired' = {} /\ cleaned' = FALSE
    /\ hinted' = {} /\ said' = EmptyMap /\ answers' = <<>>

-----------------------------------------------------------------------------
(* The fan-out loop: one iteration per target                              *)

Envelope(p, rsp) == [src |-> p, rsp |-> rsp]

\* choose_target_action: hint a target the snapshot saw Down, if handoff is on.
ChooseHint(p) == HandoffActive(req) /\ p \in down

\* fanout_send accepted by the link's channel.
SendOk(p) ==
    /\ ~ChooseHint(p)
    /\ sent' = sent \cup {p}
    /\ in_flight' = in_flight \cup {p}
    /\ UNCHANGED <<chan, hinted, said>>

\* The node's own state refuses its replica (local_gate): the refusal is that
\* replica's reply.
SendRefused(p) ==
    /\ ~ChooseHint(p) /\ IsLocal(req, p)
    /\ sent' = sent \cup {p}
    /\ said' = RecordReply(said, p, ErrorReply)
    /\ chan' = Append(chan, Envelope(p, ErrorReply))
    /\ UNCHANGED <<in_flight, hinted>>

\* hint_target: record the write and vote +OK on the target's behalf; taken for
\* a Down target, and when the send failed (channel full or closed).
Hint(p) ==
    /\ HandoffActive(req)
    /\ hinted' = hinted \cup {p}
    /\ chan' = Append(chan, Envelope(p, SynthOk))
    /\ UNCHANGED <<sent, in_flight, said>>

\* Neither sent nor hinted: the channel is full or closed and handoff is off or
\* the hint store refuses.
TargetLost == UNCHANGED <<sent, in_flight, chan, hinted, said>>

\* The loop goes through the targets in the plan's order.
FanOutNext ==
    /\ pc = "fan_out"
    /\ \E p \in Foremost(todo) :
          /\ SendOk(p) \/ SendRefused(p) \/ Hint(p) \/ TargetLost
          /\ todo' = todo \ {p}
    /\ UNCHANGED <<pc, planVars, actorVars, answers>>

\* The loop is over: with nothing sent and nothing hinted the client gets the
\* error inline, otherwise the actor is spawned.
FanOutDone ==
    /\ pc = "fan_out" /\ todo = {}
    /\ IF sent \cup hinted = {}
       THEN pc' = "done" /\ answers' = Append(answers, NoQuorum)
       ELSE pc' = "actor" /\ UNCHANGED answers
    /\ UNCHANGED <<planVars, todo, sent, in_flight, chan, actorVars, hinted, said>>

\* dispatch_replicas_direct, and the LocalDatastore plan: one target, whose link
\* answers the client's sink itself.  The embedder's datastore is called in a
\* task of its own and refuses nothing.
Direct ==
    \E p \in todo :
    /\ pc = "direct" /\ todo' = {}
    /\ \/ SendOk(p) /\ UNCHANGED <<pc, answers>>
       \/ /\ ~ChooseHint(p) /\ IsLocal(req, p) /\ ~req.hook
          /\ pc' = "done" /\ answers' = Append(answers, InvalidState)
          /\ UNCHANGED <<sent, in_flight, chan, hinted, said>>
       \/ /\ HandoffActive(req)              \* hint_single_target_direct
          /\ hinted' = {p} /\ pc' = "done"
          /\ answers' = IF req.room THEN Append(answers, ToClient(SynthOk)) ELSE answers
          /\ UNCHANGED <<sent, in_flight, chan, said>>
       \/ TargetLost /\ ~req.hook /\ pc' = "done" /\ answers' = Append(answers, NoQuorum)
    /\ UNCHANGED <<planVars, actorVars>>

-----------------------------------------------------------------------------
(* The links                                                               *)

\* A link answers the request it holds: with the replica's reply, or with an
\* error when the connection is refused, lost or times out.
LinkReply(p, rsp) ==
    /\ p \in in_flight
    /\ in_flight' = in_flight \ {p}
    /\ said' = RecordReply(said, p, rsp)
    /\ IF pc = "direct"
       THEN /\ answers' = Append(answers, ToClient(Plain(req, rsp)))
            /\ pc' = "done"
            /\ UNCHANGED chan
       ELSE /\ chan' = Append(chan, Envelope(p, rsp))
            /\ UNCHANGED <<pc, answers>>
    /\ UNCHANGED <<planVars, todo, sent, actorVars, hinted>>

\* run_one_backend_conn drops the responder of a repair script whose connection
\* fails while the script runs; an embedder's datastore that fails sends nothing.
LinkDrop(p) ==
    /\ p \in in_flight /\ IsLocal(req, p) /\ (req.script # "none" \/ req.hook)
    /\ in_flight' = in_flight \ {p}
    /\ pc' = IF pc = "direct" THEN "done" ELSE pc
    /\ UNCHANGED <<planVars, todo, sent, chan, actorVars, hinted, said, answers>>

-----------------------------------------------------------------------------
(* coalesce_actor                                                          *)

\* find_most_updated over the timestamped replies: the indices that are stale.
\* Replies with no record (version 0) take no part.
Stale(reps) ==
    {i \in DOMAIN reps : reps[i].ver # 0 /\ \E j \in DOMAIN reps : reps[j].ver > reps[i].ver}

\* Mutant: the first reply answers.
FirstReply(reps) == reps[1]

\* ReadRepairContext::repair answers with the first reply that is not stale.
FirstNotStale(reps) ==
    reps[CHOOSE i \in DOMAIN reps \ Stale(reps) :
            \A j \in DOMAIN reps \ Stale(reps) : i <= j]

\* A reply that neither answers the client nor reaches the tracker.
Swallowed(src) == Answering # {} /\ src \notin Answering

\* Mutant: errors are not told from successes.
DropsMarkersAnyway(n_replied, n_good) == req.script = "delete" /\ n_replied = Cardinality(targets)

\* Every target answered the delete, none with an error: ReadRepairContext::cleanup
\* drops the markers.
DropsMarkers(n_replied, n_good) ==
    req.script = "delete" /\ n_replied = Cardinality(targets) /\ n_good = Cardinality(targets)

\* One envelope: it is counted and, for a repairable read, kept; the tracker
\* takes it unless it is swallowed or already decided; the first outcome
\* answers the client, with repair writes to the stale replicas.  If
\* repair_request makes none of the winning reply (`built` is FALSE), the replies
\* are compared as they are.
Recv(built) ==
    LET src == Head(chan).src
        raw == Head(chan).rsp
        rsp == Plain(req, raw)
        reps == IF TsRead(req) /\ ~raw.err
                THEN Append(ts_replies, [src |-> src, ver |-> raw.val]) ELSE ts_replies
        records == ~Swallowed(src) /\ ~decided
        outcome == IF records
                   THEN Evaluate(req.level, targets, RecordReply(received, src, rsp), src)
                   ELSE Pending
        repair == TsRead(req) /\ ~emitted /\ outcome # Pending /\ Stale(reps) # {} /\ built
        answer == IF repair
                  THEN ToClient(Plain(req, [err |-> FALSE, val |-> FirstNotStale(reps).ver]))
                  ELSE IF outcome = Failed THEN NoQuorum ELSE ToClient(outcome.winner)
    IN  /\ pc = "actor" /\ chan # <<>>
        /\ chan' = Tail(chan)
        /\ replied' = replied + 1
        /\ good' = IF rsp.err THEN good ELSE good + 1
        /\ ts_replies' = reps
        /\ received' = IF records THEN RecordReply(received, src, rsp) ELSE received
        /\ decided' = (decided \/ outcome # Pending)
        /\ repaired' = IF repair THEN {reps[i].src : i \in Stale(reps)} ELSE repaired
        /\ cleaned' = (cleaned \/ DropsMarkers(replied', good'))
        /\ IF outcome # Pending /\ ~emitted
           THEN answers' = Append(answers, answer) /\ emitted' = TRUE
           ELSE UNCHANGED <<answers, emitted>>
        /\ UNCHANGED <<pc, planVars, todo, sent, in_flight, hinted, said>>

\* Mutant: the error is sent whether or not the client was answered.
CloseAlwaysErrs ==
    /\ pc = "actor" /\ chan = <<>> /\ in_flight = {}
    /\ pc' = "done"
    /\ answers' = Append(answers, NoQuorum)
    /\ UNCHANGED <<planVars, todo, sent, in_flight, chan, actorVars, hinted, said>>


\* Every sender is gone and the channel is drained: an unanswered client gets
\* the quorum-unreachable error.
Close ==
    /\ pc = "actor" /\ chan = <<>> /\ in_flight = {}
    /\ pc' = "done"
    /\ answers' = IF emitted THEN answers ELSE Append(answers, NoQuorum)
    /\ UNCHANGED <<planVars, todo, sent, in_flight, chan, actorVars, hinted, said>>

-----------------------------------------------------------------------------

\* What a link may answer: any reply the replica gives, or the one error.
LinkReplies ==
    {ErrorReply} \cup [err : {FALSE}, val : IF TsRead(req) THEN Payloads ELSE Contents]

Next ==
    \/ /\ pc = "idle"
       /\ \E r \in Workload, state \in PeerTables :
             \E later_down \in (IF HandoffActive(r) THEN SUBSET Peers ELSE {{}}) :
                Dispatch(r, state, later_down)
    \/ FanOutNext \/ FanOutDone \/ Direct \/ Close \/ Retire
    \/ \E built \in BOOLEAN : Recv(built)
    \/ \E p \in Peers, rsp \in LinkReplies : LinkReply(p, rsp)
    \/ \E p \in Peers : LinkDrop(p)

\* The tasks are scheduled, and a link answers what it holds or drops it: every
\* request carries a deadline at which its connection is closed.
Fairness ==
    /\ WF_vars(FanOutNext \/ FanOutDone \/ Direct)
    /\ WF_vars(Close \/ \E built \in BOOLEAN : Recv(built))
    /\ \A p \in Peers : WF_vars(LinkDrop(p) \/ \E rsp \in LinkReplies : LinkReply(p, rsp))

Spec == Init /\ [][Next]_vars /\ Fairness

-----------------------------------------------------------------------------
(* Properties                                                              *)

\* What the replicas (or a hint on their behalf) have answered so far, whether
\* or not the tracker looked at it.
Voted == hinted \cup DOMAIN said
VoteOf(p) == IF p \in hinted THEN SynthOk ELSE Plain(req, said[p])
VotesOf(S, k) == {p \in S \cap Voted : VoteOf(p) = k}
Unanimous(S) == S \subseteq Voted /\ \A p, q \in S : VoteOf(p) = VoteOf(q)

Locals == LocalTargets(targets)
FannedOut == Cardinality(targets) > 1
AnsweredWith(k) == answers = <<ToClient(k)>>
Unrepaired == repaired = {}

\* The client gets at most one envelope per request, however the links, the
\* dispatching task and the actor interleave: a second one would answer the
\* next pipelined request on the connection (dispatch.rs, coalesce_actor).
OneAnswer == Len(answers) <= 1

\* A DC_QUORUM reply is backed by a majority of the local targets, or every
\* local target has answered and no other reply has more votes
\* (evaluate_dc_quorum).  Late replies cannot falsify it.
QuorumAnswer ==
    (FannedOut /\ req.level = "DC_QUORUM" /\ Unrepaired) =>
        \A k \in Reply : AnsweredWith(k) =>
            \/ Cardinality(VotesOf(Locals, k)) >= Quorum(targets)
            \/ /\ Locals \subseteq Voted
               /\ \A j \in Reply : Cardinality(VotesOf(Locals, j)) <= Cardinality(VotesOf(Locals, k))

\* A DC_SAFE_QUORUM reply was given by every local target; a
\* DC_EACH_SAFE_QUORUM reply by every local one, with every other datacenter
\* complete and unanimous too (evaluate_dc_safe_quorum,
\* evaluate_dc_each_safe_quorum).
SafeAnswer ==
    (FannedOut /\ Unrepaired) => \A k \in Reply : AnsweredWith(k) =>
        /\ req.level \in {"DC_SAFE_QUORUM", "DC_EACH_SAFE_QUORUM"} =>
              VotesOf(Locals, k) = Locals
        /\ req.level = "DC_EACH_SAFE_QUORUM" =>
              \A p \in targets : Unanimous(DcTargets(targets, DcOf[p]))

\* Under DC_ONE, when this node's own rack is among the targets, the client
\* gets that rack's reply even if another rack's came first
\* (dispatch_replicas' `answering`, coalesce_actor's `swallowed`).
OwnRackAnswers ==
    (FannedOut /\ req.level = "DC_ONE" /\ Answering # {}) =>
        \A k \in Reply : AnsweredWith(k) => VotesOf(Answering, k) = Answering

\* The client gets the reply its consistency level promises it, at every level
\* (dispatch_replicas, coalesce_actor, CoalesceTracker).
LevelKept == QuorumAnswer /\ SafeAnswer /\ OwnRackAnswers

\* A fanned-out request fails with no-quorum only when its level really was not
\* reached: no majority (DC_QUORUM), a missing or divergent replica (the safe
\* levels), no reply from the replica that answers (DC_ONE).  Checked when the
\* request is over, over everything the replicas answered.
NoQuorumJustified ==
    (FannedOut /\ pc = "done" /\ answers = <<NoQuorum>>) =>
        CASE req.level = "DC_ONE" ->
                IF Answering = {} THEN Voted = {} ELSE Answering \cap Voted = {}
          [] req.level = "DC_QUORUM" ->
                /\ ~(Locals \subseteq Voted)
                /\ \A k \in Reply : Cardinality(VotesOf(Locals, k)) < Quorum(targets)
          [] req.level = "DC_SAFE_QUORUM" -> ~Unanimous(Locals)
          [] OTHER -> \E p \in targets : ~Unanimous(DcTargets(targets, DcOf[p]))

\* A write is never both handed to a replica's link and queued as a hint for
\* it: the drainer would apply it a second time (dispatch_replicas).
SentOrHinted == sent \cap hinted = {}

\* The delete markers are dropped only after every target answered the delete
\* without an error or had it hinted (coalesce_actor's `good == total`).
MarkersKeptUntilAllGood ==
    cleaned => \A p \in targets : p \in hinted \/ (p \in DOMAIN said /\ ~said[p].err)

\* What the replicas are told to do is safe for them (dispatch_replicas,
\* coalesce_actor).
ReplicasSpared == SentOrHinted /\ MarkersKeptUntilAllGood

FreshestVersion(reps) ==
    CHOOSE v \in {reps[i].ver : i \in DOMAIN reps} : \A i \in DOMAIN reps : reps[i].ver <= v
FreshestReply(reps) ==
    ToClient(Plain(req, [err |-> FALSE, val |-> FreshestVersion(reps)]))

\* A step that sends repair writes answers the client with the freshest version
\* any reply carried, provided every reply so far had a record
\* (ReadRepairContext::repair, find_most_updated).
RepairedReadIsFresh ==
    [][ (/\ repaired = {} /\ repaired' # {}
         /\ \A i \in DOMAIN ts_replies' : ts_replies'[i].ver # 0)
          => answers' = <<FreshestReply(ts_replies')>> ]_vars

=============================================================================
