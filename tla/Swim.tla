-------------------------------- MODULE Swim --------------------------------
(* SWIM + Lifeguard membership: SwimState and SwimHandler of every node     *)
(* (dynomite/src/cluster/swim.rs), driven by the probe outcomes and the     *)
(* piggybacked updates their run loop feeds them.  Updates may be lost,     *)
(* delayed, reordered and duplicated, nodes may crash and restart.          *)
(*                                                                         *)
(* A suspicion's start tick is kept as its age in protocol periods.  An age *)
(* beyond every deadline and a suspector count beyond which the halved      *)
(* timeout is its floor of one period are not told apart, so time and       *)
(* counts are unbounded here.                                               *)
EXTENDS Integers, FiniteSets, Sequences, SequencesExt

CONSTANTS
    Nodes,
    Shaky,        \* members whose probes may be lost and which may crash; nothing
                  \* is ever to be told of the others
    Base,         \* suspicion_periods_base
    NsDilation,   \* ns_dilation
    NsMax,        \* ns_max
    MaxLost,      \* bound: lost pings of members that are up
    MaxCrashes,   \* bound: crashes
    MaxLate,      \* bound: updates that are on the way at once
    MaxCalls      \* bound: calls of handlers held up between their two locks

ASSUME SwimAssumption ==
    /\ Shaky \subseteq Nodes
    /\ Base \in Nat \ {0} /\ NsDilation \in Nat /\ NsMax \in Nat
    /\ MaxLost \in Nat /\ MaxCrashes \in Nat /\ MaxLate \in Nat /\ MaxCalls \in Nat

VARIABLES
    up,
    my_incarnation,   \* per node, its own
    nack_score,
    members,          \* node -> member -> [incarnation, status, age, suspectors]
    pool,             \* node -> member -> PeerState, what the dispatcher routes by
    unapplied,        \* node -> member -> transitions decided under the state's
                      \* mutex and not yet applied under the lock of the peers
    late,             \* updates on the way
    lost, crashes,
    accused,          \* history: <<m, i>>, a probe of m failed at incarnation i
    overtaken         \* history: <<n, m>>, the newest transition was applied before
                      \* an older one

routing == <<pool, unapplied, overtaken>>
vars == <<up, my_incarnation, nack_score, members, routing, late, lost, crashes, accused>>

Status == {"Alive", "Suspect", "Dead"}

\* Timeouts a healthy and the slowest observer wait, before the dogpile.
Dilated(score) == Base * (1 + score * NsDilation)
MaxAge == Dilated(NsMax)
MaxSuspectors == MaxAge

Least(a, b) == IF a < b THEN a ELSE b
Most(a, b) == IF a < b THEN b ELSE a

Belief(i, st, age, n) == [incarnation |-> i, status |-> st, age |-> age, suspectors |-> n]
AliveAt(i) == Belief(i, "Alive", 0, 0)
DeadAt(i) == Belief(i, "Dead", 0, 0)
SuspectAt(i, age, n) == Belief(i, "Suspect", Least(age, MaxAge), Least(n, MaxSuspectors))

Update(m, b) == [member |-> m, incarnation |-> b.incarnation, status |-> b.status,
                 suspectors |-> b.suspectors]
Updates == [member : Nodes, incarnation : Nat, status : Status, suspectors : 0..MaxSuspectors]

Init ==
    /\ up = [n \in Nodes |-> TRUE]
    /\ my_incarnation = [n \in Nodes |-> 0]
    /\ nack_score = [n \in Nodes |-> 0]
    /\ members = [n \in Nodes |-> [m \in Nodes |-> AliveAt(0)]]
    /\ pool = [n \in Nodes |-> [m \in Nodes |-> "Down"]]
    /\ unapplied = [n \in Nodes |-> [m \in Nodes |-> <<>>]] /\ overtaken = {}
    /\ late = {} /\ lost = 0 /\ crashes = 0 /\ accused = {}

-----------------------------------------------------------------------------
(* SwimState                                                               *)

\* 2^k, for the shift; suspector counts are capped, so k is small.
Halved(t, k) == IF k = 0 THEN t ELSE t \div (2 ^ k)

\* confirm_deadline_for, as the age at which the suspicion is confirmed.
ConfirmAfter(n, b) == Most(Halved(Dilated(nack_score[n]), b.suspectors - 1), 1)

\* status_to_peer_state.
Projected(st) == IF st = "Alive" THEN "Normal" ELSE "Down"

Calls == UNION {{<<p[1], p[2], i>> : i \in DOMAIN unapplied[p[1]][p[2]]} : p \in Nodes \X Nodes}

\* Mutant: only a return to Normal is passed on, a suspicion is not.
ReconcileRestores(n, m, b) ==
    /\ members' = [members EXCEPT ![n][m] = b]
    /\ pool' = IF Projected(b.status) = "Normal" /\ Projected(members[n][m].status) = "Down"
               THEN [pool EXCEPT ![n][m] = "Normal"] ELSE pool
    /\ UNCHANGED <<unapplied, overtaken>>

\* SwimHandler's call of the state machine, which decides on a transition only
\* if the projected state changed, and apply, which takes a lock of its own: at
\* once, or later, after or before others.
Reconcile(n, m, b) ==
    LET st == Projected(b.status)
        changed == Projected(members[n][m].status) # st
    IN  /\ members' = [members EXCEPT ![n][m] = b]
        /\ \/ ~changed /\ UNCHANGED routing
           \/ /\ changed
              /\ pool' = [pool EXCEPT ![n][m] = st] /\ UNCHANGED unapplied
              /\ overtaken' = IF unapplied[n][m] = <<>> THEN overtaken \ {<<n, m>>}
                              ELSE overtaken \cup {<<n, m>>}
           \/ /\ changed /\ Cardinality(Calls) < MaxCalls
              /\ unapplied' = [unapplied EXCEPT ![n][m] = Append(@, st)]
              /\ overtaken' = overtaken \ {<<n, m>>} /\ UNCHANGED pool

\* mark_alive_local: clears a suspicion, never a confirmed death.
MarkAliveLocal(b) == IF b.status = "Dead" THEN b ELSE AliveAt(b.incarnation)

\* Mutant: every failed probe begins the suspicion anew.
BeginSuspicionAnew(b) == IF b.status = "Dead" THEN b ELSE SuspectAt(b.incarnation, 0, 1)

\* begin_suspicion.
BeginSuspicion(b) ==
    CASE b.status = "Alive" -> SuspectAt(b.incarnation, 0, 1)
      [] b.status = "Suspect" -> SuspectAt(b.incarnation, b.age, b.suspectors + 1)
      [] OTHER -> b

\* status_rank.
Rank(st) == CASE st = "Alive" -> 0 [] st = "Suspect" -> 1 [] OTHER -> 2

\* merge_suspect: the start of a suspicion that already runs is kept, whatever
\* its incarnation, and the counts add up.
MergeSuspect(b, u) ==
    CASE u.status = "Suspect" /\ b.status = "Suspect" ->
             SuspectAt(u.incarnation, b.age, b.suspectors + u.suspectors)
      [] u.status = "Suspect" /\ b.status # "Suspect" ->
             SuspectAt(u.incarnation, 0, Most(u.suspectors, 1))
      [] u.status = "Alive" -> AliveAt(u.incarnation)
      [] OTHER -> DeadAt(u.incarnation)

\* Mutant: the worse belief wins at any incarnation.
MergedWorseWins(b, u) ==
    IF u.incarnation > b.incarnation \/ Rank(u.status) > Rank(b.status)
    THEN [MergeSuspect(b, u) EXCEPT !.incarnation = Most(b.incarnation, u.incarnation)]
    ELSE b

\* on_update about another member: what it leaves in the view.
Merged(b, u) ==
    IF \/ u.incarnation > b.incarnation
       \/ /\ u.incarnation = b.incarnation
          /\ \/ Rank(u.status) > Rank(b.status)
             \/ u.status = "Suspect" /\ b.status = "Suspect"
    THEN MergeSuspect(b, u) ELSE b

\* Mutant: only an accusation from beyond the own incarnation is refuted.
RefutedStrictly(i, u) ==
    IF u.status # "Alive" /\ u.incarnation > i THEN u.incarnation + 1 ELSE i

\* handle_update_about_self: the own incarnation after u.
Refuted(i, u) ==
    IF u.status # "Alive" /\ u.incarnation >= i THEN u.incarnation + 1 ELSE i

-----------------------------------------------------------------------------
(* SwimHandler and the traffic that drives it                              *)

\* A ping of a member that is up gets no ack.
Lost == lost < MaxLost /\ lost' = lost + 1

\* on_probe(Acked).
ProbeAcked(n, m) ==
    /\ up[n] /\ up[m] /\ n # m
    /\ nack_score' = [nack_score EXCEPT ![n] = Most(@ - 1, 0)]
    /\ Reconcile(n, m, MarkAliveLocal(members[n][m]))
    /\ UNCHANGED <<up, my_incarnation, late, lost, crashes, accused>>

\* on_probe(IndirectAcked): the direct ping was lost.
ProbeIndirectAcked(n, m) ==
    /\ up[n] /\ up[m] /\ n # m /\ m \in Shaky /\ Lost
    /\ nack_score' = [nack_score EXCEPT ![n] = Least(@ + 1, NsMax)]
    /\ Reconcile(n, m, MarkAliveLocal(members[n][m]))
    /\ UNCHANGED <<up, my_incarnation, late, crashes, accused>>

\* on_probe(Failed): m is down, or the ping and every indirect one were lost.
ProbeFailed(n, m) ==
    /\ up[n] /\ n # m /\ m \in Shaky
    /\ IF up[m] THEN Lost ELSE UNCHANGED lost
    /\ Reconcile(n, m, BeginSuspicion(members[n][m]))
    /\ accused' = accused \cup {<<m, members[n][m].incarnation>>}
    /\ UNCHANGED <<up, my_incarnation, nack_score, late, crashes>>

\* apply, after other steps: callers take the lock of the peers in any order.
Apply(n, m, i) ==
    /\ up[n] /\ i \in DOMAIN unapplied[n][m]
    /\ pool' = [pool EXCEPT ![n][m] = unapplied[n][m][i]]
    /\ unapplied' = [unapplied EXCEPT ![n][m] = RemoveAt(@, i)]
    /\ overtaken' = IF i = Len(unapplied[n][m]) /\ i > 1
                    THEN overtaken \cup {<<n, m>>} ELSE overtaken
    /\ UNCHANGED <<up, my_incarnation, nack_score, members, late, lost, crashes, accused>>

Probe(n, m) == ProbeAcked(n, m) \/ ProbeIndirectAcked(n, m) \/ ProbeFailed(n, m)

\* What a tells others about m: its view, or that it is alive itself.
Told(a, m) == Update(m, IF m = a THEN AliveAt(my_incarnation[a]) ELSE members[a][m])

\* on_update.
OnUpdate(n, u) ==
    /\ up[n]
    /\ IF u.member = n
       THEN /\ my_incarnation' = [my_incarnation EXCEPT ![n] = Refuted(@, u)]
            /\ UNCHANGED <<members, routing>>
       ELSE /\ Reconcile(n, u.member, Merged(members[n][u.member], u))
            /\ UNCHANGED my_incarnation
    /\ UNCHANGED <<up, nack_score, lost, crashes, accused>>

\* An update about m rides on a's ping or ack to n.
Piggyback(a, n, m) == up[a] /\ a # n /\ OnUpdate(n, Told(a, m)) /\ UNCHANGED late

\* One is delayed, and arrives later, once or more often, or never.
Delay(a, m) ==
    /\ up[a] /\ Cardinality(late) < MaxLate
    /\ late' = late \cup {Told(a, m)}
    /\ UNCHANGED <<up, my_incarnation, nack_score, members, routing, lost, crashes, accused>>

Arrive(n, u) ==
    /\ u \in late /\ OnUpdate(n, u)
    /\ late' = late \/ late' = late \ {u}

\* A protocol period passes on n's clock (tick_of) and its timer calls evaluate:
\* tick confirms every suspicion at its deadline.  Suspect and Dead project to
\* the same PeerState, so there is no transition to apply.
Evaluate(n) ==
    /\ up[n]
    /\ members' = [members EXCEPT ![n] = [m \in Nodes |->
            LET b == members[n][m] IN
            IF b.status # "Suspect" THEN b
            ELSE IF b.age + 1 >= ConfirmAfter(n, b) THEN DeadAt(b.incarnation)
            ELSE SuspectAt(b.incarnation, b.age + 1, b.suspectors)]]
    /\ UNCHANGED <<up, my_incarnation, nack_score, routing, late, lost, crashes, accused>>

Crash(n) ==
    /\ up[n] /\ n \in Shaky /\ crashes < MaxCrashes
    /\ crashes' = crashes + 1
    /\ up' = [up EXCEPT ![n] = FALSE]
    /\ UNCHANGED <<my_incarnation, nack_score, members, routing, late, lost, accused>>

\* The process starts over: SwimState::new and a pool of remote peers Down; no
\* incarnation is kept on disk.
Restart(n) ==
    /\ ~up[n]
    /\ up' = [up EXCEPT ![n] = TRUE]
    /\ my_incarnation' = [my_incarnation EXCEPT ![n] = 0]
    /\ nack_score' = [nack_score EXCEPT ![n] = 0]
    /\ members' = [members EXCEPT ![n] = [m \in Nodes |-> AliveAt(0)]]
    /\ pool' = [pool EXCEPT ![n] = [m \in Nodes |-> "Down"]]
    /\ unapplied' = [unapplied EXCEPT ![n] = [m \in Nodes |-> <<>>]]
    /\ overtaken' = overtaken \ ({n} \X Nodes)
    /\ UNCHANGED <<late, lost, crashes, accused>>

Next ==
    \/ \E n, m \in Nodes : Probe(n, m)
    \/ \E n, m \in Nodes : \E i \in DOMAIN unapplied[n][m] : Apply(n, m, i)
    \/ \E m \in Shaky, a, n \in Nodes : Piggyback(a, n, m)
    \/ \E m \in Shaky, a \in Nodes : Delay(a, m)
    \/ \E n \in Nodes : (\E u \in late : Arrive(n, u))
    \/ \E n \in Nodes : Evaluate(n) \/ Crash(n) \/ Restart(n)

\* A node that is up probes every member and exchanges updates with every other
\* again and again, at random moments, so an accusation that comes and goes is in
\* the end told to the accused; and its timer runs.
Fairness ==
    \A m \in Shaky : \A n \in Nodes \ {m} :
        /\ WF_vars(Probe(n, m)) /\ WF_vars(Evaluate(n))
        /\ SF_vars(Piggyback(n, m, m)) /\ WF_vars(Piggyback(m, n, m))

Spec == Init /\ [][Next]_vars /\ Fairness

-----------------------------------------------------------------------------
(* Properties                                                              *)

Beliefs == [incarnation : Nat, status : Status, age : 0..MaxAge, suspectors : 0..MaxSuspectors]

\* Types; a suspicion always counts at least one suspector, so the shift of
\* confirm_deadline_for never starts below zero.
TypeOK ==
    /\ up \in [Nodes -> BOOLEAN]
    /\ my_incarnation \in [Nodes -> Nat]
    /\ nack_score \in [Nodes -> 0..NsMax]
    /\ members \in [Nodes -> [Nodes -> Beliefs]]
    /\ pool \in [Nodes -> [Nodes -> {"Normal", "Down"}]]
    /\ unapplied \in [Nodes -> [Nodes -> Seq({"Normal", "Down"})]]
    /\ overtaken \subseteq Nodes \X Nodes
    /\ late \subseteq Updates
    /\ lost \in Nat /\ crashes \in Nat
    /\ accused \subseteq Nodes \X Nat

\* Whoever is believed suspect or dead at some incarnation, in a view or in an
\* update on the way, failed a probe at that very incarnation: once a node has
\* refuted, no accusation from before, however late, stands against its new
\* incarnation (on_update, merge_suspect, begin_suspicion).
NoStaleAccusation ==
    /\ \A n, m \in Nodes : members[n][m].status # "Alive" =>
            <<m, members[n][m].incarnation>> \in accused
    /\ \A u \in late : u.status # "Alive" => <<u.member, u.incarnation>> \in accused

\* The dispatcher routes to a member its node suspects or believes dead only
\* while a transition waits to be applied, or once two were applied in the wrong
\* order, until the next one: transitions are decided on every change of the
\* projected state, and none is missed (on_probe, on_update, tick, apply).
RoutesOnlyToAlive ==
    \A n, m \in Nodes : pool[n][m] = "Normal" /\ members[n][m].status # "Alive" =>
        unapplied[n][m] # <<>> \/ <<n, m>> \in overtaken

\* A view never goes back to an older incarnation, and at the same incarnation
\* a confirmed death is final: neither an ack nor a late update revives it, only
\* a fresh incarnation does (Status::Dead, mark_alive_local, on_update).
ViewsAdvance ==
    [][\A n, m \in Nodes : up[n] /\ up'[n] =>
            LET b == members[n][m]
                c == members'[n][m]
            IN  \/ c.incarnation > b.incarnation
                \/ c.incarnation = b.incarnation /\ (b.status = "Dead" => c.status = "Dead")]_vars

\* Completeness: a member that is down for good is in the end confirmed dead by
\* every node that stays up, late updates, reinforced suspicions and a dilated
\* timeout notwithstanding (begin_suspicion, tick).
DeadAreConfirmed ==
    \A m \in Shaky : \A n \in Nodes \ {m} : <>[](~up[m] /\ up[n]) => <>[](members[n][m].status = "Dead")

\* Accuracy: a member that is up for good and whose probes are no longer lost is
\* in the end believed alive by every node that stays up, even if it was
\* confirmed dead before or restarted with its incarnation forgotten
\* (handle_update_about_self, on_update).
LiveAreRestored ==
    \A m \in Shaky : \A n \in Nodes \ {m} : <>[](up[m] /\ up[n]) => <>[](members[n][m].status = "Alive")
=============================================================================
