----------------------------- MODULE SwimProofs -----------------------------
(* For any number of nodes, any of which may be slow, crash and restart,    *)
(* and any timeouts: the views keep their types, no accusation outlives a   *)
(* refutation, the dispatcher's pool follows the views, and views advance.  *)
EXTENDS Swim, SequenceTheorems, TLAPS

States == {"Normal", "Down"}
RoutingTyped ==
    /\ pool \in [Nodes -> [Nodes -> States]] /\ unapplied \in [Nodes -> [Nodes -> Seq(States)]]
    /\ overtaken \subseteq Nodes \X Nodes

\* While none was overtaken, the transition decided last is the one to the view's
\* own state; once all are applied, the pool does not outlive the view.
RoutedFrom(n, m, wait, st) ==
    IF wait = <<>> THEN pool[n][m] = "Normal" => st = "Alive"
    ELSE wait[Len(wait)] = Projected(st)
Routed ==
    \A n, m \in Nodes : <<n, m>> \notin overtaken =>
        RoutedFrom(n, m, unapplied[n][m], members[n][m].status)

Inv == TypeOK /\ NoStaleAccusation /\ Routed

-----------------------------------------------------------------------------
(* Beliefs                                                                 *)

\* The caps on ages and counts are natural numbers, the second one positive.
LEMMA Caps == MaxAge \in Nat /\ MaxSuspectors \in Nat \ {0}
  <1>1. NsMax * NsDilation \in Nat
    BY SwimAssumption
  <1>2. 1 + NsMax * NsDilation \in Nat
    BY <1>1
  <1>3. Base * (1 + NsMax * NsDilation) \in Nat \ {0}
    <2> DEFINE k == 1 + NsMax * NsDilation
    <2>1. k \in Nat \ {0}
      BY <1>1
    <2> HIDE DEF k
    <2>2. Base * k \in Nat \ {0}
      BY <2>1, SwimAssumption, Z3
    <2> QED
      BY <2>2 DEF k
  <1> QED
    BY <1>3 DEF MaxAge, MaxSuspectors, Dilated

\* What the constructors of a belief make is a belief.
LEMMA BeliefMade ==
    ASSUME NEW i \in Nat, NEW age \in Nat, NEW k \in Nat
    PROVE  /\ AliveAt(i) \in Beliefs /\ DeadAt(i) \in Beliefs /\ SuspectAt(i, age, k) \in Beliefs
           /\ AliveAt(i).status = "Alive" /\ AliveAt(i).incarnation = i
           /\ DeadAt(i).status = "Dead" /\ DeadAt(i).incarnation = i
           /\ SuspectAt(i, age, k).status = "Suspect" /\ SuspectAt(i, age, k).incarnation = i
  <1>1. Least(age, MaxAge) \in 0..MaxAge
    BY Caps DEF Least
  <1>2. Least(k, MaxSuspectors) \in 0..MaxSuspectors
    BY Caps DEF Least
  <1>3. 0 \in 0..MaxAge /\ 0 \in 0..MaxSuspectors
    BY Caps
  <1> QED
    BY <1>1, <1>2, <1>3 DEF AliveAt, DeadAt, SuspectAt, Belief, Beliefs, Status

\* mark_alive_local keeps the incarnation, and accuses nobody.
LEMMA MarkedAlive ==
    ASSUME NEW b \in Beliefs
    PROVE  /\ MarkAliveLocal(b) \in Beliefs
           /\ MarkAliveLocal(b).incarnation = b.incarnation
           /\ MarkAliveLocal(b).status # "Alive" => b.status # "Alive"
           /\ b.status = "Dead" => MarkAliveLocal(b).status = "Dead"
  BY BeliefMade, Caps DEF MarkAliveLocal, Beliefs

\* begin_suspicion keeps the incarnation and leaves a confirmed death.
LEMMA Suspected ==
    ASSUME NEW b \in Beliefs
    PROVE  /\ BeginSuspicion(b) \in Beliefs
           /\ BeginSuspicion(b).incarnation = b.incarnation
           /\ b.status = "Dead" => BeginSuspicion(b).status = "Dead"
  <1>1. b.incarnation \in Nat /\ b.age \in Nat /\ b.suspectors + 1 \in Nat
    BY Caps DEF Beliefs
  <1>2. CASE b.status = "Alive"
    <2>1. BeginSuspicion(b) = SuspectAt(b.incarnation, 0, 1)
      BY <1>2 DEF BeginSuspicion
    <2> QED
      BY <1>1, <1>2, <2>1, BeliefMade
  <1>3. CASE b.status = "Suspect"
    BY <1>1, <1>3, BeliefMade DEF BeginSuspicion
  <1>4. CASE b.status = "Dead"
    BY <1>4 DEF BeginSuspicion
  <1> QED
    BY <1>2, <1>3, <1>4 DEF Beliefs, Status

\* merge_suspect takes incarnation and status from the update.
LEMMA MergeTakes ==
    ASSUME NEW b \in Beliefs, NEW u \in Updates
    PROVE  /\ MergeSuspect(b, u) \in Beliefs
           /\ MergeSuspect(b, u).incarnation = u.incarnation
           /\ MergeSuspect(b, u).status = u.status
  <1>1. /\ u.incarnation \in Nat /\ b.age \in Nat
        /\ b.suspectors \in Nat /\ u.suspectors \in Nat
    BY Caps DEF Beliefs, Updates
  <1>2. b.suspectors + u.suspectors \in Nat /\ Most(u.suspectors, 1) \in Nat
    BY <1>1 DEF Most
  <1>3. CASE u.status = "Suspect" /\ b.status = "Suspect"
    BY <1>1, <1>2, <1>3, BeliefMade, SMTT(30) DEF MergeSuspect
  <1>4. CASE u.status = "Suspect" /\ b.status # "Suspect"
    <2>1. MergeSuspect(b, u) = SuspectAt(u.incarnation, 0, Most(u.suspectors, 1))
      BY <1>4 DEF MergeSuspect
    <2> DEFINE k == Most(u.suspectors, 1)
    <2>2. k \in Nat
      BY <1>2
    <2> HIDE DEF k
    <2>3. /\ SuspectAt(u.incarnation, 0, k) \in Beliefs
          /\ SuspectAt(u.incarnation, 0, k).status = "Suspect"
          /\ SuspectAt(u.incarnation, 0, k).incarnation = u.incarnation
      BY <1>1, <2>2, BeliefMade, SMTT(30)
    <2> QED
      BY <1>4, <2>1, <2>3 DEF k
  <1>5. CASE u.status = "Alive"
    BY <1>1, <1>5, BeliefMade DEF MergeSuspect
  <1>6. CASE u.status = "Dead"
    BY <1>1, <1>6, BeliefMade DEF MergeSuspect
  <1> QED
    BY <1>3, <1>4, <1>5, <1>6 DEF Updates, Status

\* on_update leaves the view's belief or takes the update's incarnation and
\* status; never an older incarnation, nor anything but death after a death at
\* the same incarnation.
LEMMA MergedBelief ==
    ASSUME NEW b \in Beliefs, NEW u \in Updates
    PROVE  /\ Merged(b, u) \in Beliefs
           /\ \/ Merged(b, u) = b
              \/ Merged(b, u).incarnation = u.incarnation /\ Merged(b, u).status = u.status
           /\ \/ Merged(b, u).incarnation > b.incarnation
              \/ /\ Merged(b, u).incarnation = b.incarnation
                 /\ b.status = "Dead" => Merged(b, u).status = "Dead"
  <1>1. b.incarnation \in Nat /\ u.incarnation \in Nat
    BY DEF Beliefs, Updates
  <1>2. CASE u.incarnation > b.incarnation
    BY <1>1, <1>2, MergeTakes DEF Merged
  <1>3. CASE u.incarnation = b.incarnation /\ Rank(u.status) > Rank(b.status)
    <2>1. b.status # "Dead"
      BY <1>3 DEF Rank, Updates, Status
    <2> QED
      BY <1>1, <1>3, <2>1, MergeTakes DEF Merged
  <1>4. CASE u.incarnation = b.incarnation /\ u.status = "Suspect" /\ b.status = "Suspect"
    BY <1>1, <1>4, MergeTakes DEF Merged
  <1>5. CASE /\ ~(u.incarnation > b.incarnation)
             /\ ~(u.incarnation = b.incarnation /\ Rank(u.status) > Rank(b.status))
             /\ ~(u.incarnation = b.incarnation /\ u.status = "Suspect" /\ b.status = "Suspect")
    <2>1. Merged(b, u) = b
      BY <1>5 DEF Merged
    <2> QED
      BY <1>1, <2>1
  <1> QED
    BY <1>2, <1>3, <1>4, <1>5

-----------------------------------------------------------------------------
(* Steps                                                                   *)

\* A belief a node may hold of m, given the probes that have failed.
Founded(m, b, acc) == b.status # "Alive" => <<m, b.incarnation>> \in acc

\* A view may go from b to c in one step of a node that stays up.
Advances(b, c) ==
    \/ c.incarnation > b.incarnation
    \/ c.incarnation = b.incarnation /\ (b.status = "Dead" => c.status = "Dead")

\* Every view of a node that stays up advances.
Step == \A n, m \in Nodes : up[n] /\ up'[n] => Advances(members[n][m], members'[n][m])

\* A call of the handler that replaces one belief by a founded one that
\* advances keeps views and pool in step.
LEMMA Reconciled ==
    ASSUME TypeOK, NoStaleAccusation, Routed,
           NEW n \in Nodes, NEW m \in Nodes, NEW b \in Beliefs,
           Reconcile(n, m, b), Founded(m, b, accused'), Advances(members[n][m], b),
           accused \subseteq accused'
    PROVE  /\ members' \in [Nodes -> [Nodes -> Beliefs]]
           /\ RoutingTyped'
           /\ \A k, l \in Nodes : Founded(l, members'[k][l], accused')
           /\ Routed'
           /\ Step
  <1> DEFINE st == Projected(b.status)
             old == members[n][m].status
             wait == unapplied[n][m]
  <1>1. members \in [Nodes -> [Nodes -> Beliefs]] /\ RoutingTyped
    BY DEF TypeOK, RoutingTyped, States
  <1>2. members' = [members EXCEPT ![n][m] = b]
    BY DEF Reconcile
  <1>3. members' \in [Nodes -> [Nodes -> Beliefs]]
    BY <1>1, <1>2
  <1>4. \A k, l \in Nodes : members'[k][l] = IF k = n /\ l = m THEN b ELSE members[k][l]
    BY <1>1, <1>2
  <1>5. st \in States /\ wait \in Seq(States)
    BY <1>1 DEF Projected, States, RoutingTyped
  <1>6. RoutingTyped' /\ Routed'
    <2>1. CASE Projected(old) = st /\ UNCHANGED routing
      <3>1. RoutingTyped' /\ UNCHANGED <<pool, unapplied, overtaken>>
        BY <1>1, <2>1 DEF routing, RoutingTyped
      <3>2. old = "Alive" <=> b.status = "Alive"
        BY <2>1 DEF Projected
      <3>3. ASSUME NEW k \in Nodes, NEW l \in Nodes, <<k, l>> \notin overtaken
            PROVE  RoutedFrom(k, l, unapplied[k][l], members[k][l].status)'
        <4>1. RoutedFrom(k, l, unapplied[k][l], members[k][l].status)
          BY <3>3 DEF Routed
        <4>2. /\ Projected(members'[k][l].status) = Projected(members[k][l].status)
              /\ members'[k][l].status = "Alive" <=> members[k][l].status = "Alive"
          BY <1>4, <2>1, <3>2
        <4> QED
          BY <3>1, <4>1, <4>2 DEF RoutedFrom
      <3> QED
        BY <3>1, <3>3 DEF Routed
    <2>2. CASE /\ pool' = [pool EXCEPT ![n][m] = st] /\ UNCHANGED unapplied
               /\ overtaken' = IF wait = <<>> THEN overtaken \ {<<n, m>>}
                               ELSE overtaken \cup {<<n, m>>}
      <3>1. RoutingTyped'
        BY <1>1, <1>5, <2>2 DEF RoutingTyped
      <3>2. \A k, l \in Nodes : pool'[k][l] = IF k = n /\ l = m THEN st ELSE pool[k][l]
        BY <1>1, <2>2 DEF RoutingTyped
      <3>3. ASSUME NEW k \in Nodes, NEW l \in Nodes, <<k, l>> \notin overtaken'
            PROVE  RoutedFrom(k, l, unapplied[k][l], members[k][l].status)'
        <4>1. CASE k = n /\ l = m
          <5>1. wait = <<>>
            BY <2>2, <3>3, <4>1
          <5> QED
            BY <1>4, <2>2, <3>2, <4>1, <5>1 DEF RoutedFrom, Projected
        <4>2. CASE ~(k = n /\ l = m)
          <5>1. <<k, l>> \notin overtaken
            BY <2>2, <3>3, <4>2
          <5> QED
            BY <1>4, <2>2, <3>2, <4>2, <5>1 DEF RoutedFrom, Routed
        <4> QED
          BY <4>1, <4>2
      <3> QED
        BY <3>1, <3>3 DEF Routed
    <2>3. CASE /\ unapplied' = [unapplied EXCEPT ![n][m] = Append(@, st)]
               /\ overtaken' = overtaken \ {<<n, m>>} /\ UNCHANGED pool
      <3>1. /\ Append(wait, st) \in Seq(States) /\ Append(wait, st) # <<>>
            /\ Append(wait, st)[Len(Append(wait, st))] = st
        BY <1>5, AppendProperties
      <3>2. unapplied' = [unapplied EXCEPT ![n][m] = Append(wait, st)]
        BY <2>3
      <3> DEFINE w == Append(wait, st)
      <3> HIDE DEF w
      <3>3. /\ RoutingTyped'
            /\ \A k, l \in Nodes : unapplied'[k][l] = IF k = n /\ l = m THEN w ELSE unapplied[k][l]
        BY <1>1, <2>3, <3>1, <3>2 DEF RoutingTyped, w
      <3>4. ASSUME NEW k \in Nodes, NEW l \in Nodes, <<k, l>> \notin overtaken'
            PROVE  RoutedFrom(k, l, unapplied[k][l], members[k][l].status)'
        <4>1. CASE k = n /\ l = m
          BY <1>4, <3>1, <3>3, <4>1 DEF RoutedFrom, w
        <4>2. CASE ~(k = n /\ l = m)
          <5>1. <<k, l>> \notin overtaken
            BY <2>3, <3>4, <4>2
          <5> QED
            BY <1>4, <2>3, <3>3, <4>2, <5>1 DEF RoutedFrom, Routed
        <4> QED
          BY <4>1, <4>2
      <3> QED
        BY <3>3, <3>4 DEF Routed
    <2> QED
      BY <2>1, <2>2, <2>3 DEF Reconcile
  <1>7. \A k, l \in Nodes : Founded(l, members'[k][l], accused')
    BY <1>4 DEF NoStaleAccusation, Founded
  <1>9. Step
    <2>1. \A k, l \in Nodes : members[k][l].incarnation \in Nat
      BY <1>1 DEF Beliefs
    <2> QED
      BY <1>4, <2>1 DEF Step, Advances
  <1> QED
    BY <1>3, <1>6, <1>7, <1>9

\* What a node tells about m is an update, and as well founded as its view.
LEMMA ToldIsFounded ==
    ASSUME TypeOK, NoStaleAccusation, NEW a \in Nodes, NEW m \in Nodes
    PROVE  /\ Told(a, m) \in Updates /\ Told(a, m).member = m
           /\ Founded(m, Told(a, m), accused)
  <1>1. my_incarnation[a] \in Nat /\ members[a][m] \in Beliefs
    BY DEF TypeOK
  <1>2. AliveAt(my_incarnation[a]) \in Beliefs /\ AliveAt(my_incarnation[a]).status = "Alive"
    BY <1>1, BeliefMade
  <1>3. \A b \in Beliefs : /\ Update(m, b) \in Updates
                           /\ Update(m, b).member = m
                           /\ Update(m, b).status = b.status
                           /\ Update(m, b).incarnation = b.incarnation
    BY DEF Update, Updates, Beliefs
  <1>4. CASE m = a
    BY <1>2, <1>3, <1>4 DEF Told, Founded
  <1>5. CASE m # a
    <2>1. Told(a, m) = Update(m, members[a][m])
      BY <1>5 DEF Told
    <2> QED
      BY <1>1, <1>3, <2>1 DEF Founded, NoStaleAccusation
  <1> QED
    BY <1>4, <1>5

\* Merging a founded update keeps the invariant's parts and advances the views.
LEMMA Updated ==
    ASSUME Inv, NEW n \in Nodes, NEW u \in Updates, u.member \in Nodes,
           Founded(u.member, u, accused), OnUpdate(n, u)
    PROVE  /\ members' \in [Nodes -> [Nodes -> Beliefs]]
           /\ RoutingTyped'
           /\ my_incarnation' \in [Nodes -> Nat]
           /\ \A k, l \in Nodes : Founded(l, members'[k][l], accused')
           /\ Routed'
           /\ Step
  <1>1. accused' = accused /\ up' = up
    BY DEF OnUpdate
  <1>2. CASE u.member = n
    <2>1. members' = members /\ UNCHANGED <<pool, unapplied, overtaken>>
      BY <1>2 DEF OnUpdate, routing
    <2>2. Refuted(my_incarnation[n], u) \in Nat
      BY DEF Refuted, Inv, TypeOK, Updates
    <2>3. my_incarnation' \in [Nodes -> Nat]
      BY <1>2, <2>2 DEF OnUpdate, Inv, TypeOK
    <2>4. Routed' /\ \A k, l \in Nodes : Founded(l, members'[k][l], accused')
      BY <1>1, <2>1 DEF Inv, Routed, RoutedFrom, NoStaleAccusation, Founded
    <2>5. Step
      BY <2>1 DEF Step, Advances, Inv, TypeOK, Beliefs
    <2> QED
      BY <2>1, <2>3, <2>4, <2>5 DEF Inv, TypeOK, RoutingTyped, States
  <1>3. CASE u.member # n
    <2> DEFINE b == members[n][u.member]
               c == Merged(b, u)
    <2>1. Reconcile(n, u.member, c) /\ my_incarnation' = my_incarnation
      BY <1>3 DEF OnUpdate
    <2>2. b \in Beliefs
      BY DEF Inv, TypeOK
    <2>3. Founded(u.member, b, accused)
      BY DEF Inv, NoStaleAccusation, Founded
    <2> HIDE DEF b
    <2>4. c \in Beliefs /\ Advances(b, c)
      BY <2>2, MergedBelief DEF Advances
    <2>5. Founded(u.member, c, accused)
      BY <2>2, <2>3, MergedBelief DEF Founded
    <2> HIDE DEF c
    <2> QED
      BY <1>1, <2>1, <2>4, <2>5, Reconciled DEF Inv, TypeOK, b
  <1> QED
    BY <1>2, <1>3

-----------------------------------------------------------------------------
(* The inductive step                                                      *)

\* The initial views are founded: nobody is accused.
LEMMA InitInv == Init => Inv
  <1> SUFFICES ASSUME Init PROVE Inv
    OBVIOUS
  <1>1. AliveAt(0) \in Beliefs /\ AliveAt(0).status = "Alive"
    BY BeliefMade
  <1>2. TypeOK
    BY <1>1, EmptySeq, SwimAssumption DEF Init, TypeOK
  <1>3. NoStaleAccusation /\ Routed
    BY <1>1 DEF Init, NoStaleAccusation, Routed, RoutedFrom
  <1> QED
    BY <1>2, <1>3 DEF Inv

\* A probe, whatever its outcome.
LEMMA ProbeStep ==
    ASSUME Inv, NEW n \in Nodes, NEW m \in Nodes, Probe(n, m)
    PROVE  Inv' /\ Step
  <1> DEFINE b == members[n][m]
  <1>1. b \in Beliefs /\ Founded(m, b, accused) /\ nack_score[n] \in 0..NsMax
    BY DEF Inv, TypeOK, NoStaleAccusation, Founded
  <1>2. CASE ProbeAcked(n, m) \/ ProbeIndirectAcked(n, m)
    <2> DEFINE c == MarkAliveLocal(b)
    <2>1. Reconcile(n, m, c)
      BY <1>2 DEF ProbeAcked, ProbeIndirectAcked
    <2>2. UNCHANGED <<up, my_incarnation, late, crashes, accused>> /\ lost' \in Nat
      BY <1>2 DEF ProbeAcked, ProbeIndirectAcked, Lost, Inv, TypeOK
    <2>3. nack_score' \in [Nodes -> 0..NsMax]
      <3>1. Most(nack_score[n] - 1, 0) \in 0..NsMax /\ Least(nack_score[n] + 1, NsMax) \in 0..NsMax
        BY <1>1, SwimAssumption DEF Most, Least
      <3> QED
        BY <1>2, <3>1 DEF ProbeAcked, ProbeIndirectAcked, Inv, TypeOK
    <2>4. c \in Beliefs /\ Founded(m, c, accused) /\ Advances(b, c)
      BY <1>1, MarkedAlive DEF Founded, Advances
    <2> HIDE DEF c
    <2>5. /\ members' \in [Nodes -> [Nodes -> Beliefs]]
          /\ RoutingTyped'
          /\ \A k, l \in Nodes : Founded(l, members'[k][l], accused')
          /\ Routed' /\ Step
      BY <2>1, <2>2, <2>4, Reconciled DEF Inv
    <2>6. TypeOK'
      BY <2>2, <2>3, <2>5 DEF Inv, TypeOK, RoutingTyped, States
    <2>7. NoStaleAccusation'
      BY <2>2, <2>5 DEF Inv, NoStaleAccusation, Founded
    <2> QED
      BY <2>5, <2>6, <2>7 DEF Inv
  <1>3. CASE ProbeFailed(n, m)
    <2> DEFINE c == BeginSuspicion(b)
    <2>1. Reconcile(n, m, c) /\ accused' = accused \cup {<<m, b.incarnation>>}
      BY <1>3 DEF ProbeFailed
    <2>2. UNCHANGED <<up, my_incarnation, nack_score, late, crashes>> /\ lost' \in Nat
      BY <1>3 DEF ProbeFailed, Lost, Inv, TypeOK
    <2>3. c \in Beliefs /\ Founded(m, c, accused') /\ Advances(b, c)
      BY <1>1, <2>1, Suspected DEF Founded, Advances
    <2>4. accused' \subseteq Nodes \X Nat
      <3>1. b.incarnation \in Nat
        BY <1>1 DEF Beliefs
      <3>2. accused \subseteq Nodes \X Nat
        BY DEF Inv, TypeOK
      <3> HIDE DEF b
      <3> QED
        BY <2>1, <3>1, <3>2
    <2> HIDE DEF c
    <2>5. /\ members' \in [Nodes -> [Nodes -> Beliefs]]
          /\ RoutingTyped'
          /\ \A k, l \in Nodes : Founded(l, members'[k][l], accused')
          /\ Routed' /\ Step
      BY <2>1, <2>3, Reconciled DEF Inv
    <2>6. TypeOK'
      BY <2>2, <2>4, <2>5 DEF Inv, TypeOK, RoutingTyped, States
    <2>7. NoStaleAccusation'
      BY <2>1, <2>2, <2>5 DEF Inv, NoStaleAccusation, Founded
    <2> QED
      BY <2>5, <2>6, <2>7 DEF Inv
  <1> QED
    BY <1>2, <1>3 DEF Probe

\* An update told in time, or one that comes late.
LEMMA UpdateStep ==
    ASSUME Inv, NEW n \in Nodes, NEW u \in Updates, Founded(u.member, u, accused),
           OnUpdate(n, u), late' \subseteq late
    PROVE  Inv' /\ Step
  <1>1. u.member \in Nodes
    BY DEF Updates
  <1>2. UNCHANGED <<up, nack_score, lost, crashes, accused>>
    BY DEF OnUpdate
  <1>3. /\ members' \in [Nodes -> [Nodes -> Beliefs]]
        /\ RoutingTyped'
        /\ my_incarnation' \in [Nodes -> Nat]
        /\ \A k, l \in Nodes : Founded(l, members'[k][l], accused')
        /\ Routed' /\ Step
    BY <1>1, Updated
  <1>4. TypeOK'
    BY <1>2, <1>3 DEF Inv, TypeOK, RoutingTyped, States
  <1>5. NoStaleAccusation'
    BY <1>2, <1>3 DEF Inv, NoStaleAccusation, Founded
  <1> QED
    BY <1>3, <1>4, <1>5 DEF Inv

\* The timer: a suspicion ages or is confirmed at its own incarnation.
LEMMA EvaluateStep ==
    ASSUME Inv, NEW n \in Nodes, Evaluate(n)
    PROVE  Inv' /\ Step
  <1> DEFINE Aged(b) == IF b.status # "Suspect" THEN b
                        ELSE IF b.age + 1 >= ConfirmAfter(n, b) THEN DeadAt(b.incarnation)
                        ELSE SuspectAt(b.incarnation, b.age + 1, b.suspectors)
  <1>1. members \in [Nodes -> [Nodes -> Beliefs]]
    BY DEF Inv, TypeOK
  <1>2. ASSUME NEW b \in Beliefs
        PROVE  /\ Aged(b) \in Beliefs /\ Aged(b).incarnation = b.incarnation
               /\ Aged(b).status = "Alive" <=> b.status = "Alive"
               /\ b.status = "Dead" => Aged(b).status = "Dead"
    <2>1. b.incarnation \in Nat /\ b.age + 1 \in Nat /\ b.suspectors \in Nat
      BY Caps DEF Beliefs
    <2>2. CASE b.status # "Suspect"
      BY <2>2
    <2>3. CASE b.status = "Suspect" /\ b.age + 1 >= ConfirmAfter(n, b)
      BY <2>1, <2>3, BeliefMade
    <2>4. CASE b.status = "Suspect" /\ ~(b.age + 1 >= ConfirmAfter(n, b))
      BY <2>1, <2>4, BeliefMade, SMTT(30)
    <2> QED
      BY <2>2, <2>3, <2>4
  <1>3. members' = [members EXCEPT ![n] = [m \in Nodes |-> Aged(members[n][m])]]
    BY DEF Evaluate
  <1> HIDE DEF Aged
  <1>4. /\ members' \in [Nodes -> [Nodes -> Beliefs]]
        /\ \A k, l \in Nodes : members'[k][l] = IF k = n THEN Aged(members[k][l]) ELSE members[k][l]
    BY <1>1, <1>2, <1>3
  <1>5. UNCHANGED <<up, my_incarnation, nack_score, pool, unapplied, overtaken, late, lost,
                    crashes, accused>>
    BY DEF Evaluate, routing
  <1>6. TypeOK'
    BY <1>4, <1>5 DEF Inv, TypeOK
  <1>7. \A k, l \in Nodes :
            /\ members'[k][l].incarnation = members[k][l].incarnation
            /\ members'[k][l].status = "Alive" <=> members[k][l].status = "Alive"
            /\ members[k][l].status = "Dead" => members'[k][l].status = "Dead"
    <2>1. \A k, l \in Nodes : members[k][l] \in Beliefs
      BY <1>1
    <2>2. \A k, l \in Nodes :
              members'[k][l] = members[k][l] \/ members'[k][l] = Aged(members[k][l])
      BY <1>4
    <2> QED
      BY <1>2, <2>1, <2>2
  <1>8. \A k, l \in Nodes : Projected(members'[k][l].status) = Projected(members[k][l].status)
    BY <1>7 DEF Projected
  <1>9. Routed'
    <2> SUFFICES ASSUME NEW k \in Nodes, NEW l \in Nodes, <<k, l>> \notin overtaken'
                 PROVE  RoutedFrom(k, l, unapplied[k][l], members[k][l].status)'
      BY DEF Routed
    <2>1. RoutedFrom(k, l, unapplied[k][l], members[k][l].status)
      BY <1>5 DEF Inv, Routed
    <2> QED
      BY <1>5, <1>7, <1>8, <2>1 DEF RoutedFrom
  <1>10. NoStaleAccusation' /\ Step
    BY <1>5, <1>7 DEF Inv, NoStaleAccusation, Step, Advances
  <1> QED
    BY <1>6, <1>9, <1>10 DEF Inv

\* The distance between two positions.
LEMMA Distance ==
    ASSUME NEW k \in Nat, NEW i \in 1..k, i < k
    PROVE  k - i \in 1..(k-(i+1)+1) /\ (i+1)+(k-i)-1 = k
OBVIOUS

\* Two sequences in a row end as the second one does.
LEMMA LastOfConcat ==
    ASSUME NEW S, NEW a \in Seq(S), NEW b \in Seq(S)
    PROVE  /\ a \o b \in Seq(S) /\ Len(a \o b) = Len(a) + Len(b)
           /\ Len(b) > 0 => (a \o b)[Len(a \o b)] = b[Len(b)]
  <1>1. /\ a \o b \in Seq(S) /\ Len(a \o b) = Len(a) + Len(b)
        /\ Len(a) \in Nat /\ Len(b) \in Nat
        /\ \A j \in (Len(a) + 1)..(Len(a) + Len(b)) : (a \o b)[j] = b[j - Len(a)]
    BY ConcatProperties, LenProperties
  <1>2. ASSUME Len(b) > 0 PROVE (a \o b)[Len(a) + Len(b)] = b[Len(b)]
    <2>1. Len(a) + Len(b) \in (Len(a) + 1)..(Len(a) + Len(b)) /\ (Len(a) + Len(b)) - Len(a) = Len(b)
      BY <1>1, <1>2
    <2> QED
      BY <1>1, <2>1
  <1> QED
    BY <1>1, <1>2

\* Taking a transition out of the waiting ones leaves the newest in its place,
\* unless it is the newest itself.
LEMMA TakenOut ==
    ASSUME NEW S, NEW w \in Seq(S), NEW i \in DOMAIN w
    PROVE  /\ RemoveAt(w, i) \in Seq(S)
           /\ i = Len(w) /\ ~(i > 1) => RemoveAt(w, i) = <<>>
           /\ i # Len(w) => /\ RemoveAt(w, i) # <<>>
                            /\ RemoveAt(w, i)[Len(RemoveAt(w, i))] = w[Len(w)]
  <1> DEFINE a == SubSeq(w, 1, i-1)
             b == SubSeq(w, i+1, Len(w))
  <1>1. Len(w) \in Nat /\ i \in 1..Len(w) /\ \A j \in 1..Len(w) : w[j] \in S
    BY LenProperties, ElementOfSeq
  <1>2. /\ a \in Seq(S) /\ Len(a) = (IF 1 <= i-1 THEN i-1 ELSE 0)
        /\ b \in Seq(S) /\ Len(b) = (IF i+1 <= Len(w) THEN Len(w)-(i+1)+1 ELSE 0)
        /\ \A j \in 1..(Len(w)-(i+1)+1) : b[j] = w[(i+1)+j-1]
    <2>1. (\A j \in 1..(i-1) : w[j] \in S) /\ (\A j \in (i+1)..Len(w) : w[j] \in S)
      BY <1>1
    <2>2. i-1 \in Int /\ i+1 \in Int /\ Len(w) \in Int /\ 1 \in Int
      BY <1>1
    <2> QED
      BY ONLY <2>1, <2>2, SubSeqProperties
  <1>3. RemoveAt(w, i) = a \o b
    BY DEF RemoveAt
  <1> HIDE DEF a, b
  <1>4. /\ a \o b \in Seq(S) /\ Len(a \o b) = Len(a) + Len(b)
        /\ Len(b) > 0 => (a \o b)[Len(a \o b)] = b[Len(b)]
    <2> a \in Seq(S) /\ b \in Seq(S)
      BY <1>2
    <2> QED
      BY ONLY a \in Seq(S), b \in Seq(S), LastOfConcat
  <1>5. ASSUME i = Len(w), ~(i > 1) PROVE a \o b = <<>>
    <2>1. Len(a) = 0 /\ Len(b) = 0
      BY <1>1, <1>2, <1>5
    <2> QED
      BY <1>4, <2>1, EmptySeq
  <1>6. ASSUME i # Len(w) PROVE a \o b # <<>> /\ (a \o b)[Len(a \o b)] = w[Len(w)]
    <2>1. i < Len(w) /\ Len(a) \in Nat /\ Len(b) = Len(w) - i /\ Len(b) > 0
      BY <1>1, <1>2, <1>6, LenProperties
    <2>2. (a \o b)[Len(a \o b)] = b[Len(w) - i] /\ Len(a \o b) > 0
      BY <1>4, <2>1
    <2>3. b[Len(w) - i] = w[Len(w)]
      <3> DEFINE j == Len(w) - i
      <3>1. j \in 1..(Len(w)-(i+1)+1) /\ (i+1)+j-1 = Len(w)
        BY <1>1, <2>1, Distance
      <3> HIDE DEF j
      <3>2. b[j] = w[Len(w)]
        BY ONLY <1>2, <3>1
      <3> QED
        BY <3>2 DEF j
    <2> QED
      BY <2>2, <2>3, EmptySeq
  <1> QED
    BY <1>3, <1>4, <1>5, <1>6

\* A caller gets the lock of the peers (apply).
LEMMA ApplyStep ==
    ASSUME Inv, NEW n \in Nodes, NEW m \in Nodes, NEW i \in DOMAIN unapplied[n][m],
           Apply(n, m, i)
    PROVE  Inv' /\ Step
  <1> DEFINE wait == unapplied[n][m]
             w == RemoveAt(wait, i)
             st == wait[i]
  <1>1. RoutingTyped /\ UNCHANGED <<up, my_incarnation, nack_score, members, late, lost, crashes, accused>>
    BY DEF Inv, TypeOK, RoutingTyped, States, Apply
  <1>2. wait \in Seq(States) /\ st \in States
    BY <1>1, ElementOfSeq, LenProperties DEF RoutingTyped
  <1>3. /\ w \in Seq(States)
        /\ i = Len(wait) /\ ~(i > 1) => w = <<>>
        /\ i # Len(wait) => w # <<>> /\ w[Len(w)] = wait[Len(wait)]
    BY <1>2, TakenOut
  <1>4. /\ pool' = [pool EXCEPT ![n][m] = st]
        /\ unapplied' = [unapplied EXCEPT ![n][m] = w]
        /\ overtaken' = IF i = Len(wait) /\ i > 1 THEN overtaken \cup {<<n, m>>} ELSE overtaken
    BY DEF Apply
  <1>5. wait # <<>>
    BY DEF Apply
  <1> HIDE DEF w, st
  <1>6. /\ RoutingTyped' /\ pool'[n][m] = st /\ unapplied'[n][m] = w
        /\ \A k, l \in Nodes : ~(k = n /\ l = m) =>
              pool'[k][l] = pool[k][l] /\ unapplied'[k][l] = unapplied[k][l]
    <2>1. overtaken' \subseteq Nodes \X Nodes
      BY <1>1, <1>4 DEF RoutingTyped
    <2>2. st \in States /\ w \in Seq(States) /\ RoutingTyped
      BY <1>1, <1>2, <1>3
    <2>3. pool' = [pool EXCEPT ![n][m] = st] /\ unapplied' = [unapplied EXCEPT ![n][m] = w]
      BY <1>4
    <2>4. /\ pool' \in [Nodes -> [Nodes -> States]] /\ pool'[n][m] = st
          /\ \A k, l \in Nodes : ~(k = n /\ l = m) => pool'[k][l] = pool[k][l]
      BY <2>2, <2>3 DEF RoutingTyped
    <2>5. /\ unapplied' \in [Nodes -> [Nodes -> Seq(States)]] /\ unapplied'[n][m] = w
          /\ \A k, l \in Nodes : ~(k = n /\ l = m) => unapplied'[k][l] = unapplied[k][l]
      BY <2>2, <2>3 DEF RoutingTyped
    <2> QED
      BY <2>1, <2>4, <2>5 DEF RoutingTyped
  <1>7. Routed'
    <2> SUFFICES ASSUME NEW k \in Nodes, NEW l \in Nodes, <<k, l>> \notin overtaken'
                 PROVE  RoutedFrom(k, l, unapplied[k][l], members[k][l].status)'
      BY DEF Routed
    <2>1. RoutedFrom(k, l, unapplied[k][l], members[k][l].status)
      BY <1>4 DEF Inv, Routed
    <2>2. CASE ~(k = n /\ l = m)
      BY <1>1, <1>6, <2>1, <2>2 DEF RoutedFrom
    <2>3. CASE k = n /\ l = m
      <3>1. wait[Len(wait)] = Projected(members[n][m].status)
        BY <1>5, <2>1, <2>3 DEF RoutedFrom
      <3> HIDE DEF wait
      <3>2. CASE i = Len(wait)
        <4>1. w = <<>> /\ st = Projected(members[n][m].status)
          BY <1>3, <1>4, <2>3, <3>1, <3>2 DEF st
        <4> QED
          BY <1>1, <1>6, <2>3, <4>1 DEF RoutedFrom, Projected
      <3>3. CASE i # Len(wait)
        BY <1>1, <1>3, <1>6, <2>3, <3>1, <3>3 DEF RoutedFrom
      <3> QED
        BY <3>2, <3>3
    <2> QED
      BY <2>2, <2>3
  <1>8. TypeOK'
    BY <1>1, <1>6 DEF Inv, TypeOK, RoutingTyped, States
  <1>9. NoStaleAccusation' /\ Step
    BY <1>1 DEF Inv, NoStaleAccusation, Step, Advances, TypeOK, Beliefs
  <1> QED
    BY <1>7, <1>8, <1>9 DEF Inv

\* A restarted node accuses nobody and routes to nobody.
LEMMA RestartStep ==
    ASSUME Inv, NEW n \in Nodes, Restart(n)
    PROVE  Inv' /\ Step
  <1>1. AliveAt(0) \in Beliefs /\ AliveAt(0).status = "Alive"
    BY BeliefMade
  <1>2. /\ members \in [Nodes -> [Nodes -> Beliefs]]
        /\ pool \in [Nodes -> [Nodes -> {"Normal", "Down"}]]
        /\ unapplied \in [Nodes -> [Nodes -> Seq({"Normal", "Down"})]]
        /\ overtaken \subseteq Nodes \X Nodes
    BY DEF Inv, TypeOK
  <1>3. /\ members' = [members EXCEPT ![n] = [m \in Nodes |-> AliveAt(0)]]
        /\ pool' = [pool EXCEPT ![n] = [m \in Nodes |-> "Down"]]
        /\ unapplied' = [unapplied EXCEPT ![n] = [m \in Nodes |-> <<>>]]
        /\ overtaken' = overtaken \ ({n} \X Nodes)
        /\ UNCHANGED <<late, lost, crashes, accused>> /\ ~up[n]
        /\ up' = [up EXCEPT ![n] = TRUE]
    BY DEF Restart
  <1>4. \A k, l \in Nodes :
            /\ members'[k][l] = IF k = n THEN AliveAt(0) ELSE members[k][l]
            /\ pool'[k][l] = IF k = n THEN "Down" ELSE pool[k][l]
            /\ unapplied'[k][l] = IF k = n THEN <<>> ELSE unapplied[k][l]
            /\ k # n => (<<k, l>> \in overtaken' <=> <<k, l>> \in overtaken)
    BY <1>2, <1>3
  <1>5. members' \in [Nodes -> [Nodes -> Beliefs]]
    BY <1>1, <1>2, <1>3
  <1>6. /\ pool' \in [Nodes -> [Nodes -> {"Normal", "Down"}]]
        /\ unapplied' \in [Nodes -> [Nodes -> Seq({"Normal", "Down"})]]
        /\ overtaken' \subseteq Nodes \X Nodes
    BY <1>2, <1>3, EmptySeq
  <1>7. TypeOK'
    <2>1. up' \in [Nodes -> BOOLEAN] /\ my_incarnation' \in [Nodes -> Nat] /\ nack_score' \in [Nodes -> 0..NsMax]
      BY SwimAssumption DEF Inv, TypeOK, Restart
    <2>2. late' \subseteq Updates /\ lost' \in Nat /\ crashes' \in Nat /\ accused' \subseteq Nodes \X Nat
      BY <1>3 DEF Inv, TypeOK
    <2> QED
      BY <1>5, <1>6, <2>1, <2>2 DEF TypeOK
  <1>8. NoStaleAccusation' /\ Routed'
    <2>1. NoStaleAccusation'
      BY <1>1, <1>3, <1>4 DEF Inv, NoStaleAccusation
    <2>2. ASSUME NEW k \in Nodes, NEW l \in Nodes, <<k, l>> \notin overtaken'
          PROVE  RoutedFrom(k, l, unapplied[k][l], members[k][l].status)'
      <3>1. CASE k = n
        BY <1>1, <1>4, <3>1 DEF RoutedFrom
      <3>2. CASE k # n
        BY <1>4, <2>2, <3>2 DEF Inv, Routed, RoutedFrom
      <3> QED
        BY <3>1, <3>2
    <2> QED
      BY <2>1, <2>2 DEF Routed
  <1>9. Step
    BY <1>2, <1>3, <1>4 DEF Step, Advances, Beliefs
  <1> QED
    BY <1>7, <1>8, <1>9 DEF Inv

\* Every step keeps the invariant and advances the views.
LEMMA NextInv ==
    ASSUME Inv, [Next]_vars
    PROVE  Inv' /\ Step
  <1>1. ASSUME NEW n \in Nodes, NEW m \in Nodes, Probe(n, m)
        PROVE  Inv' /\ Step
    BY <1>1, ProbeStep
  <1>2. ASSUME NEW m \in Shaky, NEW a \in Nodes, NEW n \in Nodes, Piggyback(a, n, m)
        PROVE  Inv' /\ Step
    <2>1. m \in Nodes
      BY SwimAssumption
    <2>2. /\ Told(a, m) \in Updates /\ Told(a, m).member = m
          /\ Founded(m, Told(a, m), accused)
      BY <2>1, ToldIsFounded DEF Inv
    <2>3. OnUpdate(n, Told(a, m)) /\ late' = late
      BY <1>2 DEF Piggyback
    <2> QED
      BY <2>2, <2>3, UpdateStep
  <1>3. ASSUME NEW m \in Shaky, NEW a \in Nodes, Delay(a, m)
        PROVE  Inv' /\ Step
    <2>1. m \in Nodes
      BY SwimAssumption
    <2>2. /\ Told(a, m) \in Updates /\ Told(a, m).member = m
          /\ Founded(m, Told(a, m), accused)
      BY <2>1, ToldIsFounded DEF Inv
    <2>3. /\ late' = late \cup {Told(a, m)}
          /\ UNCHANGED <<up, my_incarnation, nack_score, members, pool, unapplied, overtaken,
                         lost, crashes, accused>>
      BY <1>3 DEF Delay, routing
    <2>4. TypeOK'
      BY <2>2, <2>3 DEF Inv, TypeOK
    <2>5. NoStaleAccusation' /\ Routed'
      BY <2>2, <2>3 DEF Inv, NoStaleAccusation, Routed, RoutedFrom, Founded
    <2>6. Step
      BY <2>3 DEF Step, Advances, Inv, TypeOK, Beliefs
    <2> QED
      BY <2>4, <2>5, <2>6 DEF Inv
  <1>4. ASSUME NEW n \in Nodes, NEW u \in late, Arrive(n, u)
        PROVE  Inv' /\ Step
    <2>1. u \in Updates /\ Founded(u.member, u, accused)
      BY DEF Inv, TypeOK, NoStaleAccusation, Founded
    <2>2. OnUpdate(n, u) /\ late' \subseteq late
      BY <1>4 DEF Arrive
    <2> QED
      BY <2>1, <2>2, UpdateStep
  <1>5. ASSUME NEW n \in Nodes, Evaluate(n)
        PROVE  Inv' /\ Step
    BY <1>5, EvaluateStep
  <1>6. ASSUME NEW n \in Nodes, Crash(n)
        PROVE  Inv' /\ Step
    <2>1. TypeOK'
      BY <1>6 DEF Crash, routing, Inv, TypeOK
    <2>2. NoStaleAccusation' /\ Routed'
      BY <1>6 DEF Crash, routing, Inv, NoStaleAccusation, Routed, RoutedFrom
    <2>3. Step
      BY <1>6 DEF Crash, Step, Advances, Inv, TypeOK, Beliefs
    <2> QED
      BY <2>1, <2>2, <2>3 DEF Inv
  <1>7. ASSUME NEW n \in Nodes, Restart(n)
        PROVE  Inv' /\ Step
    BY <1>7, RestartStep
  <1>8. ASSUME NEW n \in Nodes, NEW m \in Nodes, NEW i \in DOMAIN unapplied[n][m], Apply(n, m, i)
        PROVE  Inv' /\ Step
    BY <1>8, ApplyStep
  <1>9. CASE UNCHANGED vars
    <2>1. TypeOK' /\ NoStaleAccusation' /\ Routed'
      BY <1>9 DEF vars, routing, Inv, TypeOK, NoStaleAccusation, Routed, RoutedFrom
    <2>2. Step
      BY <1>9 DEF vars, Step, Advances, Inv, TypeOK, Beliefs
    <2> QED
      BY <2>1, <2>2 DEF Inv
  <1> QED
    BY <1>1, <1>2, <1>3, <1>4, <1>5, <1>6, <1>7, <1>8, <1>9 DEF Next

\* The invariant holds in every behaviour.
LEMMA Invariance == Spec => []Inv
  BY InitInv, NextInv, PTL DEF Spec

-----------------------------------------------------------------------------
(* Theorems                                                                *)

\* Every node's view, score and pool keep their types, whatever is lost, late or
\* repeated (SwimState, SwimHandler).
THEOREM TypeCorrect == Spec => []TypeOK
  BY Invariance, PTL DEF Inv

\* For any number of nodes, no accusation stands against an incarnation at which
\* no probe failed, so none outlives its refutation (on_update, merge_suspect).
THEOREM AccusationsAreFresh == Spec => []NoStaleAccusation
  BY Invariance, PTL DEF Inv

\* For any number of nodes and of concurrent callers, the dispatcher routes to a
\* member its node suspects or believes dead only while a transition waits for
\* the lock of the peers, or once two took it in the wrong order
\* (SwimHandler::on_probe, on_update, apply).
THEOREM PoolFollowsViews == Spec => []RoutesOnlyToAlive
  <1>1. Inv => RoutesOnlyToAlive
    BY DEF Inv, Routed, RoutedFrom, RoutesOnlyToAlive
  <1> QED
    BY <1>1, Invariance, PTL

\* For any number of nodes, no view goes back to an older incarnation and only a
\* fresh one revives a confirmed death (on_update, mark_alive_local).
THEOREM ViewsOnlyAdvance == Spec => ViewsAdvance
  <1>1. Inv /\ [Next]_vars => [Step]_vars
    BY NextInv
  <1>2. [][Step]_vars => ViewsAdvance
    <2>1. Step => \A n, m \in Nodes : up[n] /\ up'[n] =>
            LET b == members[n][m]
                c == members'[n][m]
            IN  \/ c.incarnation > b.incarnation
                \/ c.incarnation = b.incarnation /\ (b.status = "Dead" => c.status = "Dead")
      BY DEF Step, Advances
    <2> QED
      BY <2>1, PTL DEF ViewsAdvance
  <1> QED
    BY <1>1, <1>2, Invariance, PTL DEF Spec
=============================================================================
