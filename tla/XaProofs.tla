------------------------------ MODULE XaProofs ------------------------------
(***************************************************************************)
(* Xa, for any transactions, branches, votes and bounds: type correctness, *)
(* and, as long as no id was given out twice, that a transaction commits   *)
(* only with every vote, is never undone once a branch of it committed,    *)
(* ends as its caller was told, and can be finished when it is in doubt.   *)
(***************************************************************************)
EXTENDS Xa, SequenceTheorems, FiniteSetTheorems, WellFoundedInduction, TLAPS

\* A set of positions that is not empty has a first one.
LEMMA FirstPosition ==
    ASSUME NEW I, I \subseteq Nat, I # {}
    PROVE  Min(I) \in I
<1> DEFINE R == OpToRel(<, Nat)
<1>1. IsWellFoundedOn(R, Nat)
  BY NatLessThanWellFounded
<1>2. \A x, y \in Nat : y < x => <<y, x>> \in R
  BY DEF OpToRel
<1> HIDE DEF R
<1>3. PICK x \in I : \A y \in I : ~ (<<y, x>> \in R)
  BY <1>1, WFMin
<1>4. ASSUME NEW y \in I PROVE x <= y
  <2>1. x \in Nat /\ y \in Nat /\ ~ (y < x)
    BY <1>2, <1>3
  <2> QED BY <2>1
<1> QED BY <1>4 DEF Min

\* Removing an element leaves a sequence over the same set.
LEMMA RemoveFirstSeq ==
    ASSUME NEW S, NEW s \in Seq(S), NEW r
    PROVE  RemoveFirst(s, r) \in Seq(S)
<1> DEFINE I == {i \in 1..Len(s) : s[i] = r}
<1> DEFINE k == Min(I)
<1>1. CASE I = {}
  BY <1>1 DEF RemoveFirst
<1>2. CASE I # {}
  <2>1. Len(s) \in Nat /\ I \subseteq Nat
    BY LenProperties
  <2>2. k \in 1..Len(s)
    <3> k \in I
      BY <1>2, <2>1, FirstPosition
    <3> QED OBVIOUS
  <2>3. RemoveFirst(s, r) = RemoveAt(s, k)
    BY <1>2 DEF RemoveFirst, SelectInSeq
  <2> HIDE DEF k
  <2>4. (\A j \in 1..(k-1) : s[j] \in S) /\ \A j \in (k+1)..Len(s) : s[j] \in S
    BY <2>1, <2>2, ElementOfSeq
  <2>5. SubSeq(s, 1, k-1) \in Seq(S) /\ SubSeq(s, k+1, Len(s)) \in Seq(S)
    BY <2>1, <2>2, <2>4, SubSeqProperties
  <2> QED BY <2>3, <2>5, ConcatProperties DEF RemoveAt
<1> QED BY <1>1, <1>2

\* The log stays over S when what is recorded is in S (record, resolve).
LEMMA LogOver ==
    ASSUME NEW S, log \in Seq(S), NEW g, NEW e
    PROVE  /\ Record(g, e) /\ [gtid |-> g, env |-> e] \in S => log' \in Seq(S)
           /\ Retire(g, e) => log' \in Seq(S)
BY AppendProperties, RemoveFirstSeq, SMTT(30) DEF Record, Retire

\* What an append leaves on the disk, whole or failed (append).
DiskTyped == log \in Seq(Records) /\ torn \in BOOLEAN /\ swallowed \subseteq Records
LEMMA AppendTyped ==
    ASSUME DiskTyped, NEW g, NEW e, [gtid |-> g, env |-> e] \in Records,
           \/ Record(g, e) \/ Retire(g, e)
           \/ AppendFails(Record(g, e)) \/ AppendFails(Retire(g, e))
    PROVE  DiskTyped'
<1>1. ASSUME Record(g, e) PROVE DiskTyped'
  BY <1>1, LogOver DEF Record, DiskTyped
<1>2. ASSUME Retire(g, e) PROVE DiskTyped'
  BY <1>2, LogOver DEF Retire, DiskTyped
<1>3. ASSUME UNCHANGED disk \/ (torn' = TRUE /\ UNCHANGED <<log, swallowed>>) PROVE DiskTyped'
  BY <1>3 DEF disk, DiskTyped
<1> QED BY <1>1, <1>2, <1>3 DEF AppendFails

\* The variables have their types in every reachable state
\* (CrossNodeCoordinator, InDoubtLog, XaPeer).
THEOREM TypeCorrect == Spec => []TypeOK
<1> USE BranchesAssumption, VotesAssumption, BoundsAssumption
<1>1. Init => TypeOK
  <2> SUFFICES ASSUME Init PROVE TypeOK
    OBVIOUS
  <2>1. scan \in Seq(Records) /\ log \in Seq(Records)
    BY EmptySeq DEF Init
  <2>2. /\ gtid \in [Txns -> Nat] /\ active \in [Txns -> SUBSET Envs] /\ todo \in [Txns -> SUBSET Envs]
        /\ vote \in [Txns -> [Envs -> Votes \cup {"none", "Err"}]]
        /\ in_doubt \in [Txns -> BOOLEAN] /\ next_gtid \in Nat \ {0} /\ booting \in BOOLEAN
    BY DEF Init
  <2>3. /\ phase \in [Txns -> {"new", "preparing", "rollback", "committing", "done"}]
        /\ decision \in [Txns -> {"none", "commit", "abort"}]
        /\ outcome \in [Txns -> {"none", "error", "aborted", "in_doubt", "committed",
                                 "log_failed", "crashed"}]
        /\ crashes \in 0..MaxCrashes /\ faults \in 0..MaxFaults
    BY DEF Init
  <2>4. /\ prepared \subseteq [txn : Txns, gtid : Nat, env : Envs]
        /\ committed \subseteq Txns \X Envs /\ late \subseteq Messages /\ torn \in BOOLEAN
        /\ swallowed \subseteq Records
    BY DEF Init
  <2> QED BY <2>1, <2>2, <2>3, <2>4 DEF TypeOK
<1>2. TypeOK /\ [Next]_vars => TypeOK'
  <2> SUFFICES ASSUME TypeOK, [Next]_vars PROVE TypeOK'
    OBVIOUS
  <2> USE DEF TypeOK, Records, exec, coord, disk, rms, bounds, Local
  <2>1. ASSUME NEW t \in Txns, NEW S \in (SUBSET Envs) \ {{}}, NEW v \in [Local -> Votes],
               Begin(t, S, v)
        PROVE  TypeOK'
    BY <2>1 DEF Begin, Prepared
  <2>2. ASSUME NEW t \in Txns, Execute(t) PROVE TypeOK'
    <3>1. ASSUME NEW e \in Remote, NEW v \in Votes, PrepareOk(t, e, v) PROVE TypeOK'
      BY <3>1 DEF PrepareOk, Prepared
    <3>2. ASSUME NEW e \in Remote, PrepareFails(t, e) PROVE TypeOK'
      BY <3>2 DEF PrepareFails, PrepareMsg, Messages
    <3>3. ASSUME NEW force \in BOOLEAN, Decide(t, force) PROVE TypeOK'
      <4> active[t] \subseteq Envs
        OBVIOUS
      <4>1. CASE Abort(t) \/ force
        BY <3>3, <4>1 DEF Decide
      <4>2. CASE ~ (Abort(t) \/ force)
        <5>1. phase' = [phase EXCEPT ![t] = "committing"] /\ decision' = [decision EXCEPT ![t] = "commit"]
          BY <3>3, <4>2 DEF Decide
        <5>2. todo' = [todo EXCEPT ![t] = {e \in active[t] : vote[t][e] = "Ok"}]
          BY <3>3, <4>2 DEF Decide
        <5>3. todo' \in [Txns -> SUBSET Envs]
          BY <5>2
        <5> QED BY <3>3, <5>1, <5>3 DEF Decide
      <4> QED BY <4>1, <4>2
    <3>4. ASSUME NEW e \in Envs, RollbackNext(t, e) PROVE TypeOK'
      <4>1. prepared' \subseteq prepared /\ committed' = committed
        BY <3>4 DEF RollbackNext, Rollback
      <4>2. late' \subseteq Messages
        BY <3>4 DEF RollbackNext, ResolveMsg, Messages
      <4>3. todo' \in [Txns -> SUBSET Envs]
        BY <3>4 DEF RollbackNext, Advance
      <4> QED BY <3>4, <4>1, <4>2, <4>3 DEF RollbackNext
    <3>5. ASSUME NEW e \in Envs, CommitOk(t, e) PROVE TypeOK'
      BY <3>5 DEF CommitOk, Advance, Commit, Held
    <3>6. ASSUME NEW e \in Envs, CommitRetry(t, e) PROVE TypeOK'
      BY <3>6 DEF CommitRetry, ResolveMsg, Messages
    <3>7. ASSUME NEW e \in Envs, CommitGivesUp(t, e) PROVE TypeOK'
      <4>1. log' \in Seq(Records) /\ torn' \in BOOLEAN /\ swallowed' \subseteq Records
        <5> [gtid |-> gtid[t], env |-> e] \in Records /\ DiskTyped
          BY DEF DiskTyped
        <5> HIDE DEF TypeOK, Records
        <5> QED BY <3>7, AppendTyped DEF CommitGivesUp, DiskTyped
      <4>2. late' \subseteq Messages
        BY <3>7 DEF CommitGivesUp, ResolveMsg, Messages
      <4> QED BY <3>7, <4>1, <4>2 DEF CommitGivesUp, Advance
    <3>8. ASSUME NEW e \in Envs, RecordFails(t, e) PROVE TypeOK'
      <4>1. late' \subseteq Messages
        BY <3>8 DEF RecordFails, ResolveMsg, Messages
      <4>2. log' \in Seq(Records) /\ torn' \in BOOLEAN /\ swallowed' \subseteq Records
        <5> [gtid |-> gtid[t], env |-> e] \in Records /\ DiskTyped
          BY DEF DiskTyped
        <5> HIDE DEF TypeOK, Records
        <5> QED BY <3>8, AppendTyped DEF RecordFails, DiskTyped
      <4>3. faults' \in 0..MaxFaults
        BY <3>8 DEF RecordFails, AppendFails
      <4> QED BY <3>8, <4>1, <4>2, <4>3 DEF RecordFails, Returns
    <3>9. CASE Return(t)
      BY <3>9 DEF Return, Returns
    <3> QED BY <2>2, <3>1, <3>2, <3>3, <3>4, <3>5, <3>6, <3>7, <3>8, <3>9 DEF Execute
  <2>3. CASE RedriveOk
    <3>1. Current \in Records /\ scan' \in Seq(Records)
      BY <2>3, HeadTailProperties DEF RedriveOk, Current
    <3>2. log' \in Seq(Records) /\ torn' \in BOOLEAN /\ swallowed' \subseteq Records
      BY <2>3, <3>1, AppendTyped DEF RedriveOk, DiskTyped
    <3>3. prepared' \subseteq prepared /\ committed' \subseteq Txns \X Envs
      BY <2>3, <3>1 DEF RedriveOk, Commit, Held
    <3>4. faults' \in 0..MaxFaults
      BY <2>3 DEF RedriveOk, AppendFails
    <3> QED BY <2>3, <3>1, <3>2, <3>3, <3>4 DEF RedriveOk
  <2>4. CASE RedriveRetry
    <3>1. Current \in Records
      BY <2>4, HeadTailProperties DEF RedriveRetry, Current
    <3> QED BY <2>4, <3>1, SMTT(30) DEF RedriveRetry, ResolveMsg, Messages
  <2>5. CASE RedriveFails
    <3>1. Current \in Records /\ scan' \in Seq(Records)
      BY <2>5, HeadTailProperties DEF RedriveFails, Current
    <3>2. late' \subseteq Messages
      BY <2>5, <3>1 DEF RedriveFails, ResolveMsg, Messages
    <3> QED BY <2>5, <3>1, <3>2 DEF RedriveFails
  <2>6. CASE Rescan
    BY <2>6 DEF Rescan
  <2>7. CASE Booted
    BY <2>7 DEF Booted
  <2>8. ASSUME NEW m \in late, NEW v \in Votes, LateArrives(m, v) PROVE TypeOK'
    <3>1. prepared' \subseteq [txn : Txns, gtid : Nat, env : Envs] /\ committed' \subseteq Txns \X Envs
      BY <2>8 DEF LateArrives, Prepared, Commit, Rollback, Held, Messages
    <3> QED BY <2>8, <3>1 DEF LateArrives
  <2>9. ASSUME NEW sent \in SUBSET Outstanding, NEW tears \in BOOLEAN, Crash(sent, tears)
        PROVE  TypeOK'
    <3>1. Outstanding \subseteq Messages
      <4>1. scan # <<>> => Current \in Records
        BY HeadTailProperties DEF Current
      <4>2. \A t \in Txns, e \in Remote : PrepareMsg(t, e) \in Messages
        BY DEF Messages, PrepareMsg
      <4>3. \A kind \in {"commit", "rollback"}, g \in Nat, e \in Remote : ResolveMsg(kind, g, e) \in Messages
        BY DEF Messages, ResolveMsg
      <4>4. ASSUME NEW t \in Txns PROVE Awaited(t) \subseteq Messages
        BY <4>2, <4>3 DEF Awaited
      <4>5. (scan # <<>> /\ Current.env \in Remote) => ResolveMsg("commit", Current.gtid, Current.env) \in Messages
        BY <4>1, <4>3
      <4> QED BY <4>4, <4>5 DEF Outstanding
    <3> QED BY <2>9, <3>1 DEF Crash
  <2>10. CASE UNCHANGED vars
    BY <2>10 DEF vars
  <2> QED BY <2>1, <2>2, <2>3, <2>4, <2>5, <2>6, <2>7, <2>8, <2>9, <2>10 DEF Next
<1> QED BY <1>1, <1>2, PTL DEF Spec

-----------------------------------------------------------------------------
(* The inductive invariant                                                 *)

\* Some transaction with the id g was decided d.
Decided(g, d) == \E t \in Txns : gtid[t] = g /\ decision[t] = d
ToCommit == {r \in Records : Decided(r.gtid, "commit")}

\* A decision follows the votes and outlives execute.
DecisionOf(t) ==
    /\ phase[t] = "new" <=> gtid[t] = 0
    /\ phase[t] # "new" => active[t] # {}
    /\ phase[t] # "done" => outcome[t] = "none"
    /\ phase[t] \in {"new", "preparing"} => decision[t] = "none"
    /\ phase[t] = "rollback" => decision[t] = "abort"
    /\ phase[t] = "committing" => decision[t] = "commit"
    /\ outcome[t] \in {"aborted", "error"} => decision[t] = "abort"
    /\ decision[t] = "commit" => \A e \in active[t] : vote[t][e] \in {"Ok", "ReadOnly"}
Decisions == \A t \in Txns : DecisionOf(t)

\* What the resource managers, the connections, the log and the scan hold was
\* decided by a transaction with that id, though perhaps not the only one.
OwnedMsg(m) ==
    /\ m.kind = "prepare" => gtid[m.txn] = m.gtid /\ m.gtid # 0
    /\ m.kind = "commit" => Decided(m.gtid, "commit")
    /\ m.kind = "rollback" => Decided(m.gtid, "abort")
Owned ==
    /\ \A p \in prepared : gtid[p.txn] = p.gtid /\ p.gtid # 0
    /\ \A m \in late : OwnedMsg(m)
    /\ scan \in Seq(ToCommit) /\ log \in Seq(ToCommit)

\* With one transaction to an id, the effects are those of its decision.
Effective(t) ==
    /\ \A e \in Envs : <<t, e>> \in committed => decision[t] = "commit"
    /\ phase[t] = "preparing" \/ decision[t] = "commit" => \A e \in Voted(t) : Safe(t, e)
    /\ phase[t] = "committing" /\ ~ in_doubt[t] =>
           \A e \in Voted(t) \ todo[t] : <<t, e>> \in committed
    /\ outcome[t] = "committed" =>
           decision[t] = "commit" /\ \A e \in Voted(t) : <<t, e>> \in committed
Effects == Fresh => \A t \in Txns : Effective(t)

IInv == TypeOK /\ Decisions /\ Owned /\ Effects

-----------------------------------------------------------------------------
(* What a step leaves alone                                                *)

\* A transaction keeps its id and its decision.
Kept == \A t \in Txns :
    /\ gtid[t] # 0 => gtid'[t] = gtid[t]
    /\ decision[t] # "none" => decision'[t] = decision[t]

\* What was owned still is.
LEMMA OwnedKept ==
    ASSUME TypeOK, Decisions, Owned, Kept
    PROVE  /\ \A p \in prepared : gtid'[p.txn] = p.gtid /\ p.gtid # 0
           /\ \A m \in Messages : OwnedMsg(m) => OwnedMsg(m)'
           /\ \A m \in late : OwnedMsg(m)'
           /\ scan \in Seq(ToCommit') /\ log \in Seq(ToCommit')
<1>1. \A g, d : d # "none" /\ Decided(g, d) => Decided(g, d)'
  BY DEF Decided, Kept, Decisions, DecisionOf, TypeOK
<1>2. \A p \in prepared : gtid'[p.txn] = p.gtid /\ p.gtid # 0
  BY DEF Owned, Kept, TypeOK
<1>3. ASSUME NEW m \in Messages, OwnedMsg(m) PROVE OwnedMsg(m)'
  <2>1. m.kind = "prepare" => m.txn \in Txns
    BY DEF Messages
  <2> QED BY <1>1, <1>3, <2>1 DEF OwnedMsg, Kept
<1>4. ToCommit \subseteq ToCommit'
  BY <1>1 DEF ToCommit
<1>5. scan \in Seq(ToCommit') /\ log \in Seq(ToCommit')
  BY <1>4, SeqMonotonic DEF Owned
<1> QED BY <1>2, <1>3, <1>5 DEF Owned, TypeOK

\* A resolution of a decided id is owned.
LEMMA ResolveOwned ==
    ASSUME NEW g \in Nat, NEW e \in Remote
    PROVE  /\ Decided(g, "commit") =>
                 ResolveMsg("commit", g, e) \in Messages /\ OwnedMsg(ResolveMsg("commit", g, e))
           /\ Decided(g, "abort") =>
                 ResolveMsg("rollback", g, e) \in Messages /\ OwnedMsg(ResolveMsg("rollback", g, e))
BY DEF ResolveMsg, Messages, OwnedMsg

\* execute goes on, or returns what was decided.
LEMMA DecisionsKept ==
    ASSUME Decisions, UNCHANGED <<gtid, active, vote, decision>>,
           \A t \in Txns :
               \/ phase'[t] = phase[t] /\ outcome'[t] = outcome[t]
               \/ /\ phase[t] # "new" /\ phase'[t] = "done"
                  /\ outcome'[t] \in {"aborted", "error"} => decision[t] = "abort"
    PROVE  Decisions' /\ Kept
BY DEF Decisions, DecisionOf, Kept

\* No branch is lost or committed against the decision.
LEMMA EffectsKept ==
    ASSUME IInv, UNCHANGED <<gtid, active, vote, decision>>,
           \A t \in Txns : phase'[t] = phase[t] \/ phase'[t] = "done",
           \A t \in Txns : phase'[t] = "committing" /\ ~ in_doubt'[t] =>
                              ~ in_doubt[t] /\ todo'[t] = todo[t],
           \A t \in Txns : outcome'[t] = outcome[t] \/ outcome'[t] # "committed",
           Fresh => \A t, f : <<t, f>> \in committed' =>
                                  <<t, f>> \in committed \/ decision[t] = "commit",
           committed \subseteq committed',
           Fresh => \A t, f : decision[t] # "abort" /\ Safe(t, f) => Safe(t, f)'
    PROVE  Effects'
<1> SUFFICES ASSUME Fresh', NEW t \in Txns PROVE Effective(t)'
  BY DEF Effects
<1>1. Fresh /\ Effective(t)
  BY DEF IInv, Effects, Fresh
<1>2. Voted(t)' = Voted(t)
  BY DEF Voted
<1>3. \A e \in Envs : <<t, e>> \in committed' => decision'[t] = "commit"
  BY <1>1 DEF Effective
<1>4. phase'[t] = "preparing" \/ decision'[t] = "commit" => \A e \in Voted(t)' : Safe(t, e)'
  <2>1. phase[t] = "preparing" => decision[t] = "none"
    BY DEF IInv, Decisions, DecisionOf
  <2> QED BY <1>1, <1>2, <2>1 DEF Effective
<1> QED BY <1>1, <1>2, <1>3, <1>4 DEF Effective

\* resolve(commit) of an id decided to commit: the effects are that decision's.
LEMMA CommitEffects ==
    ASSUME TypeOK, Owned, Fresh, NEW g, NEW e, Decided(g, "commit"), Commit(g, e)
    PROVE  /\ \A t, f : <<t, f>> \in committed' => <<t, f>> \in committed \/ decision[t] = "commit"
           /\ committed \subseteq committed'
           /\ \A t, f : Safe(t, f) => Safe(t, f)'
<1>1. PICK u \in Txns : gtid[u] = g /\ decision[u] = "commit"
  BY DEF Decided
<1>2. \A p \in Held(g, e) : p \in prepared /\ p.txn = u /\ p.env = e
  BY <1>1 DEF Held, Owned, Fresh, TypeOK
<1>3. ASSUME NEW t, NEW f, <<t, f>> \in committed'
      PROVE  <<t, f>> \in committed \/ decision[t] = "commit"
  BY <1>1, <1>2, <1>3 DEF Commit
<1>4. ASSUME NEW t, NEW f, Safe(t, f) PROVE Safe(t, f)'
  BY <1>4, <1>2 DEF Commit, Safe, Held
<1> QED BY <1>3, <1>4 DEF Commit

\* resolve(rollback) of an id decided to abort: no other loses a branch.
LEMMA RollbackEffects ==
    ASSUME TypeOK, Owned, Fresh, NEW g, NEW e, Decided(g, "abort"), Rollback(g, e)
    PROVE  /\ committed' = committed
           /\ \A t, f : decision[t] # "abort" /\ Safe(t, f) => Safe(t, f)'
<1>1. PICK u \in Txns : gtid[u] = g /\ decision[u] = "abort"
  BY DEF Decided
<1>2. \A p \in Held(g, e) : p.txn = u
  BY <1>1 DEF Held, Owned, Fresh, TypeOK
<1> QED BY <1>1, <1>2 DEF Rollback, Safe

-----------------------------------------------------------------------------
(* One lemma per action of execute                                         *)

\* execute takes an id and prepares the local branches.
LEMMA BeginStep ==
    ASSUME IInv, NEW t \in Txns, NEW S \in (SUBSET Envs) \ {{}}, NEW v \in [Local -> Votes],
           Begin(t, S, v)
    PROVE  Decisions' /\ Owned' /\ Effects'
<1> USE DEF IInv, TypeOK, exec, disk, rms, bounds
<1>1. phase[t] = "new" /\ gtid[t] = 0 /\ decision[t] = "none" /\ gtid'[t] # 0
  BY DEF Begin, Decisions, DecisionOf
<1>2. Kept
  BY <1>1 DEF Begin, Kept
<1>3. Decisions'
  <2> SUFFICES ASSUME NEW u \in Txns PROVE DecisionOf(u)'
    BY DEF Decisions
  <2>1. CASE u = t
    BY <1>1, <2>1 DEF Begin, Decisions, DecisionOf
  <2>2. CASE u # t
    BY <2>2 DEF Begin, Decisions, DecisionOf
  <2> QED BY <2>1, <2>2
<1>4. Owned'
  <2>1. ASSUME NEW p \in prepared' PROVE gtid'[p.txn] = p.gtid /\ p.gtid # 0
    <3>1. p \in prepared \/ (p.txn = t /\ p.gtid = next_gtid)
      BY DEF Begin, Prepared
    <3> QED BY <3>1, <1>2, OwnedKept DEF Begin
  <2> QED BY <2>1, <1>2, OwnedKept DEF Owned, Begin
<1>5. Effects'
  <2> SUFFICES ASSUME Fresh', NEW u \in Txns PROVE Effective(u)'
    BY DEF Effects
  <2>1. Fresh
    BY <1>1 DEF Fresh, Begin
  <2>2. Effective(u)
    BY <2>1 DEF Effects
  <2>3. \A f : Safe(u, f) => Safe(u, f)'
    BY DEF Begin, Safe
  <2>4. CASE u # t
    BY <2>2, <2>3, <2>4 DEF Begin, Effective, Voted
  <2>5. CASE u = t
    <3>1. ASSUME NEW e \in Voted(t)' PROVE Safe(t, e)'
      <4>1. e \in S \cap Local /\ v[e] = "Ok"
        BY <3>1 DEF Begin, Voted
      <4>2. [txn |-> t, gtid |-> next_gtid, env |-> e] \in prepared'
        BY <4>1 DEF Begin, Prepared
      <4> QED BY <4>2 DEF Safe
    <3>2. phase'[t] = "preparing" /\ decision'[t] = "none" /\ outcome'[t] = "none"
      BY <1>1 DEF Begin, Decisions, DecisionOf
    <3>3. committed' = committed
      BY DEF Begin
    <3> QED BY <1>1, <2>2, <2>5, <3>1, <3>2, <3>3 DEF Effective
  <2> QED BY <2>4, <2>5
<1> QED BY <1>3, <1>4, <1>5

\* A remote vote comes back: with Ok the branch is prepared.
LEMMA PrepareOkStep ==
    ASSUME IInv, NEW t \in Txns, NEW e \in Remote, NEW v \in Votes, PrepareOk(t, e, v)
    PROVE  Decisions' /\ Owned' /\ Effects'
<1> USE DEF IInv, TypeOK, coord, disk, rms, bounds
<1>1. decision[t] = "none" /\ outcome[t] = "none" /\ gtid[t] # 0
  BY DEF PrepareOk, Decisions, DecisionOf
<1>2. Kept
  BY DEF PrepareOk, Kept
<1>3. Decisions'
  BY <1>1 DEF PrepareOk, Decisions, DecisionOf
<1>4. Owned'
  <2>1. ASSUME NEW p \in prepared' PROVE gtid'[p.txn] = p.gtid /\ p.gtid # 0
    <3>1. p \in prepared \/ (p.txn = t /\ p.gtid = gtid[t])
      BY DEF PrepareOk, Prepared
    <3> QED BY <1>1, <3>1, <1>2, OwnedKept DEF PrepareOk
  <2> QED BY <2>1, <1>2, OwnedKept DEF Owned, PrepareOk
<1>5. Effects'
  <2> SUFFICES ASSUME Fresh', NEW u \in Txns PROVE Effective(u)'
    BY DEF Effects
  <2>1. Effective(u)
    BY DEF Effects, Fresh, PrepareOk
  <2>2. \A f : Safe(u, f) => Safe(u, f)'
    BY DEF PrepareOk, Safe
  <2>3. CASE u # t
    BY <2>1, <2>2, <2>3 DEF PrepareOk, Effective, Voted
  <2>4. CASE u = t
    <3>1. ASSUME NEW f \in Voted(t)' PROVE Safe(t, f)'
      <4>1. CASE f = e
        <5>1. v = "Ok"
          BY <3>1, <4>1 DEF PrepareOk, Voted
        <5>2. [txn |-> t, gtid |-> gtid[t], env |-> e] \in prepared'
          BY <5>1 DEF PrepareOk, Prepared
        <5> QED BY <4>1, <5>2 DEF Safe
      <4>2. CASE f # e
        BY <2>1, <2>2, <2>4, <3>1, <4>2 DEF PrepareOk, Effective, Voted
      <4> QED BY <4>1, <4>2
    <3>2. phase'[t] = "preparing" /\ decision'[t] = "none" /\ outcome'[t] = "none"
      BY <1>1 DEF PrepareOk
    <3>3. committed' = committed
      BY DEF PrepareOk
    <3> QED BY <1>1, <2>1, <2>4, <3>1, <3>2, <3>3 DEF Effective
  <2> QED BY <2>3, <2>4
<1> QED BY <1>3, <1>4, <1>5

\* A prepare is not answered and may still arrive (prepare_all).
LEMMA PrepareFailsStep ==
    ASSUME IInv, NEW t \in Txns, NEW e \in Remote, PrepareFails(t, e)
    PROVE  Decisions' /\ Owned' /\ Effects'
<1> USE DEF IInv, TypeOK, coord, disk, rms, bounds
<1>1. decision[t] = "none" /\ outcome[t] = "none" /\ gtid[t] # 0
  BY DEF PrepareFails, Decisions, DecisionOf
<1>2. Kept
  BY DEF PrepareFails, Kept
<1>3. Decisions'
  BY <1>1 DEF PrepareFails, Decisions, DecisionOf
<1>4. Owned'
  <2>1. ASSUME NEW m, m = PrepareMsg(t, e) PROVE OwnedMsg(m)'
    BY <1>1, <2>1 DEF PrepareFails, OwnedMsg, PrepareMsg
  <2>2. \A m \in late' : m \in late \/ m = PrepareMsg(t, e)
    BY DEF PrepareFails
  <2> QED BY <1>2, <2>1, <2>2, OwnedKept DEF Owned, PrepareFails
<1>5. Effects'
  <2> SUFFICES ASSUME Fresh', NEW u \in Txns PROVE Effective(u)'
    BY DEF Effects
  <2>1. Effective(u)
    BY DEF Effects, Fresh, PrepareFails
  <2>2. \A f : Safe(u, f) => Safe(u, f)'
    BY DEF PrepareFails, Safe
  <2>3. Voted(u)' \subseteq Voted(u)
    BY DEF PrepareFails, Voted
  <2> QED BY <1>1, <2>1, <2>2, <2>3 DEF PrepareFails, Effective
<1> QED BY <1>3, <1>4, <1>5

\* The votes are in: commit only when all are for it.
LEMMA DecideStep ==
    ASSUME IInv, NEW t \in Txns, NEW force \in BOOLEAN, Decide(t, force)
    PROVE  Decisions' /\ Owned' /\ Effects'
<1> USE DEF IInv, TypeOK, coord, disk, rms, bounds
<1>1. phase[t] = "preparing" /\ decision[t] = "none" /\ outcome[t] = "none"
  BY DEF Decide, Decisions, DecisionOf
<1>2. UNCHANGED <<gtid, active, vote, in_doubt, outcome, coord, disk, rms, late, bounds>>
  BY DEF Decide
<1>3. \/ /\ phase' = [phase EXCEPT ![t] = "rollback"] /\ todo' = [todo EXCEPT ![t] = active[t]]
         /\ decision' = [decision EXCEPT ![t] = "abort"]
      \/ /\ phase' = [phase EXCEPT ![t] = "committing"] /\ todo' = [todo EXCEPT ![t] = Voted(t)]
         /\ decision' = [decision EXCEPT ![t] = "commit"] /\ ~ Abort(t) /\ Waiting(t) = {}
  BY DEF Decide, Voted
<1>4. Kept
  BY <1>1, <1>2, <1>3 DEF Kept
<1>5. ~ Abort(t) /\ Waiting(t) = {} => \A e \in active[t] : vote[t][e] \in {"Ok", "ReadOnly"}
  <2> SUFFICES ASSUME ~ Abort(t), Waiting(t) = {}, NEW e \in active[t]
               PROVE  vote[t][e] \in {"Ok", "ReadOnly"}
    OBVIOUS
  <2>1. vote[t][e] \in Votes \cup {"none", "Err"}
    OBVIOUS
  <2>2. vote[t][e] \notin {"Abort", "Err", "none"}
    BY DEF Abort, Waiting
  <2> QED BY <2>1, <2>2, VotesAssumption
<1>6. Decisions'
  BY <1>1, <1>2, <1>3, <1>5 DEF Decisions, DecisionOf
<1>7. Owned'
  BY <1>2, <1>4, OwnedKept DEF Owned
<1>8. Effects'
  <2> SUFFICES ASSUME Fresh', NEW u \in Txns PROVE Effective(u)'
    BY DEF Effects
  <2>1. Effective(u)
    BY <1>2 DEF Effects, Fresh
  <2>2. \A f : Safe(u, f)' <=> Safe(u, f)
    BY <1>2 DEF Safe
  <2>3. Voted(u)' = Voted(u)
    BY <1>2 DEF Voted
  <2> QED BY <1>1, <1>2, <1>3, <2>1, <2>2, <2>3 DEF Effective
<1> QED BY <1>6, <1>7, <1>8

\* rollback_all visits a branch: only its own transaction loses it.
LEMMA RollbackNextStep ==
    ASSUME IInv, NEW t \in Txns, NEW e \in Envs, RollbackNext(t, e)
    PROVE  Decisions' /\ Owned' /\ Effects'
<1> USE DEF IInv, coord, disk, rms, bounds
<1>1. Decided(gtid[t], "abort") /\ gtid[t] \in Nat
  BY DEF RollbackNext, Decisions, DecisionOf, Decided, TypeOK
<1>2. Decisions' /\ Kept
  BY DecisionsKept DEF RollbackNext
<1>3. \A m \in late' : OwnedMsg(m)'
  <2>1. \A m \in late' : m \in late \/ (e \in Remote /\ m = ResolveMsg("rollback", gtid[t], e))
    BY DEF RollbackNext
  <2> QED BY <1>1, <1>2, <2>1, OwnedKept, ResolveOwned
<1>4. prepared' \subseteq prepared
  BY DEF RollbackNext, Rollback
<1>5. Owned'
  BY <1>2, <1>3, <1>4, OwnedKept DEF Owned, RollbackNext
<1>6. Fresh => \A u, f : decision[u] # "abort" /\ Safe(u, f) => Safe(u, f)'
  BY <1>1, RollbackEffects DEF RollbackNext, Safe
<1>7. Effects'
  <2>1. committed' = committed
    BY DEF RollbackNext, Rollback
  <2>2. \A u \in Txns : phase'[u] = "committing" /\ ~ in_doubt'[u] =>
                          ~ in_doubt[u] /\ todo'[u] = todo[u]
    BY DEF RollbackNext, Advance, TypeOK
  <2> QED BY <1>6, <2>1, <2>2, EffectsKept DEF RollbackNext
<1> QED BY <1>2, <1>5, <1>7

\* commit_branch is answered: what was safe is now committed.
LEMMA CommitOkStep ==
    ASSUME IInv, NEW t \in Txns, NEW e \in Envs, CommitOk(t, e)
    PROVE  Decisions' /\ Owned' /\ Effects'
<1> USE DEF IInv, coord, disk, bounds
<1>1. Decided(gtid[t], "commit") /\ decision[t] = "commit"
  BY DEF CommitOk, Decisions, DecisionOf, Decided
<1>2. Decisions' /\ Kept
  BY DecisionsKept DEF CommitOk
<1>3. Owned'
  BY <1>2, OwnedKept DEF Owned, CommitOk, Commit
<1>4. Effects'
  <2> SUFFICES ASSUME Fresh', NEW u \in Txns PROVE Effective(u)'
    BY DEF Effects
  <2>1. Fresh /\ Effective(u)
    BY DEF Effects, Fresh, CommitOk
  <2>2. /\ \A s, f : <<s, f>> \in committed' => <<s, f>> \in committed \/ decision[s] = "commit"
        /\ committed \subseteq committed'
        /\ \A s, f : Safe(s, f) => Safe(s, f)'
    BY <1>1, <2>1, CommitEffects DEF CommitOk
  <2>3. Safe(t, e) => <<t, e>> \in committed'
    BY DEF CommitOk, Commit, Held, Safe, Owned
  <2>4. Voted(u)' = Voted(u)
    BY DEF Voted, CommitOk
  <2>5. phase'[u] = "committing" /\ ~ in_doubt'[u] =>
            \A f \in Voted(u)' \ todo'[u] : <<u, f>> \in committed'
    <3> SUFFICES ASSUME phase[u] = "committing", ~ in_doubt[u],
                        NEW f \in Voted(u), f \notin todo'[u]
                 PROVE  <<u, f>> \in committed'
      BY <2>4 DEF CommitOk
    <3>1. Safe(u, f)
      BY <2>1 DEF Effective, Decisions, DecisionOf
    <3>2. f \notin todo[u] \/ (u = t /\ f = e)
      BY DEF CommitOk, Advance, TypeOK
    <3> QED BY <2>1, <2>2, <2>3, <3>1, <3>2 DEF Effective
  <2> QED BY <2>1, <2>2, <2>4, <2>5 DEF Effective, CommitOk
<1> QED BY <1>2, <1>3, <1>4

\* An unanswered commit may still arrive (commit_branch).
LEMMA CommitRetryStep ==
    ASSUME IInv, NEW t \in Txns, NEW e \in Envs, CommitRetry(t, e)
    PROVE  Decisions' /\ Owned' /\ Effects'
<1> USE DEF IInv, exec, coord, disk, rms, bounds
<1>1. Decided(gtid[t], "commit") /\ gtid[t] \in Nat
  BY DEF CommitRetry, Decisions, DecisionOf, Decided, TypeOK
<1>2. Decisions' /\ Kept
  BY DecisionsKept DEF CommitRetry
<1>3. \A m \in late' : OwnedMsg(m)'
  <2>1. \A m \in late' : m \in late \/ (e \in Remote /\ m = ResolveMsg("commit", gtid[t], e))
    BY DEF CommitRetry
  <2> QED BY <1>1, <1>2, <2>1, OwnedKept, ResolveOwned
<1>4. Owned'
  BY <1>2, <1>3, OwnedKept DEF Owned, CommitRetry
<1>5. Effects'
  BY EffectsKept DEF CommitRetry, Safe
<1> QED BY <1>2, <1>4, <1>5

\* A branch is given up: its record is one decided to commit.
LEMMA CommitGivesUpStep ==
    ASSUME IInv, NEW t \in Txns, NEW e \in Envs, CommitGivesUp(t, e)
    PROVE  Decisions' /\ Owned' /\ Effects'
<1> USE DEF IInv, coord, rms, bounds
<1>1. Decided(gtid[t], "commit") /\ gtid[t] \in Nat
  BY DEF CommitGivesUp, Decisions, DecisionOf, Decided, TypeOK
<1>2. Decisions' /\ Kept
  BY DecisionsKept DEF CommitGivesUp
<1>3. \A m \in late' : OwnedMsg(m)'
  <2>1. \A m \in late' : m \in late \/ (e \in Remote /\ m = ResolveMsg("commit", gtid[t], e))
    BY DEF CommitGivesUp
  <2> QED BY <1>1, <1>2, <2>1, OwnedKept, ResolveOwned
<1>4. log' \in Seq(ToCommit')
  <2>1. [gtid |-> gtid[t], env |-> e] \in ToCommit
    BY <1>1 DEF ToCommit, Records
  <2>2. log' \in Seq(ToCommit)
    BY <2>1, LogOver DEF CommitGivesUp, Owned
  <2>3. ToCommit' = ToCommit
    BY DEF ToCommit, Decided, CommitGivesUp
  <2> QED BY <2>2, <2>3
<1>5. Owned'
  BY <1>2, <1>3, <1>4, OwnedKept DEF Owned, CommitGivesUp
<1>6. Effects'
  <2>1. \A u \in Txns : phase'[u] = "committing" /\ ~ in_doubt'[u] =>
                          ~ in_doubt[u] /\ todo'[u] = todo[u]
    BY DEF CommitGivesUp, Advance, TypeOK
  <2> QED BY <2>1, EffectsKept DEF CommitGivesUp, Safe
<1> QED BY <1>2, <1>5, <1>6

\* The record cannot be written: execute returns log_failed.
LEMMA RecordFailsStep ==
    ASSUME IInv, NEW t \in Txns, NEW e \in Envs, RecordFails(t, e)
    PROVE  Decisions' /\ Owned' /\ Effects'
<1> USE DEF IInv, coord, disk, rms
<1>1. Decided(gtid[t], "commit") /\ gtid[t] \in Nat
  BY DEF RecordFails, Decisions, DecisionOf, Decided, TypeOK
<1>2. Decisions' /\ Kept
  BY DecisionsKept DEF RecordFails, Returns, TypeOK
<1>3. \A m \in late' : OwnedMsg(m)'
  <2>1. \A m \in late' : m \in late \/ (e \in Remote /\ m = ResolveMsg("commit", gtid[t], e))
    BY DEF RecordFails
  <2> QED BY <1>1, <1>2, <2>1, OwnedKept, ResolveOwned
<1>4. Owned'
  <2>1. [gtid |-> gtid[t], env |-> e] \in ToCommit /\ log \in Seq(ToCommit)
    BY <1>1 DEF ToCommit, Records, Owned
  <2>2. log' \in Seq(ToCommit)
    BY <2>1, LogOver DEF RecordFails, AppendFails
  <2>3. ToCommit' = ToCommit
    BY DEF ToCommit, Decided, RecordFails
  <2> QED BY <1>2, <1>3, <2>2, <2>3, OwnedKept DEF Owned, RecordFails
<1>5. Effects'
  BY EffectsKept DEF RecordFails, Returns, Safe, TypeOK
<1> QED BY <1>2, <1>4, <1>5

\* execute returns: with no branch in doubt all were committed.
LEMMA ReturnStep ==
    ASSUME IInv, NEW t \in Txns, Return(t)
    PROVE  Decisions' /\ Owned' /\ Effects'
<1> USE DEF IInv, coord, disk, rms, bounds
<1>1. Decisions' /\ Kept
  BY DecisionsKept DEF Return, Returns, Decisions, DecisionOf, TypeOK
<1>2. Owned'
  BY <1>1, OwnedKept DEF Owned, Return
<1>3. Effects'
  <2> SUFFICES ASSUME Fresh', NEW u \in Txns PROVE Effective(u)'
    BY DEF Effects
  <2>1. Effective(u)
    BY DEF Effects, Fresh, Return
  <2>2. Voted(u)' = Voted(u) /\ \A f : Safe(u, f)' <=> Safe(u, f)
    BY DEF Voted, Safe, Return
  <2>3. CASE u # t
    BY <2>1, <2>2, <2>3 DEF Effective, Return, Returns, TypeOK
  <2>4. CASE u = t
    <3>1. phase'[t] = "done"
      BY DEF Return, Returns, TypeOK
    <3>2. outcome'[t] = "committed" => phase[t] = "committing" /\ ~ in_doubt[t] /\ todo[t] = {}
      BY DEF Return, Returns, TypeOK
    <3>3. phase[t] = "committing" => decision[t] = "commit"
      BY DEF Decisions, DecisionOf
    <3>4. decision' = decision /\ committed' = committed
      BY DEF Return
    <3> QED BY <2>1, <2>2, <2>4, <3>1, <3>2, <3>3, <3>4 DEF Effective
  <2> QED BY <2>3, <2>4
<1> QED BY <1>1, <1>2, <1>3

-----------------------------------------------------------------------------
(* The recovery scan, late messages and restarts                           *)

\* The record the scan is at was decided to commit.
LEMMA CurrentOwned ==
    ASSUME IInv, scan # <<>>
    PROVE  /\ Current \in Records /\ Decided(Current.gtid, "commit")
           /\ Tail(scan) \in Seq(ToCommit)
BY HeadTailProperties DEF IInv, Owned, Current, ToCommit

\* The scan commits the branch of a record (redrive_commit).
LEMMA RedriveOkStep ==
    ASSUME IInv, RedriveOk
    PROVE  Decisions' /\ Owned' /\ Effects'
<1> USE DEF IInv, exec, disk, rms
<1>1. Decisions' /\ Kept
  BY DecisionsKept DEF RedriveOk
<1>2. Decided(Current.gtid, "commit") /\ scan' \in Seq(ToCommit)
  BY CurrentOwned DEF RedriveOk
<1>3. log' \in Seq(ToCommit)
  BY LogOver DEF RedriveOk, AppendFails, Owned
<1>4. ToCommit' = ToCommit
  BY DEF ToCommit, Decided, RedriveOk
<1>5. Owned'
  BY <1>1, <1>2, <1>3, <1>4, OwnedKept DEF Owned, RedriveOk, Commit
<1>6. Effects'
  <2>1. committed \subseteq committed'
    BY DEF RedriveOk, Commit
  <2>2. Fresh => /\ \A t, f : <<t, f>> \in committed' => <<t, f>> \in committed \/ decision[t] = "commit"
                 /\ \A t, f : Safe(t, f) => Safe(t, f)'
    BY <1>2, CommitEffects DEF RedriveOk
  <2> QED BY <2>1, <2>2, EffectsKept DEF RedriveOk
<1> QED BY <1>1, <1>5, <1>6

\* The scan's commit is not answered and may still arrive.
LEMMA RedriveUnansweredStep ==
    ASSUME IInv, RedriveRetry \/ RedriveFails
    PROVE  Decisions' /\ Owned' /\ Effects'
<1> USE DEF IInv, exec, coord, disk, rms
<1>1. /\ UNCHANGED <<exec, disk, rms>> /\ scan # <<>>
      /\ scan' = scan \/ scan' = Tail(scan)
      /\ \A m \in late' : \/ m \in late
                          \/ /\ Current.env \in Remote
                             /\ m = ResolveMsg("commit", Current.gtid, Current.env)
  <2>1. CASE RedriveRetry
    BY <2>1 DEF RedriveRetry
  <2>2. CASE RedriveFails
    BY <2>2 DEF RedriveFails
  <2> QED BY <2>1, <2>2
<1>2. Decisions' /\ Kept
  BY <1>1, DecisionsKept
<1>3. /\ Current \in Records /\ Decided(Current.gtid, "commit")
      /\ scan' \in Seq(ToCommit)
  BY <1>1, CurrentOwned DEF Owned
<1>4. ToCommit' = ToCommit
  BY <1>1 DEF ToCommit, Decided
<1>5. \A m \in late' : OwnedMsg(m)'
  BY <1>1, <1>2, <1>3, OwnedKept, ResolveOwned DEF Records
<1>6. Owned'
  BY <1>1, <1>2, <1>3, <1>4, <1>5, OwnedKept DEF Owned
<1>7. Effects'
  BY <1>1, EffectsKept DEF Safe
<1> QED BY <1>2, <1>6, <1>7

\* The scan starts again or is over (recover_in_doubt, new_with_recovery).
LEMMA RescanStep ==
    ASSUME IInv, Rescan \/ Booted
    PROVE  Decisions' /\ Owned' /\ Effects'
<1> USE DEF IInv, exec, disk, rms
<1>1. UNCHANGED <<exec, disk, rms, late>> /\ (scan' = scan \/ scan' = log)
  BY DEF Rescan, Booted
<1>2. Decisions' /\ Kept
  BY <1>1, DecisionsKept
<1>3. Owned'
  BY <1>1, <1>2, OwnedKept DEF Owned
<1>4. Effects'
  BY <1>1, EffectsKept DEF Safe
<1> QED BY <1>2, <1>3, <1>4

\* XaPeer serves a message of an abandoned connection.
LEMMA LateArrivesStep ==
    ASSUME IInv, NEW m \in late, NEW v \in Votes, LateArrives(m, v)
    PROVE  Decisions' /\ Owned' /\ Effects'
<1> USE DEF IInv, exec, coord, disk, bounds
<1>1. UNCHANGED <<exec, coord, disk>> /\ late' \subseteq late
  BY DEF LateArrives
<1>2. Decisions' /\ Kept
  BY <1>1, DecisionsKept
<1>3. m \in Messages /\ OwnedMsg(m)
  BY DEF TypeOK, Owned
<1>4. Owned'
  <2>1. ASSUME NEW p \in prepared' PROVE gtid[p.txn] = p.gtid /\ p.gtid # 0
    <3>1. p \in prepared \/ (m.kind = "prepare" /\ p.txn = m.txn /\ p.gtid = m.gtid)
      BY DEF LateArrives, Prepared, Commit, Rollback
    <3> QED BY <1>3, <3>1 DEF Owned, OwnedMsg
  <2> QED BY <1>1, <1>2, <2>1, OwnedKept DEF Owned
<1>5. CASE m.kind = "prepare"
  <2>1. prepared \subseteq prepared' /\ committed' = committed
    BY <1>5 DEF LateArrives
  <2>2. Effects'
    BY <1>1, <2>1, EffectsKept DEF Safe
  <2> QED BY <1>2, <1>4, <2>2
<1>6. CASE m.kind = "commit"
  <2>1. Commit(m.gtid, m.env)
    BY <1>6 DEF LateArrives
  <2>2. committed \subseteq committed'
    BY <2>1 DEF Commit
  <2>3. Fresh => /\ \A t, f : <<t, f>> \in committed' => <<t, f>> \in committed \/ decision[t] = "commit"
                 /\ \A t, f : Safe(t, f) => Safe(t, f)'
    BY <1>3, <1>6, <2>1, CommitEffects DEF OwnedMsg
  <2>4. Effects'
    BY <1>1, <2>2, <2>3, EffectsKept
  <2> QED BY <1>2, <1>4, <2>4
<1>7. CASE m.kind = "rollback"
  <2>1. Rollback(m.gtid, m.env)
    BY <1>7 DEF LateArrives
  <2>2. committed' = committed
    BY <2>1 DEF Rollback
  <2>3. Fresh => \A t, f : decision[t] # "abort" /\ Safe(t, f) => Safe(t, f)'
    BY <1>3, <1>7, <2>1, RollbackEffects DEF OwnedMsg
  <2>4. Effects'
    BY <1>1, <2>2, <2>3, EffectsKept
  <2> QED BY <1>2, <1>4, <2>4
<1> QED BY <1>5, <1>6, <1>7 DEF LateArrives

\* The coordinator restarts; messages it awaited answers of may still arrive.
LEMMA CrashStep ==
    ASSUME IInv, NEW sent \in SUBSET Outstanding, NEW tears \in BOOLEAN, Crash(sent, tears)
    PROVE  Decisions' /\ Owned' /\ Effects'
<1> USE DEF IInv, rms
<1>1. Decisions' /\ Kept
  <2>1. ASSUME NEW t \in Txns
        PROVE  \/ phase'[t] = phase[t] /\ outcome'[t] = outcome[t]
               \/ phase[t] # "new" /\ phase'[t] = "done" /\ outcome'[t] = "crashed"
    BY DEF Crash, Running
  <2> QED BY <2>1, DecisionsKept DEF Crash
<1>2. ASSUME NEW t \in Txns PROVE \A m \in Awaited(t) : m \in Messages /\ OwnedMsg(m)
  <2>1. gtid[t] \in Nat /\ (phase[t] = "preparing" => gtid[t] # 0)
    BY DEF TypeOK, Decisions, DecisionOf
  <2>2. phase[t] = "preparing" => \A e \in Remote : PrepareMsg(t, e) \in Messages /\ OwnedMsg(PrepareMsg(t, e))
    BY <2>1 DEF PrepareMsg, Messages, OwnedMsg
  <2>3. /\ phase[t] = "rollback" => Decided(gtid[t], "abort")
        /\ phase[t] = "committing" => Decided(gtid[t], "commit")
    BY DEF Decided, Decisions, DecisionOf
  <2> QED BY <2>1, <2>2, <2>3, ResolveOwned DEF Awaited
<1>3. \A m \in Outstanding : m \in Messages /\ OwnedMsg(m)
  BY <1>2, CurrentOwned, ResolveOwned DEF Outstanding, Records
<1>4. \A m \in late' : OwnedMsg(m)'
  BY <1>1, <1>3, OwnedKept DEF Crash
<1>5. Owned'
  BY <1>1, <1>4, OwnedKept DEF Owned, Crash
<1>6. Effects'
  <2>1. \A t \in Txns : phase'[t] # "committing" /\ (outcome'[t] = outcome[t] \/ outcome'[t] # "committed")
    BY DEF Crash, Running, TypeOK
  <2>2. \A t \in Txns : phase'[t] = phase[t] \/ phase'[t] = "done"
    BY DEF Crash, TypeOK
  <2> QED BY <2>1, <2>2, EffectsKept DEF Crash, Safe
<1> QED BY <1>1, <1>5, <1>6

-----------------------------------------------------------------------------
(* The theorems                                                            *)

\* The invariant holds in every reachable state.
THEOREM Invariance == Spec => []IInv
<1>1. Init => Decisions /\ Owned /\ Effects
  <2> SUFFICES ASSUME Init PROVE Decisions /\ Owned /\ Effects
    OBVIOUS
  <2>1. Decisions
    BY DEF Init, Decisions, DecisionOf
  <2>2. Owned
    BY EmptySeq DEF Init, Owned
  <2>3. Effects
    BY DEF Init, Effects, Effective, Voted
  <2> QED BY <2>1, <2>2, <2>3
<1>2. IInv /\ [Next]_vars => (Decisions /\ Owned /\ Effects)'
  <2> SUFFICES ASSUME IInv, [Next]_vars PROVE Decisions' /\ Owned' /\ Effects'
    OBVIOUS
  <2>1. ASSUME NEW t \in Txns, Execute(t) PROVE Decisions' /\ Owned' /\ Effects'
    BY <2>1, PrepareOkStep, PrepareFailsStep, DecideStep, RollbackNextStep, CommitOkStep,
       CommitRetryStep, CommitGivesUpStep, RecordFailsStep, ReturnStep DEF Execute
  <2>2. CASE UNCHANGED vars
    <3>1. UNCHANGED <<exec, scan, disk, rms, late>>
      BY <2>2 DEF vars, coord
    <3>2. Decisions' /\ Kept
      BY <3>1, DecisionsKept DEF IInv, exec
    <3>3. Owned'
      BY <3>1, <3>2, OwnedKept DEF IInv, Owned, exec, disk, rms
    <3>4. Effects'
      BY <3>1, EffectsKept DEF Safe, exec, rms
    <3> QED BY <3>2, <3>3, <3>4
  <2> QED BY <2>1, <2>2, BeginStep, RedriveOkStep, RedriveUnansweredStep, RescanStep,
             LateArrivesStep, CrashStep DEF Next
<1> QED BY <1>1, <1>2, TypeCorrect, PTL DEF Spec, IInv

\* A branch takes effect only if every branch voted for the transaction, as
\* long as no id was given out twice (execute, prepare_all, next_gtid).
THEOREM Unanimous == Spec => []CommitIsUnanimous
<1>1. IInv => CommitIsUnanimous
  BY DEF IInv, CommitIsUnanimous, Effects, Effective, Decisions, DecisionOf
<1> QED BY <1>1, Invariance, PTL

\* Nor is any of its branches undone once one took effect, through lost
\* commits, restarts and scans (commit_branch, recover_in_doubt, XaPeer).
THEOREM NeverUndone == Spec => []ForwardOnly
<1>1. IInv => ForwardOnly
  BY DEF IInv, ForwardOnly, Effects, Effective
<1> QED BY <1>1, Invariance, PTL

\* What execute returns is true, then and ever after.
THEOREM OutcomeHolds == Spec => []OutcomeIsTrue
<1>1. IInv => OutcomeIsTrue
  BY DEF IInv, OutcomeIsTrue, Effects, Effective, Decisions, DecisionOf
<1> QED BY <1>1, Invariance, PTL

-----------------------------------------------------------------------------
(* What is in doubt is recorded                                            *)

\* The branches execute has passed, or given back as in doubt.
Passed(t, e) ==
    /\ e \in Voted(t)
    /\ (phase[t] = "committing" /\ e \notin todo[t]) \/ outcome[t] = "in_doubt"

\* Each is committed, or in the log, or was swallowed by a torn line.
Traced(t, e) == <<t, e>> \in committed \/ Recorded(t, e) \/ Swallowed(t, e)
Doubts ==
    Fresh => \A t \in Txns, e \in Envs : Passed(t, e) =>
        decision[t] = "commit" /\ Traced(t, e)

\* Ids are given out from 1 on, in every run of the process.
FirstId ==
    (next_gtid # 1 \/ \E t \in Txns : gtid[t] # 0) => \E u \in Txns : gtid[u] = 1

\* Nothing is written any more: with fresh ids the process that tore its last
\* line in a crash gives out none, for it would give out the first one again.
Silent ==
    /\ next_gtid = 1 /\ \E u \in Txns : gtid[u] = 1
    /\ \A t \in Txns : phase[t] \in {"new", "done"}

\* A torn line swallows the next record.  Each one is paid for by a failed
\* append, a torn line that can still swallow one included.
TornPaid ==
    /\ IsFiniteSet(swallowed)
    /\ Fresh => /\ Cardinality(swallowed) <= faults
                /\ torn => Cardinality(swallowed) < faults \/ Silent

DoubtInv == IInv /\ Doubts /\ FirstId /\ TornPaid

\* Two sequences in a row hold what either holds.
LEMMA ConcatHolds ==
    ASSUME NEW S, NEW s \in Seq(S), NEW t \in Seq(S)
    PROVE  /\ s \o t \in Seq(S) /\ Range(s \o t) = Range(s) \cup Range(t)
<1>1. /\ s \o t \in Seq(S) /\ Len(s) \in Nat /\ Len(t) \in Nat
      /\ DOMAIN s = 1..Len(s) /\ DOMAIN t = 1..Len(t)
      /\ DOMAIN (s \o t) = 1..(Len(s) + Len(t))
      /\ \A i \in 1..Len(s) : (s \o t)[i] = s[i]
      /\ \A i \in (Len(s) + 1)..(Len(s) + Len(t)) : (s \o t)[i] = t[i - Len(s)]
  BY ConcatProperties, LenProperties
<1>2. Range(s \o t) \subseteq Range(s) \cup Range(t)
  <2> SUFFICES ASSUME NEW i \in 1..(Len(s) + Len(t))
               PROVE  (s \o t)[i] \in Range(s) \cup Range(t)
    BY <1>1 DEF Range
  <2>1. CASE i <= Len(s)
    BY <1>1, <2>1 DEF Range
  <2>2. CASE i > Len(s)
    <3>1. i - Len(s) \in 1..Len(t) /\ (s \o t)[i] = t[i - Len(s)]
      BY <1>1, <2>2
    <3> QED BY <1>1, <3>1 DEF Range
  <2> QED BY <1>1, <2>1, <2>2
<1>3. Range(s) \cup Range(t) \subseteq Range(s \o t)
  <2>1. ASSUME NEW i \in 1..Len(s) PROVE s[i] \in Range(s \o t)
    BY <1>1 DEF Range
  <2>2. ASSUME NEW i \in 1..Len(t) PROVE t[i] \in Range(s \o t)
    <3>1. /\ Len(s) + i \in (Len(s) + 1)..(Len(s) + Len(t))
          /\ (Len(s) + i) - Len(s) = i
      BY <1>1
    <3>2. (s \o t)[Len(s) + i] = t[i] /\ Len(s) + i \in DOMAIN (s \o t)
      BY <1>1, <3>1
    <3> QED BY <3>2 DEF Range
  <2> QED BY <1>1, <2>1, <2>2 DEF Range
<1> QED BY <1>1, <1>2, <1>3

\* A stretch of a sequence holds every element at its positions.
LEMMA SubSeqHolds ==
    ASSUME NEW S, NEW s, NEW m \in Int, NEW n \in Int, \A i \in m..n : s[i] \in S, NEW i \in m..n
    PROVE  s[i] \in Range(SubSeq(s, m, n))
<1> DEFINE q == SubSeq(s, m, n)
<1>1. q \in Seq(S) /\ Len(q) = (IF m <= n THEN n-m+1 ELSE 0) /\ \A j \in 1..(n-m+1) : q[j] = s[m+j-1]
  BY SubSeqProperties
<1> HIDE DEF q
<1>2. m <= n /\ i-m+1 \in 1..(n-m+1) /\ m + (i-m+1) - 1 = i
  OBVIOUS
<1>3. DOMAIN q = 1..(n-m+1)
  BY ONLY <1>1, <1>2, LenProperties
<1>4. q[i-m+1] = s[i]
  <2> DEFINE j == i-m+1
  <2>1. j \in 1..(n-m+1) /\ m+j-1 = i
    BY <1>2
  <2> HIDE DEF j
  <2>2. q[j] = s[i]
    BY ONLY <1>1, <2>1
  <2> QED BY <2>2 DEF j
<1>5. s[i] \in Range(q)
  BY <1>2, <1>3, <1>4 DEF Range
<1> QED BY <1>5 DEF q

\* Removing an element keeps every other one.
LEMMA RemoveFirstKeeps ==
    ASSUME NEW S, NEW s \in Seq(S), NEW r, NEW x \in Range(s), x # r
    PROVE  x \in Range(RemoveFirst(s, r))
<1> DEFINE I == {i \in 1..Len(s) : s[i] = r}
<1> DEFINE k == Min(I)
<1>0. Len(s) \in Nat /\ DOMAIN s = 1..Len(s)
  BY LenProperties
<1>1. CASE I = {}
  BY <1>1 DEF RemoveFirst
<1>2. CASE I # {}
  <2>1. k \in 1..Len(s) /\ s[k] = r
    <3>1. I \subseteq Nat
      BY <1>0
    <3>2. k \in I
      BY <1>2, <3>1, FirstPosition
    <3> QED BY <3>2
  <2>2. RemoveFirst(s, r) = RemoveAt(s, k)
    BY <1>2 DEF RemoveFirst, SelectInSeq
  <2> HIDE DEF k
  <2> DEFINE a == SubSeq(s, 1, k-1)
             b == SubSeq(s, k+1, Len(s))
  <2>3. (\A j \in 1..(k-1) : s[j] \in S) /\ \A j \in (k+1)..Len(s) : s[j] \in S
    BY <1>0, <2>1, ElementOfSeq
  <2>4. k-1 \in Int /\ k+1 \in Int /\ Len(s) \in Int
    BY <1>0, <2>1
  <2>5. a \in Seq(S) /\ b \in Seq(S)
    BY <2>3, <2>4, SubSeqProperties
  <2>6. PICK i \in 1..Len(s) : s[i] = x
    BY <1>0 DEF Range
  <2>7. x \in Range(a) \/ x \in Range(b)
    <3>1. i \in 1..(k-1) \/ i \in (k+1)..Len(s)
      BY <1>0, <2>1, <2>6
    <3>2. ASSUME i \in 1..(k-1) PROVE s[i] \in Range(a)
      BY ONLY 1 \in Int, <2>3, <2>4, <3>2, SubSeqHolds
    <3>3. ASSUME i \in (k+1)..Len(s) PROVE s[i] \in Range(b)
      BY ONLY <2>3, <2>4, <3>3, SubSeqHolds
    <3> QED BY <2>6, <3>1, <3>2, <3>3
  <2>8. RemoveFirst(s, r) = a \o b
    BY <2>2 DEF RemoveAt
  <2> HIDE DEF a, b
  <2>9. x \in Range(a \o b)
    BY <2>5, <2>7, ConcatHolds
  <2> QED BY <2>8, <2>9 DEF Range
<1> QED BY <1>1, <1>2

\* A record stays until its tombstone (record, resolve).
LEMMA RecordsKept ==
    ASSUME TypeOK, NEW g, NEW e, NEW x \in Range(log)
    PROVE  /\ Record(g, e) /\ [gtid |-> g, env |-> e] \in Records => x \in Range(log')
           /\ Retire(g, e) /\ x # [gtid |-> g, env |-> e] => x \in Range(log')
<1>1. log \in Seq(Records)
  BY DEF TypeOK
<1>2. ASSUME Record(g, e), [gtid |-> g, env |-> e] \in Records PROVE x \in Range(log')
  <2>1. CASE torn
    BY <1>2, <2>1 DEF Record
  <2>2. CASE ~torn
    <3> DEFINE r == [gtid |-> g, env |-> e]
    <3>1. log' = Append(log, r) /\ r \in Records
      BY <1>2, <2>2 DEF Record
    <3> HIDE DEF r
    <3>2. /\ DOMAIN log = 1..Len(log) /\ Len(log) \in Nat
          /\ DOMAIN log' = 1..(Len(log) + 1) /\ \A i \in 1..Len(log) : log'[i] = log[i]
      BY <1>1, <3>1, AppendProperties, LenProperties
    <3> QED BY <3>2 DEF Range
  <2> QED BY <2>1, <2>2 DEF TypeOK
<1>3. ASSUME Retire(g, e), x # [gtid |-> g, env |-> e] PROVE x \in Range(log')
  <2>1. CASE torn
    BY <1>3, <2>1 DEF Retire
  <2>2. CASE ~torn
    <3> DEFINE r == [gtid |-> g, env |-> e]
    <3>1. log' = RemoveFirst(log, r) /\ x # r
      BY <1>3, <2>2 DEF Retire
    <3> HIDE DEF r
    <3> QED BY <1>1, <3>1, RemoveFirstKeeps
  <2> QED BY <2>1, <2>2 DEF TypeOK
<1> QED BY <1>2, <1>3

\* A record swallows nothing but itself, and ends the torn line.
LEMMA RecordSwallows ==
    ASSUME IsFiniteSet(swallowed), NEW g, NEW e, Record(g, e)
    PROVE  /\ IsFiniteSet(swallowed') /\ swallowed \subseteq swallowed' /\ torn' = FALSE
           /\ Cardinality(swallowed) \in Nat /\ Cardinality(swallowed') \in Nat
           /\ Cardinality(swallowed') <= Cardinality(swallowed) + 1
           /\ ~torn => swallowed' = swallowed
<1> DEFINE r == [gtid |-> g, env |-> e]
<1>1. swallowed' = swallowed \/ swallowed' = swallowed \cup {r}
  BY DEF Record
<1>2. torn' = FALSE /\ (~torn => swallowed' = swallowed)
  BY DEF Record
<1> HIDE DEF r
<1>3. Cardinality(swallowed) \in Nat
  BY FS_CardinalityType
<1>4. /\ IsFiniteSet(swallowed \cup {r})
      /\ \/ Cardinality(swallowed \cup {r}) = Cardinality(swallowed)
         \/ Cardinality(swallowed \cup {r}) = Cardinality(swallowed) + 1
  BY FS_AddElement
<1>5. CASE swallowed' = swallowed
  BY <1>2, <1>3, <1>5
<1>6. CASE swallowed' = swallowed \cup {r}
  <2>1. /\ IsFiniteSet(swallowed') /\ swallowed \subseteq swallowed'
        /\ \/ Cardinality(swallowed') = Cardinality(swallowed)
           \/ Cardinality(swallowed') = Cardinality(swallowed) + 1
    BY <1>4, <1>6
  <2> QED BY <1>2, <1>3, <2>1
<1> QED BY <1>1, <1>5, <1>6

\* Nothing new is passed, and no record is lost.
LEMMA DoubtsKept ==
    ASSUME Doubts, UNCHANGED <<gtid, active, vote, decision>>,
           \A t \in Txns, e \in Envs : Passed(t, e)' => Passed(t, e),
           committed \subseteq committed', Range(log) \subseteq Range(log'), swallowed \subseteq swallowed'
    PROVE  Doubts'
<1> SUFFICES ASSUME Fresh', NEW t \in Txns, NEW e \in Envs, Passed(t, e)'
             PROVE  decision'[t] = "commit" /\ Traced(t, e)'
  BY DEF Doubts
<1>1. Fresh
  BY DEF Fresh
<1>2. decision[t] = "commit" /\ Traced(t, e)
  BY <1>1 DEF Doubts
<1> QED BY <1>2 DEF Traced, Recorded, Swallowed

\* A transaction takes an id: the second one from 1 on ends the freshness.
LEMMA BeginDoubt ==
    ASSUME DoubtInv, NEW t \in Txns, NEW S \in (SUBSET Envs) \ {{}}, NEW v \in [Local -> Votes],
           Begin(t, S, v)
    PROVE  Doubts' /\ FirstId' /\ TornPaid'
<1> USE DEF DoubtInv, IInv, TypeOK, disk, bounds
<1>1. /\ phase[t] = "new" /\ gtid[t] = 0 /\ outcome[t] = "none"
      /\ phase'[t] = "preparing" /\ gtid'[t] = next_gtid
      /\ \A u \in Txns \ {t} : phase'[u] = phase[u] /\ gtid'[u] = gtid[u] /\ Voted(u)' = Voted(u)
      /\ UNCHANGED <<todo, decision, outcome, log, torn, swallowed, faults, committed>>
      /\ next_gtid' = next_gtid + 1
  BY DEF Begin, Decisions, DecisionOf, Voted
<1>2. Fresh' => Fresh
  <2> SUFFICES ASSUME Fresh', NEW a \in Txns, NEW b \in Txns, a # b, gtid[a] = gtid[b]
               PROVE  gtid[a] = 0
    BY DEF Fresh
  <2>1. CASE a = t \/ b = t
    BY ONLY <1>1, <2>1, gtid[a] = gtid[b]
  <2>2. CASE a # t /\ b # t
    <3>1. gtid'[a] = gtid[a] /\ gtid'[b] = gtid[b]
      BY ONLY <1>1, <2>2, a \in Txns, b \in Txns
    <3> HIDE DEF DoubtInv, IInv, TypeOK
    <3> QED BY <3>1 DEF Fresh
  <2> QED BY <2>1, <2>2
<1>3. Doubts'
  <2> SUFFICES ASSUME Fresh', NEW u \in Txns, NEW e \in Envs, Passed(u, e)'
               PROVE  decision'[u] = "commit" /\ Traced(u, e)'
    BY DEF Doubts
  <2>1. u # t
    BY <1>1 DEF Passed
  <2>2. Passed(u, e)
    BY <1>1, <2>1 DEF Passed
  <2> QED BY <1>1, <1>2, <2>1, <2>2 DEF Doubts, Traced, Recorded, Swallowed
<1>4. \E u \in Txns : gtid'[u] = 1
  <2>1. CASE next_gtid = 1
    BY <1>1, <2>1
  <2>2. CASE next_gtid # 1
    <3>1. PICK u \in Txns : gtid[u] = 1
      BY <2>2 DEF FirstId
    <3>2. u # t
      BY <1>1, <3>1
    <3> QED BY <1>1, <3>1, <3>2
  <2> QED BY <2>1, <2>2
<1>5. Fresh /\ Fresh' => ~Silent
  <2> SUFFICES ASSUME Fresh', Silent PROVE FALSE
    OBVIOUS
  <2>1. PICK u \in Txns : gtid[u] = 1
    BY DEF Silent
  <2>2. u # t /\ gtid'[u] = 1 /\ gtid'[t] = 1
    BY <1>1, <2>1 DEF Silent
  <2> HIDE DEF DoubtInv, IInv, TypeOK
  <2> QED BY <2>2 DEF Fresh
<1>6. TornPaid'
  <2> HIDE DEF TypeOK, IInv
  <2> QED BY <1>1, <1>2, <1>5 DEF TornPaid
<1> QED BY <1>3, <1>4, <1>6 DEF FirstId

\* What execute does with its branches.
LEMMA ExecuteDoubt ==
    ASSUME DoubtInv, IInv', NEW t \in Txns, Execute(t)
    PROVE  Doubts' /\ FirstId' /\ TornPaid'
<1> USE DEF DoubtInv, IInv, TypeOK
<1>1. gtid' = gtid /\ next_gtid' = next_gtid
  BY DEF Execute, PrepareOk, PrepareFails, Decide, RollbackNext, CommitOk, CommitRetry,
         CommitGivesUp, RecordFails, Return, coord, exec
<1>2. FirstId'
  BY <1>1 DEF FirstId
<1>3. Fresh' <=> Fresh
  BY <1>1 DEF Fresh
<1>4. phase[t] \notin {"new", "done"}
  BY DEF Execute, PrepareOk, PrepareFails, Decide, RollbackNext, CommitOk, CommitRetry,
         CommitGivesUp, RecordFails, Return
<1>5. IsFiniteSet(swallowed) /\ Cardinality(swallowed) \in Nat /\ faults \in Nat
  BY FS_CardinalityType DEF TornPaid
<1>6. Fresh => Cardinality(swallowed) <= faults /\ (torn => Cardinality(swallowed) < faults)
  BY <1>4 DEF TornPaid, Silent
<1>7. TornPaid'
  <2> HIDE DEF TypeOK, IInv, DoubtInv
  <2>1. ASSUME UNCHANGED <<log, torn, swallowed, faults>> PROVE TornPaid'
    BY <1>3, <1>5, <1>6, <2>1 DEF TornPaid
  <2>2. ASSUME NEW e \in Envs, CommitGivesUp(t, e) PROVE TornPaid'
    <3>1. Record(gtid[t], e) /\ faults' = faults
      BY <2>2 DEF CommitGivesUp, bounds
    <3>2. /\ IsFiniteSet(swallowed') /\ torn' = FALSE /\ Cardinality(swallowed') \in Nat
          /\ Cardinality(swallowed') <= Cardinality(swallowed) + 1 /\ (~torn => swallowed' = swallowed)
      BY <1>5, <3>1, RecordSwallows
    <3> QED BY <1>3, <1>5, <1>6, <3>1, <3>2 DEF TornPaid
  <2>3. ASSUME NEW e \in Envs, RecordFails(t, e) PROVE TornPaid'
    <3>1. faults' = faults + 1
      BY <2>3 DEF RecordFails, AppendFails
    <3>2. CASE Record(gtid[t], e)
      <4>1. /\ IsFiniteSet(swallowed') /\ torn' = FALSE /\ Cardinality(swallowed') \in Nat
            /\ Cardinality(swallowed') <= Cardinality(swallowed) + 1
        BY <1>5, <3>2, RecordSwallows
      <4> QED BY <1>3, <1>5, <1>6, <3>1, <4>1 DEF TornPaid
    <3>3. CASE swallowed' = swallowed
      BY <1>3, <1>5, <1>6, <3>1, <3>3 DEF TornPaid
    <3> QED BY <2>3, <3>2, <3>3 DEF RecordFails, AppendFails, disk
  <2>4. \/ UNCHANGED <<log, torn, swallowed, faults>>
        \/ \E e \in Envs : CommitGivesUp(t, e) \/ RecordFails(t, e)
    BY DEF Execute, PrepareOk, PrepareFails, Decide, RollbackNext, CommitOk, CommitRetry,
           Return, disk, bounds
  <2> QED BY <2>1, <2>2, <2>3, <2>4
<1>8. ASSUME \/ \E e \in Remote, v \in Votes : PrepareOk(t, e, v)
             \/ \E e \in Remote : PrepareFails(t, e)
      PROVE  Doubts'
  <2>1. /\ UNCHANGED <<phase, gtid, active, todo, decision, outcome, log, swallowed, committed>>
        /\ phase[t] = "preparing" /\ outcome[t] = "none"
        /\ \A u \in Txns \ {t} : vote'[u] = vote[u]
    BY <1>8 DEF PrepareOk, PrepareFails, disk, rms, Decisions, DecisionOf
  <2>2. \A u \in Txns, f \in Envs : Passed(u, f)' => u # t /\ Passed(u, f)
    BY <2>1 DEF Passed, Voted
  <2> QED BY <1>3, <2>1, <2>2 DEF Doubts, Traced, Recorded, Swallowed
<1>9. ASSUME NEW force \in BOOLEAN, Decide(t, force) PROVE Doubts'
  <2>1. /\ UNCHANGED <<gtid, active, vote, outcome, log, swallowed, committed>>
        /\ phase[t] = "preparing" /\ outcome[t] = "none"
        /\ \A u \in Txns \ {t} : phase'[u] = phase[u] /\ todo'[u] = todo[u] /\ decision'[u] = decision[u]
        /\ phase'[t] = "committing" => todo'[t] = Voted(t)
    BY <1>9 DEF Decide, disk, rms, Decisions, DecisionOf, Voted
  <2>2. \A u \in Txns, f \in Envs : Passed(u, f)' => u # t /\ Passed(u, f)
    BY <2>1 DEF Passed, Voted
  <2> QED BY <1>3, <2>1, <2>2 DEF Doubts, Traced, Recorded, Swallowed
<1>10. ASSUME NEW e \in Envs, RollbackNext(t, e) PROVE Doubts'
  <2>1. /\ UNCHANGED <<phase, gtid, active, vote, decision, outcome, log, swallowed, committed>>
        /\ phase[t] = "rollback" /\ \A u \in Txns \ {t} : todo'[u] = todo[u]
    BY <1>10 DEF RollbackNext, Advance, disk, rms, Rollback
  <2>2. \A u \in Txns, f \in Envs : Passed(u, f)' => Passed(u, f)
    BY <2>1 DEF Passed, Voted
  <2> QED BY <2>1, <2>2, DoubtsKept
<1>11. ASSUME NEW e \in Envs, CommitOk(t, e) PROVE Doubts'
  <2>1. /\ UNCHANGED <<phase, gtid, active, vote, decision, outcome, log, swallowed>>
        /\ phase[t] = "committing" /\ decision[t] = "commit" /\ Commit(gtid[t], e)
        /\ \A u \in Txns, f \in Envs : f \notin todo'[u] => f \notin todo[u] \/ (u = t /\ f = e)
    BY <1>11 DEF CommitOk, Advance, disk, Decisions, DecisionOf
  <2>2. Safe(t, e) => <<t, e>> \in committed'
    BY <2>1 DEF Commit, Held, Safe, Owned
  <2>3. \A u \in Txns, f \in Envs : Passed(u, f)' =>
           Passed(u, f) \/ (u = t /\ f = e /\ e \in Voted(t))
    BY <2>1 DEF Passed, Voted
  <2>4. Fresh /\ e \in Voted(t) => Safe(t, e)
    BY <2>1 DEF Effects, Effective
  <2>5. committed \subseteq committed'
    BY <2>1 DEF Commit
  <2> QED BY <1>3, <2>1, <2>2, <2>3, <2>4, <2>5 DEF Doubts, Traced, Recorded, Swallowed
<1>12. ASSUME NEW e \in Envs, CommitRetry(t, e) PROVE Doubts'
  <2>1. UNCHANGED <<phase, gtid, active, vote, todo, decision, outcome, log, swallowed, committed>>
    BY <1>12 DEF CommitRetry, exec, disk, rms
  <2>2. \A u \in Txns, f \in Envs : Passed(u, f)' => Passed(u, f)
    BY <2>1 DEF Passed, Voted
  <2> QED BY <2>1, <2>2, DoubtsKept
<1>13. ASSUME NEW e \in Envs, CommitGivesUp(t, e) PROVE Doubts'
  <2>1. /\ UNCHANGED <<phase, gtid, active, vote, decision, outcome, committed>>
        /\ phase[t] = "committing" /\ decision[t] = "commit" /\ Record(gtid[t], e)
        /\ \A u \in Txns, f \in Envs : f \notin todo'[u] => f \notin todo[u] \/ (u = t /\ f = e)
    BY <1>13 DEF CommitGivesUp, Advance, rms, Decisions, DecisionOf
  <2> DEFINE r == [gtid |-> gtid[t], env |-> e]
  <2>2. r \in Records
    BY DEF Records
  <2>3. (\A x \in Range(log) : x \in Range(log')) /\ swallowed \subseteq swallowed'
    BY <1>5, <2>1, <2>2, RecordsKept, RecordSwallows
  <2>4. r \in Range(log') \/ r \in swallowed'
    <3>1. CASE torn
      BY <2>1, <3>1 DEF Record
    <3>2. CASE ~torn
      <4>1. log' = Append(log, r)
        BY <2>1, <3>2 DEF Record
      <4> HIDE DEF r
      <4>2. Len(log) \in Nat /\ Len(log) + 1 \in DOMAIN log' /\ log'[Len(log) + 1] = r
        BY <2>2, <4>1, AppendProperties, LenProperties
      <4> QED BY <4>2 DEF Range
    <3> QED BY <3>1, <3>2
  <2>5. \A u \in Txns, f \in Envs : Passed(u, f)' => Passed(u, f) \/ (u = t /\ f = e)
    BY <2>1 DEF Passed, Voted
  <2> QED BY <1>3, <2>1, <2>3, <2>4, <2>5 DEF Doubts, Traced, Recorded, Swallowed
<1>14. ASSUME NEW e \in Envs, RecordFails(t, e) PROVE Doubts'
  <2>1. /\ UNCHANGED <<gtid, active, vote, decision, committed>>
        /\ phase'[t] = "done" /\ outcome'[t] = "log_failed"
        /\ \A u \in Txns \ {t} : phase'[u] = phase[u] /\ todo'[u] = todo[u] /\ outcome'[u] = outcome[u]
    BY <1>14 DEF RecordFails, Returns, rms
  <2>2. \A u \in Txns, f \in Envs : Passed(u, f)' => Passed(u, f)
    BY <2>1 DEF Passed, Voted
  <2>3. (\A x \in Range(log) : x \in Range(log')) /\ swallowed \subseteq swallowed'
    <3>1. CASE Record(gtid[t], e)
      <4>1. [gtid |-> gtid[t], env |-> e] \in Records
        BY DEF Records
      <4> QED BY <1>5, <3>1, <4>1, RecordsKept, RecordSwallows
    <3>2. CASE UNCHANGED <<log, swallowed>>
      BY <3>2
    <3> QED BY <1>14, <3>1, <3>2 DEF RecordFails, AppendFails, disk
  <2> HIDE DEF TypeOK, IInv
  <2> QED BY <2>1, <2>2, <2>3, DoubtsKept
<1>15. CASE Return(t)
  <2>1. /\ UNCHANGED <<gtid, active, vote, decision, log, swallowed, committed>>
        /\ phase'[t] = "done" /\ todo[t] = {}
        /\ outcome'[t] = "in_doubt" => phase[t] = "committing"
        /\ \A u \in Txns \ {t} : phase'[u] = phase[u] /\ todo'[u] = todo[u] /\ outcome'[u] = outcome[u]
    BY <1>15 DEF Return, Returns, disk, rms
  <2>2. \A u \in Txns, f \in Envs : Passed(u, f)' => Passed(u, f)
    BY <2>1 DEF Passed, Voted
  <2>3. committed \subseteq committed' /\ Range(log) \subseteq Range(log') /\ swallowed \subseteq swallowed'
    BY <2>1
  <2> HIDE DEF TypeOK, IInv
  <2> QED BY <1>2, <1>7, <2>1, <2>2, <2>3, DoubtsKept
<1> HIDE DEF DoubtInv, IInv, TypeOK
<1>16. Doubts'
  BY <1>8, <1>9, <1>10, <1>11, <1>12, <1>13, <1>14, <1>15 DEF Execute
<1> QED BY <1>2, <1>7, <1>16

\* The scan retires a record only with its branch committed (recover_in_doubt).
LEMMA RedriveOkDoubt ==
    ASSUME DoubtInv, RedriveOk
    PROVE  Doubts' /\ FirstId' /\ TornPaid'
<1> USE DEF DoubtInv, IInv, exec, disk
<1>1. /\ UNCHANGED <<phase, gtid, active, vote, todo, decision, outcome, next_gtid>>
      /\ Commit(Current.gtid, Current.env)
      /\ swallowed' = swallowed
      /\ Retire(Current.gtid, Current.env) \/ log' = log
      /\ (faults' = faults /\ ~torn') \/ faults' = faults + 1
  BY DEF RedriveOk, AppendFails, Retire
<1>2. Cardinality(swallowed) \in Nat /\ faults \in Nat
  BY FS_CardinalityType DEF TornPaid, TypeOK
<1>3. FirstId' /\ TornPaid'
  BY <1>1, <1>2 DEF FirstId, TornPaid, Fresh
<1>4. Current \in Records
  BY CurrentOwned DEF RedriveOk
<1>5. ASSUME Fresh', NEW t \in Txns, NEW e \in Envs, Passed(t, e)'
      PROVE  decision'[t] = "commit" /\ Traced(t, e)'
  <2>1. Fresh /\ Passed(t, e)
    BY <1>1, <1>5 DEF Fresh, Passed, Voted
  <2>2. decision[t] = "commit" /\ Traced(t, e) /\ Safe(t, e)
    BY <2>1 DEF Doubts, Effects, Effective, Passed
  <2> DEFINE r == [gtid |-> gtid[t], env |-> e]
  <2>3. CASE r = [gtid |-> Current.gtid, env |-> Current.env]
    <3>1. gtid[t] = Current.gtid /\ e = Current.env
      BY <2>3
    <3>2. <<t, e>> \in committed'
      BY <1>1, <2>2, <3>1 DEF Commit, Held, Safe, Owned
    <3> QED BY <1>1, <2>2, <3>2 DEF Traced
  <2>4. CASE r # [gtid |-> Current.gtid, env |-> Current.env]
    <3>1. r \in Range(log) => r \in Range(log')
      BY <1>1, <2>4, RecordsKept
    <3>2. committed \subseteq committed'
      BY <1>1 DEF Commit
    <3> QED BY <1>1, <2>2, <3>1, <3>2 DEF Traced, Recorded, Swallowed
  <2> QED BY <2>3, <2>4
<1> QED BY <1>3, <1>5 DEF Doubts

\* Late messages, and the scan's other steps, remove no record.
LEMMA OtherDoubt ==
    ASSUME DoubtInv, UNCHANGED <<exec, next_gtid, disk, faults>>, committed \subseteq committed'
    PROVE  Doubts' /\ FirstId' /\ TornPaid'
<1> USE DEF DoubtInv, exec, disk
<1>1. \A u \in Txns, f \in Envs : Passed(u, f)' => Passed(u, f)
  BY DEF Passed, Voted
<1>2. Doubts'
  BY <1>1, DoubtsKept
<1> QED BY <1>2 DEF FirstId, TornPaid, Silent, Fresh

\* A crash may tear the line being written, once an id was given out.
LEMMA CrashDoubt ==
    ASSUME DoubtInv, NEW sent \in SUBSET Outstanding, NEW tears \in BOOLEAN, Crash(sent, tears)
    PROVE  Doubts' /\ FirstId' /\ TornPaid'
<1> USE DEF DoubtInv, IInv, rms
<1>1. /\ UNCHANGED <<gtid, active, vote, decision, log, swallowed, faults, committed>>
      /\ next_gtid' = 1 /\ torn' = (torn \/ tears)
      /\ \A t \in Txns : phase'[t] \in {"new", "done"}
      /\ \A t \in Txns : outcome'[t] = "in_doubt" => outcome[t] = "in_doubt"
  BY DEF Crash, Running, TypeOK
<1>2. \A u \in Txns, f \in Envs : Passed(u, f)' => Passed(u, f)
  BY <1>1 DEF Passed, Voted
<1>3. Doubts'
  BY <1>1, <1>2, DoubtsKept
<1>4. FirstId'
  BY <1>1 DEF FirstId
<1>5. tears => \E u \in Txns : gtid[u] = 1
  <2> SUFFICES ASSUME tears PROVE \E t \in Txns : gtid[t] # 0
    BY DEF FirstId
  <2>1. CASE scan # <<>>
    <3>1. PICK t \in Txns : gtid[t] = Current.gtid /\ decision[t] = "commit"
      BY <2>1, CurrentOwned DEF Decided
    <3> QED BY <3>1 DEF Decisions, DecisionOf
  <2>2. CASE \E t \in Txns : phase[t] = "committing"
    BY <2>2 DEF Decisions, DecisionOf
  <2> QED BY <2>1, <2>2 DEF Crash
<1>6. torn => (Fresh => Cardinality(swallowed) < faults \/ Silent')
  BY <1>1 DEF TornPaid, Silent
<1>7. tears => Silent'
  BY <1>1, <1>5 DEF Silent
<1>8. TornPaid'
  BY <1>1, <1>6, <1>7 DEF TornPaid, Fresh
<1> QED BY <1>3, <1>4, <1>8

\* A transaction reported in doubt can be finished: each of its branches that
\* voted Ok is committed, or is prepared and recorded where the next scan finds
\* it, through crashes, torn lines and failed writes of the log (append, record,
\* resolve, recover_in_doubt), as long as no id was given out twice; but for at
\* most one record for each failed append, swallowed by the line it tore.
THEOREM DoubtsAreRecorded == Spec => []InDoubtIsRecorded
<1>1. Init => Doubts /\ FirstId /\ TornPaid
  BY FS_EmptySet DEF Init, Doubts, Passed, FirstId, TornPaid
<1>2. DoubtInv /\ IInv' /\ [Next]_vars => DoubtInv'
  <2> SUFFICES ASSUME DoubtInv, IInv', [Next]_vars PROVE Doubts' /\ FirstId' /\ TornPaid'
    BY DEF DoubtInv
  <2>1. CASE RedriveRetry \/ RedriveFails \/ Rescan \/ Booted
    <3>1. UNCHANGED <<exec, next_gtid, disk, faults>> /\ committed' = committed
      BY <2>1 DEF RedriveRetry, RedriveFails, Rescan, Booted, coord, rms, bounds
    <3> QED BY <3>1, OtherDoubt
  <2>2. ASSUME NEW m \in late, NEW v \in Votes, LateArrives(m, v)
        PROVE  Doubts' /\ FirstId' /\ TornPaid'
    <3>1. UNCHANGED <<exec, next_gtid, disk, faults>> /\ committed \subseteq committed'
      BY <2>2 DEF LateArrives, coord, Commit, Rollback, bounds
    <3> QED BY <3>1, OtherDoubt
  <2>3. CASE UNCHANGED vars
    <3>1. UNCHANGED <<exec, next_gtid, disk, faults>> /\ committed' = committed
      BY <2>3 DEF vars, coord, rms, bounds
    <3> QED BY <3>1, OtherDoubt
  <2> QED BY <2>1, <2>2, <2>3, BeginDoubt, ExecuteDoubt, RedriveOkDoubt, CrashDoubt DEF Next
<1>3. DoubtInv => InDoubtIsRecorded
  <2> SUFFICES ASSUME DoubtInv, Fresh, NEW t \in Txns, outcome[t] = "in_doubt",
                      NEW e \in Voted(t)
               PROVE  \/ <<t, e>> \in committed
                      \/ Safe(t, e) /\ (Recorded(t, e) \/ Swallowed(t, e))
    BY DEF InDoubtIsRecorded, DoubtInv, TornPaid
  <2>1. e \in Envs /\ Passed(t, e)
    BY DEF Passed, Voted, DoubtInv, IInv, TypeOK
  <2>2. decision[t] = "commit" /\ Traced(t, e)
    BY <2>1 DEF DoubtInv, Doubts
  <2>3. Safe(t, e)
    BY <2>2 DEF DoubtInv, IInv, Effects, Effective
  <2> QED BY <2>2, <2>3 DEF Traced
<1> QED BY <1>1, <1>2, <1>3, Invariance, PTL DEF Spec, DoubtInv
=============================================================================
