----------------------------- MODULE RampProofs -----------------------------
(***************************************************************************)
(* Proofs about Ramp, for any keys, transactions, read sets and restarts:  *)
(* type correctness, read atomicity, the absence of dangling reads, and    *)
(* the visibility of acknowledged writes.                                  *)
(***************************************************************************)
EXTENDS Ramp, TLAPS, WellFoundedInduction

-----------------------------------------------------------------------------
(* Types                                                                   *)

\* What a transaction stores for one of its keys is an item.
LEMMA ItemType ==
    ASSUME NEW t \in Txns, NEW k \in Keys, NEW n \in Nat
    PROVE  Item(t, k, n) \in Items
BY WriteSetAssumption DEF Item, Items

\* What round 2 asks for are places in the store.
LEMMA SelectType ==
    ASSUME NEW S \in SUBSET Items
    PROVE  Select(S) \in SUBSET Places
BY DEF Select, Required, Places, Items

\* Every step keeps the variables in their types.
LEMMA TypeStep == TypeOK /\ [Next]_vars => TypeOK'
<1> SUFFICES ASSUME TypeOK, [Next]_vars PROVE TypeOK'
  OBVIOUS
<1> USE WriteSetAssumption, ReadSetAssumption, RestartsAssumption
<1>1. CASE UNCHANGED vars
  BY <1>1 DEF TypeOK, vars, store, writers, readers
<1>2. ASSUME NEW t \in Txns, Mint(t) PROVE TypeOK'
  BY <1>2 DEF TypeOK, Mint, store, readers
<1>3. ASSUME NEW t \in Txns, NEW k \in Keys, Prepare(t, k) PROVE TypeOK'
  <2>1. Item(t, k, ts[t]) \in Items
    BY ItemType DEF TypeOK
  <2>2. versions' \subseteq Items
    BY <1>3, <2>1 DEF TypeOK, Prepare
  <2> QED
    BY <1>3, <2>2 DEF TypeOK, Prepare, readers
<1>4. ASSUME NEW t \in Txns, NEW k \in Keys, CommitGet(t, k) PROVE TypeOK'
  <2>1. pc' \in [Txns -> {"idle", "prepare", "commit", "done", "failed"}]
    BY <1>4 DEF TypeOK, CommitGet, Committed
  <2>2. todo' \in [Txns -> SUBSET Keys]
    BY <1>4 DEF TypeOK, CommitGet, Committed
  <2>3. held' \in [Txns -> Places \cup {None}]
    <3>1. [key |-> k, ts |-> pointer[k]] \in Places
      BY DEF TypeOK, Places
    <3> QED BY <1>4, <3>1 DEF TypeOK, CommitGet
  <2> QED
    BY <1>4, <2>1, <2>2, <2>3 DEF TypeOK, CommitGet, store, readers
<1>5. ASSUME NEW t \in Txns, NEW k \in Keys, CommitPut(t, k) PROVE TypeOK'
  BY <1>5 DEF TypeOK, CommitPut, Committed, readers
<1>6. ASSUME NEW t \in Txns, WriteFails(t) PROVE TypeOK'
  BY <1>6 DEF TypeOK, WriteFails, store, readers
<1>7. ASSUME NEW r \in Readers, NEW k \in Keys, LatestVisible(r, k) PROVE TypeOK'
  BY <1>7, SMTT(30) DEF TypeOK, LatestVisible, Places, store, writers
<1>8. ASSUME NEW r \in Readers, GetVersion(r) PROVE TypeOK'
  BY <1>8 DEF TypeOK, GetVersion, ItemsAt, store, writers
<1>9. ASSUME NEW r \in Readers, DecideRound2(r) PROVE TypeOK'
  <2>1. Select(round1[r]) \in SUBSET Places
    BY SelectType DEF TypeOK
  <2> QED
    BY <1>9, <2>1 DEF TypeOK, DecideRound2, store, writers
<1>10. ASSUME NEW r \in Readers, NEW p \in missing[r], Fetch(r, p) PROVE TypeOK'
  BY <1>10 DEF TypeOK, Fetch, ItemsAt, store, writers
<1>11. ASSUME NEW r \in Readers, ReadFails(r) PROVE TypeOK'
  BY <1>11 DEF TypeOK, ReadFails, store, writers
<1>12. CASE Restart
  BY <1>12 DEF TypeOK, Restart, Cut, store
<1> QED
  BY <1>1, <1>2, <1>3, <1>4, <1>5, <1>6, <1>7, <1>8, <1>9, <1>10, <1>11, <1>12 DEF Next

\* The variables keep their types, whatever fails and however often the process
\* is restarted.
THEOREM TypeCorrect == Spec => []TypeOK
<1>1. Init => TypeOK
  BY WriteSetAssumption, ReadSetAssumption, RestartsAssumption DEF Init, TypeOK
<1> QED
  BY <1>1, TypeStep, PTL DEF Spec

-----------------------------------------------------------------------------
(* The inductive invariant                                                 *)

\* All of a transaction's versions are in the store.
Prepared(t) == \A k \in WriteSet[t] : Item(t, k, ts[t]) \in versions

\* A transaction that has its timestamp, and the place of one of its versions.
Wrote(t, k, n) == ts[t] = n /\ n # 0 /\ k \in WriteSet[t]

\* A place of a transaction that is fully prepared, and such an item.
GoodPlace(p) == \E t \in Txns : Wrote(t, p.key, p.ts) /\ Prepared(t)
GoodItem(i) ==
    \E t \in Txns : Wrote(t, i.key, i.ts) /\ Prepared(t) /\ i = Item(t, i.key, i.ts)

\* A writer's progress: its timestamp, what it has prepared, and the key whose
\* pointer it is about to move.
WriterOk(t) ==
    /\ pc[t] = "idle" <=> ts[t] = 0
    /\ pc[t] = "prepare" => \A k \in WriteSet[t] \ todo[t] : Item(t, k, ts[t]) \in versions
    /\ pc[t] \in {"commit", "done"} => Prepared(t)
    /\ todo[t] \subseteq WriteSet[t]
    /\ held[t] # None => pc[t] = "commit" /\ held[t].key \in todo[t] /\ held[t].ts < ts[t]

WritersOk == \A t \in Txns : WriterOk(t)

\* A version in the store is some transaction's.
VersionsOk ==
    \A i \in versions : \E t \in Txns : Wrote(t, i.key, i.ts) /\ i = Item(t, i.key, i.ts)

\* A pointer names a version of a prepared transaction.
PointersOk == \A k \in Keys : pointer[k] # 0 => GoodPlace([key |-> k, ts |-> pointer[k]])

\* What a reader has read comes from prepared transactions, and round 2 fetches
\* exactly what select asked for.
ReaderOk(r) ==
    /\ rpc[r] # "dangling"
    /\ at[r] # None => GoodPlace(at[r])
    /\ \A i \in round1[r] \cup fetched[r] : GoodItem(i)
    /\ rpc[r] = "round1" => fetched[r] = {}
    /\ rpc[r] = "round2" => missing[r] \subseteq Select(round1[r])
    /\ rpc[r] \in {"round2", "done"} =>
        /\ \A f \in fetched[r] : \E p \in Select(round1[r]) : p.key = f.key /\ p.ts = f.ts
        /\ \A p \in Select(round1[r]) :
            \/ rpc[r] = "round2" /\ p \in missing[r]
            \/ \E f \in fetched[r] : p.key = f.key /\ p.ts = f.ts
    /\ \E b \in Nat : \A i \in round1[r] : i.ts <= b

ReadersOk == \A r \in Readers : ReaderOk(r)

\* A pointer outside the raced keys has reached every commit behind it.
CommitsOk ==
    \A t \in Txns : pc[t] \in {"commit", "done"} =>
        \A k \in WriteSet[t] \ raced :
            pc[t] = "done" \/ k \notin todo[t] => pointer[k] >= ts[t]

Inv == WritersOk /\ VersionsOk /\ PointersOk /\ ReadersOk /\ CommitsOk

-----------------------------------------------------------------------------
(* The store only grows                                                    *)

\* A writer has no timestamp before it starts, even after ids were reused.
IdleOk == \A t \in Txns : pc[t] = "idle" => ts[t] = 0

\* Timestamps are not taken back, so they were unique before a step if they are
\* unique after it.
LEMMA FreshBack ==
    ASSUME TypeOK, [Next]_vars, IdleOk, Fresh'
    PROVE  /\ Fresh
           /\ \A t \in Txns : ts[t] # 0 => ts'[t] = ts[t]
<1>1. \A t \in Txns : ts[t] # 0 => ts'[t] = ts[t]
  <2>1. ASSUME NEW u \in Txns, Mint(u) PROVE \A t \in Txns : ts[t] # 0 => ts'[t] = ts[t]
    BY <2>1 DEF Mint, TypeOK, IdleOk
  <2>2. CASE UNCHANGED ts
    BY <2>2
  <2> QED
    BY <2>1, <2>2 DEF Next, vars, writers, Prepare, CommitGet, CommitPut, WriteFails,
        LatestVisible, GetVersion, DecideRound2, Fetch, ReadFails, Restart
<1>2. Fresh
  <2> SUFFICES ASSUME NEW t \in Txns, NEW u \in Txns, ts[t] # 0, ts[t] = ts[u] PROVE t = u
    BY DEF Fresh
  <2> QED
    BY <1>1 DEF Fresh
<1> QED
  BY <1>1, <1>2

\* The invariant includes that.
LEMMA InvIdle == Inv => IdleOk
BY DEF Inv, WritersOk, WriterOk, IdleOk

\* No version is ever lost: put_version overwrites only the transaction's own.
LEMMA StoreGrows ==
    ASSUME TypeOK, [Next]_vars, Inv, Fresh
    PROVE  versions \subseteq versions'
<1>1. ASSUME NEW t \in Txns, NEW k \in Keys, Prepare(t, k) PROVE versions \subseteq versions'
  <2> SUFFICES ASSUME NEW i \in versions, i.key = k, i.ts = ts[t] PROVE i = Item(t, k, ts[t])
    BY <1>1 DEF Prepare
  <2>1. PICK u \in Txns : Wrote(u, i.key, i.ts) /\ i = Item(u, i.key, i.ts)
    BY DEF Inv, VersionsOk
  <2>2. u = t
    BY <2>1 DEF Wrote, Fresh
  <2> QED
    BY <2>1, <2>2
<1>2. CASE UNCHANGED versions
  BY <1>2
<1> QED
  BY <1>1, <1>2 DEF Next, vars, store, Mint, CommitGet, CommitPut, WriteFails,
      LatestVisible, GetVersion, DecideRound2, Fetch, ReadFails, Restart

\* So what was prepared stays prepared.
LEMMA GoodStays ==
    ASSUME TypeOK, [Next]_vars, Inv, Fresh'
    PROVE  /\ \A t \in Txns : ts[t] # 0 /\ Prepared(t) => Prepared(t)'
           /\ \A p : GoodPlace(p) => GoodPlace(p)'
           /\ \A i : GoodItem(i) => GoodItem(i)'
<1>1. Fresh /\ \A t \in Txns : ts[t] # 0 => ts'[t] = ts[t]
  BY FreshBack, InvIdle
<1>2. versions \subseteq versions'
  BY <1>1, StoreGrows
<1>3. \A t \in Txns : ts[t] # 0 /\ Prepared(t) => Prepared(t)'
  BY <1>1, <1>2 DEF Prepared, Item
<1>4. ASSUME NEW t \in Txns, NEW k, NEW n, Wrote(t, k, n) PROVE ts[t] # 0 /\ Wrote(t, k, n)'
  BY <1>1, <1>4 DEF Wrote
<1>5. \A p : GoodPlace(p) => GoodPlace(p)'
  BY <1>3, <1>4 DEF GoodPlace
<1>6. ASSUME NEW i, GoodItem(i) PROVE GoodItem(i)'
  <2>1. PICK t \in Txns : Wrote(t, i.key, i.ts) /\ Prepared(t) /\ i = Item(t, i.key, i.ts)
    BY <1>6 DEF GoodItem
  <2> QED
    BY <1>3, <1>4, <2>1 DEF GoodItem, Item
<1> QED
  BY <1>3, <1>5, <1>6

-----------------------------------------------------------------------------
(* Each part of the invariant is kept                                      *)

\* A step of one writer changes nothing for the others.
LEMMA OtherWriter ==
    ASSUME NEW u \in Txns, WriterOk(u), versions \subseteq versions',
           pc'[u] = pc[u], ts'[u] = ts[u], todo'[u] = todo[u], held'[u] = held[u]
    PROVE  WriterOk(u)'
BY DEF WriterOk, Prepared, Item

\* Writers keep to their own keys and prepare before they commit.
LEMMA WritersStep ==
    ASSUME TypeOK, [Next]_vars, Inv, Fresh'
    PROVE  WritersOk'
<1> USE WriteSetAssumption
<1>1. versions \subseteq versions'
  BY FreshBack, InvIdle, StoreGrows
<1>2. \A u \in Txns : WriterOk(u)
  BY DEF Inv, WritersOk
<1>3. ASSUME NEW t \in Txns, WriterOk(t)',
             \A u \in Txns \ {t} : /\ pc'[u] = pc[u] /\ ts'[u] = ts[u]
                                   /\ todo'[u] = todo[u] /\ held'[u] = held[u]
      PROVE  WritersOk'
  BY <1>1, <1>2, <1>3, OtherWriter DEF WritersOk
<1>4. ASSUME NEW t \in Txns, Mint(t) PROVE WritersOk'
  <2>1. WriterOk(t)'
    BY <1>2, <1>4 DEF Mint, TypeOK, WriterOk
  <2> QED
    BY <1>3, <1>4, <2>1 DEF Mint, TypeOK
<1>5. ASSUME NEW t \in Txns, NEW k \in Keys, Prepare(t, k) PROVE WritersOk'
  <2>1. /\ ts' = ts /\ held'[t] = None /\ ts[t] # 0 /\ k \in todo[t]
        /\ todo[t] \subseteq WriteSet[t]
    BY <1>2, <1>5 DEF Prepare, TypeOK, WriterOk
  <2>2. Item(t, k, ts[t]) \in versions'
    BY <1>5 DEF Prepare
  <2>3. \A j \in WriteSet[t] \ (todo[t] \ {k}) : Item(t, j, ts[t]) \in versions'
    BY <1>1, <1>2, <1>5, <2>2 DEF WriterOk, Prepare
  <2>4. ASSUME todo[t] = {k} PROVE WriterOk(t)'
    <3>1. pc'[t] = "commit" /\ todo'[t] = WriteSet[t]
      BY <1>5, <2>4 DEF Prepare, TypeOK
    <3>2. Prepared(t)'
      BY <2>1, <2>3, <2>4 DEF Prepared, Item
    <3> QED
      BY <2>1, <3>1, <3>2 DEF WriterOk
  <2>5. ASSUME todo[t] # {k} PROVE WriterOk(t)'
    <3>1. pc'[t] = "prepare" /\ todo'[t] = todo[t] \ {k}
      BY <1>5, <2>5 DEF Prepare, TypeOK
    <3> QED
      BY <2>1, <2>3, <3>1 DEF WriterOk, Item
  <2> QED
    BY <1>3, <1>5, <2>4, <2>5 DEF Prepare, TypeOK
<1>6. ASSUME NEW t \in Txns, NEW k \in Keys, CommitGet(t, k) PROVE WritersOk'
  <2>1. /\ ts' = ts /\ versions' = versions /\ pc[t] = "commit" /\ pc'[t] \in {"commit", "done"}
        /\ todo'[t] \subseteq todo[t]
        /\ held'[t] # None => /\ pc'[t] = "commit" /\ held'[t].key \in todo'[t]
                              /\ held'[t].ts < ts[t]
    BY <1>6 DEF CommitGet, Committed, TypeOK, store
  <2>2. WriterOk(t)'
    BY <1>2, <2>1 DEF WriterOk, Prepared, Item
  <2> QED
    BY <1>3, <1>6, <2>2 DEF CommitGet, Committed, TypeOK
<1>7. ASSUME NEW t \in Txns, NEW k \in Keys, CommitPut(t, k) PROVE WritersOk'
  <2>1. /\ ts' = ts /\ versions' = versions /\ pc[t] = "commit" /\ pc'[t] \in {"commit", "done"}
        /\ todo'[t] \subseteq todo[t] /\ held'[t] = None
    BY <1>7 DEF CommitPut, Committed, TypeOK
  <2>2. WriterOk(t)'
    BY <1>2, <2>1 DEF WriterOk, Prepared, Item
  <2> QED
    BY <1>3, <1>7, <2>2 DEF CommitPut, Committed, TypeOK
<1>8. ASSUME NEW t \in Txns, WriteFails(t) PROVE WritersOk'
  <2>1. WriterOk(t)'
    BY <1>2, <1>8 DEF WriteFails, TypeOK, WriterOk
  <2> QED
    BY <1>3, <1>8, <2>1 DEF WriteFails, TypeOK
<1>9. CASE UNCHANGED writers
  BY <1>1, <1>2, <1>9, OtherWriter DEF writers, WritersOk
<1>10. CASE Restart
  <2> SUFFICES ASSUME NEW u \in Txns PROVE WriterOk(u)'
    BY DEF WritersOk
  <2>1. /\ ts' = ts /\ versions' = versions /\ todo' = todo /\ held'[u] = None
        /\ pc'[u] = pc[u] \/ (pc[u] # "idle" /\ pc'[u] = "failed")
    BY <1>10 DEF Restart, TypeOK, store
  <2> QED
    BY <1>2, <2>1 DEF WriterOk, Prepared, Item
<1> QED
  BY <1>4, <1>5, <1>6, <1>7, <1>8, <1>9, <1>10 DEF Next, vars, LatestVisible, GetVersion,
      DecideRound2, Fetch, ReadFails

\* Every version in the store is some transaction's.
LEMMA VersionsStep ==
    ASSUME TypeOK, [Next]_vars, Inv, Fresh'
    PROVE  VersionsOk'
<1> SUFFICES ASSUME NEW i \in versions'
             PROVE  \E t \in Txns : Wrote(t, i.key, i.ts)' /\ i = Item(t, i.key, i.ts)
  BY DEF VersionsOk, Item
<1>1. \A t \in Txns : ts[t] # 0 => ts'[t] = ts[t]
  BY FreshBack, InvIdle
<1>2. CASE i \in versions
  BY <1>1, <1>2 DEF Inv, VersionsOk, Wrote
<1>3. ASSUME NEW t \in Txns, NEW k \in Keys, Prepare(t, k), i = Item(t, k, ts[t])
      PROVE  Wrote(t, i.key, i.ts)' /\ i = Item(t, i.key, i.ts)
  BY <1>1, <1>3 DEF Inv, WritersOk, WriterOk, Prepare, TypeOK, Wrote, Item
<1> QED
  BY <1>2, <1>3 DEF Next, vars, store, Prepare, Mint, CommitGet, CommitPut, WriteFails,
      LatestVisible, GetVersion, DecideRound2, Fetch, ReadFails, Restart

\* COMMIT moves a pointer only to a version whose transaction is prepared.
LEMMA PointersStep ==
    ASSUME TypeOK, [Next]_vars, Inv, Fresh'
    PROVE  PointersOk'
<1> SUFFICES ASSUME NEW k \in Keys, pointer'[k] # 0
             PROVE  \E t \in Txns : ts'[t] = pointer'[k] /\ k \in WriteSet[t] /\ Prepared(t)'
  BY DEF PointersOk, GoodPlace, Wrote
<1>1. CASE pointer'[k] = pointer[k]
  <2>1. PICK t \in Txns : ts[t] = pointer[k] /\ k \in WriteSet[t] /\ Prepared(t)
    BY <1>1 DEF Inv, PointersOk, GoodPlace, Wrote
  <2> QED
    BY <1>1, <2>1, GoodStays, FreshBack, InvIdle
<1>2. ASSUME NEW t \in Txns, CommitPut(t, k), pointer'[k] = ts[t]
      PROVE  ts'[t] = pointer'[k] /\ k \in WriteSet[t] /\ Prepared(t)'
  <2>1. Prepared(t) /\ ts[t] # 0 /\ k \in WriteSet[t]
    BY <1>2 DEF CommitPut, Inv, WritersOk, WriterOk
  <2> QED
    BY <1>2, <2>1, GoodStays, FreshBack, InvIdle
<1> QED
  BY <1>1, <1>2 DEF Next, vars, store, TypeOK, CommitPut, Prepare, Mint, CommitGet, WriteFails,
      LatestVisible, GetVersion, DecideRound2, Fetch, ReadFails, Restart

\* Outside the raced keys a pointer never moves back.
LEMMA CommitsStep ==
    ASSUME TypeOK, [Next]_vars, Inv, Fresh'
    PROVE  CommitsOk'
<1> USE WriteSetAssumption
<1>1. \A t \in Txns : ts[t] # 0 => ts'[t] = ts[t]
  BY FreshBack, InvIdle
<1>2. raced \subseteq raced' /\ \A k \in Keys \ raced' : pointer'[k] >= pointer[k]
  <2>1. ASSUME NEW t \in Txns, NEW k \in Keys, CommitPut(t, k)
        PROVE  raced \subseteq raced' /\ \A j \in Keys \ raced' : pointer'[j] >= pointer[j]
    BY <2>1 DEF CommitPut, TypeOK, Inv, WritersOk, WriterOk, Places
  <2>2. CASE UNCHANGED <<pointer, raced>>
    BY <2>2 DEF TypeOK
  <2> QED
    BY <2>1, <2>2 DEF Next, vars, store, Prepare, Mint, CommitGet, WriteFails,
        LatestVisible, GetVersion, DecideRound2, Fetch, ReadFails, Restart
<1> SUFFICES ASSUME NEW u \in Txns, pc'[u] \in {"commit", "done"},
                    NEW k \in WriteSet[u] \ raced', pc'[u] = "done" \/ k \notin todo'[u]
             PROVE  pointer'[k] >= ts'[u]
  BY DEF CommitsOk
<1>3. k \in Keys /\ pointer'[k] >= pointer[k] /\ k \notin raced
  BY <1>2
<1>4. CASE pc[u] = pc'[u] /\ todo[u] = todo'[u]
  BY <1>1, <1>3, <1>4, TypeStep, SMTT(30) DEF Inv, CommitsOk, WritersOk, WriterOk, TypeOK
<1>5. ASSUME NEW j \in Keys, Prepare(u, j) PROVE pointer'[k] >= ts'[u]
  BY <1>5 DEF Prepare, TypeOK
<1>6. ASSUME NEW j \in Keys, CommitGet(u, j) PROVE pointer'[k] >= ts'[u]
  <2>1. ts' = ts /\ pointer' = pointer /\ pc[u] = "commit"
    BY <1>6 DEF CommitGet, store
  <2>2. CASE k = j
    BY <1>3, <1>6, <2>1, <2>2 DEF CommitGet, TypeOK
  <2>3. CASE k # j
    <3>1. k \notin todo[u]
      BY <1>6, <2>3 DEF CommitGet, Committed, TypeOK
    <3> QED
      BY <1>3, <2>1, <3>1 DEF Inv, CommitsOk
  <2> QED
    BY <2>2, <2>3
<1>7. ASSUME NEW j \in Keys, CommitPut(u, j) PROVE pointer'[k] >= ts'[u]
  <2>1. ts' = ts /\ pc[u] = "commit" /\ ts[u] \in Nat /\ pointer[k] \in Nat /\ pointer'[k] \in Nat
    BY <1>3, <1>7, TypeStep DEF CommitPut, TypeOK
  <2>2. CASE k = j
    BY <1>7, <2>1, <2>2 DEF CommitPut, TypeOK
  <2>3. CASE k # j
    <3>1. k \notin todo[u]
      BY <1>7, <2>3 DEF CommitPut, Committed, TypeOK
    <3>2. pointer[k] >= ts[u]
      BY <1>3, <2>1, <3>1 DEF Inv, CommitsOk
    <3> QED
      BY <1>3, <2>1, <3>2
  <2> QED
    BY <2>2, <2>3
<1>8. ASSUME NEW t \in Txns, t # u,
             Mint(t) \/ WriteFails(t)
             \/ \E j \in Keys : Prepare(t, j) \/ CommitGet(t, j) \/ CommitPut(t, j)
      PROVE  pc[u] = pc'[u] /\ todo[u] = todo'[u]
  BY <1>8 DEF Mint, WriteFails, Prepare, CommitGet, CommitPut, Committed, TypeOK
<1>9. CASE Mint(u) \/ WriteFails(u)
  BY <1>9 DEF Mint, WriteFails, TypeOK
<1>10. CASE Restart
  BY <1>4, <1>10 DEF Restart, TypeOK
<1>11. CASE UNCHANGED writers
  BY <1>4, <1>11 DEF writers
<1> QED
  BY <1>4, <1>5, <1>6, <1>7, <1>8, <1>9, <1>10, <1>11 DEF Next, vars, LatestVisible, GetVersion,
      DecideRound2, Fetch, ReadFails

-----------------------------------------------------------------------------
(* Readers                                                                 *)

\* A bounded set of numbers has a largest one.
LEMMA MaxExists ==
    ASSUME NEW S \in SUBSET Nat, NEW b \in Nat, \A x \in S : x <= b, S # {}
    PROVE  \E m \in S : \A x \in S : x <= m
<1> DEFINE T == {b - x : x \in S}
           R == OpToRel(<, Nat)
<1>1. IsWellFoundedOn(R, Nat)
  BY NatLessThanWellFounded
<1>2. T \subseteq Nat /\ T # {}
  <2>1. ASSUME NEW x \in S PROVE b - x \in Nat
    OBVIOUS
  <2> QED
    BY <2>1
<1>3. \E y \in T : \A z \in T : ~(<<z, y>> \in R)
  <2> HIDE DEF T, R
  <2> QED
    BY <1>1, <1>2, WFMin
<1>4. PICK y \in T : \A z \in T : ~(<<z, y>> \in R)
  BY <1>3
<1>5. PICK m \in S : y = b - m
  OBVIOUS
<1>6. ASSUME NEW x \in S PROVE x <= m
  <2>1. b - x \in Nat /\ b - m \in Nat
    OBVIOUS
  <2>2. ~(<<b - x, b - m>> \in R)
    BY <1>4, <1>5
  <2>3. ~(b - x < b - m)
    BY <2>1, <2>2 DEF OpToRel
  <2> QED
    BY <2>3
<1> QED
  BY <1>6

\* For every sibling that items name and do not have, select asks for a version
\* at least as new as each of them.
LEMMA SelectCovers ==
    ASSUME NEW S \in SUBSET Items, NEW b \in Nat, \A i \in S : i.ts <= b,
           NEW i \in S, i.ts # 0, NEW k \in i.siblings
    PROVE  \/ \E j \in S : j.key = k /\ j.ts >= i.ts
           \/ \E p \in Select(S) : p.key = k /\ p.ts >= i.ts
<1> SUFFICES ASSUME \A j \in S : j.key = k => j.ts < i.ts
             PROVE  \E p \in Select(S) : p.key = k /\ p.ts >= i.ts
  BY DEF Items
<1> DEFINE first == [key |-> k, ts |-> i.ts]
           N == {p.ts : p \in {q \in Required(S) : q.key = k}}
<1>1. first \in Required(S)
  BY DEF Required, Items
<1>2. \A p \in Required(S) : p.key \in Keys /\ p.ts \in Nat /\ p.ts <= b
  BY DEF Required, Items
<1>3. N \in SUBSET Nat /\ N # {} /\ \A x \in N : x <= b
  BY <1>1, <1>2
<1>4. PICK m \in N : \A x \in N : x <= m
  <2> HIDE DEF N
  <2> QED
    BY <1>3, MaxExists
<1>5. PICK p \in Required(S) : p.key = k /\ p.ts = m
  OBVIOUS
<1>6. p \in Select(S)
  BY <1>4, <1>5 DEF Select
<1>7. i.ts <= m
  BY <1>1, <1>4
<1> QED
  BY <1>2, <1>5, <1>6, <1>7 DEF Items

\* What select asks for, a prepared transaction has written.
LEMMA SelectGood ==
    ASSUME NEW S, \A i \in S : GoodItem(i), NEW p \in Select(S)
    PROVE  GoodPlace(p)
<1>1. PICK i \in S : i.ts = p.ts /\ p.key \in i.siblings
  BY DEF Select, Required
<1>2. PICK t \in Txns : Wrote(t, i.key, i.ts) /\ Prepared(t) /\ i = Item(t, i.key, i.ts)
  BY DEF GoodItem
<1>3. p.key \in WriteSet[t]
  BY <1>1, <1>2 DEF Item
<1> QED
  BY <1>1, <1>2, <1>3 DEF GoodPlace, Wrote

\* The version of a prepared transaction is found, and is that transaction's.
LEMMA Found ==
    ASSUME TypeOK, Inv, Fresh, NEW p, GoodPlace(p)
    PROVE  ItemsAt(versions, p) # {} /\ \A i \in ItemsAt(versions, p) : GoodItem(i)
<1>1. PICK t \in Txns : Wrote(t, p.key, p.ts) /\ Prepared(t)
  BY DEF GoodPlace
<1>2. Item(t, p.key, ts[t]) \in ItemsAt(versions, p)
  BY <1>1 DEF Wrote, Prepared, ItemsAt, Item
<1>3. ASSUME NEW i \in ItemsAt(versions, p) PROVE GoodItem(i)
  <2>1. PICK u \in Txns : Wrote(u, i.key, i.ts) /\ i = Item(u, i.key, i.ts)
    BY DEF ItemsAt, Inv, VersionsOk
  <2>2. u = t
    BY <1>1, <2>1 DEF Wrote, Fresh, ItemsAt
  <2> QED
    BY <1>1, <2>1, <2>2 DEF GoodItem
<1> QED
  BY <1>2, <1>3

\* A step that leaves a reader alone keeps what it knows.
LEMMA OtherReader ==
    ASSUME NEW r \in Readers, ReaderOk(r),
           \A p : GoodPlace(p) => GoodPlace(p)', \A i : GoodItem(i) => GoodItem(i)',
           rpc'[r] = rpc[r], at'[r] = at[r], round1'[r] = round1[r],
           missing'[r] = missing[r], fetched'[r] = fetched[r]
    PROVE  ReaderOk(r)'
<1>1. at'[r] # None => GoodPlace(at[r])'
  BY DEF ReaderOk, GoodPlace, Wrote
<1>2. \A i \in round1'[r] \cup fetched'[r] : GoodItem(i)'
  BY DEF ReaderOk
<1> QED
  BY <1>1, <1>2 DEF ReaderOk, Select, Required

\* Round 1 reads prepared versions only, and round 2 finds what select asks for.
LEMMA ReadersStep ==
    ASSUME TypeOK, [Next]_vars, Inv, Fresh'
    PROVE  ReadersOk'
<1> USE ReadSetAssumption
<1>1. Fresh
  BY FreshBack, InvIdle
<1>2. (\A p : GoodPlace(p) => GoodPlace(p)') /\ (\A i : GoodItem(i) => GoodItem(i)')
  BY GoodStays
<1>3. \A r \in Readers : ReaderOk(r)
  BY DEF Inv, ReadersOk
<1>4. ASSUME NEW r \in Readers, ReaderOk(r)',
             \A q \in Readers \ {r} :
                /\ rpc'[q] = rpc[q] /\ at'[q] = at[q] /\ round1'[q] = round1[q]
                /\ missing'[q] = missing[q] /\ fetched'[q] = fetched[q]
      PROVE  ReadersOk'
  BY <1>2, <1>3, <1>4, OtherReader DEF ReadersOk
<1>5. ASSUME NEW r \in Readers, NEW k \in Keys, LatestVisible(r, k) PROVE ReadersOk'
  <2>1. /\ rpc'[r] = "round1" /\ rpc[r] = "round1" /\ round1'[r] = round1[r]
        /\ fetched'[r] = fetched[r]
    BY <1>5 DEF LatestVisible, TypeOK
  <2>2. at'[r] # None => GoodPlace(at[r])'
    <3>1. CASE at'[r] = None
      BY <3>1
    <3>2. CASE pointer[k] # 0 /\ at'[r] = [key |-> k, ts |-> pointer[k]]
      <4>1. PICK t \in Txns : Wrote(t, k, pointer[k]) /\ Prepared(t)
        BY <3>2 DEF Inv, PointersOk, GoodPlace
      <4>2. Prepared(t)' /\ ts'[t] = ts[t]
        BY <4>1, GoodStays, FreshBack, InvIdle DEF Wrote
      <4> QED
        BY <3>2, <4>1, <4>2 DEF GoodPlace, Wrote
    <3> QED
      BY <1>5, <3>1, <3>2 DEF LatestVisible, TypeOK
  <2>3. \A i \in round1'[r] \cup fetched'[r] : GoodItem(i)'
    BY <1>2, <1>3, <2>1 DEF ReaderOk
  <2>4. ReaderOk(r)'
    BY <1>3, <2>1, <2>2, <2>3 DEF ReaderOk
  <2> QED
    BY <1>4, <1>5, <2>4 DEF LatestVisible, TypeOK
<1>6. ASSUME NEW r \in Readers, GetVersion(r) PROVE ReadersOk'
  <2>1. /\ ItemsAt(versions, at[r]) # {}
        /\ \A i \in ItemsAt(versions, at[r]) : GoodItem(i)
    BY <1>1, <1>3, <1>6, Found DEF GetVersion, ReaderOk
  <2>2. /\ rpc[r] = "round1" /\ rpc'[r] = "round1" /\ at'[r] = None
        /\ round1'[r] = round1[r] \cup ItemsAt(versions, at[r])
        /\ fetched'[r] = fetched[r]
    BY <1>6, <2>1 DEF GetVersion, TypeOK
  <2>3. \A i \in round1'[r] \cup fetched'[r] : GoodItem(i)'
    BY <1>2, <1>3, <2>1, <2>2 DEF ReaderOk
  <2>4. \E b \in Nat : \A i \in round1'[r] : i.ts <= b
    <3>1. PICK b \in Nat : \A i \in round1[r] : i.ts <= b
      BY <1>3 DEF ReaderOk
    <3>2. at[r].ts \in Nat /\ round1[r] \in SUBSET Items
      BY <1>6 DEF GetVersion, TypeOK, Places
    <3>3. \A i \in round1'[r] : i.ts <= b \/ i.ts = at[r].ts
      BY <2>2, <3>1 DEF ItemsAt
    <3>4. \A i \in round1'[r] : i.ts \in Nat
      BY <2>2, <3>2 DEF ItemsAt, Items
    <3>5. b + at[r].ts \in Nat /\ \A i \in round1'[r] : i.ts <= b + at[r].ts
      BY <3>2, <3>3, <3>4
    <3> QED
      BY <3>5
  <2>5. ReaderOk(r)'
    BY <1>3, <2>2, <2>3, <2>4 DEF ReaderOk
  <2> QED
    BY <1>4, <1>6, <2>5 DEF GetVersion, TypeOK
<1>7. ASSUME NEW r \in Readers, DecideRound2(r) PROVE ReadersOk'
  <2>1. /\ rpc[r] = "round1" /\ at'[r] = None /\ round1'[r] = round1[r]
        /\ fetched'[r] = {} /\ missing'[r] = Select(round1[r])
        /\ rpc'[r] = IF Select(round1[r]) = {} THEN "done" ELSE "round2"
    BY <1>3, <1>7 DEF DecideRound2, TypeOK, ReaderOk
  <2>2. \A i \in round1'[r] \cup fetched'[r] : GoodItem(i)'
    BY <1>2, <1>3, <2>1 DEF ReaderOk
  <2>3. Select(round1[r])' = Select(round1[r])
    BY <2>1 DEF Select, Required
  <2>4. ReaderOk(r)'
    BY <1>3, <2>1, <2>2, <2>3 DEF ReaderOk
  <2> QED
    BY <1>4, <1>7, <2>4 DEF DecideRound2, TypeOK
<1>8. ASSUME NEW r \in Readers, NEW p \in missing[r], Fetch(r, p) PROVE ReadersOk'
  <2>1. rpc[r] = "round2" /\ p \in Select(round1[r])
    BY <1>3, <1>8 DEF Fetch, ReaderOk
  <2>2. GoodPlace(p)
    BY <1>3, <2>1, SelectGood DEF ReaderOk
  <2>3. ItemsAt(versions, p) # {} /\ \A i \in ItemsAt(versions, p) : GoodItem(i)
    BY <1>1, <2>2, Found
  <2>4. /\ at'[r] = at[r] /\ round1'[r] = round1[r]
        /\ fetched'[r] = fetched[r] \cup ItemsAt(versions, p)
        /\ missing'[r] = missing[r] \ {p}
        /\ rpc'[r] = IF missing[r] = {p} THEN "done" ELSE "round2"
    BY <1>8, <2>1, <2>3 DEF Fetch, TypeOK
  <2>5. Select(round1[r])' = Select(round1[r])
    BY <2>4 DEF Select, Required
  <2>6. at'[r] # None => GoodPlace(at[r])'
    BY <1>2, <1>3, <2>4 DEF ReaderOk, GoodPlace, Wrote
  <2>7. \A i \in round1'[r] \cup fetched'[r] : GoodItem(i)'
    BY <1>2, <1>3, <2>3, <2>4 DEF ReaderOk
  <2>8. \A f \in fetched'[r] : \E q \in Select(round1[r]) : q.key = f.key /\ q.ts = f.ts
    BY <1>3, <2>1, <2>4 DEF ReaderOk, ItemsAt
  <2>9. \A q \in Select(round1[r]) :
            \/ rpc'[r] = "round2" /\ q \in missing'[r]
            \/ \E f \in fetched'[r] : q.key = f.key /\ q.ts = f.ts
    <3>1. PICK i \in ItemsAt(versions, p) : TRUE
      BY <2>3
    <3>2. i \in fetched'[r] /\ p.key = i.key /\ p.ts = i.ts
      BY <2>4, <3>1 DEF ItemsAt
    <3> QED
      BY <1>3, <2>1, <2>4, <3>2 DEF ReaderOk
  <2>10. ReaderOk(r)'
    BY <1>3, <2>1, <2>4, <2>5, <2>6, <2>7, <2>8, <2>9 DEF ReaderOk
  <2> QED
    BY <1>4, <1>8, <2>10 DEF Fetch, TypeOK
<1>9. ASSUME NEW r \in Readers, ReadFails(r) PROVE ReadersOk'
  <2>1. /\ rpc'[r] = "failed" /\ at'[r] = at[r] /\ round1'[r] = round1[r]
        /\ fetched'[r] = fetched[r]
    BY <1>9 DEF ReadFails, TypeOK
  <2>2. at'[r] # None => GoodPlace(at[r])'
    BY <1>2, <1>3, <2>1 DEF ReaderOk, GoodPlace, Wrote
  <2>3. \A i \in round1'[r] \cup fetched'[r] : GoodItem(i)'
    BY <1>2, <1>3, <2>1 DEF ReaderOk
  <2>4. ReaderOk(r)'
    BY <1>3, <2>1, <2>2, <2>3 DEF ReaderOk
  <2> QED
    BY <1>4, <1>9, <2>4 DEF ReadFails, TypeOK
<1>10. CASE UNCHANGED readers
  BY <1>2, <1>3, <1>10, OtherReader DEF readers, ReadersOk
<1>11. CASE Restart
  <2> SUFFICES ASSUME NEW r \in Readers PROVE ReaderOk(r)'
    BY DEF ReadersOk
  <2>1. CASE Cut(r)
    <3>1. rpc'[r] = "round1" /\ at'[r] = None /\ round1'[r] = {} /\ fetched'[r] = {}
      BY <1>11, <2>1 DEF Restart
    <3> QED
      BY <3>1 DEF ReaderOk
  <2>2. CASE ~Cut(r)
    <3>1. /\ rpc'[r] = rpc[r] /\ at'[r] = None /\ round1'[r] = round1[r]
          /\ fetched'[r] = fetched[r] /\ missing'[r] = missing[r]
      BY <1>11, <2>2 DEF Restart
    <3>2. \A i \in round1'[r] \cup fetched'[r] : GoodItem(i)'
      BY <1>2, <1>3, <3>1 DEF ReaderOk
    <3>3. ReaderOk(r) /\ rpc[r] \notin {"round1", "round2"}
      BY <1>3, <2>2 DEF Cut
    <3>4. CASE rpc[r] # "done"
      BY <3>1, <3>2, <3>3, <3>4 DEF ReaderOk
    <3>5. CASE rpc[r] = "done"
      <4>1. \A f \in fetched'[r] : \E p \in Select(round1'[r]) : p.key = f.key /\ p.ts = f.ts
        BY <3>1, <3>3, <3>5 DEF ReaderOk
      <4>2. \A p \in Select(round1'[r]) : \E f \in fetched'[r] : p.key = f.key /\ p.ts = f.ts
        BY <3>1, <3>3, <3>5 DEF ReaderOk
      <4> QED
        BY <3>1, <3>2, <3>3, <3>5, <4>1, <4>2 DEF ReaderOk, Select, Required
    <3> QED
      BY <3>4, <3>5
  <2> QED
    BY <2>1, <2>2
<1> QED
  BY <1>5, <1>6, <1>7, <1>8, <1>9, <1>10, <1>11 DEF Next, vars, Mint, Prepare, CommitGet,
      CommitPut, WriteFails

\* No writer gets a timestamp before it starts.
LEMMA IdleStep == TypeOK /\ IdleOk /\ [Next]_vars => IdleOk'
<1> SUFFICES ASSUME TypeOK, IdleOk, [Next]_vars, NEW t \in Txns, pc'[t] = "idle"
             PROVE  pc[t] = "idle" /\ ts'[t] = ts[t]
  BY DEF IdleOk
<1>1. ASSUME NEW u \in Txns, Mint(u) \/ WriteFails(u)
      PROVE  pc[t] = "idle" /\ ts'[t] = ts[t]
  BY <1>1 DEF TypeOK, Mint, WriteFails
<1>2. ASSUME NEW u \in Txns, NEW k \in Keys, Prepare(u, k) \/ CommitGet(u, k) \/ CommitPut(u, k)
      PROVE  pc[t] = "idle" /\ ts'[t] = ts[t]
  BY <1>2 DEF TypeOK, Prepare, CommitGet, CommitPut, Committed
<1>3. CASE Restart
  BY <1>3 DEF TypeOK, Restart
<1>4. CASE UNCHANGED writers
  BY <1>4 DEF writers
<1> QED
  BY <1>1, <1>2, <1>3, <1>4 DEF Next, vars, LatestVisible, GetVersion, DecideRound2, Fetch,
      ReadFails

\* At the start nothing has been written or read.
LEMMA InvInit == Init => TypeOK /\ IdleOk /\ Inv
<1> SUFFICES ASSUME Init PROVE TypeOK /\ IdleOk /\ Inv
  OBVIOUS
<1>1. TypeOK /\ IdleOk
  BY WriteSetAssumption, ReadSetAssumption, RestartsAssumption DEF Init, TypeOK, IdleOk
<1>2. WritersOk /\ VersionsOk /\ PointersOk /\ CommitsOk
  BY DEF Init, WritersOk, WriterOk, VersionsOk, PointersOk, CommitsOk
<1>3. ASSUME NEW r \in Readers PROVE ReaderOk(r)
  <2>1. rpc[r] = "round1" /\ at[r] = None /\ round1[r] = {} /\ fetched[r] = {} /\ missing[r] = {}
    BY DEF Init
  <2> QED
    BY <2>1 DEF ReaderOk
<1> QED
  BY <1>1, <1>2, <1>3 DEF Inv, ReadersOk

\* The invariant holds as long as no timestamp is used twice.
LEMMA Invariance == Spec => [](TypeOK /\ (Fresh => Inv))
<1>1. TypeOK /\ IdleOk /\ (Fresh => Inv) /\ [Next]_vars => (TypeOK /\ IdleOk /\ (Fresh => Inv))'
  <2> SUFFICES ASSUME TypeOK, IdleOk, Fresh => Inv, [Next]_vars, Fresh' PROVE Inv'
    BY TypeStep, IdleStep
  <2>1. Inv
    BY FreshBack
  <2> QED
    BY <2>1, WritersStep, VersionsStep, PointersStep, ReadersStep, CommitsStep DEF Inv
<1> QED
  BY <1>1, InvInit, PTL DEF Spec

-----------------------------------------------------------------------------
(* The theorems                                                            *)

\* Whatever select asked for is in the answer, and newer than what round 1 read
\* of that key.
LEMMA SnapshotCovers ==
    ASSUME TypeOK, Inv, NEW r \in Readers, rpc[r] = "done",
           NEW i \in round1[r], NEW k \in i.siblings
    PROVE  \E j \in Snapshot(r) : j.key = k /\ j.ts >= i.ts
<1>1. round1[r] \in SUBSET Items /\ fetched[r] \in SUBSET Items
  BY DEF TypeOK
<1>2. ReaderOk(r)
  BY DEF Inv, ReadersOk
<1>3. i.ts # 0
  BY <1>2 DEF ReaderOk, GoodItem, Wrote
<1>4. ASSUME NEW p \in Select(round1[r]), p.key = k, p.ts >= i.ts
      PROVE  \E j \in Snapshot(r) : j.key = k /\ j.ts >= i.ts
  BY <1>2, <1>4 DEF ReaderOk, Snapshot
<1>5. ASSUME NEW j \in round1[r], j.key = k, j.ts >= i.ts
      PROVE  \E h \in Snapshot(r) : h.key = k /\ h.ts >= i.ts
  <2>1. CASE \A f \in fetched[r] : f.key # k
    BY <1>5, <2>1 DEF Snapshot
  <2>2. ASSUME NEW f \in fetched[r], f.key = k PROVE f \in Snapshot(r) /\ f.ts >= i.ts
    <3>1. PICK p \in Select(round1[r]) : p.key = f.key /\ p.ts = f.ts
      BY <1>2 DEF ReaderOk
    <3>2. j.ts < f.ts
      BY <1>5, <2>2, <3>1 DEF Select, Required
    <3> QED
      BY <1>1, <1>5, <3>2 DEF Snapshot, Items
  <2> QED
    BY <2>1, <2>2
<1>6. PICK b \in Nat : \A x \in round1[r] : x.ts <= b
  BY <1>2 DEF ReaderOk
<1>7. \/ \E j \in round1[r] : j.key = k /\ j.ts >= i.ts
      \/ \E p \in Select(round1[r]) : p.key = k /\ p.ts >= i.ts
  BY <1>1, <1>3, <1>6, SelectCovers
<1> QED
  BY <1>4, <1>5, <1>7

\* With one transaction to a timestamp, a finished read shows all of a
\* transaction or nothing of it, for any number of keys, writers and readers,
\* with failed writes and racing commits among them.
THEOREM ReadsAreAtomic == Spec => []ReadAtomic
<1>1. TypeOK /\ (Fresh => Inv) => ReadAtomic
  <2> SUFFICES ASSUME TypeOK, Inv, Fresh, NEW r \in Readers, rpc[r] = "done",
                      NEW i \in Snapshot(r), NEW k \in i.siblings
               PROVE  \E j \in Snapshot(r) : j.key = k /\ j.ts >= i.ts
    BY DEF ReadAtomic
  <2>1. ReaderOk(r)
    BY DEF Inv, ReadersOk
  <2>2. CASE i \in round1[r]
    BY <2>2, SnapshotCovers
  <2>3. CASE i \in fetched[r]
    <3>1. PICK p \in Select(round1[r]) : p.key = i.key /\ p.ts = i.ts
      BY <2>1, <2>3 DEF ReaderOk
    <3>2. PICK h \in round1[r] : h.ts = p.ts /\ p.key \in h.siblings
      BY <3>1 DEF Select, Required
    <3>3. PICK t \in Txns : Wrote(t, i.key, i.ts) /\ i = Item(t, i.key, i.ts)
      BY <2>1, <2>3 DEF ReaderOk, GoodItem
    <3>4. PICK u \in Txns : Wrote(u, h.key, h.ts) /\ h = Item(u, h.key, h.ts)
      BY <2>1 DEF ReaderOk, GoodItem
    <3>5. t = u
      BY <3>1, <3>2, <3>3, <3>4 DEF Wrote, Fresh
    <3>6. h.ts = i.ts
      BY <3>1, <3>2
    <3>7. CASE k \in h.siblings
      BY <3>6, <3>7, SnapshotCovers
    <3>8. CASE k \notin h.siblings
      <4>1. k = h.key /\ i.key \in h.siblings
        BY <3>1, <3>2, <3>3, <3>4, <3>5, <3>8 DEF Item
      <4>2. CASE \A f \in fetched[r] : f.key # k
        BY <3>6, <4>1, <4>2 DEF Snapshot, TypeOK, Items
      <4>3. ASSUME NEW f \in fetched[r], f.key = k PROVE f \in Snapshot(r) /\ f.ts >= i.ts
        <5>1. PICK q \in Select(round1[r]) : q.key = f.key /\ q.ts = f.ts
          BY <2>1 DEF ReaderOk
        <5>2. h.ts < f.ts
          BY <4>1, <4>3, <5>1 DEF Select, Required
        <5> QED
          BY <3>6, <5>2 DEF Snapshot, TypeOK, Items
      <4> QED
        BY <4>2, <4>3
    <3> QED
      BY <3>7, <3>8
  <2> QED
    BY <2>2, <2>3 DEF Snapshot
<1> QED
  BY <1>1, Invariance, PTL

\* With one transaction to a timestamp no read ever ends in DanglingVersion.
THEOREM ReadsFindVersions == Spec => []NoDangling
<1>1. (Fresh => Inv) => NoDangling
  BY DEF NoDangling, Inv, ReadersOk, ReaderOk
<1> QED
  BY <1>1, Invariance, PTL

\* With one transaction to a timestamp an acknowledged write stays visible,
\* unless commits of its key overlapped between the get and the put.
THEOREM WritesStayVisible == Spec => []AckedVisible
<1>1. TypeOK /\ (Fresh => Inv) => AckedVisible
  <2> SUFFICES ASSUME TypeOK, Inv, NEW t \in Txns, pc[t] = "done", NEW k \in WriteSet[t] \ raced
               PROVE  /\ pointer[k] >= ts[t]
                      /\ \E i \in versions : i.key = k /\ i.ts = pointer[k]
    BY DEF AckedVisible
  <2>1. pointer[k] >= ts[t] /\ ts[t] # 0 /\ k \in Keys
    BY WriteSetAssumption DEF Inv, CommitsOk, WritersOk, WriterOk
  <2>2. pointer[k] # 0
    BY <2>1 DEF TypeOK
  <2>3. PICK u \in Txns : Wrote(u, k, pointer[k]) /\ Prepared(u)
    BY <2>1, <2>2 DEF Inv, PointersOk, GoodPlace
  <2>4. Item(u, k, pointer[k]) \in versions
    BY <2>3 DEF Wrote, Prepared
  <2> QED
    BY <2>1, <2>4 DEF Item
<1> QED
  BY <1>1, Invariance, PTL
=============================================================================
