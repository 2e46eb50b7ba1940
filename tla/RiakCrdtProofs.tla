--------------------------- MODULE RiakCrdtProofs ---------------------------
(***************************************************************************)
(* RiakCrdt, for any nodes, elements, updates and fetches: merging is a    *)
(* join, no operation is counted twice, a node keeps what it accepted      *)
(* until one of its writes replaces a state its read had not seen, and     *)
(* replicas that have merged everything hold the same state.               *)
(***************************************************************************)
EXTENDS RiakCrdt, SequenceTheorems, TLAPS

Op == CounterOps \cup SetOps

-----------------------------------------------------------------------------
(* The data types. *)

\* The state of a key that was never written is a state.
LEMMA EmptyState == Empty \in State
BY DEF Empty, State, NoColumn

\* Merging two states gives a state, part by part.
LEMMA MergeParts ==
    ASSUME NEW a \in State, NEW b \in State
    PROVE  /\ Merge(a, b) \in State
           /\ \A c \in Columns, n \in Nodes :
                 Merge(a, b).col[c][n] = Larger(a.col[c][n], b.col[c][n])
           /\ \A e \in Elements : /\ Merge(a, b).adds[e] = a.adds[e] \cup b.adds[e]
                                  /\ Merge(a, b).removes[e] = a.removes[e] \cup b.removes[e]
<1>1. \A c \in Columns, n \in Nodes : a.col[c][n] \in Nat /\ b.col[c][n] \in Nat
  BY DEF State
<1>2. \A c \in Columns, n \in Nodes : Larger(a.col[c][n], b.col[c][n]) \in Nat
  BY <1>1 DEF Larger
<1>3. [c \in Columns |-> [n \in Nodes |-> Larger(a.col[c][n], b.col[c][n])]]
          \in [Columns -> [Nodes -> Nat]]
  BY <1>2
<1>4. /\ [e \in Elements |-> a.adds[e] \cup b.adds[e]] \in [Elements -> SUBSET Tag]
      /\ [e \in Elements |-> a.removes[e] \cup b.removes[e]] \in [Elements -> SUBSET Tag]
  BY DEF State
<1> QED BY <1>3, <1>4 DEF Merge, State

\* Applying an operation gives a state, part by part.
LEMMA ApplyParts ==
    ASSUME NEW s \in State, NEW op \in Op, NEW n \in Nodes
    PROVE  /\ Apply(s, op, n) \in State
           /\ \A c \in Columns, m \in Nodes :
                 Apply(s, op, n).col[c][m] =
                     IF op.kind # "remove" /\ c = ColumnOf(op) /\ m = n
                     THEN s.col[c][m] + 1 ELSE s.col[c][m]
           /\ \A e \in Elements :
                 /\ Apply(s, op, n).adds[e] =
                        IF op.kind = "add" /\ e = op.element
                        THEN s.adds[e] \cup {NextTag(s, n)} ELSE s.adds[e]
                 /\ Apply(s, op, n).removes[e] =
                        IF op.kind = "remove" /\ e = op.element
                        THEN s.removes[e] \cup s.adds[e] ELSE s.removes[e]
<1>1. ASSUME NEW c \in Columns
      PROVE  /\ Count(s, c, n) \in State
             /\ Count(s, c, n).adds = s.adds /\ Count(s, c, n).removes = s.removes
             /\ \A d \in Columns, m \in Nodes :
                   Count(s, c, n).col[d][m] = IF d = c /\ m = n THEN s.col[d][m] + 1
                                              ELSE s.col[d][m]
  <2>1. s.col \in [Columns -> [Nodes -> Nat]]
    BY DEF State
  <2> DEFINE column == [s.col[c] EXCEPT ![n] = @ + 1]
             col == [s.col EXCEPT ![c] = column]
  <2>2. s.col[c] \in [Nodes -> Nat] /\ s.col[c][n] + 1 \in Nat
    BY <2>1
  <2>3. /\ column \in [Nodes -> Nat]
        /\ \A m \in Nodes : column[m] = IF m = n THEN s.col[c][m] + 1 ELSE s.col[c][m]
    BY <2>2
  <2> HIDE DEF column
  <2>4. /\ col \in [Columns -> [Nodes -> Nat]]
        /\ \A d \in Columns : col[d] = IF d = c THEN column ELSE s.col[d]
    BY <2>1, <2>3
  <2>5. Count(s, c, n) = [s EXCEPT !.col = col]
    BY DEF Count, col, column
  <2> HIDE DEF col
  <2>6. /\ Count(s, c, n).col = col /\ Count(s, c, n).adds = s.adds
        /\ Count(s, c, n).removes = s.removes /\ Count(s, c, n) \in State
    BY <2>4, <2>5 DEF State
  <2> QED BY <2>3, <2>4, <2>6
<1>2. ColumnOf(op) \in Columns /\ (op.kind = "add" => ColumnOf(op) = "clock")
  BY DEF ColumnOf, Columns
<1>3. "clock" \in Columns /\ NextTag(s, n) \in Tag
  BY DEF Columns, NextTag, Tag, State
<1>4. CASE op.kind \in {"inc", "dec"}
  <2>1. Apply(s, op, n) = Count(s, ColumnOf(op), n)
    BY <1>4 DEF Apply
  <2> QED BY <2>1, <1>1, <1>2, <1>4
<1>5. CASE op.kind = "add"
  <2>1. Apply(s, op, n) =
          [Count(s, "clock", n) EXCEPT !.adds[op.element] = @ \cup {NextTag(s, n)}]
    BY <1>5 DEF Apply
  <2>2. op.element \in Elements
    BY <1>5 DEF Op, CounterOps, SetOps
  <2> DEFINE k == Count(s, "clock", n)
  <2>3. k \in State /\ k.adds = s.adds /\ k.removes = s.removes
    BY <1>1, <1>3
  <2>4. /\ Apply(s, op, n).col = k.col /\ Apply(s, op, n).removes = k.removes
        /\ Apply(s, op, n).adds = [s.adds EXCEPT ![op.element] = @ \cup {NextTag(s, n)}]
        /\ Apply(s, op, n) \in State
    <3> DEFINE adds == [s.adds EXCEPT ![op.element] = @ \cup {NextTag(s, n)}]
    <3>1. s.adds \in [Elements -> SUBSET Tag]
      BY DEF State
    <3>2. adds \in [Elements -> SUBSET Tag]
      BY <3>1, <2>2, <1>3
    <3> HIDE DEF k
    <3>3. Apply(s, op, n) = [k EXCEPT !.adds = adds]
      BY <2>1, <2>3 DEF k
    <3> HIDE DEF adds
    <3>4. /\ Apply(s, op, n).col = k.col /\ Apply(s, op, n).removes = k.removes
          /\ Apply(s, op, n).adds = adds /\ Apply(s, op, n) \in State
      BY <3>2, <3>3, <2>3 DEF State
    <3> QED BY <3>4 DEF adds
  <2>5. s.adds \in [Elements -> SUBSET Tag]
    BY DEF State
  <2>6. \A c \in Columns, m \in Nodes :
           Apply(s, op, n).col[c][m] = IF c = "clock" /\ m = n THEN s.col[c][m] + 1
                                       ELSE s.col[c][m]
    BY <2>4, <1>1, <1>3
  <2>7. \A e \in Elements :
           /\ Apply(s, op, n).adds[e] = IF e = op.element THEN s.adds[e] \cup {NextTag(s, n)}
                                        ELSE s.adds[e]
           /\ Apply(s, op, n).removes[e] = s.removes[e]
    <3> HIDE DEF k
    <3> QED BY <2>2, <2>3, <2>4, <2>5
  <2> HIDE DEF k
  <2> QED BY <2>4, <2>6, <2>7, <1>2, <1>5, SMTT(30)
<1>6. CASE op.kind = "remove"
  <2>1. Apply(s, op, n) = [s EXCEPT !.removes[op.element] = @ \cup s.adds[op.element]]
    BY <1>6 DEF Apply
  <2>2. op.element \in Elements
    BY <1>6 DEF Op, CounterOps, SetOps
  <2> DEFINE removes == [s.removes EXCEPT ![op.element] = @ \cup s.adds[op.element]]
  <2>3. s.removes \in [Elements -> SUBSET Tag] /\ s.adds \in [Elements -> SUBSET Tag]
    BY DEF State
  <2>4. /\ removes \in [Elements -> SUBSET Tag]
        /\ \A e \in Elements : removes[e] = IF e = op.element THEN s.removes[e] \cup s.adds[e]
                                            ELSE s.removes[e]
    BY <2>2, <2>3
  <2>5. Apply(s, op, n) = [s EXCEPT !.removes = removes]
    BY <2>1
  <2> HIDE DEF removes
  <2>6. /\ Apply(s, op, n).col = s.col /\ Apply(s, op, n).adds = s.adds
        /\ Apply(s, op, n).removes = removes /\ Apply(s, op, n) \in State
    BY <2>4, <2>5 DEF State
  <2> QED BY <2>4, <2>6, <1>6
<1> QED BY <1>4, <1>5, <1>6 DEF Op, CounterOps, SetOps

\* Two states with the same parts are the same state.
LEMMA SameParts ==
    ASSUME NEW a \in State, NEW b \in State,
           \A c \in Columns, n \in Nodes : a.col[c][n] = b.col[c][n],
           \A e \in Elements : a.adds[e] = b.adds[e] /\ a.removes[e] = b.removes[e]
    PROVE  a = b
BY DEF State

\* Merging does not depend on the order of two states, on how three are grouped,
\* or on how often one arrives: what lets a replica apply states late, again and
\* out of order (PnCounter::merge, OrSet::merge, EwFlag::merge).
THEOREM MergeIsJoin ==
    ASSUME NEW a \in State, NEW b \in State, NEW d \in State
    PROVE  /\ Merge(a, b) = Merge(b, a)
           /\ Merge(Merge(a, b), d) = Merge(a, Merge(b, d))
           /\ Merge(Merge(a, b), b) = Merge(a, b)
<1>1. \A x, y \in State : Merge(x, y) \in State
  BY MergeParts
<1>2. \A c \in Columns, n \in Nodes :
         a.col[c][n] \in Nat /\ b.col[c][n] \in Nat /\ d.col[c][n] \in Nat
  BY DEF State
<1>3. Merge(a, b) = Merge(b, a)
  <2>1. \A c \in Columns, n \in Nodes : Merge(a, b).col[c][n] = Merge(b, a).col[c][n]
    <3>1. \A c \in Columns, n \in Nodes :
             /\ Merge(a, b).col[c][n] = Larger(a.col[c][n], b.col[c][n])
             /\ Merge(b, a).col[c][n] = Larger(b.col[c][n], a.col[c][n])
      BY MergeParts
    <3> QED BY <3>1, <1>2 DEF Larger
  <2>2. \A e \in Elements : /\ Merge(a, b).adds[e] = Merge(b, a).adds[e]
                            /\ Merge(a, b).removes[e] = Merge(b, a).removes[e]
    <3>1. \A e \in Elements :
             /\ Merge(a, b).adds[e] = a.adds[e] \cup b.adds[e]
             /\ Merge(b, a).adds[e] = b.adds[e] \cup a.adds[e]
             /\ Merge(a, b).removes[e] = a.removes[e] \cup b.removes[e]
             /\ Merge(b, a).removes[e] = b.removes[e] \cup a.removes[e]
      BY MergeParts
    <3> QED BY <3>1
  <2> QED BY <1>1, <2>1, <2>2, SameParts
<1>4. Merge(Merge(a, b), d) = Merge(a, Merge(b, d))
  <2> DEFINE l == Merge(Merge(a, b), d)
             r == Merge(a, Merge(b, d))
  <2>1. \A c \in Columns, n \in Nodes : l.col[c][n] = r.col[c][n]
    <3>1. \A c \in Columns, n \in Nodes :
             /\ l.col[c][n] = Larger(Larger(a.col[c][n], b.col[c][n]), d.col[c][n])
             /\ r.col[c][n] = Larger(a.col[c][n], Larger(b.col[c][n], d.col[c][n]))
      BY <1>1, MergeParts
    <3> QED BY <3>1, <1>2 DEF Larger
  <2>2. \A e \in Elements : l.adds[e] = r.adds[e] /\ l.removes[e] = r.removes[e]
    <3>1. \A e \in Elements :
             /\ l.adds[e] = (a.adds[e] \cup b.adds[e]) \cup d.adds[e]
             /\ r.adds[e] = a.adds[e] \cup (b.adds[e] \cup d.adds[e])
             /\ l.removes[e] = (a.removes[e] \cup b.removes[e]) \cup d.removes[e]
             /\ r.removes[e] = a.removes[e] \cup (b.removes[e] \cup d.removes[e])
      BY <1>1, MergeParts
    <3> QED BY <3>1, ZenonT(60)
  <2>3. l \in State /\ r \in State
    BY <1>1
  <2> HIDE DEF l, r
  <2>4. l = r
    BY <2>1, <2>2, <2>3, SameParts
  <2> QED BY <2>4 DEF l, r
<1>5. Merge(Merge(a, b), b) = Merge(a, b)
  <2> DEFINE l == Merge(Merge(a, b), b)
             r == Merge(a, b)
  <2>1. \A c \in Columns, n \in Nodes : l.col[c][n] = r.col[c][n]
    <3>1. \A c \in Columns, n \in Nodes :
             /\ l.col[c][n] = Larger(Larger(a.col[c][n], b.col[c][n]), b.col[c][n])
             /\ r.col[c][n] = Larger(a.col[c][n], b.col[c][n])
      BY <1>1, MergeParts
    <3> QED BY <3>1, <1>2 DEF Larger
  <2>2. \A e \in Elements : l.adds[e] = r.adds[e] /\ l.removes[e] = r.removes[e]
    <3>1. \A e \in Elements :
             /\ l.adds[e] = (a.adds[e] \cup b.adds[e]) \cup b.adds[e]
             /\ r.adds[e] = a.adds[e] \cup b.adds[e]
             /\ l.removes[e] = (a.removes[e] \cup b.removes[e]) \cup b.removes[e]
             /\ r.removes[e] = a.removes[e] \cup b.removes[e]
      BY <1>1, MergeParts
    <3> QED BY <3>1
  <2>3. l \in State /\ r \in State
    BY <1>1
  <2> HIDE DEF l, r
  <2>4. l = r
    BY <2>1, <2>2, <2>3, SameParts
  <2> QED BY <2>4 DEF l, r
<1> QED BY <1>3, <1>4, <1>5

-----------------------------------------------------------------------------
(* Type correctness. *)

\* What Write stores is a state at a node.
LEMMA WriteType ==
    ASSUME TypeOK, NEW n \in Nodes, NEW seen, NEW new \in State, Write(n, seen, new)
    PROVE  store' \in [Nodes -> State] /\ raced' \subseteq Nodes
BY DEF TypeOK, Write

\* What a fetch keeps.
FetchState == [pc : {"idle", "ask", "repair", "done"}, seen : State,
               merged : State, asked : SUBSET Nodes]

\* A fetch whose next state is one keeps the type of `fetch`.
LEMMA FetchType ==
    ASSUME TypeOK, NEW f \in Fetches, NEW new \in FetchState,
           fetch' = [fetch EXCEPT ![f] = new]
    PROVE  fetch' \in [Fetches -> FetchState]
<1>1. fetch \in [Fetches -> FetchState]
  BY DEF TypeOK, FetchState
<1> QED BY <1>1

\* What the steps of a fetch make of its state is one.
LEMMA FetchMade ==
    ASSUME NEW x \in FetchState, NEW st \in State, NEW r \in Nodes
    PROVE  /\ [x EXCEPT !.pc = "ask", !.merged = st] \in FetchState
           /\ [x EXCEPT !.pc = "repair", !.seen = st] \in FetchState
           /\ [x EXCEPT !.pc = "done", !.seen = st] \in FetchState
           /\ [x EXCEPT !.asked = @ \cup {r}, !.merged = st] \in FetchState
<1>1. [x EXCEPT !.pc = "ask", !.merged = st] \in FetchState
  BY DEF FetchState
<1>2. [x EXCEPT !.pc = "repair", !.seen = st] \in FetchState
  BY DEF FetchState
<1>3. [x EXCEPT !.pc = "done", !.seen = st] \in FetchState
  BY DEF FetchState
<1>4. [x EXCEPT !.asked = @ \cup {r}, !.merged = st] \in FetchState
  BY DEF FetchState
<1> QED BY <1>1, <1>2, <1>3, <1>4

\* Every step keeps the types.
LEMMA TypeStep ==
    ASSUME TypeOK, [Next]_vars
    PROVE  TypeOK'
<1> USE EmptyState
<1>1. \A x, y \in State : Merge(x, y) \in State
  BY MergeParts
<1>2. \A l \in Links : l[1] \in Nodes /\ l[2] \in Nodes
  BY DEF Links
<1>3. \A x \in Updates \cup Fetches : AtNode[x] \in Nodes
  BY Shape
<1>4. ASSUME NEW u \in Updates, UpdateRead(u) PROVE TypeOK'
  BY <1>4, <1>3 DEF UpdateRead, TypeOK
<1>5. ASSUME NEW u \in Updates, UpdateWrite(u) PROVE TypeOK'
  <2> DEFINE n == AtNode[u]
             new == Apply(upd[u].seen, OpOf[u], n)
  <2>1. OpOf[u] \in Op /\ n \in Nodes /\ upd[u].seen \in State
    BY Shape, <1>3 DEF Op, TypeOK
  <2>2. new \in State
    BY <2>1, ApplyParts
  <2>3. store' \in [Nodes -> State] /\ raced' \subseteq Nodes
    BY <1>5, <2>1, <2>2, WriteType DEF UpdateWrite
  <2>4. chan' \in [Links -> Seq(State)]
    <3> HIDE DEF new
    <3>1. chan' = [link \in Links |-> IF link[1] = n THEN Append(chan[link], new) ELSE chan[link]]
      BY <1>5 DEF UpdateWrite, new
    <3>2. \A l \in Links : chan[l] \in Seq(State) /\ Append(chan[l], new) \in Seq(State)
      BY <2>2, AppendProperties DEF TypeOK
    <3> QED BY <3>1, <3>2
  <2>5. upd' \in [Updates -> [pc : {"idle", "read", "done", "failed"}, seen : State]]
    BY <1>5 DEF UpdateWrite, TypeOK
  <2>6. accepted' \in [Columns -> [Nodes -> Nat]]
    <3>1. ColumnOf(OpOf[u]) \in Columns
      BY DEF ColumnOf, Columns
    <3> DEFINE c == ColumnOf(OpOf[u])
               column == [accepted[c] EXCEPT ![n] = accepted[c][n] + 1]
    <3>2. accepted' = accepted \/ accepted' = [accepted EXCEPT ![c] = column]
      BY <1>5 DEF UpdateWrite
    <3>3. accepted \in [Columns -> [Nodes -> Nat]]
      BY DEF TypeOK
    <3> HIDE DEF c, n
    <3>4. column \in [Nodes -> Nat]
      BY <2>1, <3>1, <3>3 DEF c
    <3> HIDE DEF column
    <3> QED BY <3>1, <3>2, <3>3, <3>4 DEF c
  <2>7. minted' \subseteq [update : Updates, tag : Tag]
    <3>1. NextTag(upd[u].seen, n) \in Tag
      BY <2>1 DEF NextTag, Tag, State, Columns
    <3> QED BY <1>5, <3>1 DEF UpdateWrite, TypeOK
  <2>8. observed' \subseteq Updates
    BY <1>5 DEF UpdateWrite, TypeOK
  <2>9. type' = type /\ merging' = merging /\ fetch' = fetch /\ drops' = drops
    BY <1>5 DEF UpdateWrite
  <2> HIDE DEF new
  <2> QED BY <2>3, <2>4, <2>5, <2>6, <2>7, <2>8, <2>9 DEF TypeOK
<1>6. ASSUME NEW u \in Updates, UpdateFail(u) PROVE TypeOK'
  BY <1>6 DEF UpdateFail, TypeOK
<1>7. ASSUME NEW l \in Links, MergeRead(l) PROVE TypeOK'
  BY <1>7, <1>2 DEF MergeRead, TypeOK
<1>8. ASSUME NEW l \in Links, MergeWrite(l) PROVE TypeOK'
  <2>1. /\ chan[l] \in Seq(State) /\ Head(chan[l]) \in State /\ Tail(chan[l]) \in Seq(State)
        /\ merging[l].seen \in State
    BY <1>8, HeadTailProperties DEF TypeOK, MergeWrite
  <2>2. Merge(merging[l].seen, Head(chan[l])) \in State
    BY <2>1, <1>1
  <2>3. store' \in [Nodes -> State] /\ raced' \subseteq Nodes
    BY <1>2, <1>8, <2>2, WriteType DEF MergeWrite
  <2> QED BY <1>8, <2>1, <2>3 DEF MergeWrite, TypeOK, Unread
<1>9. ASSUME NEW l \in Links, Drop(l) PROVE TypeOK'
  <2>1. Tail(chan[l]) \in Seq(State)
    BY <1>9, HeadTailProperties DEF TypeOK, Drop
  <2> QED BY <1>9, <2>1 DEF Drop, TypeOK, Unread
<1>10. ASSUME NEW f \in Fetches, FetchBegin(f) PROVE TypeOK'
  <2>1. PICK local \in {store[AtNode[f]], Empty} :
          fetch' = [fetch EXCEPT ![f] = [fetch[f] EXCEPT !.pc = "ask", !.merged = local]]
    BY <1>10 DEF FetchBegin
  <2>2. local \in State /\ fetch[f] \in FetchState
    BY <1>3, <2>1 DEF TypeOK, FetchState
  <2>3. AtNode[f] \in Nodes
    BY <1>3
  <2>4. [fetch[f] EXCEPT !.pc = "ask", !.merged = local] \in FetchState
    BY ONLY <2>2, <2>3, FetchMade
  <2>5. fetch' \in [Fetches -> FetchState]
    BY ONLY TypeOK, <2>1, <2>4, FetchType
  <2> QED BY <1>10, <2>5 DEF FetchBegin, TypeOK, FetchState
<1>11. ASSUME NEW f \in Fetches, FetchRepairRead(f) \/ FetchUnrepaired(f) PROVE TypeOK'
  <2>1. fetch[f] \in FetchState /\ AtNode[f] \in Nodes /\ store[AtNode[f]] \in State
    BY <1>3 DEF TypeOK, FetchState
  <2>2. PICK new \in {[fetch[f] EXCEPT !.pc = "repair", !.seen = store[AtNode[f]]],
                      [fetch[f] EXCEPT !.pc = "done", !.seen = Empty]} :
           fetch' = [fetch EXCEPT ![f] = new]
    BY <1>11 DEF FetchRepairRead, FetchUnrepaired
  <2>3. new \in FetchState
    BY ONLY <2>1, <2>2, FetchMade, EmptyState
  <2>4. fetch' \in [Fetches -> FetchState]
    BY ONLY TypeOK, <2>2, <2>3, FetchType
  <2>5. UNCHANGED <<type, store, chan, merging, upd, drops, accepted, minted, observed, raced>>
    BY <1>11 DEF FetchRepairRead, FetchUnrepaired
  <2> QED BY <2>4, <2>5 DEF TypeOK, FetchState
<1>12. ASSUME NEW f \in Fetches, FetchRepairWrite(f) PROVE TypeOK'
  <2>1. Merge(fetch[f].seen, fetch[f].merged) \in State
    BY <1>1 DEF TypeOK
  <2>2. store' \in [Nodes -> State] /\ raced' \subseteq Nodes
    BY <1>3, <1>12, <2>1, WriteType DEF FetchRepairWrite
  <2>3. /\ fetch' = [fetch EXCEPT ![f] = [fetch[f] EXCEPT !.pc = "done", !.seen = Empty]]
        /\ UNCHANGED <<type, chan, merging, upd, drops, accepted, minted, observed>>
    BY <1>12 DEF FetchRepairWrite
  <2>4. fetch[f] \in FetchState /\ AtNode[f] \in Nodes
    BY <1>3 DEF TypeOK, FetchState
  <2>5. [fetch[f] EXCEPT !.pc = "done", !.seen = Empty] \in FetchState
    BY ONLY <2>4, FetchMade, EmptyState
  <2>6. fetch' \in [Fetches -> FetchState]
    BY ONLY TypeOK, <2>3, <2>5, FetchType
  <2> QED BY <2>2, <2>3, <2>6 DEF TypeOK, FetchState
<1>13. ASSUME NEW f \in Fetches, NEW r \in Nodes, FetchAsk(f, r) PROVE TypeOK'
  <2>1. Merge(fetch[f].merged, store[r]) \in State
    BY <1>1 DEF TypeOK
  <2>2. PICK merged \in {Merge(fetch[f].merged, store[r]), fetch[f].merged} :
           fetch' = [fetch EXCEPT ![f] =
             [fetch[f] EXCEPT !.asked = fetch[f].asked \cup {r}, !.merged = merged]]
    BY <1>13 DEF FetchAsk
  <2>3. merged \in State /\ fetch[f] \in FetchState
    BY <2>1, <2>2 DEF TypeOK, FetchState
  <2>4. [fetch[f] EXCEPT !.asked = fetch[f].asked \cup {r}, !.merged = merged] \in FetchState
    BY ONLY <2>3, FetchMade
  <2>5. fetch' \in [Fetches -> FetchState]
    BY ONLY TypeOK, <2>2, <2>4, FetchType
  <2> QED BY <1>13, <2>5 DEF FetchAsk, TypeOK, FetchState
<1>14. CASE UNCHANGED vars
  BY <1>14 DEF vars, TypeOK
<1> QED BY <1>4, <1>5, <1>6, <1>7, <1>8, <1>9, <1>10, <1>11, <1>12, <1>13, <1>14 DEF Next

\* The variables have their types in every reachable state (the handlers of
\* server.rs, CrdtStore, ReplicaApplier).
THEOREM TypeCorrect == Spec => []TypeOK
<1>1. Init => TypeOK
  BY EmptyState DEF Init, TypeOK, Unread, NoColumn
<1>2. TypeOK /\ [Next]_vars => TypeOK'
  BY TypeStep
<1> QED BY <1>1, <1>2, PTL DEF Spec

-----------------------------------------------------------------------------
(* Where the states of a step come from. *)

\* The states of the next state lie in S when each part of it does.
LEMMA StatesWithin ==
    ASSUME NEW S,
           \A n \in Nodes : store'[n] \in S,
           \A u \in Updates : upd'[u].seen \in S,
           \A l \in Links : merging'[l].seen \in S,
           \A f \in Fetches : fetch'[f].seen \in S /\ fetch'[f].merged \in S,
           \A l \in Links : \A i \in DOMAIN chan'[l] : chan'[l][i] \in S
    PROVE  \A s \in States' : s \in S
BY DEF States

\* The parts of a state are among its states.
LEMMA InStates ==
    /\ \A n \in Nodes : store[n] \in States
    /\ \A u \in Updates : upd[u].seen \in States
    /\ \A l \in Links : merging[l].seen \in States
    /\ \A f \in Fetches : fetch[f].seen \in States /\ fetch[f].merged \in States
    /\ \A l \in Links : \A i \in DOMAIN chan[l] : chan[l][i] \in States
BY DEF States

\* All of them are states.
LEMMA StatesTyped == TypeOK => States \subseteq State
BY ElementOfSeq DEF TypeOK, States

\* What a queue holds after its head is taken, or a state put at its end.
LEMMA QueueStep ==
    ASSUME NEW q \in Seq(State), NEW s \in State
    PROVE  /\ q # <<>> => /\ Head(q) \in {q[i] : i \in DOMAIN q}
                          /\ \A i \in DOMAIN Tail(q) : Tail(q)[i] \in {q[j] : j \in DOMAIN q}
           /\ \A i \in DOMAIN Append(q, s) :
                 Append(q, s)[i] = s \/ Append(q, s)[i] \in {q[j] : j \in DOMAIN q}
<1>1. /\ DOMAIN q = 1..Len(q) /\ Len(q) \in Nat
      /\ q # <<>> => Len(q) >= 1
  OBVIOUS
<1>2. ASSUME q # <<>>, NEW i \in DOMAIN Tail(q)
      PROVE  i + 1 \in DOMAIN q /\ Tail(q)[i] = q[i + 1]
  BY <1>1, <1>2
<1>3. ASSUME q # <<>> PROVE 1 \in DOMAIN q /\ Head(q) = q[1]
  BY <1>1, <1>3
<1>4. ASSUME NEW i \in DOMAIN Append(q, s)
      PROVE  Append(q, s)[i] = s \/ (i \in DOMAIN q /\ Append(q, s)[i] = q[i])
  BY <1>1, AppendProperties
<1> QED BY <1>2, <1>3, <1>4

\* The states, the empty one, and what merging two of them gives.
Reach == States \cup {Empty} \cup {Merge(x, y) : x \in States, y \in States}

\* A step that is not an accepted update counts nothing, and its states are
\* old, empty, or merged from old ones; a node whose write lost nothing keeps
\* its state or merges another into it.
LEMMA MergeStep ==
    ASSUME TypeOK, [Next]_vars, \A u \in Updates : ~UpdateWrite(u)
    PROVE  /\ accepted' = accepted /\ minted' = minted /\ observed' = observed
           /\ raced \subseteq raced'
           /\ \A s \in States' : s \in Reach
           /\ \A n \in Nodes \ raced' :
                 store'[n] = store[n] \/ \E y \in States : store'[n] = Merge(store[n], y)
<1> DEFINE Goal == /\ accepted' = accepted /\ minted' = minted /\ observed' = observed
                   /\ raced \subseteq raced'
                   /\ \A s \in States' : s \in Reach
                   /\ \A n \in Nodes \ raced' :
                         store'[n] = store[n] \/ \E y \in States : store'[n] = Merge(store[n], y)
<1>1. States \subseteq Reach /\ Empty \in Reach
      /\ \A x, y \in States : Merge(x, y) \in Reach
  BY DEF Reach
<1>2. /\ \A n \in Nodes : store[n] \in Reach
      /\ \A u \in Updates : upd[u].seen \in Reach
      /\ \A l \in Links : merging[l].seen \in Reach
      /\ \A f \in Fetches : fetch[f].seen \in Reach /\ fetch[f].merged \in Reach
      /\ \A l \in Links : \A i \in DOMAIN chan[l] : chan[l][i] \in Reach
  BY <1>1, InStates
<1>3. \A l \in Links : l[1] \in Nodes /\ l[2] \in Nodes
  BY DEF Links
<1>4. \A x \in Updates \cup Fetches : AtNode[x] \in Nodes
  BY Shape
<1>5. ASSUME NEW n \in Nodes, NEW seen, NEW y \in States, Write(n, seen, Merge(seen, y)),
             seen \in States
      PROVE  /\ \A m \in Nodes : store'[m] \in Reach
             /\ raced \subseteq raced'
             /\ \A m \in Nodes \ raced' :
                   store'[m] = store[m] \/ \E z \in States : store'[m] = Merge(store[m], z)
  <2>1. /\ store' = [store EXCEPT ![n] = Merge(seen, y)]
        /\ raced' = IF seen = store[n] THEN raced ELSE raced \cup {n}
    BY <1>5 DEF Write
  <2>2. \A m \in Nodes : store'[m] = IF m = n THEN Merge(seen, y) ELSE store[m]
    BY <2>1 DEF TypeOK
  <2> QED BY <1>1, <1>2, <1>5, <2>1, <2>2
<1>6. ASSUME NEW u \in Updates, UpdateRead(u) \/ UpdateFail(u) PROVE Goal
  <2>1. \A v \in Updates : upd'[v].seen \in {upd[v].seen, Empty, store[AtNode[u]]}
    <3>1. CASE UpdateRead(u)
      BY <3>1 DEF UpdateRead, TypeOK
    <3>2. CASE UpdateFail(u)
      BY <3>2 DEF UpdateFail, TypeOK
    <3> QED BY <1>6, <3>1, <3>2
  <2>2. \A v \in Updates : upd'[v].seen \in Reach
    BY <2>1, <1>1, <1>2, <1>4
  <2>3. UNCHANGED <<store, chan, merging, fetch, accepted, minted, observed, raced>>
    BY <1>6 DEF UpdateRead, UpdateFail
  <2>4. \A s \in States' : s \in Reach
    BY <1>2, <2>2, <2>3, StatesWithin
  <2> QED BY <2>3, <2>4
<1>7. ASSUME NEW l \in Links, MergeRead(l) PROVE Goal
  <2>1. \A k \in Links : merging'[k].seen \in {merging[k].seen, store[l[2]]}
    BY <1>7 DEF MergeRead, TypeOK
  <2>2. \A k \in Links : merging'[k].seen \in Reach
    BY <2>1, <1>2, <1>3
  <2>3. UNCHANGED <<store, chan, upd, fetch, accepted, minted, observed, raced>>
    BY <1>7 DEF MergeRead
  <2>4. \A s \in States' : s \in Reach
    BY <1>2, <2>2, <2>3, StatesWithin
  <2> QED BY <2>3, <2>4
<1>8. ASSUME NEW l \in Links, MergeWrite(l) \/ Drop(l) PROVE Goal
  <2>1. /\ chan[l] \in Seq(State) /\ chan[l] # <<>>
        /\ chan' = [chan EXCEPT ![l] = Tail(chan[l])]
        /\ merging' = [merging EXCEPT ![l] = Unread]
        /\ UNCHANGED <<upd, fetch, accepted, minted, observed>>
    BY <1>8 DEF MergeWrite, Drop, TypeOK
  <2>2. /\ Head(chan[l]) \in {chan[l][i] : i \in DOMAIN chan[l]}
        /\ \A i \in DOMAIN Tail(chan[l]) : Tail(chan[l])[i] \in {chan[l][j] : j \in DOMAIN chan[l]}
    BY <2>1, QueueStep, EmptyState
  <2>3. Head(chan[l]) \in States
    BY <2>2, InStates
  <2>4. \A k \in Links : chan'[k] = IF k = l THEN Tail(chan[l]) ELSE chan[k]
    BY <2>1 DEF TypeOK
  <2>5. \A k \in Links : \A i \in DOMAIN chan'[k] : chan'[k][i] \in Reach
    <3>1. \A i \in DOMAIN chan'[l] : chan'[l][i] \in Reach
      <4>1. \A i \in DOMAIN Tail(chan[l]) : Tail(chan[l])[i] \in Reach
        BY <1>2, <2>2
      <4>2. chan'[l] = Tail(chan[l])
        BY <2>4
      <4> QED BY <4>1, <4>2
    <3>2. ASSUME NEW k \in Links, k # l PROVE \A i \in DOMAIN chan'[k] : chan'[k][i] \in Reach
      <4>1. chan'[k] = chan[k]
        BY <2>4, <3>2
      <4> QED BY <1>2, <4>1
    <3> QED BY <3>1, <3>2
  <2>6. \A k \in Links : merging'[k].seen \in {merging[k].seen, Empty}
    BY <2>1 DEF TypeOK, Unread
  <2>7. \A k \in Links : merging'[k].seen \in Reach
    BY <2>6, <1>1, <1>2
  <2>8. /\ \A m \in Nodes : store'[m] \in Reach
        /\ raced \subseteq raced'
        /\ \A m \in Nodes \ raced' :
              store'[m] = store[m] \/ \E z \in States : store'[m] = Merge(store[m], z)
    <3>1. CASE MergeWrite(l)
      BY <1>3, <1>5, <2>3, <3>1, InStates DEF MergeWrite
    <3>2. CASE Drop(l)
      BY <1>2, <3>2 DEF Drop
    <3> QED BY <1>8, <3>1, <3>2
  <2>9. \A s \in States' : s \in Reach
    BY <1>2, <2>1, <2>5, <2>7, <2>8, StatesWithin
  <2> QED BY <2>1, <2>8, <2>9
<1>9. ASSUME NEW f \in Fetches, FetchBegin(f) \/ FetchRepairRead(f) \/ FetchUnrepaired(f)
      PROVE  Goal
  <2>1. \A g \in Fetches : /\ fetch'[g].seen \in {fetch[g].seen, store[AtNode[f]], Empty}
                            /\ fetch'[g].merged \in {fetch[g].merged, store[AtNode[f]], Empty}
    <3>1. CASE FetchBegin(f)
      <4>1. PICK local \in {store[AtNode[f]], Empty} :
              fetch' = [fetch EXCEPT ![f] = [fetch[f] EXCEPT !.pc = "ask", !.merged = local]]
        BY <3>1 DEF FetchBegin
      <4> QED BY <4>1 DEF TypeOK
    <3>2. CASE FetchRepairRead(f)
      BY <3>2 DEF FetchRepairRead, TypeOK
    <3>3. CASE FetchUnrepaired(f)
      BY <3>3 DEF FetchUnrepaired, TypeOK
    <3> QED BY <1>9, <3>1, <3>2, <3>3
  <2>2. \A g \in Fetches : fetch'[g].seen \in Reach /\ fetch'[g].merged \in Reach
    BY <2>1, <1>1, <1>2, <1>4
  <2>3. UNCHANGED <<store, chan, upd, merging, accepted, minted, observed, raced>>
    BY <1>9 DEF FetchBegin, FetchRepairRead, FetchUnrepaired
  <2>4. \A s \in States' : s \in Reach
    BY <1>2, <2>2, <2>3, StatesWithin
  <2> QED BY <2>3, <2>4
<1>10. ASSUME NEW f \in Fetches, NEW r \in Nodes, FetchAsk(f, r) PROVE Goal
  <2>1. PICK merged \in {Merge(fetch[f].merged, store[r]), fetch[f].merged} :
           fetch' = [fetch EXCEPT ![f] =
             [fetch[f] EXCEPT !.asked = fetch[f].asked \cup {r}, !.merged = merged]]
    BY <1>10 DEF FetchAsk
  <2>2. merged \in Reach
    BY <1>1, <1>2, <2>1, InStates
  <2>3. \A g \in Fetches : /\ fetch'[g].seen = fetch[g].seen
                            /\ fetch'[g].merged \in {fetch[g].merged, merged}
    BY <2>1 DEF TypeOK
  <2>4. UNCHANGED <<store, chan, upd, merging, accepted, minted, observed, raced>>
    BY <1>10 DEF FetchAsk
  <2>5. \A g \in Fetches : fetch'[g].seen \in Reach /\ fetch'[g].merged \in Reach
    BY <1>2, <2>2, <2>3
  <2>6. \A s \in States' : s \in Reach
    BY <1>2, <2>4, <2>5, StatesWithin
  <2> QED BY <2>4, <2>6
<1>11. ASSUME NEW f \in Fetches, FetchRepairWrite(f) PROVE Goal
  <2>1. \A g \in Fetches : /\ fetch'[g].seen \in {fetch[g].seen, Empty}
                            /\ fetch'[g].merged = fetch[g].merged
    BY <1>11 DEF FetchRepairWrite, TypeOK
  <2>2. \A g \in Fetches : fetch'[g].seen \in Reach /\ fetch'[g].merged \in Reach
    BY <1>1, <1>2, <2>1
  <2>3. UNCHANGED <<chan, upd, merging, accepted, minted, observed>>
    BY <1>11 DEF FetchRepairWrite
  <2>4. /\ \A m \in Nodes : store'[m] \in Reach
        /\ raced \subseteq raced'
        /\ \A m \in Nodes \ raced' :
              store'[m] = store[m] \/ \E z \in States : store'[m] = Merge(store[m], z)
    BY <1>4, <1>5, <1>11, InStates DEF FetchRepairWrite
  <2>5. \A s \in States' : s \in Reach
    BY <1>2, <2>2, <2>3, <2>4, StatesWithin
  <2> QED BY <2>3, <2>4, <2>5
<1>12. ASSUME UNCHANGED vars PROVE Goal
  <2>1. UNCHANGED <<store, chan, upd, merging, fetch, accepted, minted, observed, raced>>
    BY <1>12 DEF vars
  <2>2. \A s \in States' : s \in Reach
    BY <1>2, <2>1, StatesWithin
  <2> QED BY <2>1, <2>2
<1>13. Goal
  <2> HIDE DEF Goal
  <2>1. Next \/ UNCHANGED vars
    OBVIOUS
  <2> QED BY <1>6, <1>7, <1>8, <1>9, <1>10, <1>11, <1>12, <2>1 DEF Next
<1> QED BY <1>13

\* An accepted update adds one state, its own, and stores it at its node, whose
\* write lost nothing when the update had read what the node stores.
LEMMA AcceptStep ==
    ASSUME TypeOK, NEW u \in Updates, UpdateWrite(u)
    PROVE  /\ \A s \in States' :
                 s \in States \cup {Empty, Apply(upd[u].seen, OpOf[u], AtNode[u])}
           /\ raced \subseteq raced'
           /\ \A m \in Nodes : store'[m] = IF m = AtNode[u]
                                          THEN Apply(upd[u].seen, OpOf[u], AtNode[u])
                                          ELSE store[m]
           /\ AtNode[u] \notin raced' => upd[u].seen = store[AtNode[u]]
<1> DEFINE n == AtNode[u]
           new == Apply(upd[u].seen, OpOf[u], n)
           S == States \cup {Empty, new}
<1>1. n \in Nodes /\ upd[u].seen \in State /\ OpOf[u] \in Op
  BY Shape DEF Op, TypeOK
<1>2. new \in State
  BY <1>1, ApplyParts, ZenonT(30)
<1> HIDE DEF new
<1>3. /\ store' = [store EXCEPT ![n] = new]
      /\ raced' = IF upd[u].seen = store[n] THEN raced ELSE raced \cup {n}
      /\ upd' = [upd EXCEPT ![u] = [pc |-> "done", seen |-> Empty]]
      /\ chan' = [link \in Links |-> IF link[1] = n THEN Append(chan[link], new) ELSE chan[link]]
      /\ UNCHANGED <<merging, fetch>>
  BY DEF UpdateWrite, Write, new
<1>4. \A m \in Nodes : store'[m] = IF m = n THEN new ELSE store[m]
  BY <1>3 DEF TypeOK
<1>5. \A v \in Updates : upd'[v].seen \in {Empty, upd[v].seen}
  BY <1>3 DEF TypeOK
<1>6. \A l \in Links : \A i \in DOMAIN chan'[l] : chan'[l][i] \in S
  <2> SUFFICES ASSUME NEW l \in Links PROVE \A i \in DOMAIN chan'[l] : chan'[l][i] \in S
    OBVIOUS
  <2>1. chan[l] \in Seq(State) /\ \A i \in DOMAIN chan[l] : chan[l][i] \in States
    BY InStates DEF TypeOK
  <2>2. \A i \in DOMAIN Append(chan[l], new) : Append(chan[l], new)[i] \in S
    BY <1>2, <2>1, QueueStep
  <2>3. chan'[l] \in {chan[l], Append(chan[l], new)}
    BY <1>3
  <2> QED BY <2>1, <2>2, <2>3
<1>7. /\ \A m \in Nodes : store'[m] \in S
      /\ \A v \in Updates : upd'[v].seen \in S
      /\ \A l \in Links : merging'[l].seen \in S
      /\ \A f \in Fetches : fetch'[f].seen \in S /\ fetch'[f].merged \in S
  BY <1>3, <1>4, <1>5, InStates
<1> HIDE DEF S
<1>8. \A s \in States' : s \in S
  BY <1>6, <1>7, StatesWithin
<1> QED BY <1>3, <1>4, <1>8 DEF S, new

-----------------------------------------------------------------------------
(* The inductive invariant. *)

\* A tag is of the node that minted it, and the node counted it.
MintedOk ==
    \A m \in minted :
        /\ OpOf[m.update].kind = "add"
        /\ m.tag[1] = AtNode[m.update]
        /\ m.tag[2] <= accepted["clock"][AtNode[m.update]]

\* A tombstone of an add at a node that lost nothing comes from a remove that
\* had read the add.
Tombstones ==
    \A s \in States : \A e \in Elements : \A m \in minted :
        (m.tag \in s.removes[e] /\ OpOf[m.update].element = e
            /\ AtNode[m.update] \notin raced) => m.update \in observed

Inv == TypeOK /\ NoDoubleCount /\ MintedOk /\ AcceptedKept /\ Tombstones

\* Merging bounded states gives a bounded one.
LEMMA BoundedMerge ==
    ASSUME TypeOK, NEW a \in State, NEW b \in State, Bounded(a), Bounded(b)
    PROVE  Bounded(Merge(a, b))
<1>1. \A c \in Columns, n \in Nodes : Merge(a, b).col[c][n] <= accepted[c][n]
  <2>1. \A c \in Columns, n \in Nodes : Merge(a, b).col[c][n] \in {a.col[c][n], b.col[c][n]}
    BY MergeParts DEF Larger
  <2> QED BY <2>1 DEF Bounded
<1>2. \A e \in Elements : \A t \in Merge(a, b).adds[e] \cup Merge(a, b).removes[e] :
         t[2] <= accepted["clock"][t[1]]
  <2>1. \A e \in Elements : /\ Merge(a, b).adds[e] = a.adds[e] \cup b.adds[e]
                             /\ Merge(a, b).removes[e] = a.removes[e] \cup b.removes[e]
    BY MergeParts
  <2> QED BY <2>1 DEF Bounded
<1> QED BY <1>1, <1>2 DEF Bounded

\* The empty state is bounded.
LEMMA BoundedEmpty ==
    ASSUME TypeOK
    PROVE  Bounded(Empty)
BY DEF Bounded, Empty, NoColumn, TypeOK, Columns

\* A step that accepts no update keeps the invariant.
LEMMA InvMerge ==
    ASSUME Inv, [Next]_vars, TypeOK', \A u \in Updates : ~UpdateWrite(u)
    PROVE  Inv'
<1>1. /\ accepted' = accepted /\ minted' = minted /\ observed' = observed
      /\ raced \subseteq raced'
      /\ \A s \in States' : s \in Reach
      /\ \A n \in Nodes \ raced' :
            store'[n] = store[n] \/ \E y \in States : store'[n] = Merge(store[n], y)
  BY MergeStep DEF Inv
<1>2. States \subseteq State /\ \A s \in States : Bounded(s)
  BY StatesTyped DEF Inv, NoDoubleCount
<1>3. \A s \in Reach : Bounded(s)
  BY <1>2, BoundedMerge, BoundedEmpty DEF Inv, Reach
<1>5. NoDoubleCount'
  <2>1. \A s \in States' : Bounded(s)
    BY <1>1, <1>3
  <2> QED BY <1>1, <2>1 DEF NoDoubleCount, Bounded
<1>6. MintedOk'
  BY <1>1 DEF Inv, MintedOk
<1>7. AcceptedKept'
  <2> SUFFICES ASSUME NEW n \in Nodes \ raced'
               PROVE  /\ \A c \in Columns : store'[n].col[c][n] = accepted[c][n]
                      /\ \A m \in minted : AtNode[m.update] = n =>
                            /\ m.tag \in store'[n].adds[OpOf[m.update].element]
                            /\ \A k \in minted : k.tag = m.tag => k = m
    BY <1>1 DEF AcceptedKept
  <2>1. n \in Nodes \ raced
    BY <1>1
  <2>2. /\ \A c \in Columns : store[n].col[c][n] = accepted[c][n]
        /\ \A m \in minted : AtNode[m.update] = n =>
              /\ m.tag \in store[n].adds[OpOf[m.update].element]
              /\ \A k \in minted : k.tag = m.tag => k = m
    BY <2>1 DEF Inv, AcceptedKept
  <2>3. CASE store'[n] = store[n]
    BY <2>2, <2>3
  <2>4. ASSUME NEW y \in States, store'[n] = Merge(store[n], y)
        PROVE  /\ \A c \in Columns : store'[n].col[c][n] = accepted[c][n]
               /\ \A e \in Elements : store[n].adds[e] \subseteq store'[n].adds[e]
    <3>1. store[n] \in State /\ y \in State /\ Bounded(y)
      BY <1>2, <2>1 DEF Inv, TypeOK
    <3>2. \A c \in Columns : /\ store'[n].col[c][n] = Larger(store[n].col[c][n], y.col[c][n])
                              /\ y.col[c][n] <= accepted[c][n]
                              /\ y.col[c][n] \in Nat /\ accepted[c][n] \in Nat
      <4>1. \A c \in Columns : store'[n].col[c][n] = Larger(store[n].col[c][n], y.col[c][n])
        BY <2>1, <2>4, <3>1, MergeParts
      <4>2. \A c \in Columns : y.col[c][n] <= accepted[c][n]
        BY <2>1, <3>1 DEF Bounded
      <4>3. \A c \in Columns : y.col[c][n] \in Nat /\ accepted[c][n] \in Nat
        BY <2>1, <3>1 DEF State, Inv, TypeOK
      <4> QED BY <4>1, <4>2, <4>3
    <3>3. \A e \in Elements : store'[n].adds[e] = store[n].adds[e] \cup y.adds[e]
      BY <2>4, <3>1, MergeParts
    <3> QED BY <2>2, <3>2, <3>3 DEF Larger
  <2>5. \A m \in minted : OpOf[m.update].element \in Elements
    <3>1. \A m \in minted : m.update \in Updates /\ OpOf[m.update].kind = "add"
      BY DEF Inv, TypeOK, MintedOk
    <3> QED BY <3>1, Shape DEF CounterOps, SetOps
  <2> QED BY <1>1, <2>2, <2>3, <2>4, <2>5
<1>8. Tombstones'
  <2>1. \A s \in Reach : \A e \in Elements : \A m \in minted :
           (m.tag \in s.removes[e] /\ OpOf[m.update].element = e
               /\ AtNode[m.update] \notin raced) => m.update \in observed
    <3>1. \A e \in Elements : Empty.removes[e] = {}
      BY DEF Empty
    <3>2. \A x, y \in States : \A e \in Elements :
             Merge(x, y).removes[e] = x.removes[e] \cup y.removes[e]
      BY <1>2, MergeParts
    <3> QED BY <3>1, <3>2 DEF Reach, Inv, Tombstones
  <2> QED BY <1>1, <2>1 DEF Tombstones
<1> QED BY <1>5, <1>6, <1>7, <1>8 DEF Inv

\* A step that accepts an update keeps the invariant.
LEMMA InvAccept ==
    ASSUME Inv, TypeOK', NEW u \in Updates, UpdateWrite(u)
    PROVE  Inv'
<1> DEFINE n == AtNode[u]
           op == OpOf[u]
           seen == upd[u].seen
           new == Apply(seen, op, n)
           tag == NextTag(seen, n)
<1>1. n \in Nodes /\ op \in Op /\ seen \in State /\ seen \in States /\ Bounded(seen)
  BY Shape, InStates DEF Op, Inv, TypeOK, NoDoubleCount
<1>2. /\ \A s \in States' : s \in States \cup {Empty, new}
      /\ raced \subseteq raced'
      /\ \A m \in Nodes : store'[m] = IF m = n THEN new ELSE store[m]
      /\ n \notin raced' => seen = store[n]
  BY AcceptStep DEF Inv
<1>3. /\ new \in State
      /\ \A c \in Columns, m \in Nodes :
            new.col[c][m] = IF op.kind # "remove" /\ c = ColumnOf(op) /\ m = n
                            THEN seen.col[c][m] + 1 ELSE seen.col[c][m]
      /\ \A e \in Elements :
            /\ new.adds[e] = IF op.kind = "add" /\ e = op.element
                             THEN seen.adds[e] \cup {tag} ELSE seen.adds[e]
            /\ new.removes[e] = IF op.kind = "remove" /\ e = op.element
                                THEN seen.removes[e] \cup seen.adds[e] ELSE seen.removes[e]
  BY <1>1, ApplyParts, ZenonT(30)
<1>4. /\ minted' = IF op.kind = "add" THEN minted \cup {[update |-> u, tag |-> tag]} ELSE minted
      /\ observed' = IF op.kind = "remove"
                     THEN observed \cup {m.update : m \in {k \in minted : k.tag \in seen.adds[op.element]}}
                     ELSE observed
  BY DEF UpdateWrite
<1>5. /\ ColumnOf(op) \in Columns /\ "clock" \in Columns
      /\ op.kind = "add" => ColumnOf(op) = "clock"
      /\ op.kind \in {"add", "remove"} => op.element \in Elements
  BY <1>1 DEF ColumnOf, Columns, Op, CounterOps, SetOps
<1>6. \A c \in Columns, m \in Nodes :
         /\ accepted[c][m] \in Nat /\ accepted'[c][m] \in Nat /\ seen.col[c][m] \in Nat
         /\ seen.col[c][m] <= accepted[c][m]
         /\ accepted'[c][m] = IF op.kind # "remove" /\ c = ColumnOf(op) /\ m = n
                              THEN accepted[c][m] + 1 ELSE accepted[c][m]
  <2>1. accepted \in [Columns -> [Nodes -> Nat]] /\ accepted' \in [Columns -> [Nodes -> Nat]]
    BY DEF Inv, TypeOK
  <2>2. accepted' = IF op.kind = "remove" THEN accepted
                    ELSE [accepted EXCEPT ![ColumnOf(op)][n] = @ + 1]
    BY DEF UpdateWrite
  <2>3. \A c \in Columns, m \in Nodes : seen.col[c][m] \in Nat /\ seen.col[c][m] <= accepted[c][m]
    BY <1>1 DEF Bounded, State
  <2> HIDE DEF n, op, seen
  <2> QED BY <1>1, <1>5, <2>1, <2>2, <2>3
<1>7. tag = <<n, seen.col["clock"][n] + 1>>
  BY DEF NextTag
<1> HIDE DEF n, op, seen, new, tag
<1>8. States \subseteq State /\ \A s \in States : Bounded(s)
  BY StatesTyped DEF Inv, NoDoubleCount
<1>9. \A s \in State : \A e \in Elements : \A t \in s.adds[e] \cup s.removes[e] :
         t[1] \in Nodes /\ t[2] \in Nat
  BY DEF State, Tag
<1>10. NoDoubleCount'
  <2>1. ASSUME NEW s \in States' PROVE Bounded(s)'
    <3>1. CASE s \in States
      <4>1. \A c \in Columns, m \in Nodes : s.col[c][m] \in Nat /\ s.col[c][m] <= accepted[c][m]
        BY <1>8, <3>1 DEF Bounded, State
      <4>2. \A e \in Elements : \A t \in s.adds[e] \cup s.removes[e] :
               t[1] \in Nodes /\ t[2] \in Nat /\ t[2] <= accepted["clock"][t[1]]
        BY <1>8, <1>9, <3>1 DEF Bounded
      <4>3. \A c \in Columns, m \in Nodes : s.col[c][m] <= accepted'[c][m]
        BY <4>1, <1>6
      <4>4. \A e \in Elements : \A t \in s.adds[e] \cup s.removes[e] :
               t[2] <= accepted'["clock"][t[1]]
        BY <4>2, <1>5, <1>6
      <4> QED BY <4>3, <4>4 DEF Bounded
    <3>2. CASE s = Empty
      <4>1. TypeOK' => Bounded(Empty)'
        BY DEF Bounded, Empty, NoColumn, TypeOK, Columns
      <4> QED BY <3>2, <4>1
    <3>3. CASE s = new
      <4>1. \A c \in Columns, m \in Nodes : new.col[c][m] <= accepted'[c][m]
        BY <1>3, <1>6
      <4>2. \A e \in Elements : \A t \in seen.adds[e] \cup seen.removes[e] :
               t[1] \in Nodes /\ t[2] \in Nat /\ t[2] <= accepted["clock"][t[1]]
        BY <1>1, <1>9 DEF Bounded
      <4>3. \A e \in Elements : \A t \in seen.adds[e] \cup seen.removes[e] :
               t[2] <= accepted'["clock"][t[1]]
        BY <4>2, <1>5, <1>6
      <4>4. op.kind = "add" => tag[2] <= accepted'["clock"][tag[1]]
        BY <1>1, <1>5, <1>6, <1>7
      <4>5. \A e \in Elements : \A t \in new.adds[e] \cup new.removes[e] :
               t \in seen.adds[e] \cup seen.removes[e] \/ (op.kind = "add" /\ t = tag)
        <5>1. ASSUME NEW e \in Elements, NEW t \in new.adds[e]
              PROVE  t \in seen.adds[e] \/ (op.kind = "add" /\ t = tag)
          BY <1>3, ZenonT(60)
        <5>2. ASSUME NEW e \in Elements, NEW t \in new.removes[e]
              PROVE  t \in seen.adds[e] \cup seen.removes[e]
          BY <1>3
        <5> QED BY <5>1, <5>2
      <4>6. \A e \in Elements : \A t \in new.adds[e] \cup new.removes[e] :
               t[2] <= accepted'["clock"][t[1]]
        BY <4>3, <4>4, <4>5
      <4> QED BY <3>3, <4>1, <4>6 DEF Bounded
    <3> QED BY <1>2, <3>1, <3>2, <3>3
  <2> QED BY <2>1 DEF NoDoubleCount
<1>11. ASSUME NEW m \in minted
       PROVE  /\ m.update \in Updates /\ AtNode[m.update] \in Nodes
              /\ OpOf[m.update].kind = "add" /\ OpOf[m.update].element \in Elements
              /\ m.tag[1] = AtNode[m.update] /\ m.tag[2] \in Nat
              /\ m.tag[2] <= accepted["clock"][AtNode[m.update]]
  <2>1. m \in [update : Updates, tag : Tag]
    BY DEF Inv, TypeOK
  <2>2. /\ OpOf[m.update].kind = "add" /\ m.tag[1] = AtNode[m.update]
        /\ m.tag[2] <= accepted["clock"][AtNode[m.update]]
    BY DEF Inv, MintedOk
  <2> QED BY <2>1, <2>2, Shape DEF CounterOps, SetOps, Tag
<1>12. MintedOk'
  <2>1. ASSUME NEW m \in minted
        PROVE  m.tag[2] <= accepted'["clock"][AtNode[m.update]]
    <3> DEFINE a == AtNode[m.update]
    <3>1. a \in Nodes /\ m.tag[2] \in Nat /\ m.tag[2] <= accepted["clock"][a]
      BY <1>11
    <3> HIDE DEF a
    <3>2. m.tag[2] <= accepted'["clock"][a]
      BY <1>5, <1>6, <3>1
    <3> QED BY <3>2 DEF a
  <2>2. op.kind = "add" => /\ tag[1] = n /\ tag[2] <= accepted'["clock"][n]
                           /\ AtNode[u] = n /\ OpOf[u].kind = "add"
    BY <1>1, <1>5, <1>6, <1>7 DEF n, op
  <2> QED BY <1>4, <1>11, <2>1, <2>2 DEF MintedOk
<1>13. AcceptedKept'
  <2> SUFFICES ASSUME NEW k \in Nodes \ raced'
               PROVE  /\ \A c \in Columns : store'[k].col[c][k] = accepted'[c][k]
                      /\ \A m \in minted' : AtNode[m.update] = k =>
                            /\ m.tag \in store'[k].adds[OpOf[m.update].element]
                            /\ \A j \in minted' : j.tag = m.tag => j = m
    BY DEF AcceptedKept
  <2>1. /\ \A c \in Columns : store[k].col[c][k] = accepted[c][k]
        /\ \A m \in minted : AtNode[m.update] = k =>
              /\ m.tag \in store[k].adds[OpOf[m.update].element]
              /\ \A j \in minted : j.tag = m.tag => j = m
    BY <1>2 DEF Inv, AcceptedKept
  <2>2. CASE k # n
    <3>1. store'[k] = store[k] /\ \A c \in Columns : accepted'[c][k] = accepted[c][k]
      BY <1>2, <1>6, <2>2
    <3>2. \A m \in minted' : AtNode[m.update] = k => m \in minted
      BY <1>4, <2>2 DEF n
    <3>3. \A m \in minted : AtNode[m.update] = k => \A j \in minted' : j.tag = m.tag => j = m
      <4>1. \A m \in minted : AtNode[m.update] = k => m.tag[1] = k
        BY <1>11
      <4>2. tag[1] = n
        BY <1>7
      <4> QED BY <1>4, <2>1, <2>2, <4>1, <4>2
    <3> QED BY <2>1, <3>1, <3>2, <3>3
  <2>3. CASE k = n
    <3>1. seen = store[n] /\ store'[n] = new
      BY <1>1, <1>2, <2>3
    <3>2. \A c \in Columns : store'[k].col[c][k] = accepted'[c][k]
      BY <1>1, <1>3, <1>6, <2>1, <2>3, <3>1, SMTT(30)
    <3>3. \A e \in Elements : store[n].adds[e] \subseteq new.adds[e]
      BY <1>3, <3>1
    <3>4. \A m \in minted : AtNode[m.update] = k => m.tag \in store'[k].adds[OpOf[m.update].element]
      BY <1>11, <2>1, <2>3, <3>1, <3>3
    <3>5. op.kind = "add" => tag \in store'[k].adds[OpOf[u].element]
      BY <1>3, <1>5, <2>3, <3>1 DEF op
    <3>6. \A m \in minted : AtNode[m.update] = k => m.tag # tag
      <4>1. tag[2] = accepted["clock"][n] + 1 /\ accepted["clock"][n] \in Nat
        BY <1>1, <1>5, <1>6, <1>7, <2>1, <2>3, <3>1
      <4>2. \A m \in minted : AtNode[m.update] = k =>
               m.tag[2] \in Nat /\ m.tag[2] <= accepted["clock"][n]
        BY <1>11, <2>3
      <4> QED BY <4>1, <4>2
    <3>7. \A m \in minted : m.tag = tag => AtNode[m.update] = k
      <4>1. tag[1] = k
        BY <1>7, <2>3
      <4> QED BY <1>11, <4>1
    <3> QED BY <1>4, <2>1, <3>2, <3>4, <3>5, <3>6, <3>7
  <2> QED BY <2>2, <2>3
<1>14. Tombstones'
  <2> SUFFICES ASSUME NEW s \in States', NEW e \in Elements, NEW m \in minted',
                      m.tag \in s.removes[e], OpOf[m.update].element = e,
                      AtNode[m.update] \notin raced'
               PROVE  m.update \in observed'
    BY DEF Tombstones
  <2>1. CASE m \in minted
    <3>1. \A x \in States : m.tag \in x.removes[e] => m.update \in observed
      BY <1>2, <2>1 DEF Inv, Tombstones
    <3>2. observed \subseteq observed'
      BY <1>4
    <3>3. CASE s \in States
      BY <3>1, <3>2, <3>3
    <3>4. CASE s = Empty
      BY <3>4 DEF Empty
    <3>5. CASE s = new
      <4>1. m.tag \in seen.removes[e] \/ (op.kind = "remove" /\ e = op.element /\ m.tag \in seen.adds[e])
        BY <1>3, <3>5
      <4>2. CASE m.tag \in seen.removes[e]
        BY <1>1, <3>1, <3>2, <4>2
      <4>3. CASE op.kind = "remove" /\ e = op.element /\ m.tag \in seen.adds[e]
        BY <1>4, <2>1, <4>3
      <4> QED BY <4>1, <4>2, <4>3
    <3> QED BY <1>2, <3>3, <3>4, <3>5
  <2>2. CASE m \notin minted
    <3>1. op.kind = "add" /\ m.update = u /\ m.tag = tag
      BY <1>4, <2>2
    <3>2. seen = store[n] /\ n \in Nodes \ raced
      BY <1>1, <1>2, <3>1 DEF n
    <3>3. tag[1] = n /\ tag[2] = accepted["clock"][n] + 1 /\ accepted["clock"][n] \in Nat
      BY <1>1, <1>5, <1>6, <1>7, <3>2 DEF Inv, AcceptedKept
    <3>4. \A x \in States : tag \notin x.removes[e]
      BY <1>8, <1>9, <3>3 DEF Bounded
    <3>5. \A x \in {Empty, new} : tag \notin x.removes[e]
      <4>1. tag \notin Empty.removes[e]
        BY DEF Empty
      <4>2. new.removes[e] = seen.removes[e]
        BY <1>3, <3>1
      <4> QED BY <1>1, <3>4, <4>1, <4>2
    <3> QED BY <1>2, <3>1, <3>4, <3>5
  <2> QED BY <2>1, <2>2
<1> QED BY <1>10, <1>12, <1>13, <1>14 DEF Inv

\* The invariant holds in every reachable state.
LEMMA Invariance == Spec => []Inv
<1>1. Init => Inv
  <2> SUFFICES ASSUME Init PROVE Inv
    OBVIOUS
  <2>1. TypeOK
    BY EmptyState DEF Init, TypeOK, Unread, NoColumn
  <2>2. \A s \in States : s = Empty
    BY DEF Init, States, Unread
  <2>3. NoDoubleCount
    BY <2>1, <2>2, BoundedEmpty DEF NoDoubleCount
  <2>4. MintedOk /\ Tombstones
    BY DEF Init, MintedOk, Tombstones
  <2>5. AcceptedKept
    BY DEF Init, AcceptedKept, Empty, NoColumn
  <2> QED BY <2>1, <2>3, <2>4, <2>5 DEF Inv
<1>2. Inv /\ [Next]_vars => Inv'
  <2> SUFFICES ASSUME Inv, [Next]_vars PROVE Inv'
    OBVIOUS
  <2>1. TypeOK'
    BY TypeStep DEF Inv
  <2>2. CASE \E u \in Updates : UpdateWrite(u)
    BY <2>1, <2>2, InvAccept
  <2>3. CASE \A u \in Updates : ~UpdateWrite(u)
    BY <2>1, <2>3, InvMerge
  <2> QED BY <2>2, <2>3
<1> QED BY <1>1, <1>2, PTL DEF Spec

\* No operation is counted twice, however states are delayed, repeated, lost or
\* merged with stale ones (apply_borrowed_with_state, merge_state_borrowed).
THEOREM NothingCountsTwice == Spec => []NoDoubleCount
<1>1. Inv => NoDoubleCount
  BY DEF Inv
<1> QED BY <1>1, Invariance, PTL

\* A node whose writes replaced nothing unseen keeps every operation it
\* answered, and never mints a tag twice (handle_dt_update).
THEOREM AcceptedStaysCounted == Spec => []AcceptedKept
<1>1. Inv => AcceptedKept
  BY DEF Inv
<1> QED BY <1>1, Invariance, PTL

\* At such a node an add that no remove had read stays present (OrSet, EwFlag).
THEOREM AddsWin == Spec => []AddWins
<1>1. Inv => AddWins
  <2> SUFFICES ASSUME Inv, NEW m \in minted, AtNode[m.update] \notin raced,
                      m.update \notin observed
               PROVE  Present(store[AtNode[m.update]], OpOf[m.update].element)
    BY DEF AddWins
  <2> DEFINE n == AtNode[m.update]
             e == OpOf[m.update].element
  <2>1. m.update \in Updates /\ OpOf[m.update].kind = "add"
    BY DEF Inv, TypeOK, MintedOk
  <2>2. n \in Nodes /\ e \in Elements
    BY <2>1, Shape DEF CounterOps, SetOps
  <2>3. m.tag \in store[n].adds[e]
    BY <2>2 DEF Inv, AcceptedKept
  <2>4. m.tag \notin store[n].removes[e]
    BY <2>2, InStates DEF Inv, Tombstones
  <2> QED BY <2>3, <2>4 DEF Present
<1> QED BY <1>1, Invariance, PTL

-----------------------------------------------------------------------------
(* Convergence.  Until a state is lost or overwritten unseen, all that any     *)
(* state holds has reached a node already or is on its way to it.             *)

\* Each part of s is held by some state of S.
Below(s, S) ==
    /\ \A c \in Columns, n \in Nodes : \E x \in S : s.col[c][n] <= x.col[c][n]
    /\ \A e \in Elements : \A t \in s.adds[e] : \E x \in S : t \in x.adds[e]
    /\ \A e \in Elements : \A t \in s.removes[e] : \E x \in S : t \in x.removes[e]

\* What node m stores, and what is under way to it.
Coming(m) ==
    {store[m]} \cup UNION {{chan[l][i] : i \in DOMAIN chan[l]} : l \in {k \in Links : k[2] = m}}

Spread == (drops = 0 /\ raced = {}) => \A m \in Nodes : \A s \in States : Below(s, Coming(m))

\* A state holds its own parts.
LEMMA BelowMember ==
    ASSUME NEW S, NEW s \in S, s \in State
    PROVE  Below(s, S)
<1>1. \A c \in Columns, n \in Nodes : s.col[c][n] \in Nat
  BY DEF State
<1>2. \A c \in Columns, n \in Nodes : s.col[c][n] <= s.col[c][n]
  BY <1>1
<1> QED BY <1>2 DEF Below

\* A key never written has no parts.
LEMMA BelowEmpty ==
    ASSUME NEW S, NEW x \in S, x \in State
    PROVE  Below(Empty, S)
<1>1. \A c \in Columns, n \in Nodes : x.col[c][n] \in Nat
  BY DEF State
<1>2. \A c \in Columns, n \in Nodes : Empty.col[c][n] = 0
  BY DEF Empty, NoColumn
<1>3. \A c \in Columns, n \in Nodes : Empty.col[c][n] <= x.col[c][n]
  BY <1>1, <1>2
<1>4. \A e \in Elements : Empty.adds[e] = {} /\ Empty.removes[e] = {}
  BY DEF Empty
<1> QED BY <1>3, <1>4 DEF Below

\* Merging makes no part of its own, and keeps those of both.
LEMMA BelowMerge ==
    ASSUME NEW a \in State, NEW b \in State, NEW S
    PROVE  /\ Below(a, S) /\ Below(b, S) => Below(Merge(a, b), S)
           /\ Merge(a, b) \in S => Below(a, S) /\ Below(b, S)
<1> DEFINE z == Merge(a, b)
<1>1. /\ \A c \in Columns, n \in Nodes : z.col[c][n] = Larger(a.col[c][n], b.col[c][n])
      /\ \A e \in Elements : /\ z.adds[e] = a.adds[e] \cup b.adds[e]
                             /\ z.removes[e] = a.removes[e] \cup b.removes[e]
  BY MergeParts
<1>2. \A c \in Columns, n \in Nodes : a.col[c][n] \in Nat /\ b.col[c][n] \in Nat
  BY DEF State
<1> HIDE DEF z
<1>3. ASSUME NEW c \in Columns, NEW n \in Nodes
      PROVE  /\ z.col[c][n] = a.col[c][n] \/ z.col[c][n] = b.col[c][n]
             /\ a.col[c][n] <= z.col[c][n] /\ b.col[c][n] <= z.col[c][n]
  BY <1>1, <1>2 DEF Larger
<1>4. ASSUME Below(a, S), Below(b, S) PROVE Below(z, S)
  <2>1. ASSUME NEW c \in Columns, NEW n \in Nodes PROVE \E x \in S : z.col[c][n] <= x.col[c][n]
    BY <1>3, <1>4 DEF Below
  <2>2. ASSUME NEW e \in Elements, NEW t \in z.adds[e] PROVE \E x \in S : t \in x.adds[e]
    BY <1>1, <1>4 DEF Below
  <2>3. ASSUME NEW e \in Elements, NEW t \in z.removes[e] PROVE \E x \in S : t \in x.removes[e]
    BY <1>1, <1>4 DEF Below
  <2> QED BY <2>1, <2>2, <2>3 DEF Below
<1>5. ASSUME z \in S PROVE Below(a, S) /\ Below(b, S)
  BY <1>1, <1>3, <1>5 DEF Below
<1> QED BY <1>4, <1>5 DEF z

\* What is below states that are themselves below T is below T.
LEMMA BelowTrans ==
    ASSUME NEW S, S \subseteq State, NEW T, T \subseteq State, NEW s \in State,
           Below(s, S), \A x \in S : Below(x, T)
    PROVE  Below(s, T)
<1>1. ASSUME NEW c \in Columns, NEW n \in Nodes PROVE \E y \in T : s.col[c][n] <= y.col[c][n]
  <2>1. PICK x \in S : s.col[c][n] <= x.col[c][n]
    BY DEF Below
  <2>2. PICK y \in T : x.col[c][n] <= y.col[c][n]
    BY DEF Below
  <2>3. s.col[c][n] \in Nat /\ x.col[c][n] \in Nat /\ y.col[c][n] \in Nat
    BY DEF State
  <2> QED BY <2>1, <2>2, <2>3
<1>2. ASSUME NEW e \in Elements, NEW t \in s.adds[e] PROVE \E y \in T : t \in y.adds[e]
  <2>1. PICK x \in S : t \in x.adds[e]
    BY DEF Below
  <2> QED BY <2>1 DEF Below
<1>3. ASSUME NEW e \in Elements, NEW t \in s.removes[e] PROVE \E y \in T : t \in y.removes[e]
  <2>1. PICK x \in S : t \in x.removes[e]
    BY DEF Below
  <2> QED BY <2>1 DEF Below
<1> QED BY <1>1, <1>2, <1>3 DEF Below

\* An operation adds to the state it is applied to.
LEMMA BelowApply ==
    ASSUME NEW s \in State, NEW op \in Op, NEW n \in Nodes, NEW S, Apply(s, op, n) \in S
    PROVE  Below(s, S)
<1> DEFINE z == Apply(s, op, n)
<1>0. /\ \A c \in Columns, m \in Nodes :
            z.col[c][m] = IF op.kind # "remove" /\ c = ColumnOf(op) /\ m = n
                          THEN s.col[c][m] + 1 ELSE s.col[c][m]
      /\ \A e \in Elements :
            /\ z.adds[e] = IF op.kind = "add" /\ e = op.element
                           THEN s.adds[e] \cup {NextTag(s, n)} ELSE s.adds[e]
            /\ z.removes[e] = IF op.kind = "remove" /\ e = op.element
                              THEN s.removes[e] \cup s.adds[e] ELSE s.removes[e]
  BY ApplyParts, ZenonT(60)
<1>1. /\ \A c \in Columns, m \in Nodes : z.col[c][m] \in {s.col[c][m] + 1, s.col[c][m]}
      /\ \A e \in Elements : s.adds[e] \subseteq z.adds[e] /\ s.removes[e] \subseteq z.removes[e]
  <2> HIDE DEF z
  <2> QED BY <1>0
<1>2. \A c \in Columns, m \in Nodes : s.col[c][m] \in Nat
  BY DEF State
<1> HIDE DEF z
<1>3. ASSUME NEW c \in Columns, NEW m \in Nodes PROVE s.col[c][m] <= z.col[c][m]
  <2>1. z.col[c][m] = s.col[c][m] + 1 \/ z.col[c][m] = s.col[c][m]
    BY <1>1
  <2> QED BY <1>2, <2>1
<1>4. z \in S
  BY DEF z
<1> QED BY <1>1, <1>3, <1>4 DEF Below

\* What is coming to a node is among the states, and holds its store.
LEMMA ComingStates ==
    ASSUME NEW m \in Nodes
    PROVE  /\ Coming(m) \subseteq States /\ store[m] \in Coming(m)
           /\ \A l \in Links : l[2] = m => \A i \in DOMAIN chan[l] : chan[l][i] \in Coming(m)
BY DEF Coming, States

\* Each state that was coming to a node still is, or the node's store took it in,
\* unless the step loses one.
LEMMA StillComing ==
    ASSUME TypeOK, TypeOK', [Next]_vars, \A u \in Updates : ~UpdateWrite(u),
           drops' = 0, raced' = {}, NEW m \in Nodes, NEW x \in Coming(m)
    PROVE  Below(x, Coming(m)')
<1>1. Coming(m) \subseteq State
  BY ComingStates, StatesTyped
<1>2. /\ Coming(m)' \subseteq State /\ store'[m] \in Coming(m)'
      /\ \A l \in Links : l[2] = m => \A i \in DOMAIN chan'[l] : chan'[l][i] \in Coming(m)'
  <2>1. Coming(m)' \subseteq State
    BY ElementOfSeq DEF Coming, TypeOK
  <2> QED BY <2>1 DEF Coming
<1>3. Below(store[m], Coming(m)')
  <2>1. store'[m] = store[m] \/ \E y \in States : store'[m] = Merge(store[m], y)
    BY MergeStep
  <2>2. CASE store'[m] = store[m]
    BY <1>2, <2>2, BelowMember
  <2>3. ASSUME NEW y \in States, store'[m] = Merge(store[m], y) PROVE Below(store[m], Coming(m)')
    <3>1. y \in State /\ store[m] \in State
      BY StatesTyped DEF TypeOK
    <3> QED BY <1>2, <2>3, <3>1, BelowMerge
  <2> QED BY <2>1, <2>2, <2>3
<1>4. ASSUME NEW l \in Links, l[2] = m, NEW i \in DOMAIN chan[l], x = chan[l][i]
      PROVE  Below(x, Coming(m)')
  <2>1. CASE chan'[l] = chan[l]
    BY <1>1, <1>2, <1>4, <2>1, BelowMember
  <2>2. CASE chan'[l] # chan[l]
    <3>1. MergeWrite(l)
      <4>1. ~(\E k \in Links : Drop(k))
        BY DEF Drop, TypeOK
      <4>2. \E k \in Links : MergeWrite(k)
        BY <2>2, <4>1 DEF Next, vars, UpdateRead, UpdateFail, MergeRead, FetchBegin, FetchAsk,
                          FetchRepairRead, FetchRepairWrite, FetchUnrepaired
      <4>3. PICK k \in Links : MergeWrite(k)
        BY <4>2
      <4>4. k = l
        BY <2>2, <4>3 DEF MergeWrite, TypeOK
      <4> QED BY <4>3, <4>4
    <3>2. /\ chan[l] \in Seq(State) /\ chan[l] # <<>> /\ chan'[l] = Tail(chan[l])
          /\ store'[m] = Merge(merging[l].seen, Head(chan[l])) /\ merging[l].seen \in State
      BY <1>4, <3>1 DEF MergeWrite, Write, TypeOK
    <3> DEFINE q == chan[l]
    <3> HIDE DEF q
    <3>3. q \in Seq(State) /\ q # <<>> /\ chan'[l] = Tail(q) /\ i \in DOMAIN q /\ x = q[i]
      BY <1>4, <3>2 DEF q
    <3>4. /\ DOMAIN q = 1..Len(q) /\ Len(q) \in Nat /\ Head(q) = q[1] /\ Head(q) \in State
          /\ DOMAIN Tail(q) = 1..(Len(q) - 1) /\ \A j \in 1..(Len(q) - 1) : Tail(q)[j] = q[j + 1]
      BY <3>3, HeadTailProperties, LenProperties
    <3>5. CASE i = 1
      <4>1. x = Head(q) /\ Merge(merging[l].seen, x) \in Coming(m)'
        BY <1>2, <3>2, <3>3, <3>4, <3>5 DEF q
      <4> QED BY <3>2, <3>4, <4>1, BelowMerge
    <3>6. CASE i # 1
      <4>1. i - 1 \in 1..(Len(q) - 1) /\ (i - 1) + 1 = i
        BY <3>3, <3>4, <3>6
      <4>2. i - 1 \in DOMAIN chan'[l] /\ chan'[l][i - 1] = x
        BY <3>3, <3>4, <4>1
      <4>3. x \in Coming(m)'
        BY <1>2, <1>4, <4>2
      <4> QED BY <1>2, <4>3, BelowMember
    <3> QED BY <3>5, <3>6
  <2> QED BY <2>1, <2>2
<1>5. x = store[m] \/ \E l \in Links : l[2] = m /\ \E i \in DOMAIN chan[l] : x = chan[l][i]
  BY DEF Coming
<1> QED BY <1>3, <1>4, <1>5

\* A step that accepts no update keeps the spread.
LEMMA SpreadMerge ==
    ASSUME TypeOK, TypeOK', Spread, [Next]_vars, \A u \in Updates : ~UpdateWrite(u)
    PROVE  Spread'
<1> SUFFICES ASSUME drops' = 0, raced' = {}, NEW m \in Nodes, NEW s \in States'
             PROVE  Below(s, Coming(m)')
  BY DEF Spread
<1>1. drops = 0 /\ raced = {}
  <2>1. raced \subseteq raced'
    BY MergeStep
  <2>2. drops' = drops \/ drops' = drops + 1
    BY DEF Next, vars, UpdateRead, UpdateWrite, UpdateFail, MergeRead, MergeWrite, Drop, FetchBegin,
           FetchAsk, FetchRepairRead, FetchRepairWrite, FetchUnrepaired
  <2> QED BY <2>1, <2>2 DEF TypeOK
<1>2. \A x \in States : Below(x, Coming(m))
  BY <1>1 DEF Spread
<1>3. Coming(m) \subseteq State /\ store[m] \in Coming(m) /\ States \subseteq State
  BY ComingStates, StatesTyped
<1>4. s \in Reach
  BY MergeStep
<1>5. s \in State /\ Below(s, Coming(m))
  <2>1. CASE s \in States
    BY <1>2, <1>3, <2>1
  <2>2. CASE s = Empty
    BY <1>3, <2>2, BelowEmpty, EmptyState
  <2>3. ASSUME NEW x \in States, NEW y \in States, s = Merge(x, y)
        PROVE  s \in State /\ Below(s, Coming(m))
    BY <1>2, <1>3, <2>3, BelowMerge, MergeParts
  <2> QED BY <1>4, <2>1, <2>2, <2>3 DEF Reach
<1>6. \A x \in Coming(m) : Below(x, Coming(m)')
  BY StillComing
<1>7. Coming(m)' \subseteq State
  BY ElementOfSeq DEF Coming, TypeOK
<1> QED BY <1>3, <1>5, <1>6, <1>7, BelowTrans

\* An accepted update is stored at its node and under way to every other one.
LEMMA SpreadAccept ==
    ASSUME TypeOK, TypeOK', Spread, NEW u \in Updates, UpdateWrite(u)
    PROVE  Spread'
<1> DEFINE n == AtNode[u]
           new == Apply(upd[u].seen, OpOf[u], n)
<1> SUFFICES ASSUME drops' = 0, raced' = {}, NEW m \in Nodes, NEW s \in States'
             PROVE  Below(s, Coming(m)')
  BY DEF Spread
<1>1. n \in Nodes /\ upd[u].seen \in State /\ OpOf[u] \in Op
  BY Shape DEF Op, TypeOK
<1>2. new \in State
  BY <1>1, ApplyParts, ZenonT(30)
<1>3. /\ s \in States \cup {Empty, new}
      /\ raced \subseteq raced'
      /\ store'[m] = IF m = n THEN new ELSE store[m]
      /\ upd[u].seen = store[n]
  BY AcceptStep
<1>4. \A x \in States : Below(x, Coming(m))
  <2>1. drops = 0 /\ raced = {}
    BY <1>3 DEF UpdateWrite
  <2> QED BY <2>1 DEF Spread
<1>5. Coming(m) \subseteq State /\ States \subseteq State
  BY ComingStates, StatesTyped
<1>6. Coming(m)' \subseteq State
  BY ElementOfSeq DEF Coming, TypeOK
<1>7. m = n => Below(store[n], {new})
  <2>1. new \in {new}
    OBVIOUS
  <2> QED BY <1>1, <1>3, <2>1, BelowApply
<1> HIDE DEF new
<1>8. \A l \in Links : chan'[l] = IF l[1] = n THEN Append(chan[l], new) ELSE chan[l]
  BY DEF UpdateWrite, new
<1>9. ASSUME NEW l \in Links, l[2] = m
      PROVE  /\ \A i \in DOMAIN chan[l] : chan[l][i] \in Coming(m)'
             /\ l[1] = n => new \in Coming(m)'
  <2>1. \A i \in DOMAIN chan'[l] : chan'[l][i] \in Coming(m)'
    BY <1>9 DEF Coming
  <2>2. CASE l[1] = n
    <3> DEFINE q == chan[l]
    <3> HIDE DEF q
    <3>1. q \in Seq(State) /\ chan'[l] = Append(q, new)
      BY <1>8, <2>2 DEF TypeOK, q
    <3>2. /\ DOMAIN q = 1..Len(q) /\ Len(q) \in Nat /\ DOMAIN Append(q, new) = 1..(Len(q) + 1)
          /\ Append(q, new)[Len(q) + 1] = new /\ \A i \in 1..Len(q) : Append(q, new)[i] = q[i]
      BY <1>2, <3>1, AppendProperties, LenProperties
    <3>3. /\ Len(q) + 1 \in DOMAIN chan'[l] /\ chan'[l][Len(q) + 1] = new
          /\ \A i \in DOMAIN q : i \in DOMAIN chan'[l] /\ chan'[l][i] = q[i]
      BY <3>1, <3>2
    <3> QED BY <2>1, <3>3 DEF q
  <2>3. CASE l[1] # n
    BY <1>8, <2>1, <2>3
  <2> QED BY <2>2, <2>3
<1>10. new \in Coming(m)'
  <2>1. CASE m = n
    BY <1>3, <2>1 DEF Coming
  <2>2. CASE m # n
    <3>1. <<n, m>> \in Links /\ <<n, m>>[1] = n /\ <<n, m>>[2] = m
      BY <1>1, <2>2 DEF Links
    <3> QED BY <1>9, <3>1
  <2> QED BY <2>1, <2>2
<1>11. ASSUME NEW x \in Coming(m) PROVE Below(x, Coming(m)')
  <2>1. CASE x = store[m]
    <3>1. CASE m = n
      <4>1. \A y \in {new} : Below(y, Coming(m)')
        BY <1>2, <1>10, BelowMember
      <4>2. {new} \subseteq State /\ store[m] \in State
        BY <1>2 DEF TypeOK
      <4> QED BY <1>6, <1>7, <2>1, <3>1, <4>1, <4>2, BelowTrans
    <3>2. CASE m # n
      <4>1. x \in Coming(m)'
        BY <1>3, <2>1, <3>2 DEF Coming
      <4> QED BY <1>6, <4>1, BelowMember
    <3> QED BY <3>1, <3>2
  <2>2. CASE \E l \in Links : l[2] = m /\ \E i \in DOMAIN chan[l] : x = chan[l][i]
    BY <1>6, <1>9, <2>2, BelowMember
  <2> QED BY <2>1, <2>2 DEF Coming
<1>12. CASE s \in States
  BY <1>4, <1>5, <1>6, <1>11, <1>12, BelowTrans
<1>13. CASE s = Empty
  BY <1>2, <1>10, <1>13, BelowEmpty
<1>14. CASE s = new
  BY <1>2, <1>10, <1>14, BelowMember
<1> QED BY <1>3, <1>12, <1>13, <1>14

\* Once everything sent was merged, and nothing was lost or overwritten unseen,
\* all replicas hold the same state (handle_dt_update, merge_state_borrowed).
THEOREM ReplicasConverge == Spec => []Converges
<1>1. Init => Spread
  <2> SUFFICES ASSUME Init, NEW m \in Nodes, NEW s \in States PROVE Below(s, Coming(m))
    BY DEF Spread
  <2>1. s = Empty
    BY DEF Init, States, Unread
  <2>2. Empty \in Coming(m)
    BY DEF Init, Coming
  <2> QED BY <2>1, <2>2, BelowEmpty, EmptyState
<1>2. TypeOK /\ TypeOK' /\ Spread /\ [Next]_vars => Spread'
  <2> SUFFICES ASSUME TypeOK, TypeOK', Spread, [Next]_vars PROVE Spread'
    OBVIOUS
  <2>1. CASE \E u \in Updates : UpdateWrite(u)
    BY <2>1, SpreadAccept
  <2>2. CASE \A u \in Updates : ~UpdateWrite(u)
    BY <2>2, SpreadMerge
  <2> QED BY <2>1, <2>2
<1>3. TypeOK /\ Spread => Converges
  <2> SUFFICES ASSUME TypeOK, Spread, Quiet, drops = 0, raced = {}, NEW n \in Nodes, NEW m \in Nodes
               PROVE  store[n] = store[m]
    BY DEF Converges
  <2>1. \A k \in Nodes : Coming(k) = {store[k]}
    BY DEF Coming, Quiet
  <2>2. \A j, k \in Nodes : Below(store[j], {store[k]})
    BY <2>1, InStates DEF Spread
  <2>3. Below(store[n], {store[m]}) /\ Below(store[m], {store[n]})
    BY <2>2
  <2>4. store[n] \in State /\ store[m] \in State
    BY DEF TypeOK
  <2>5. \A c \in Columns, k \in Nodes :
           /\ store[n].col[c][k] <= store[m].col[c][k] /\ store[m].col[c][k] <= store[n].col[c][k]
           /\ store[n].col[c][k] \in Nat /\ store[m].col[c][k] \in Nat
    BY <2>3, <2>4 DEF Below, State
  <2>6. \A c \in Columns, k \in Nodes : store[n].col[c][k] = store[m].col[c][k]
    BY <2>5
  <2>7. ASSUME NEW e \in Elements
        PROVE  /\ store[n].adds[e] = store[m].adds[e]
               /\ store[n].removes[e] = store[m].removes[e]
    <3>1. /\ \A t \in store[n].adds[e] : t \in store[m].adds[e]
          /\ \A t \in store[m].adds[e] : t \in store[n].adds[e]
          /\ \A t \in store[n].removes[e] : t \in store[m].removes[e]
          /\ \A t \in store[m].removes[e] : t \in store[n].removes[e]
      BY <2>3 DEF Below
    <3> QED BY <3>1
  <2> QED BY <2>4, <2>6, <2>7, SameParts
<1> QED BY <1>1, <1>2, <1>3, TypeCorrect, PTL DEF Spec

=============================================================================
