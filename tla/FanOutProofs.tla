---------------------------- MODULE FanOutProofs ----------------------------
(***************************************************************************)
(* FanOut, for any topology, workload, payloads and number of replicas:    *)
(* the client gets at most one envelope per request, the one its           *)
(* consistency level promises; a no-quorum error has its reason; a write   *)
(* is not both sent and hinted, delete markers outlive every replica that  *)
(* may need them, and a repairing read answers with the freshest version.  *)
(*                                                                         *)
(* The order of the module: the answer's phases; what the tracker's pure   *)
(* evaluation of some votes tells at each level; what a plan may be; the   *)
(* channel and the votes; the invariant, action by action; the theorems.   *)
(***************************************************************************)
EXTENDS FanOut, FiniteSetTheorems, SequenceTheorems, WellFoundedInduction, TLAPS

-----------------------------------------------------------------------------
(* One answer                                                              *)

IsOne(s) == \E a : s = <<a>>

\* The inductive invariant: who may still answer the client.  Before the actor
\* exists nobody has; the actor has exactly when `emitted`; a direct request
\* ends with its answer.
AnswerInv ==
    /\ pc \in {"idle", "fan_out", "actor", "direct", "done"}
    /\ emitted \in BOOLEAN
    /\ pc \in {"idle", "fan_out", "direct"} => answers = <<>> /\ ~emitted
    /\ pc = "actor" => IF emitted THEN IsOne(answers) ELSE answers = <<>>
    /\ pc = "done" => answers = <<>> \/ IsOne(answers)

\* Appending to an empty history leaves one answer.
LEMMA AppendOne == \A a : IsOne(Append(<<>>, a))
BY DEF IsOne

\* Every step keeps the invariant.
LEMMA AnswerInvStep == AnswerInv /\ [Next]_vars => AnswerInv'
<1> SUFFICES ASSUME AnswerInv, [Next]_vars PROVE AnswerInv'
  OBVIOUS
<1> USE DEF AnswerInv, planVars, actorVars
<1>1. ASSUME NEW r, NEW state, NEW later_down, Dispatch(r, state, later_down)
      PROVE  AnswerInv'
  <2>1. /\ pc' \in {"done", "direct", "fan_out"} /\ emitted' = emitted /\ ~emitted
        /\ answers' = IF pc' = "done" THEN <<NoQuorum>> ELSE <<>>
    <3>1. /\ emitted' = emitted /\ pc = "idle"
          /\ targets' = {} => pc' = "done"
          /\ targets' # {} => pc' = IF Cardinality(targets') = 1 THEN "direct" ELSE "fan_out"
          /\ answers' = IF targets' = {} THEN <<NoQuorum>> ELSE <<>>
      <4>1. targets' = {} => Cardinality(targets') # 1
        BY FS_EmptySet
      <4> QED BY <1>1, <4>1 DEF Dispatch
    <3> QED BY <3>1
  <2> QED BY <2>1 DEF IsOne
<1>2. CASE FanOutNext
  <2>1. pc = "fan_out" /\ UNCHANGED <<pc, emitted, answers>>
    BY <1>2 DEF FanOutNext
  <2> QED BY <2>1
<1>3. CASE FanOutDone
  <2>1. /\ pc = "fan_out" /\ UNCHANGED emitted
        /\ \/ pc' = "done" /\ answers' = Append(answers, NoQuorum)
           \/ pc' = "actor" /\ UNCHANGED answers
    BY <1>3 DEF FanOutDone
  <2> QED BY <2>1, AppendOne
<1>4. CASE Direct
  <2>1. /\ pc = "direct" /\ UNCHANGED emitted
        /\ \/ UNCHANGED <<pc, answers>>
           \/ pc' = "done" /\ UNCHANGED answers
           \/ pc' = "done" /\ \E a : answers' = Append(answers, a)
    BY <1>4 DEF Direct, SendOk, TargetLost
  <2> QED BY <2>1, AppendOne
<1>5. ASSUME NEW built, Recv(built) PROVE AnswerInv'
  <2>1. /\ pc = "actor" /\ UNCHANGED pc
        /\ \/ UNCHANGED <<answers, emitted>>
           \/ ~emitted /\ emitted' = TRUE /\ \E a : answers' = Append(answers, a)
    BY <1>5 DEF Recv
  <2>2. CASE UNCHANGED <<answers, emitted>>
    BY <2>1, <2>2
  <2>3. CASE ~emitted /\ emitted' = TRUE /\ \E a : answers' = Append(answers, a)
    <3>1. IsOne(answers')
      BY <2>1, <2>3, AppendOne
    <3> QED BY <2>1, <2>3, <3>1
  <2> QED BY <2>1, <2>2, <2>3
<1>6. CASE Close
  <2>1. /\ pc = "actor" /\ pc' = "done" /\ UNCHANGED emitted
        /\ answers' = IF emitted THEN answers ELSE Append(answers, NoQuorum)
    BY <1>6 DEF Close
  <2> QED BY <2>1, AppendOne
<1>7. CASE Retire
  BY <1>7 DEF Retire
<1>8. ASSUME NEW p, NEW rsp, LinkReply(p, rsp) PROVE AnswerInv'
  <2>1. /\ UNCHANGED emitted
        /\ \/ pc = "direct" /\ pc' = "done" /\ \E a : answers' = Append(answers, a)
           \/ UNCHANGED <<pc, answers>>
    BY <1>8 DEF LinkReply
  <2> QED BY <2>1, AppendOne
<1>9. ASSUME NEW p, LinkDrop(p) PROVE AnswerInv'
  <2>1. /\ UNCHANGED <<emitted, answers>>
        /\ pc' = IF pc = "direct" THEN "done" ELSE pc
    BY <1>9 DEF LinkDrop
  <2> QED BY <2>1
<1>10. CASE UNCHANGED vars
  BY <1>10 DEF vars
<1> QED BY <1>1, <1>2, <1>3, <1>4, <1>5, <1>6, <1>7, <1>8, <1>9, <1>10 DEF Next

\* However the links, the dispatching task and the actor interleave, whatever
\* the topology, the consistency level and the replies, the client's sink gets
\* at most one envelope for a request (dispatch.rs, coalesce_actor).
THEOREM AtMostOneAnswer == Spec => []OneAnswer
<1>1. Init => AnswerInv
  BY DEF Init, AnswerInv
<1>2. AnswerInv => OneAnswer
  <2>1. AnswerInv => answers = <<>> \/ IsOne(answers)
    BY DEF AnswerInv
  <2>2. \A a : Len(<<a>>) <= 1
    OBVIOUS
  <2>3. Len(<<>>) <= 1
    OBVIOUS
  <2> QED BY <2>1, <2>2, <2>3 DEF OneAnswer, IsOne
<1> QED BY <1>1, <1>2, AnswerInvStep, PTL DEF Spec

-----------------------------------------------------------------------------
(* What the evaluation of the votes tells                                  *)

\* A nonempty set of naturals has a least element.
LEMMA LeastNat ==
    ASSUME NEW T, T \subseteq Nat, T # {} PROVE \E x \in T : \A y \in T : x <= y
<1> DEFINE R == OpToRel(<, Nat)
<1>1. PICK x \in T : \A y \in T : ~(<<y, x>> \in R)
  <2> HIDE DEF R
  <2>1. IsWellFoundedOn(R, Nat)
    BY NatLessThanWellFounded DEF R
  <2> QED BY <2>1, WFMin
<1>2. \A y \in T : ~(y < x)
  BY <1>1 DEF OpToRel
<1> QED BY <1>2

\* LowestIdx is what its name says.
LEMMA LowestIdxLeast ==
    ASSUME NEW S \in SUBSET Nat, S # {}
    PROVE  LowestIdx(S) \in S /\ \A q \in S : LowestIdx(S) <= q
BY LeastNat DEF LowestIdx

IsReplyMap(f) == DOMAIN f \subseteq Peers /\ \A p \in DOMAIN f : f[p] \in Reply

\* Sets of peers are finite.
LEMMA FinitePeers == \A S \in SUBSET Peers : IsFiniteSet(S) /\ Cardinality(S) \in Nat
BY PeersAssumption, FS_Subset, FS_CardinalityType

\* With every target local, every reply votes, and the quorum is a majority of
\* the targets.
LEMMA AllLocal ==
    ASSUME NEW T \in SUBSET Peers, T = LocalTargets(T), T # {},
           NEW f, DOMAIN f \subseteq T
    PROVE  /\ Voters(T, f) = DOMAIN f
           /\ LocalCount(T) = Cardinality(T) /\ LocalCount(T) \in Nat
           /\ Quorum(T) \in Nat /\ Quorum(T) > 0
<1>1. Voters(T, f) = DOMAIN f
  BY DEF Voters
<1>2. LocalCount(T) = Cardinality(T) /\ LocalCount(T) \in Nat
  BY FinitePeers DEF LocalCount
<1> QED BY <1>1, <1>2 DEF Quorum

\* plurality_key picks a key that no other key has more votes than.
LEMMA PluralityKeyMost ==
    ASSUME NEW V \in SUBSET Peers, V # {}, NEW f
    PROVE  /\ PluralityKey(f, V) \in KeysOf(f, V)
           /\ \A j \in KeysOf(f, V) :
                 Cardinality(VotesFor(f, V, j)) <= Cardinality(VotesFor(f, V, PluralityKey(f, V)))
<1> DEFINE K == KeysOf(f, V)
           N(k) == Cardinality(VotesFor(f, V, k))
           L(k) == LowestIdx(VotesFor(f, V, k))
<1>1. Cardinality(V) \in Nat
  BY FinitePeers
<1>2. \A k \in K : N(k) \in Nat /\ N(k) <= Cardinality(V)
  <2>1. \A k : VotesFor(f, V, k) \in SUBSET V
    BY DEF VotesFor
  <2> QED BY <2>1, FinitePeers, FS_Subset
<1>3. PICK k0 \in K : \A j \in K : N(j) <= N(k0)
  <2> HIDE DEF N
  <2> DEFINE D == {Cardinality(V) - N(k) : k \in K}
  <2>1. D \subseteq Nat /\ D # {}
    BY <1>1, <1>2 DEF KeysOf
  <2>2. PICK x \in D : \A y \in D : x <= y
    <3> HIDE DEF D
    <3> QED BY <2>1, LeastNat
  <2>3. PICK k \in K : x = Cardinality(V) - N(k)
    OBVIOUS
  <2> HIDE DEF K
  <2>4. \A j \in K : Cardinality(V) - N(k) <= Cardinality(V) - N(j)
    BY <2>2, <2>3
  <2>5. \A j \in K : N(j) <= N(k)
    BY <2>4, <1>1, <1>2
  <2> QED BY <2>5
<1> DEFINE M == {k \in K : N(k) = N(k0)}
<1>4. \A k \in K : /\ VotesFor(f, V, k) \in SUBSET Nat /\ VotesFor(f, V, k) # {}
                   /\ L(k) \in VotesFor(f, V, k)
  <2>1. \A k \in K : VotesFor(f, V, k) \in SUBSET Nat /\ VotesFor(f, V, k) # {}
    BY PeersAssumption DEF KeysOf, VotesFor
  <2> QED BY <2>1, LowestIdxLeast
<1>5. \A k \in K : L(k) \in Nat
  BY <1>4
<1>6. \A j, k \in K : L(j) = L(k) => j = k
  BY <1>4 DEF VotesFor
<1>7. PICK k1 \in M : \A j \in M : L(k1) <= L(j)
  <2> HIDE DEF L, N
  <2> DEFINE D == {L(k) : k \in M}
  <2>1. D \subseteq Nat /\ D # {}
    BY <1>3, <1>5
  <2>2. PICK x \in D : \A y \in D : x <= y
    <3> HIDE DEF D
    <3> QED BY <2>1, LeastNat
  <2>3. PICK k \in M : x = L(k)
    OBVIOUS
  <2> QED BY <2>2, <2>3
<1> DEFINE W(k) == \A j \in K \ {k} : N(k) > N(j) \/ (N(k) = N(j) /\ L(k) < L(j))
<1>8. k1 \in K /\ W(k1)
  <2> HIDE DEF L, N
  <2> SUFFICES ASSUME NEW j \in K \ {k1}
               PROVE  N(k1) > N(j) \/ (N(k1) = N(j) /\ L(k1) < L(j))
    OBVIOUS
  <2>1. CASE N(j) = N(k0)
    <3>1. L(k1) <= L(j) /\ L(k1) # L(j)
      BY <1>6, <1>7, <2>1
    <3> QED BY <2>1, <3>1, <1>5
  <2>2. CASE N(j) # N(k0)
    BY <2>2, <1>2, <1>3
  <2> QED BY <2>1, <2>2
<1>9. PluralityKey(f, V) = CHOOSE k \in K : W(k)
  BY DEF PluralityKey
<1>10. PluralityKey(f, V) \in K /\ W(PluralityKey(f, V))
  <2> HIDE DEF W, K
  <2> QED BY <1>8, <1>9
<1>11. \A j \in K : N(j) <= N(PluralityKey(f, V))
  <2> HIDE DEF N, L, K
  <2> QED BY <1>2, <1>10
<1> QED BY <1>10, <1>11

AtMostOne(S) == \A p, q \in S : p = q

\* What each level's evaluation tells of the replies f of some of the targets T:
\* the level is not reached, it cannot be reached any more, or the reply k is
\* the one the level promises (own: the replica that answers under DC_ONE, if
\* only one may).
Unreached(level, T, f) ==
    CASE level = "DC_ONE" -> DOMAIN f = {}
      [] level = "DC_QUORUM" ->
            /\ DOMAIN f # T
            /\ \A k \in Reply : Cardinality(VotesFor(f, DOMAIN f, k)) < Quorum(T)
      [] OTHER -> DOMAIN f # T

Divergent(level, f) ==
    /\ level \in {"DC_SAFE_QUORUM", "DC_EACH_SAFE_QUORUM"}
    /\ \E p, q \in DOMAIN f : DcOf[p] = DcOf[q] /\ f[p] # f[q]

Backed(level, T, own, f, k) ==
    CASE level = "DC_ONE" -> \A p \in own : p \in DOMAIN f /\ f[p] = k
      [] level = "DC_QUORUM" ->
            \/ Cardinality(VotesFor(f, DOMAIN f, k)) >= Quorum(T)
            \/ /\ DOMAIN f = T
               /\ \A j \in Reply :
                     Cardinality(VotesFor(f, DOMAIN f, j)) <= Cardinality(VotesFor(f, DOMAIN f, k))
      [] level = "DC_SAFE_QUORUM" -> DOMAIN f = T /\ \A p \in T : f[p] = k
      [] OTHER -> /\ DOMAIN f = T /\ \A p \in LocalTargets(T) : f[p] = k
                  /\ \A p, q \in T : DcOf[p] = DcOf[q] => f[p] = f[q]

\* evaluate_dc_quorum.
LEMMA DcQuorumOutcome ==
    ASSUME NEW T \in SUBSET Peers, T = LocalTargets(T), T # {},
           NEW f, IsReplyMap(f), DOMAIN f \subseteq T, NEW own
    PROVE  \/ EvaluateDcQuorum(T, f) = Pending /\ Unreached("DC_QUORUM", T, f)
           \/ \E k \in Reply : EvaluateDcQuorum(T, f) = Ready(k) /\ Backed("DC_QUORUM", T, own, f, k)
<1> DEFINE V == DOMAIN f
           N(k) == Cardinality(VotesFor(f, V, k))
           winning == {k \in KeysOf(f, V) : N(k) >= Quorum(T)}
<1>1. /\ Voters(T, f) = V /\ LocalCount(T) = Cardinality(T) /\ LocalCount(T) \in Nat
      /\ Quorum(T) \in Nat /\ Quorum(T) > 0
  BY AllLocal
<1>2. V \in SUBSET Peers /\ Cardinality(V) \in Nat
  BY FinitePeers DEF IsReplyMap
<1>3. KeysOf(f, V) \subseteq Reply
  BY DEF KeysOf, IsReplyMap
<1>4. \A k \in Reply : N(k) \in Nat /\ (k \notin KeysOf(f, V) => N(k) = 0)
  <2>1. \A k : VotesFor(f, V, k) \in SUBSET V
    BY DEF VotesFor
  <2>2. \A k : k \notin KeysOf(f, V) => VotesFor(f, V, k) = {}
    BY DEF VotesFor, KeysOf
  <2>3. \A k : N(k) \in Nat
    BY <1>2, <2>1, FinitePeers
  <2> QED BY <2>2, <2>3, FS_EmptySet
<1>5. EvaluateDcQuorum(T, f) = IF winning # {} THEN Ready(CHOOSE k \in winning : TRUE)
                               ELSE IF Cardinality(V) < Cardinality(T) THEN Pending
                               ELSE IF V = {} THEN Failed ELSE Ready(PluralityKey(f, V))
  BY <1>1 DEF EvaluateDcQuorum
<1>6. CASE winning # {}
  <2>1. PICK k \in winning : EvaluateDcQuorum(T, f) = Ready(k)
    BY <1>5, <1>6
  <2> QED BY <1>3, <2>1 DEF Backed
<1>7. CASE winning = {} /\ Cardinality(V) < Cardinality(T)
  <2>1. EvaluateDcQuorum(T, f) = Pending
    BY <1>5, <1>7
  <2>2. \A k \in Reply : N(k) < Quorum(T)
    <3> HIDE DEF N, V
    <3> QED BY <1>1, <1>4, <1>7
  <2>3. V # T
    BY <1>7, <1>1
  <2> QED BY <2>1, <2>2, <2>3 DEF Unreached
<1>8. CASE winning = {} /\ ~(Cardinality(V) < Cardinality(T))
  <2>1. V = T
    <3>1. Cardinality(V) <= Cardinality(T) /\ (Cardinality(T) = Cardinality(V) => T = V)
      BY FinitePeers, FS_Subset
    <3> QED BY <1>1, <1>2, <1>8, <3>1
  <2>2. EvaluateDcQuorum(T, f) = Ready(PluralityKey(f, V))
    BY <1>5, <1>8, <2>1
  <2>3. /\ PluralityKey(f, V) \in KeysOf(f, V)
        /\ \A j \in KeysOf(f, V) : N(j) <= N(PluralityKey(f, V))
    BY <1>2, <2>1, PluralityKeyMost
  <2>4. \A j \in Reply : N(j) <= N(PluralityKey(f, V))
    <3> HIDE DEF N, V
    <3> QED BY <1>3, <1>4, <2>3
  <2> QED BY <1>3, <2>1, <2>2, <2>3, <2>4 DEF Backed
<1> QED BY <1>6, <1>7, <1>8

\* One value: the set of what f gives on S has one element.
LEMMA OneKey ==
    ASSUME NEW S \in SUBSET Peers, S # {}, NEW f
    PROVE  Cardinality(KeysOf(f, S)) = 1 <=> \A p, q \in S : f[p] = f[q]
<1>1. IsFiniteSet(KeysOf(f, S))
  <2>1. IsFiniteSet(S)
    BY FinitePeers
  <2>2. IsFiniteSet({f[p] : p \in S})
    <3> DEFINE g == [p \in S |-> f[p]]
    <3>1. g \in Surjection(S, {f[p] : p \in S})
      BY DEF Surjection
    <3> QED BY <2>1, <3>1, FS_Surjection
  <2> QED BY <2>2 DEF KeysOf
<1>2. Cardinality(KeysOf(f, S)) = 1 <=> \E x : KeysOf(f, S) = {x}
  BY <1>1, FS_Singleton
<1>3. (\E x : KeysOf(f, S) = {x}) <=> \A p, q \in S : f[p] = f[q]
  BY DEF KeysOf
<1> QED BY <1>2, <1>3

\* evaluate_dc_safe_quorum.
LEMMA DcSafeQuorumOutcome ==
    ASSUME NEW T \in SUBSET Peers, T = LocalTargets(T), T # {},
           NEW f, IsReplyMap(f), DOMAIN f \subseteq T, NEW own
    PROVE  LET level == "DC_SAFE_QUORUM" IN
           \/ EvaluateDcSafeQuorum(T, f) = Pending /\ Unreached(level, T, f)
           \/ EvaluateDcSafeQuorum(T, f) = Failed /\ Divergent(level, f)
           \/ \E k \in Reply :
                 EvaluateDcSafeQuorum(T, f) = Ready(k) /\ Backed(level, T, own, f, k)
<1> DEFINE V == DOMAIN f
<1>1. Voters(T, f) = V /\ LocalCount(T) = Cardinality(T) /\ LocalCount(T) \in Nat
  BY AllLocal
<1>2. V \in SUBSET Peers /\ Cardinality(V) \in Nat
  BY FinitePeers DEF IsReplyMap
<1>3. EvaluateDcSafeQuorum(T, f) =
        IF Cardinality(V) < Cardinality(T) THEN Pending
        ELSE IF Cardinality(KeysOf(f, V)) = 1 THEN Ready(CHOOSE k \in KeysOf(f, V) : TRUE)
        ELSE Failed
  BY <1>1 DEF EvaluateDcSafeQuorum
<1>4. CASE Cardinality(V) < Cardinality(T)
  BY <1>1, <1>3, <1>4 DEF Unreached
<1>5. CASE ~(Cardinality(V) < Cardinality(T))
  <2>1. V = T
    <3>1. Cardinality(V) <= Cardinality(T) /\ (Cardinality(T) = Cardinality(V) => T = V)
      BY FinitePeers, FS_Subset
    <3> QED BY <1>1, <1>2, <1>5, <3>1
  <2>2. Cardinality(KeysOf(f, V)) = 1 <=> \A p, q \in V : f[p] = f[q]
    BY <1>2, <2>1, OneKey
  <2>3. CASE \A p, q \in V : f[p] = f[q]
    <3>1. PICK k \in KeysOf(f, V) : EvaluateDcSafeQuorum(T, f) = Ready(k)
      BY <1>3, <1>5, <2>1, <2>2, <2>3 DEF KeysOf
    <3> QED BY <2>1, <2>3, <3>1 DEF KeysOf, Backed, IsReplyMap
  <2>4. CASE ~\A p, q \in V : f[p] = f[q]
    <3>1. EvaluateDcSafeQuorum(T, f) = Failed
      BY <1>3, <1>5, <2>2, <2>4
    <3>2. \A p \in V : DcOf[p] = LocalDc
      BY <2>1 DEF LocalTargets
    <3> QED BY <2>4, <3>1, <3>2 DEF Divergent
  <2> QED BY <2>3, <2>4
<1> QED BY <1>4, <1>5

\* evaluate_dc_each_safe_quorum.
LEMMA DcEachSafeQuorumOutcome ==
    ASSUME NEW T \in SUBSET Peers, T # {},
           NEW f, IsReplyMap(f), DOMAIN f \subseteq T, NEW own
    PROVE  LET level == "DC_EACH_SAFE_QUORUM" IN
           \/ EvaluateDcEachSafeQuorum(T, f) = Pending /\ Unreached(level, T, f)
           \/ EvaluateDcEachSafeQuorum(T, f) = Failed /\ Divergent(level, f)
           \/ \E k \in Reply :
                 EvaluateDcEachSafeQuorum(T, f) = Ready(k) /\ Backed(level, T, own, f, k)
<1> DEFINE dcs == {DcOf[p] : p \in T}
           complete == {d \in dcs : DcTargets(T, d) \subseteq DOMAIN f}
           split == {d \in complete : Cardinality(KeysOf(f, DcTargets(T, d))) # 1}
           local == f[CHOOSE p \in DcTargets(T, LocalDc) : TRUE]
           lowest == f[LowestIdx(DOMAIN f)]
<1>1. EvaluateDcEachSafeQuorum(T, f) =
        IF split # {} THEN Failed ELSE IF complete # dcs THEN Pending
        ELSE IF LocalDc \in dcs THEN Ready(local) ELSE Ready(lowest)
  BY DEF EvaluateDcEachSafeQuorum
<1>2. \A d \in complete : /\ DcTargets(T, d) # {}
                          /\ d \in split <=> ~\A p, q \in DcTargets(T, d) : f[p] = f[q]
  <2>1. \A d \in complete : DcTargets(T, d) # {} /\ DcTargets(T, d) \in SUBSET Peers
    BY DEF DcTargets
  <2> QED BY <2>1, OneKey
<1>3. CASE split # {}
  <2>1. PICK d \in complete : \E p, q \in DcTargets(T, d) : f[p] # f[q]
    BY <1>2, <1>3
  <2> QED BY <1>1, <1>3, <2>1 DEF DcTargets, Divergent
<1>4. CASE split = {} /\ complete # dcs
  <2>1. DOMAIN f # T
    BY <1>4 DEF DcTargets
  <2> QED BY <1>1, <1>4, <2>1 DEF Unreached
<1>5. CASE split = {} /\ complete = dcs
  <2>1. DOMAIN f = T
    <3>1. \A p \in T : p \in DcTargets(T, DcOf[p]) /\ DcOf[p] \in complete
      BY <1>5 DEF DcTargets
    <3> QED BY <3>1
  <2>2. \A p, q \in T : DcOf[p] = DcOf[q] => f[p] = f[q]
    <3>1. \A p \in T : DcOf[p] \in complete
      BY <1>5
    <3> QED BY <1>2, <1>5, <3>1 DEF DcTargets
  <2>3. CASE LocalDc \in dcs
    <3>1. PICK p \in LocalTargets(T) : local = f[p]
      BY <2>3 DEF DcTargets, LocalTargets
    <3>2. \A q \in LocalTargets(T) : f[q] = local
      BY <2>2, <3>1 DEF LocalTargets
    <3>3. local \in Reply
      BY <2>1, <3>1 DEF LocalTargets, IsReplyMap
    <3>4. EvaluateDcEachSafeQuorum(T, f) = Ready(local)
      BY <1>1, <1>5, <2>3
    <3> QED BY <2>1, <2>2, <3>2, <3>3, <3>4 DEF Backed
  <2>4. CASE LocalDc \notin dcs
    <3>1. LocalTargets(T) = {}
      BY <2>4 DEF LocalTargets
    <3>2. lowest \in Reply
      BY <2>1, LowestIdxLeast, PeersAssumption DEF IsReplyMap
    <3>3. EvaluateDcEachSafeQuorum(T, f) = Ready(lowest)
      BY <1>1, <1>5, <2>4
    <3> QED BY <2>1, <2>2, <3>1, <3>2, <3>3 DEF Backed
  <2> QED BY <2>3, <2>4
<1> QED BY <1>3, <1>4, <1>5

\* The tracker's evaluation, at every level.
LEMMA EvaluateOutcome ==
    ASSUME NEW level \in Levels, NEW T \in SUBSET Peers, T # {},
           level \in {"DC_QUORUM", "DC_SAFE_QUORUM"} => T = LocalTargets(T),
           NEW f, IsReplyMap(f), DOMAIN f \subseteq T, NEW src \in DOMAIN f,
           NEW own, AtMostOne(own), own = {} \/ src \in own
    PROVE  \/ Evaluate(level, T, f, src) = Pending /\ Unreached(level, T, f)
           \/ Evaluate(level, T, f, src) = Failed /\ Divergent(level, f)
           \/ \E k \in Reply :
                 Evaluate(level, T, f, src) = Ready(k) /\ Backed(level, T, own, f, k)
<1>1. CASE level = "DC_ONE"
  BY <1>1 DEF Evaluate, EvaluateDcOne, Backed, IsReplyMap, AtMostOne
<1>2. CASE level = "DC_QUORUM"
  BY <1>2, DcQuorumOutcome DEF Evaluate
<1>3. CASE level = "DC_SAFE_QUORUM"
  BY <1>3, DcSafeQuorumOutcome DEF Evaluate
<1>4. CASE level = "DC_EACH_SAFE_QUORUM"
  BY <1>4, DcEachSafeQuorumOutcome DEF Evaluate
<1> QED BY <1>1, <1>2, <1>3, <1>4 DEF Levels

-----------------------------------------------------------------------------
(* What a plan may be                                                      *)

\* A set without two elements is not fanned out to.
LEMMA CardAtMostOne ==
    ASSUME NEW S, IsFiniteSet(S), AtMostOne(S) PROVE ~(Cardinality(S) > 1)
<1>1. CASE S = {}
  BY <1>1, FS_EmptySet
<1>2. CASE S # {}
  <2>1. PICK x : S = {x}
    BY <1>2 DEF AtMostOne
  <2> QED BY <2>1, FS_Singleton
<1> QED BY <1>1, <1>2

\* The plan's order is total: no two candidates come first.
LEMMA ForemostIsOne ==
    ASSUME NEW S \in SUBSET Candidates PROVE AtMostOne(Foremost(S))
<1>1. \A p \in Candidates : Pos(p) \in Nat /\ Ring[Pos(p)] = p
  <2>1. DOMAIN Ring \subseteq Nat
    BY RingAssumption
  <2> QED BY <2>1 DEF Candidates, Pos
<1>2. \A p, q \in Candidates : Precedes(p, q) \/ Precedes(q, p) \/ Pos(p) = Pos(q)
  BY <1>1 DEF Precedes
<1>3. \A p, q \in Foremost(S) : p \in S /\ q \in S /\ ~Precedes(p, q) /\ ~Precedes(q, p)
  BY DEF Foremost
<1> QED BY <1>1, <1>2, <1>3 DEF AtMostOne

\* A replica plan as Capped and PlanWithConsistency leave it.
GoodReplicas(r, plan) ==
    \E level \in Levels, S \in SUBSET Candidates :
       /\ plan = Replicas(level, S)
       /\ level \in {"DC_QUORUM", "DC_SAFE_QUORUM"} => S = LocalTargets(S)
       /\ TsRead(r) /\ level = "DC_ONE" => AtMostOne(S)

\* The fields of a replica plan.
LEMMA ReplicasFields ==
    \A level, S : /\ Replicas(level, S).plan = "replicas"
                  /\ Replicas(level, S).level = level
                  /\ Replicas(level, S).targets = S
                  /\ Replicas(level, S) # NoTargets /\ Replicas(level, S) # LocalDatastore
BY DEF Replicas, NoTargets, LocalDatastore

\* plan_with_consistency: local targets at the local levels, one at most for a
\* read at DC_ONE.
LEMMA WithConsistencyShape ==
    ASSUME NEW r \in Requests, NEW local \in SUBSET Candidates, NEW remote \in SUBSET Candidates,
           \A p \in local : DcOf[p] = LocalDc
    PROVE  LET plan == PlanWithConsistency(r, local, remote)
           IN  plan \in {LocalDatastore, NoTargets} \/ GoodReplicas(r, plan)
<1> DEFINE plan == PlanWithConsistency(r, local, remote)
<1>1. r.level \in Levels /\ (TsRead(r) => r.is_read)
  BY DEF Requests, TsRead
<1>2. local = LocalTargets(local)
  BY DEF LocalTargets
<1>3. CASE local = {} /\ r.level # "DC_EACH_SAFE_QUORUM"
  BY <1>3 DEF PlanWithConsistency
<1>4. CASE r.level = "DC_ONE" /\ local # {}
  <2> DEFINE S == IF r.is_read THEN Nearest(local) ELSE local
  <2>1. plan \in {LocalDatastore, Replicas("DC_ONE", S)}
    BY <1>4 DEF PlanWithConsistency
  <2> DEFINE closest == IF {p \in local : InOwnRack(p)} # {}
                        THEN {p \in local : InOwnRack(p)} ELSE local
  <2>0. Nearest(local) = Foremost(closest) /\ closest \in SUBSET Candidates
    BY DEF Nearest
  <2>2. S \in SUBSET Candidates
    BY <2>0 DEF Foremost
  <2>3. TsRead(r) => AtMostOne(S)
    BY <1>1, <2>0, ForemostIsOne
  <2> HIDE DEF S
  <2>4. GoodReplicas(r, Replicas("DC_ONE", S))
    BY <2>2, <2>3 DEF GoodReplicas, Levels
  <2> QED BY <2>1, <2>4
<1>5. CASE r.level = "DC_EACH_SAFE_QUORUM"
  <2>1. plan = Replicas(r.level, local \cup remote)
    BY <1>5 DEF PlanWithConsistency
  <2>2. GoodReplicas(r, Replicas(r.level, local \cup remote))
    BY <1>1, <1>5 DEF GoodReplicas
  <2> QED BY <2>1, <2>2
<1>6. CASE r.level \in {"DC_QUORUM", "DC_SAFE_QUORUM"} /\ local # {}
  <2>1. plan = Replicas(r.level, local)
    BY <1>6 DEF PlanWithConsistency
  <2>2. GoodReplicas(r, Replicas(r.level, local))
    BY <1>1, <1>2, <1>6 DEF GoodReplicas
  <2> QED BY <2>1, <2>2
<1> QED BY <1>1, <1>3, <1>4, <1>5, <1>6 DEF Levels

\* cap_replicas keeps the shape.
LEMMA CappedShape ==
    ASSUME NEW r, NEW plan, NEW n, plan \in {LocalDatastore, NoTargets} \/ GoodReplicas(r, plan)
    PROVE  Capped(plan, n) \in {LocalDatastore, NoTargets} \/ GoodReplicas(r, Capped(plan, n))
<1>1. CASE plan \in {LocalDatastore, NoTargets}
  BY <1>1 DEF Capped, LocalDatastore, NoTargets
<1>2. CASE GoodReplicas(r, plan)
  <2>1. PICK level \in Levels, S \in SUBSET Candidates :
           /\ plan = Replicas(level, S)
           /\ level \in {"DC_QUORUM", "DC_SAFE_QUORUM"} => S = LocalTargets(S)
           /\ TsRead(r) /\ level = "DC_ONE" => AtMostOne(S)
    BY <1>2 DEF GoodReplicas
  <2>2. FirstOf(n, S) \in SUBSET S
    BY DEF FirstOf
  <2>3. Capped(plan, n) = plan \/ Capped(plan, n) = Replicas(level, FirstOf(n, S))
    BY <2>1 DEF Capped, Replicas
  <2>4. GoodReplicas(r, Replicas(level, FirstOf(n, S)))
    <3> DEFINE F == FirstOf(n, S)
    <3>1. F \in SUBSET Candidates
      BY <2>2
    <3>2. level \in {"DC_QUORUM", "DC_SAFE_QUORUM"} => F = LocalTargets(F)
      BY <2>1, <2>2 DEF LocalTargets
    <3>3. TsRead(r) /\ level = "DC_ONE" => AtMostOne(F)
      BY <2>1, <2>2 DEF AtMostOne
    <3> HIDE DEF F
    <3>4. GoodReplicas(r, Replicas(level, F))
      BY <3>1, <3>2, <3>3 DEF GoodReplicas
    <3> QED BY <3>4 DEF F
  <2> QED BY <1>2, <2>3, <2>4
<1> QED BY <1>1, <1>2

\* ClusterDispatcher::plan: the local datastore, nobody, or replicas.
LEMMA PlanShape ==
    ASSUME NEW r \in Requests, NEW state
    PROVE  Plan(r, state) \in {LocalDatastore, NoTargets} \/ GoodReplicas(r, Plan(r, state))
<1> DEFINE routable == {p \in Candidates : Routable(r, state, p)}
           local == {p \in routable : DcOf[p] = LocalDc}
           remote == routable \ local
<1>1. CASE r.routing = "local_node"
  BY <1>1 DEF Plan
<1>2. CASE r.routing = "all_nodes"
  <2>1. ~TsRead(r)
    BY <1>2 DEF Requests, TsRead
  <2>2. Peers = Candidates
    BY RingAssumption DEF Candidates
  <2>3. GoodReplicas(r, Replicas("DC_ONE", Peers))
    BY <2>1, <2>2 DEF GoodReplicas, Levels
  <2> QED BY <1>2, <2>3 DEF Plan
<1>3. CASE r.routing \notin {"local_node", "all_nodes"}
  <2>1. Plan(r, state) = NoTargets
        \/ Plan(r, state) = Capped(PlanWithConsistency(r, local, remote), r.n_val)
    BY <1>3 DEF Plan
  <2>2. local \in SUBSET Candidates /\ remote \in SUBSET Candidates
    OBVIOUS
  <2>3. \A p \in local : DcOf[p] = LocalDc
    OBVIOUS
  <2> HIDE DEF local, remote
  <2> QED BY <2>1, <2>2, <2>3, WithConsistencyShape, CappedShape
<1> QED BY <1>1, <1>2, <1>3

-----------------------------------------------------------------------------
(* The channel and the votes                                               *)

Env == [src : Peers, rsp : Reply]
Entries(c) == {c[i] : i \in DOMAIN c}
Srcs(c) == {e.src : e \in Entries(c)}
Once(c) == \A i, j \in DOMAIN c : c[i].src = c[j].src => i = j

\* What an envelope adds to the channel.
LEMMA EntriesAppend ==
    ASSUME NEW c \in Seq(Env), NEW e \in Env
    PROVE  /\ Append(c, e) \in Seq(Env)
           /\ Entries(Append(c, e)) = Entries(c) \cup {e}
           /\ Srcs(Append(c, e)) = Srcs(c) \cup {e.src}
           /\ Once(c) /\ e.src \notin Srcs(c) => Once(Append(c, e))
<1>1. /\ Append(c, e) \in Seq(Env)
      /\ DOMAIN c = 1..Len(c) /\ Len(c) \in Nat /\ DOMAIN Append(c, e) = 1..(Len(c) + 1)
      /\ \A i \in 1..Len(c) : Append(c, e)[i] = c[i]
      /\ Append(c, e)[Len(c) + 1] = e
  BY AppendProperties, LenProperties
<1>2. Entries(Append(c, e)) = Entries(c) \cup {e}
  <2>1. \A i \in 1..(Len(c) + 1) : i \in 1..Len(c) \/ i = Len(c) + 1
    BY <1>1
  <2>2. \A i \in 1..Len(c) : i \in 1..(Len(c) + 1)
    BY <1>1
  <2>3. Len(c) + 1 \in 1..(Len(c) + 1)
    BY <1>1
  <2> QED BY <1>1, <2>1, <2>2, <2>3 DEF Entries
<1>3. Srcs(Append(c, e)) = Srcs(c) \cup {e.src}
  BY <1>2 DEF Srcs
<1>4. ASSUME Once(c), e.src \notin Srcs(c) PROVE Once(Append(c, e))
  <2>1. \A i \in 1..Len(c) : c[i].src \in Srcs(c)
    BY <1>1 DEF Srcs, Entries
  <2> SUFFICES ASSUME NEW i \in 1..(Len(c) + 1), NEW j \in 1..(Len(c) + 1),
                      Append(c, e)[i].src = Append(c, e)[j].src
               PROVE  i = j
    BY <1>1 DEF Once
  <2>2. (i \in 1..Len(c) \/ i = Len(c) + 1) /\ (j \in 1..Len(c) \/ j = Len(c) + 1)
    BY <1>1
  <2> QED BY <1>1, <1>4, <2>1, <2>2 DEF Once
<1> QED BY <1>1, <1>2, <1>3, <1>4

\* What taking the first envelope leaves in the channel.
LEMMA EntriesTail ==
    ASSUME NEW c \in Seq(Env), c # <<>>, Once(c)
    PROVE  /\ Tail(c) \in Seq(Env) /\ Head(c) \in Env /\ Head(c) \in Entries(c)
           /\ Entries(Tail(c)) \subseteq Entries(c)
           /\ Srcs(Tail(c)) = Srcs(c) \ {Head(c).src} /\ Head(c).src \in Srcs(c)
           /\ Once(Tail(c))
<1>1. /\ Tail(c) \in Seq(Env) /\ Head(c) \in Env /\ Head(c) = c[1]
      /\ DOMAIN c = 1..Len(c) /\ Len(c) \in Nat /\ Len(c) >= 1
      /\ DOMAIN Tail(c) = 1..(Len(c) - 1)
      /\ \A i \in 1..(Len(c) - 1) : Tail(c)[i] = c[i + 1]
  BY HeadTailProperties, LenProperties, EmptySeq
<1>2. \A i \in 1..(Len(c) - 1) : i + 1 \in 1..Len(c) /\ i + 1 # 1
  BY <1>1
<1>3. \A i \in 1..Len(c) : i = 1 \/ (i - 1 \in 1..(Len(c) - 1) /\ (i - 1) + 1 = i)
  BY <1>1
<1>4. 1 \in 1..Len(c)
  BY <1>1
<1>5. Head(c) \in Entries(c) /\ Entries(Tail(c)) \subseteq Entries(c)
  BY <1>1, <1>2, <1>4 DEF Entries
<1>6. Srcs(Tail(c)) = Srcs(c) \ {Head(c).src}
  <2>1. ASSUME NEW s \in Srcs(Tail(c)) PROVE s \in Srcs(c) \ {Head(c).src}
    <3>1. PICK i \in 1..(Len(c) - 1) : s = c[i + 1].src
      BY <1>1 DEF Srcs, Entries
    <3>2. s # c[1].src
      BY <1>1, <1>2, <1>4, <3>1 DEF Once
    <3> QED BY <1>1, <1>5, <3>2 DEF Srcs
  <2>2. ASSUME NEW s \in Srcs(c), s # Head(c).src PROVE s \in Srcs(Tail(c))
    <3>1. PICK i \in 1..Len(c) : s = c[i].src
      BY <1>1 DEF Srcs, Entries
    <3>2. i # 1
      BY <1>1, <2>2, <3>1
    <3>3. c[i] = Tail(c)[i - 1] /\ i - 1 \in DOMAIN Tail(c)
      BY <1>1, <1>3, <3>2
    <3> QED BY <3>1, <3>3 DEF Srcs, Entries
  <2> QED BY <2>1, <2>2
<1>7. Once(Tail(c))
  <2> SUFFICES ASSUME NEW i \in 1..(Len(c) - 1), NEW j \in 1..(Len(c) - 1),
                      Tail(c)[i].src = Tail(c)[j].src
               PROVE  i = j
    BY <1>1 DEF Once
  <2>1. i + 1 = j + 1
    BY <1>1, <1>2 DEF Once
  <2> QED BY <2>1
<1>8. Head(c).src \in Srcs(c)
  BY <1>5 DEF Srcs
<1> QED BY <1>1, <1>5, <1>6, <1>7, <1>8

\* What recording a reply does to a map of replies.
LEMMA RecordReplyMap ==
    ASSUME NEW f, IsReplyMap(f), NEW p \in Peers, NEW x \in Reply
    PROVE  /\ IsReplyMap(RecordReply(f, p, x))
           /\ DOMAIN RecordReply(f, p, x) = DOMAIN f \cup {p}
           /\ RecordReply(f, p, x)[p] = x
           /\ \A q \in DOMAIN f : q # p => RecordReply(f, p, x)[q] = f[q]
BY DEF IsReplyMap, RecordReply

\* A reply of a source that has none yet leaves the others alone.
LEMMA RecordNew ==
    ASSUME NEW f, IsReplyMap(f), NEW p \in Peers, p \notin DOMAIN f, NEW x \in Reply
    PROVE  /\ IsReplyMap(RecordReply(f, p, x))
           /\ DOMAIN RecordReply(f, p, x) = DOMAIN f \cup {p}
           /\ RecordReply(f, p, x)[p] = x
           /\ \A q \in DOMAIN f : RecordReply(f, p, x)[q] = f[q]
BY DEF IsReplyMap, RecordReply

\* A reply as the client sees it is a reply.
LEMMA PlainReply ==
    /\ \A r : \A x \in Reply : Plain(r, x) \in Reply /\ Plain(r, x).err = x.err
    /\ ErrorReply \in Reply /\ SynthOk \in Reply
    /\ \A r : ~TsRead(r) => Plain(r, SynthOk) = SynthOk
BY PayloadsAssumption DEF Plain, Reply, ErrorReply, SynthOk

-----------------------------------------------------------------------------
(* The actor, as a function of the channel c and the votes v                *)

Taken(c, v) == DOMAIN v \ Srcs(c)
GoodOf(S, v) == {p \in S : ~v[p].err}

ChannelFits(r, c, v) ==
    /\ c \in Seq(Env) /\ Once(c)
    /\ \A e \in Entries(c) : e.src \in DOMAIN v /\ Plain(r, e.rsp) = v[e.src]

\* f: what the tracker received; heard: the targets whose replies reach it;
\* n, g: the envelopes counted and those that were not errors.
ActorFits(level, T, heard, c, v, f, dec, n, g) ==
    /\ IsReplyMap(f) /\ DOMAIN f \subseteq Taken(c, v)
    /\ \A p \in DOMAIN f : f[p] = v[p]
    /\ n = Cardinality(Taken(c, v)) /\ g = Cardinality(GoodOf(Taken(c, v), v))
    /\ ~dec => DOMAIN f = Taken(c, v) \cap heard /\ Unreached(level, T, f)

\* A new vote goes to the end of the channel: the actor has not seen it.
LEMMA VoteKeeps ==
    ASSUME NEW r, NEW c, NEW v, IsReplyMap(v), ChannelFits(r, c, v),
           NEW p \in Peers, p \notin DOMAIN v, NEW x \in Reply,
           NEW level, NEW T, NEW heard, NEW f, NEW dec, NEW n, NEW g,
           ActorFits(level, T, heard, c, v, f, dec, n, g)
    PROVE  LET c2 == Append(c, Envelope(p, x))
               v2 == RecordReply(v, p, Plain(r, x))
           IN  ChannelFits(r, c2, v2) /\ ActorFits(level, T, heard, c2, v2, f, dec, n, g)
<1> DEFINE c2 == Append(c, Envelope(p, x))
           v2 == RecordReply(v, p, Plain(r, x))
<1>1. c \in Seq(Env) /\ Once(c) /\ Envelope(p, x) \in Env
      /\ Envelope(p, x).src = p /\ Envelope(p, x).rsp = x
  BY DEF ChannelFits, Envelope, Env
<1>2. \A e \in Entries(c) : e.src \in DOMAIN v /\ Plain(r, e.rsp) = v[e.src]
  BY DEF ChannelFits
<1>3. p \notin Srcs(c)
  BY <1>2 DEF Srcs
<1>4. c2 \in Seq(Env) /\ Entries(c2) = Entries(c) \cup {Envelope(p, x)}
      /\ Srcs(c2) = Srcs(c) \cup {p} /\ Once(c2)
  BY <1>1, <1>3, EntriesAppend
<1>5. Plain(r, x) \in Reply
  BY PlainReply
<1>6. /\ DOMAIN v2 = DOMAIN v \cup {p} /\ v2[p] = Plain(r, x)
      /\ \A q \in DOMAIN v : v2[q] = v[q]
  BY <1>5, RecordReplyMap
<1> HIDE DEF c2, v2
<1>7. ChannelFits(r, c2, v2)
  <2>1. \A e \in Entries(c2) : e.src \in DOMAIN v2 /\ Plain(r, e.rsp) = v2[e.src]
    BY <1>1, <1>2, <1>4, <1>6
  <2> QED BY <1>4, <2>1 DEF ChannelFits
<1>8. Taken(c2, v2) = Taken(c, v)
  BY <1>3, <1>4, <1>6 DEF Taken
<1>9. \A q \in Taken(c, v) : v2[q] = v[q]
  BY <1>6 DEF Taken
<1>10. GoodOf(Taken(c, v), v2) = GoodOf(Taken(c, v), v)
  BY <1>9 DEF GoodOf
<1>11. ActorFits(level, T, heard, c2, v2, f, dec, n, g)
  BY <1>8, <1>9, <1>10 DEF ActorFits
<1> QED BY <1>7, <1>11 DEF c2, v2

-----------------------------------------------------------------------------
(* The invariant                                                           *)

\* Every vote so far, and the targets whose votes reach the tracker.
Votes == [p \in Voted |-> VoteOf(p)]
Heard == {p \in targets : ~Swallowed(p)}

TypeInv ==
    /\ req.level \in Levels /\ (req.script = "read" => req.is_read)
    /\ targets \subseteq Peers /\ IsReplyMap(said)
    /\ ts_replies \in Seq([src : Peers, ver : Payloads])
    /\ decided \in BOOLEAN /\ emitted \in BOOLEAN

\* What a plan that is fanned out looks like.
PlanInv ==
    FannedOut =>
        /\ targets \subseteq Candidates
        /\ req.level \in {"DC_QUORUM", "DC_SAFE_QUORUM"} => targets = Locals
        /\ TsRead(req) => req.level # "DC_ONE"

\* A target is still to be reached, or its request is with its link, answered,
\* dropped or lost, or hinted; it is in one of these places.
FlowInv ==
    /\ todo \subseteq targets /\ sent \cup hinted \subseteq targets \ todo
    /\ sent \cap hinted = {}
    /\ in_flight \subseteq sent \ DOMAIN said /\ DOMAIN said \subseteq sent

\* What each phase of the request has not done yet.
PhaseInv ==
    /\ pc = "idle" => targets = {} /\ sent = {} /\ hinted = {} /\ chan = <<>>
    /\ pc \in {"idle", "fan_out", "direct"} =>
          /\ received = EmptyMap /\ replied = 0 /\ good = 0
          /\ ~decided /\ ~cleaned /\ repaired = {}
    /\ pc \in {"fan_out", "actor"} => FannedOut
    /\ pc = "direct" => ~FannedOut
    /\ pc = "done" /\ FannedOut => in_flight = {}
    /\ decided = emitted
    /\ ~FannedOut => ~cleaned
    /\ repaired # {} => TsRead(req)

\* The channel holds each vote the actor has not taken, once; the tracker holds
\* those taken and not swallowed, until it decides, and until then they do not
\* reach the level.
VotesInv ==
    FannedOut =>
        /\ ChannelFits(req, chan, Votes)
        /\ ActorFits(req.level, targets, Heard, chan, Votes, received, decided, replied, good)

\* An answer is backed by the votes, an error by two that differ.
KeptInv ==
    FannedOut => \A k \in Reply :
        AnsweredWith(k) /\ Unrepaired => Backed(req.level, targets, Answering, Votes, k)
SplitInv == pc = "actor" /\ answers = <<NoQuorum>> => Divergent(req.level, Votes)

FanOutInv ==
    /\ TypeInv /\ PlanInv /\ FlowInv /\ PhaseInv /\ VotesInv
    /\ KeptInv /\ SplitInv /\ NoQuorumJustified /\ MarkersKeptUntilAllGood

-----------------------------------------------------------------------------

\* The answers are told apart, and the first one is the only one.
LEMMA AnswerKinds ==
    /\ NoQuorum # InvalidState
    /\ \A k : <<>> # <<k>> /\ <<NoQuorum>> # <<ToClient(k)>>
    /\ \A j, k : <<ToClient(j)>> = <<ToClient(k)>> => j = k
    /\ \A k : Append(<<>>, k) = <<k>>
<1>1. \A k : NoQuorum # ToClient(k)
  BY DEF NoQuorum, ToClient
<1>2. \A j, k : ToClient(j) = ToClient(k) => j = k
  BY DEF ToClient
<1>3. NoQuorum # InvalidState
  BY DEF NoQuorum, InvalidState
<1>4. \A j, k : <<j>> = <<k>> => j = k
  OBVIOUS
<1>5. \A k : <<>> # <<k>> /\ Append(<<>>, k) = <<k>>
  OBVIOUS
<1> QED BY <1>1, <1>2, <1>3, <1>4, <1>5

\* Nothing is asked of the answer before there is one.
LEMMA SilentKeeps == answers = <<>> => KeptInv /\ SplitInv /\ NoQuorumJustified
BY AnswerKinds DEF KeptInv, SplitInv, NoQuorumJustified, AnsweredWith

\* Nor of a request with one target.
LEMMA DirectKeeps == ~FannedOut => PlanInv /\ VotesInv /\ KeptInv /\ NoQuorumJustified
BY DEF PlanInv, VotesInv, KeptInv, NoQuorumJustified

\* What follows from the request and its targets.
LEMMA StaticSame ==
    ASSUME UNCHANGED <<req, targets>>
    PROVE  UNCHANGED <<Heard, Answering, Locals>> /\ (FannedOut' <=> FannedOut)
BY DEF Heard, Swallowed, Answering, Locals, FannedOut

\* Nobody votes: the votes stay.
LEMMA VotesSame == UNCHANGED <<req, hinted, said>> => UNCHANGED Votes /\ UNCHANGED Voted
BY DEF Votes, Voted, VoteOf

\* A link answers: its vote is added.
LEMMA VotesSaid ==
    ASSUME UNCHANGED <<req, hinted>>, NEW p, p \notin Voted, NEW x,
           said' = RecordReply(said, p, x)
    PROVE  Votes' = RecordReply(Votes, p, Plain(req, x))
<1>1. Voted' = Voted \cup {p} /\ DOMAIN Votes = Voted
  BY DEF Voted, Votes, RecordReply
<1>2. \A q \in Voted' : (IF q \in hinted' THEN SynthOk ELSE Plain(req', said'[q]))
                          = IF q = p THEN Plain(req, x) ELSE Votes[q]
  BY DEF Voted, Votes, VoteOf, RecordReply
<1> QED BY <1>1, <1>2 DEF Votes, VoteOf, RecordReply

\* A hint is recorded: its +OK is added.
LEMMA VotesHinted ==
    ASSUME UNCHANGED <<req, said>>, NEW p, p \notin Voted, hinted' = hinted \cup {p}
    PROVE  Votes' = RecordReply(Votes, p, SynthOk)
<1>1. Voted' = Voted \cup {p} /\ DOMAIN Votes = Voted
  BY DEF Voted, Votes
<1>2. \A q \in Voted' : (IF q \in hinted' THEN SynthOk ELSE Plain(req', said'[q]))
                          = IF q = p THEN SynthOk ELSE Votes[q]
  BY DEF Voted, Votes, VoteOf
<1> QED BY <1>1, <1>2 DEF Votes, VoteOf, RecordReply

\* The votes are replies of targets.
LEMMA VotesType ==
    ASSUME TypeInv, FlowInv
    PROVE  /\ DOMAIN Votes = Voted /\ Voted \subseteq targets /\ Voted \subseteq Peers
           /\ IsReplyMap(Votes)
<1>1. DOMAIN Votes = Voted /\ Voted \subseteq targets /\ Voted \subseteq Peers
  BY DEF Votes, Voted, FlowInv, TypeInv
<1>2. \A p \in Voted : VoteOf(p) \in Reply
  BY PlainReply DEF VoteOf, Voted, TypeInv, IsReplyMap
<1> QED BY <1>1, <1>2 DEF IsReplyMap, Votes

\* A fan-out has targets.
LEMMA FannedOutSome ==
    ASSUME targets \subseteq Peers, FannedOut PROVE targets # {} /\ targets \in SUBSET Peers
BY FS_EmptySet DEF FannedOut

\* A quorum is at least one vote.
LEMMA QuorumPositive ==
    ASSUME NEW T \in SUBSET Peers PROVE Quorum(T) \in Nat /\ Quorum(T) > 0
<1>1. LocalCount(T) \in Nat
  BY FinitePeers DEF LocalCount, LocalTargets
<1> QED BY <1>1 DEF Quorum

\* No reply reaches no level.
LEMMA UnreachedEmpty ==
    ASSUME NEW level, NEW T \in SUBSET Peers, T # {}, NEW f, DOMAIN f = {}
    PROVE  Unreached(level, T, f)
<1>1. \A k : VotesFor(f, DOMAIN f, k) = {}
  BY DEF VotesFor
<1>2. \A k : Cardinality(VotesFor(f, DOMAIN f, k)) < Quorum(T)
  BY <1>1, QuorumPositive, FS_EmptySet
<1> QED BY <1>2 DEF Unreached

\* The votes are empty when nobody was reached.
LEMMA NoVotes ==
    (/\ hinted = {} /\ DOMAIN said = {} /\ chan = <<>> /\ received = EmptyMap
     /\ replied = 0 /\ good = 0 /\ targets \in SUBSET Peers) => VotesInv
<1> SUFFICES ASSUME hinted = {}, DOMAIN said = {}, chan = <<>>, received = EmptyMap,
                    replied = 0, good = 0, targets \in SUBSET Peers, FannedOut
             PROVE  /\ ChannelFits(req, chan, Votes)
                    /\ ActorFits(req.level, targets, Heard, chan, Votes, received, decided,
                                 replied, good)
  BY DEF VotesInv
<1>1. DOMAIN Votes = {} /\ DOMAIN received = {}
  BY DEF Votes, Voted, EmptyMap
<1>2. chan \in Seq(Env) /\ Once(chan) /\ Entries(chan) = {}
  <2>1. chan \in Seq(Env) /\ DOMAIN chan = {}
    OBVIOUS
  <2> QED BY <2>1 DEF Once, Entries
<1>3. ChannelFits(req, chan, Votes)
  BY <1>2 DEF ChannelFits
<1>4. Taken(chan, Votes) = {} /\ GoodOf(Taken(chan, Votes), Votes) = {}
  BY <1>1 DEF Taken, GoodOf
<1>5. Unreached(req.level, targets, received)
  BY <1>1, UnreachedEmpty, FannedOutSome
<1> QED BY <1>1, <1>3, <1>4, <1>5, FS_EmptySet DEF ActorFits, IsReplyMap

\* The initial state.
LEMMA InitInv == Init => FanOutInv
<1> SUFFICES ASSUME Init PROVE FanOutInv
  OBVIOUS
<1> USE DEF Init
<1>1. ~FannedOut
  BY FS_EmptySet DEF FannedOut
<1>2. TypeInv
  <2>1. req.level \in Levels /\ (req.script = "read" => req.is_read)
    BY DEF NoRequest, Levels
  <2>2. IsReplyMap(said)
    BY DEF EmptyMap, IsReplyMap
  <2>3. ts_replies \in Seq([src : Peers, ver : Payloads])
    OBVIOUS
  <2> QED BY <2>1, <2>2, <2>3 DEF TypeInv
<1>3. PlanInv /\ VotesInv
  BY <1>1 DEF PlanInv, VotesInv
<1>4. FlowInv
  BY DEF FlowInv, EmptyMap
<1>5. PhaseInv
  BY <1>1 DEF PhaseInv
<1>6. KeptInv /\ SplitInv /\ NoQuorumJustified
  BY SilentKeeps
<1>7. MarkersKeptUntilAllGood
  BY DEF MarkersKeptUntilAllGood
<1> QED BY <1>2, <1>3, <1>4, <1>5, <1>6, <1>7 DEF FanOutInv

\* Retire starts over.
LEMMA RetireKeeps == Retire => FanOutInv'
<1>1. Retire => Init'
  BY DEF Retire, Init
<1>2. Init' => FanOutInv'
  BY InitInv, PTL
<1> QED BY <1>1, <1>2

-----------------------------------------------------------------------------
(* Every action keeps the invariant                                        *)

\* What a dispatch hands to the fan-out.
LEMMA DispatchPlans ==
    ASSUME NEW r \in Requests, NEW state, NEW later_down, Dispatch(r, state, later_down)
    PROVE  /\ req'.level \in Levels /\ req'.script \in {r.script, "none"}
           /\ req'.is_read = r.is_read
           /\ targets' \in SUBSET Peers
           /\ FannedOut' => /\ targets' \subseteq Candidates
                            /\ req'.level \in {"DC_QUORUM", "DC_SAFE_QUORUM"} =>
                                  targets' = LocalTargets(targets')
                            /\ TsRead(req') => req'.level # "DC_ONE"
<1> DEFINE plan == Plan(r, state)
<1>1. r.level \in Levels
  BY DEF Requests
<1>2. req' = [r EXCEPT !.level = IF plan.plan = "replicas" THEN plan.level ELSE @,
                       !.handoff = @ /\ plan.plan # "local",
                       !.hook = @ /\ plan.plan = "local",
                       !.script = IF r.hook /\ plan.plan = "local" THEN "none" ELSE @,
                       !.room = @ \/ plan.plan = "local"]
  BY DEF Dispatch
<1>3. targets' = CASE plan.plan = "replicas" -> plan.targets
                   [] plan.plan = "local" -> {OwnRackPeer}
                   [] OTHER -> {}
  BY DEF Dispatch
<1> HIDE DEF plan
<1>4. /\ req'.level = IF plan.plan = "replicas" THEN plan.level ELSE r.level
      /\ req'.script \in {r.script, "none"} /\ req'.is_read = r.is_read
  BY <1>2 DEF Requests
<1>5. plan \in {LocalDatastore, NoTargets} \/ GoodReplicas(r, plan)
  BY PlanShape DEF plan
<1>6. CASE plan = LocalDatastore
  <2>1. targets' = {OwnRackPeer} /\ req'.level = r.level
    BY <1>3, <1>4, <1>6 DEF LocalDatastore
  <2>2. OwnRackPeer \in Peers
    BY OwnRackAssumption DEF OwnRackPeer
  <2>3. ~FannedOut'
    <3>1. Cardinality(targets') = 1
      BY <2>1, FS_Singleton
    <3> QED BY <3>1 DEF FannedOut
  <2> QED BY <1>1, <1>4, <2>1, <2>2, <2>3
<1>7. CASE plan = NoTargets
  <2>1. targets' = {} /\ req'.level = r.level
    BY <1>3, <1>4, <1>7 DEF NoTargets
  <2>2. ~FannedOut'
    BY <2>1, FS_EmptySet DEF FannedOut
  <2> QED BY <1>1, <1>4, <2>1, <2>2
<1>8. CASE GoodReplicas(r, plan)
  <2>1. PICK level \in Levels, S \in SUBSET Candidates :
           /\ plan = Replicas(level, S)
           /\ level \in {"DC_QUORUM", "DC_SAFE_QUORUM"} => S = LocalTargets(S)
           /\ TsRead(r) /\ level = "DC_ONE" => AtMostOne(S)
    BY <1>8 DEF GoodReplicas
  <2>2. targets' = S /\ req'.level = level
    BY <1>3, <1>4, <2>1, ReplicasFields
  <2>3. Candidates \in SUBSET Peers
    BY RingAssumption DEF Candidates
  <2>4. IsFiniteSet(S)
    BY <2>3, FinitePeers
  <2>5. FannedOut' => ~AtMostOne(S)
    BY <2>2, <2>4, CardAtMostOne DEF FannedOut
  <2>6. TsRead(req') => TsRead(r)
    BY <1>4 DEF TsRead
  <2> QED BY <1>4, <2>1, <2>2, <2>3, <2>5, <2>6
<1> QED BY <1>5, <1>6, <1>7, <1>8

\* Dispatch plans with nothing in flight.
LEMMA DispatchKeeps ==
    ASSUME FanOutInv, AnswerInv,
           NEW r \in Requests, NEW state, NEW later_down, Dispatch(r, state, later_down)
    PROVE  FanOutInv'
<1> USE DEF FanOutInv
<1>1. /\ pc = "idle"
      /\ UNCHANGED <<sent, in_flight, chan, hinted, said, received, decided, emitted,
                                    ts_replies, replied, good, repaired, cleaned>>
      /\ todo' = targets'
      /\ targets' = {} => pc' = "done"
      /\ targets' # {} => pc' = IF Cardinality(targets') = 1 THEN "direct" ELSE "fan_out"
      /\ answers' = IF targets' = {} THEN <<NoQuorum>> ELSE <<>>
  <2>1. targets' = {} => Cardinality(targets') # 1
    BY FS_EmptySet
  <2> QED BY <2>1 DEF Dispatch, actorVars
<1>2. /\ req'.level \in Levels /\ req'.script \in {r.script, "none"} /\ req'.is_read = r.is_read
      /\ targets' \in SUBSET Peers
      /\ FannedOut' => /\ targets' \subseteq Candidates
                       /\ req'.level \in {"DC_QUORUM", "DC_SAFE_QUORUM"} =>
                             targets' = LocalTargets(targets')
                       /\ TsRead(req') => req'.level # "DC_ONE"
  BY DispatchPlans
<1>3. /\ targets = {} /\ sent = {} /\ hinted = {} /\ chan = <<>> /\ in_flight = {}
      /\ DOMAIN said = {}
      /\ received = EmptyMap /\ replied = 0 /\ good = 0 /\ ~decided /\ ~emitted
      /\ ~cleaned /\ repaired = {} /\ decided = emitted
  BY <1>1 DEF PhaseInv, FlowInv, AnswerInv
<1>4. /\ pc' = "done" => ~FannedOut'
      /\ pc' = "direct" => ~FannedOut'
      /\ pc' = "fan_out" => FannedOut'
      /\ pc' \in {"done", "direct", "fan_out"}
  <2>1. IsFiniteSet(targets') /\ Cardinality(targets') \in Nat
    BY <1>2, FinitePeers
  <2>2. Cardinality(targets') = 0 <=> targets' = {}
    BY <2>1, FS_EmptySet
  <2> QED BY <1>1, <2>1, <2>2 DEF FannedOut
<1>5. TypeInv'
  <2>1. r.script = "read" => r.is_read
    BY DEF Requests
  <2> QED BY <1>1, <1>2, <2>1 DEF TypeInv
<1>6. PlanInv'
  BY <1>2 DEF PlanInv, Locals
<1>7. FlowInv'
  BY <1>1, <1>3 DEF FlowInv
<1>8. PhaseInv'
  BY <1>1, <1>3, <1>4 DEF PhaseInv
<1>9. VotesInv'
  <2>1. (/\ hinted = {} /\ DOMAIN said = {} /\ chan = <<>> /\ received = EmptyMap
         /\ replied = 0 /\ good = 0 /\ targets \in SUBSET Peers)'
    BY <1>1, <1>2, <1>3 DEF EmptyMap
  <2> QED BY <2>1, NoVotes, PTL
<1>10. KeptInv' /\ SplitInv' /\ NoQuorumJustified'
  <2>1. CASE targets' = {}
    <3>1. (~FannedOut)' /\ pc' = "done"
      BY <1>1, <1>4, <2>1
    <3>2. KeptInv' /\ NoQuorumJustified'
      BY <3>1, DirectKeeps, PTL
    <3>3. SplitInv'
      BY <3>1 DEF SplitInv
    <3> QED BY <3>2, <3>3
  <2>2. CASE targets' # {}
    <3>1. (answers = <<>>)'
      BY <1>1, <2>2
    <3> QED BY <3>1, SilentKeeps, PTL
  <2> QED BY <2>1, <2>2
<1>11. MarkersKeptUntilAllGood'
  BY <1>1, <1>3 DEF MarkersKeptUntilAllGood
<1> QED BY <1>5, <1>6, <1>7, <1>8, <1>9, <1>10, <1>11

\* A vote added to the channel keeps what the actor knows, and what an answer
\* given already is backed by.
LEMMA NewVoteKeeps ==
    ASSUME FanOutInv, FannedOut, NEW p \in targets, p \notin Voted, NEW x \in Reply,
           chan' = Append(chan, Envelope(p, x)), Votes' = RecordReply(Votes, p, Plain(req, x)),
           UNCHANGED <<req, targets, received, decided, replied, good>>
    PROVE  VotesInv'
<1>1. /\ ChannelFits(req, chan, Votes) /\ IsReplyMap(Votes) /\ DOMAIN Votes = Voted
      /\ ActorFits(req.level, targets, Heard, chan, Votes, received, decided, replied, good)
      /\ p \in Peers
  BY VotesType DEF FanOutInv, VotesInv, TypeInv
<1>2. /\ ChannelFits(req, chan', Votes')
      /\ ActorFits(req.level, targets, Heard, chan', Votes', received, decided, replied, good)
  BY <1>1, VoteKeeps
<1>3. Heard' = Heard
  BY StaticSame
<1> QED BY <1>2, <1>3 DEF VotesInv

\* One iteration of the fan-out: sent, refused with an error vote, hinted with an
\* +OK vote, or lost.
LEMMA FanOutNextKeeps ==
    ASSUME FanOutInv, AnswerInv, FanOutNext
    PROVE  FanOutInv'
<1> USE DEF FanOutInv
<1>1. PICK p \in todo : /\ SendOk(p) \/ SendRefused(p) \/ Hint(p) \/ TargetLost
                        /\ todo' = todo \ {p}
  BY DEF FanOutNext, Foremost
<1>2. /\ pc = "fan_out" /\ UNCHANGED <<pc, req, targets, received, decided, emitted, ts_replies,
                                       replied, good, repaired, cleaned, answers>>
  BY DEF FanOutNext, planVars, actorVars
<1>3. FannedOut /\ (FannedOut' <=> FannedOut) /\ Locals' = Locals
  BY <1>2, StaticSame DEF PhaseInv
<1>4. /\ p \in targets /\ p \in Peers /\ p \notin sent /\ p \notin hinted
      /\ p \notin Voted /\ p \notin in_flight
  BY DEF FlowInv, TypeInv, Voted
<1>5. FlowInv' /\ IsReplyMap(said)' /\ VotesInv'
  <2>1. CASE SendOk(p)
    <3>1. /\ sent' = sent \cup {p} /\ in_flight' = in_flight \cup {p}
          /\ UNCHANGED <<chan, hinted, said>>
      BY <2>1 DEF SendOk
    <3>2. FlowInv'
      BY <1>1, <1>2, <1>4, <3>1 DEF FlowInv, Voted
    <3>3. VotesInv'
      BY <1>2, <3>1, VotesSame, StaticSame DEF VotesInv
    <3> QED BY <3>1, <3>2, <3>3 DEF TypeInv
  <2>2. CASE SendRefused(p)
    <3>1. /\ sent' = sent \cup {p} /\ said' = RecordReply(said, p, ErrorReply)
          /\ chan' = Append(chan, Envelope(p, ErrorReply))
          /\ UNCHANGED <<in_flight, hinted>>
      BY <2>2 DEF SendRefused
    <3>2. DOMAIN said' = DOMAIN said \cup {p} /\ IsReplyMap(said)'
      <4>1. IsReplyMap(said) /\ ErrorReply \in Reply
        BY PlainReply DEF TypeInv
      <4> QED BY <1>4, <3>1, <4>1, RecordReplyMap
    <3>3. FlowInv'
      BY <1>1, <1>2, <1>4, <3>1, <3>2 DEF FlowInv
    <3>4. VotesInv'
      BY <1>2, <1>3, <1>4, <3>1, VotesSaid, NewVoteKeeps, PlainReply
    <3> QED BY <3>2, <3>3, <3>4
  <2>3. CASE Hint(p)
    <3>1. /\ HandoffActive(req) /\ hinted' = hinted \cup {p}
          /\ chan' = Append(chan, Envelope(p, SynthOk))
          /\ UNCHANGED <<sent, in_flight, said>>
      BY <2>3 DEF Hint
    <3>2. FlowInv'
      BY <1>1, <1>2, <1>4, <3>1 DEF FlowInv
    <3>3. Plain(req, SynthOk) = SynthOk
      BY <3>1, PlainReply DEF TypeInv, TsRead, HandoffActive
    <3>4. VotesInv'
      BY <1>2, <1>3, <1>4, <3>1, <3>3, VotesHinted, NewVoteKeeps, PlainReply
    <3> QED BY <3>1, <3>2, <3>4 DEF TypeInv
  <2>4. CASE TargetLost
    <3>1. UNCHANGED <<sent, in_flight, chan, hinted, said>>
      BY <2>4 DEF TargetLost
    <3>2. FlowInv'
      BY <1>1, <1>2, <3>1 DEF FlowInv
    <3>3. VotesInv'
      BY <1>2, <3>1, VotesSame, StaticSame DEF VotesInv
    <3> QED BY <3>1, <3>2, <3>3 DEF TypeInv
  <2> QED BY <1>1, <2>1, <2>2, <2>3, <2>4
<1>6. TypeInv' /\ PlanInv'
  BY <1>2, <1>3, <1>5 DEF TypeInv, PlanInv
<1>7. PhaseInv'
  BY <1>2, <1>3 DEF PhaseInv
<1>8. KeptInv' /\ SplitInv' /\ NoQuorumJustified'
  <2>1. (answers = <<>>)'
    BY <1>2 DEF AnswerInv
  <2> QED BY <2>1, SilentKeeps, PTL
<1>9. MarkersKeptUntilAllGood'
  BY <1>2 DEF PhaseInv, MarkersKeptUntilAllGood
<1> QED BY <1>5, <1>6, <1>7, <1>8, <1>9

\* A request that failed before the actor was spawned has no vote.
LEMMA NoneReached ==
    (FannedOut /\ targets \subseteq Peers /\ Voted = {} /\ PlanInv /\ req.level \in Levels)
        => NoQuorumJustified
<1> SUFFICES ASSUME FannedOut, targets \subseteq Peers, Voted = {}, PlanInv, req.level \in Levels
             PROVE  NoQuorumJustified
  OBVIOUS
<1>1. PICK p \in targets : TRUE
  BY FannedOutSome
<1>2. \A k : VotesOf(Locals, k) = {}
  BY DEF VotesOf
<1>3. Quorum(targets) \in Nat /\ Quorum(targets) > 0
  BY QuorumPositive
<1>4. \A k : Cardinality(VotesOf(Locals, k)) < Quorum(targets)
  BY <1>2, <1>3, FS_EmptySet
<1>5. req.level \in {"DC_QUORUM", "DC_SAFE_QUORUM"} => ~(Locals \subseteq Voted)
  BY <1>1 DEF PlanInv
<1>6. ~Unanimous(DcTargets(targets, DcOf[p]))
  BY <1>1 DEF Unanimous, DcTargets
<1>7. CASE req.level = "DC_ONE"
  BY <1>7 DEF NoQuorumJustified
<1>8. CASE req.level = "DC_QUORUM"
  BY <1>4, <1>5, <1>8 DEF NoQuorumJustified
<1>9. CASE req.level = "DC_SAFE_QUORUM"
  BY <1>5, <1>9 DEF NoQuorumJustified, Unanimous
<1>10. CASE req.level = "DC_EACH_SAFE_QUORUM"
  BY <1>1, <1>6, <1>10 DEF NoQuorumJustified
<1> QED BY <1>7, <1>8, <1>9, <1>10 DEF Levels

\* The end of the fan-out.
LEMMA FanOutDoneKeeps ==
    ASSUME FanOutInv, AnswerInv, FanOutDone
    PROVE  FanOutInv'
<1> USE DEF FanOutInv
<1>1. /\ pc = "fan_out" /\ todo = {}
      /\ UNCHANGED <<req, targets, todo, sent, in_flight, chan, received, decided, emitted,
                     ts_replies, replied, good, repaired, cleaned, hinted, said>>
      /\ \/ sent \cup hinted = {} /\ pc' = "done" /\ answers' = Append(answers, NoQuorum)
         \/ pc' = "actor" /\ answers' = answers
  BY DEF FanOutDone, planVars, actorVars
<1>2. answers = <<>> /\ FannedOut /\ (FannedOut' <=> FannedOut)
  BY <1>1, StaticSame DEF PhaseInv, AnswerInv
<1>3. TypeInv' /\ PlanInv' /\ FlowInv' /\ VotesInv'
  <2>1. TypeInv' /\ FlowInv'
    BY <1>1 DEF TypeInv, FlowInv
  <2>2. PlanInv'
    BY <1>1, StaticSame DEF PlanInv
  <2>3. VotesInv'
    BY <1>1, VotesSame, StaticSame DEF VotesInv
  <2> QED BY <2>1, <2>2, <2>3
<1>4. MarkersKeptUntilAllGood'
  BY <1>1 DEF MarkersKeptUntilAllGood
<1>5. CASE pc' = "actor" /\ answers' = answers
  <2>1. PhaseInv'
    BY <1>1, <1>2, <1>5 DEF PhaseInv
  <2>2. (answers = <<>>)'
    BY <1>2, <1>5
  <2>3. KeptInv' /\ SplitInv' /\ NoQuorumJustified'
    BY <2>2, SilentKeeps, PTL
  <2> QED BY <1>3, <1>4, <2>1, <2>3
<1>6. CASE sent \cup hinted = {} /\ pc' = "done" /\ answers' = Append(answers, NoQuorum)
  <2>1. in_flight = {} /\ DOMAIN said = {} /\ Voted = {}
    BY <1>6 DEF FlowInv, Voted
  <2>2. PhaseInv'
    BY <1>1, <1>2, <1>6, <2>1 DEF PhaseInv
  <2>3. answers' = <<NoQuorum>>
    BY <1>2, <1>6, AnswerKinds
  <2>4. KeptInv' /\ SplitInv'
    BY <1>6, <2>3, AnswerKinds DEF KeptInv, SplitInv, AnsweredWith
  <2>5. (FannedOut /\ targets \subseteq Peers /\ Voted = {} /\ PlanInv /\ req.level \in Levels)'
    BY <1>1, <1>2, <1>3, <2>1, VotesSame DEF TypeInv
  <2>6. NoQuorumJustified'
    BY <2>5, NoneReached, PTL
  <2> QED BY <1>3, <1>4, <2>2, <2>4, <2>6
<1> QED BY <1>1, <1>5, <1>6

\* The one target of a direct request.
LEMMA DirectStepKeeps ==
    ASSUME FanOutInv, AnswerInv, Direct
    PROVE  FanOutInv'
<1> USE DEF FanOutInv
<1>1. PICK p \in todo :
         /\ pc = "direct" /\ todo' = {} /\ UNCHANGED <<planVars, actorVars>>
         /\ \/ SendOk(p) /\ UNCHANGED <<pc, answers>>
            \/ pc' = "done" /\ UNCHANGED <<sent, in_flight, chan, hinted, said>>
            \/ pc' = "done" /\ hinted' = {p} /\ UNCHANGED <<sent, in_flight, chan, said>>
  BY DEF Direct, TargetLost
<1>2. UNCHANGED <<req, targets, received, decided, emitted, ts_replies, replied, good, repaired,
                  cleaned>> /\ UNCHANGED said
  BY <1>1 DEF planVars, actorVars, SendOk
<1>3. (~FannedOut)' /\ ~FannedOut /\ pc' \in {"direct", "done"}
  BY <1>1, <1>2, StaticSame DEF PhaseInv, SendOk
<1>4. TypeInv'
  BY <1>2 DEF TypeInv
<1>5. PlanInv' /\ VotesInv' /\ KeptInv' /\ NoQuorumJustified'
  BY <1>3, DirectKeeps, PTL
<1>6. FlowInv'
  <2>1. p \in targets /\ p \notin sent /\ p \notin DOMAIN said
    BY DEF FlowInv
  <2>2. CASE SendOk(p)
    BY <1>1, <1>2, <2>1, <2>2 DEF FlowInv, SendOk
  <2>3. CASE UNCHANGED <<sent, in_flight, chan, hinted, said>>
    BY <1>1, <1>2, <2>1, <2>3 DEF FlowInv
  <2>4. CASE hinted' = {p} /\ UNCHANGED <<sent, in_flight, chan, said>>
    BY <1>1, <1>2, <2>1, <2>4 DEF FlowInv
  <2> QED BY <1>1, <2>2, <2>3, <2>4
<1>7. PhaseInv'
  BY <1>1, <1>2, <1>3 DEF PhaseInv
<1>8. SplitInv'
  BY <1>3 DEF SplitInv
<1>9. MarkersKeptUntilAllGood'
  BY <1>2, <1>3 DEF PhaseInv, MarkersKeptUntilAllGood
<1> QED BY <1>4, <1>5, <1>6, <1>7, <1>8, <1>9

\* What the replies f back, any votes v they are among back too.
LEMMA BackedExtends ==
    ASSUME NEW level, NEW T \in SUBSET Peers, NEW own, NEW v, DOMAIN v \subseteq T,
           NEW f, DOMAIN f \subseteq DOMAIN v, \A q \in DOMAIN f : f[q] = v[q],
           NEW k, Backed(level, T, own, f, k)
    PROVE  Backed(level, T, own, v, k)
<1>1. CASE level = "DC_ONE"
  BY <1>1 DEF Backed
<1>2. CASE level = "DC_QUORUM"
  <2>1. CASE Cardinality(VotesFor(f, DOMAIN f, k)) >= Quorum(T)
    <3>1. /\ VotesFor(f, DOMAIN f, k) \in SUBSET VotesFor(v, DOMAIN v, k)
          /\ VotesFor(v, DOMAIN v, k) \in SUBSET Peers
      BY DEF VotesFor
    <3>2. Cardinality(VotesFor(f, DOMAIN f, k)) <= Cardinality(VotesFor(v, DOMAIN v, k))
      BY <3>1, FinitePeers, FS_Subset
    <3>3. /\ Cardinality(VotesFor(f, DOMAIN f, k)) \in Nat
          /\ Cardinality(VotesFor(v, DOMAIN v, k)) \in Nat /\ Quorum(T) \in Nat
      BY <3>1, FinitePeers, QuorumPositive
    <3>4. Cardinality(VotesFor(v, DOMAIN v, k)) >= Quorum(T)
      BY <2>1, <3>2, <3>3
    <3> QED BY <1>2, <3>4 DEF Backed
  <2>2. CASE DOMAIN f = T
    <3>1. DOMAIN v = T /\ \A j : VotesFor(v, DOMAIN v, j) = VotesFor(f, DOMAIN f, j)
      BY <2>2 DEF VotesFor
    <3> QED BY <1>2, <2>2, <3>1 DEF Backed
  <2> QED BY <1>2, <2>1, <2>2 DEF Backed
<1>3. CASE level = "DC_SAFE_QUORUM"
  BY <1>3 DEF Backed
<1>4. CASE level \notin {"DC_ONE", "DC_QUORUM", "DC_SAFE_QUORUM"}
  BY <1>4 DEF Backed, LocalTargets
<1> QED BY <1>1, <1>2, <1>3, <1>4

\* A link answers, whatever the actor has made of the other votes.
LEMMA LinkReplyKeeps ==
    ASSUME FanOutInv, AnswerInv, NEW p, NEW rsp \in Reply, LinkReply(p, rsp)
    PROVE  FanOutInv'
<1> USE DEF FanOutInv
<1>1. /\ p \in in_flight /\ in_flight' = in_flight \ {p} /\ said' = RecordReply(said, p, rsp)
      /\ UNCHANGED <<req, targets, todo, sent, received, decided, emitted, ts_replies, replied,
                     good, repaired, cleaned, hinted>>
      /\ \/ pc = "direct" /\ pc' = "done"
         \/ pc # "direct" /\ chan' = Append(chan, Envelope(p, rsp)) /\ UNCHANGED <<pc, answers>>
  BY DEF LinkReply, planVars, actorVars
<1>2. p \in targets /\ p \in Peers /\ p \in sent /\ p \notin hinted /\ p \notin DOMAIN said
      /\ p \notin Voted /\ pc # "idle"
  BY <1>1 DEF FlowInv, TypeInv, Voted, PhaseInv
<1>3. IsReplyMap(said)' /\ DOMAIN said' = DOMAIN said \cup {p}
      /\ \A q \in DOMAIN said : said'[q] = said[q]
  <2>1. IsReplyMap(said) /\ p \in Peers /\ p \notin DOMAIN said
    BY <1>2 DEF TypeInv
  <2>2. /\ IsReplyMap(RecordReply(said, p, rsp))
        /\ DOMAIN RecordReply(said, p, rsp) = DOMAIN said \cup {p}
        /\ \A q \in DOMAIN said : RecordReply(said, p, rsp)[q] = said[q]
    BY <2>1, RecordNew
  <2> QED BY <1>1, <2>2
<1>4. TypeInv' /\ FlowInv'
  BY <1>1, <1>2, <1>3 DEF TypeInv, FlowInv
<1>5. (FannedOut' <=> FannedOut) /\ Locals' = Locals /\ Answering' = Answering
  BY <1>1, StaticSame
<1>6. MarkersKeptUntilAllGood'
  BY <1>1, <1>3 DEF MarkersKeptUntilAllGood
<1>7. PhaseInv'
  BY <1>1, <1>2, <1>5 DEF PhaseInv
<1>8. CASE ~FannedOut
  <2>1. (~FannedOut)' /\ pc' # "actor"
    BY <1>1, <1>5, <1>8 DEF PhaseInv
  <2>2. PlanInv' /\ VotesInv' /\ KeptInv' /\ NoQuorumJustified'
    BY <2>1, DirectKeeps, PTL
  <2> QED BY <1>4, <1>6, <1>7, <2>1, <2>2 DEF SplitInv
<1>9. CASE FannedOut
  <2>1. pc \in {"fan_out", "actor"} /\ chan' = Append(chan, Envelope(p, rsp))
        /\ UNCHANGED <<pc, answers>>
    BY <1>1, <1>2, <1>9 DEF PhaseInv, AnswerInv
  <2>2. Votes' = RecordReply(Votes, p, Plain(req, rsp))
    BY <1>1, <1>2, VotesSaid
  <2>3. /\ IsReplyMap(Votes) /\ DOMAIN Votes = Voted /\ Voted \subseteq targets
        /\ Plain(req, rsp) \in Reply /\ targets \in SUBSET Peers
    BY VotesType, PlainReply DEF TypeInv
  <2>4. VotesInv'
    BY <1>1, <1>2, <1>9, <2>1, <2>2, NewVoteKeeps
  <2>5. PlanInv'
    BY <1>1, <1>5 DEF PlanInv
  <2>6. /\ DOMAIN Votes \subseteq DOMAIN Votes' /\ \A q \in DOMAIN Votes : Votes'[q] = Votes[q]
        /\ DOMAIN Votes' \subseteq targets
    <3> DEFINE x == Plain(req, rsp)
    <3>1. p \notin DOMAIN Votes /\ x \in Reply /\ Votes' = RecordReply(Votes, p, x)
      BY <1>2, <2>2, <2>3
    <3> HIDE DEF x
    <3>2. /\ DOMAIN RecordReply(Votes, p, x) = DOMAIN Votes \cup {p}
          /\ \A q \in DOMAIN Votes : RecordReply(Votes, p, x)[q] = Votes[q]
      BY <3>1 DEF RecordReply
    <3> QED BY <1>2, <2>3, <3>1, <3>2
  <2>7. KeptInv'
    <3> SUFFICES ASSUME NEW k \in Reply, AnsweredWith(k)', Unrepaired'
                 PROVE  Backed(req.level, targets, Answering, Votes', k)
      BY <1>1, <1>5 DEF KeptInv
    <3>1. AnsweredWith(k) /\ Unrepaired
      BY <1>1, <2>1 DEF AnsweredWith, Unrepaired
    <3>2. Backed(req.level, targets, Answering, Votes, k)
      BY <1>9, <3>1 DEF KeptInv
    <3> QED BY <2>3, <2>6, <3>2, BackedExtends
  <2>8. SplitInv'
    <3> SUFFICES ASSUME pc = "actor", answers = <<NoQuorum>> PROVE Divergent(req.level, Votes')
      BY <1>1, <2>1 DEF SplitInv
    <3>1. Divergent(req.level, Votes)
      BY DEF SplitInv
    <3> QED BY <2>6, <3>1 DEF Divergent
  <2>9. NoQuorumJustified'
    BY <2>1 DEF NoQuorumJustified
  <2> QED BY <1>4, <1>6, <1>7, <2>4, <2>5, <2>7, <2>8, <2>9
<1> QED BY <1>8, <1>9

\* A link drops its responder.
LEMMA LinkDropKeeps ==
    ASSUME FanOutInv, AnswerInv, NEW p, LinkDrop(p)
    PROVE  FanOutInv'
<1> USE DEF FanOutInv
<1>1. /\ p \in in_flight /\ in_flight' = in_flight \ {p}
      /\ pc' = IF pc = "direct" THEN "done" ELSE pc
     
      /\ UNCHANGED <<req, targets, todo, sent, chan, received, decided, emitted, ts_replies,
                     replied, good, repaired, cleaned, hinted, said, answers>>
  BY DEF LinkDrop, planVars, actorVars
<1>2. UNCHANGED <<Votes, Voted, Heard, Answering, Locals>> /\ (FannedOut' <=> FannedOut)
  BY <1>1, VotesSame, StaticSame
<1>3. pc # "idle" /\ ~(pc' = "done" /\ FannedOut)
  BY <1>1 DEF PhaseInv, FlowInv
<1>4. TypeInv' /\ FlowInv' /\ PlanInv' /\ VotesInv'
  <2>1. TypeInv' /\ FlowInv'
    BY <1>1 DEF TypeInv, FlowInv
  <2>2. PlanInv'
    BY <1>1, <1>2 DEF PlanInv
  <2>3. VotesInv'
    BY <1>1, <1>2 DEF VotesInv
  <2> QED BY <2>1, <2>2, <2>3
<1>5. PhaseInv'
  BY <1>1, <1>2, <1>3 DEF PhaseInv
<1>6. KeptInv'
  BY <1>1, <1>2 DEF KeptInv, AnsweredWith, Unrepaired
<1>7. SplitInv'
  BY <1>1, <1>2 DEF SplitInv
<1>8. NoQuorumJustified'
  BY <1>2, <1>3 DEF NoQuorumJustified
<1>9. MarkersKeptUntilAllGood'
  BY <1>1 DEF MarkersKeptUntilAllGood
<1> QED BY <1>4, <1>5, <1>6, <1>7, <1>8, <1>9

\* Two votes that differ in a datacenter are why a safe level was not reached.
LEMMA DivergentJustifies ==
    (/\ FannedOut /\ TypeInv /\ PlanInv /\ FlowInv /\ Divergent(req.level, Votes))
        => NoQuorumJustified
<1> SUFFICES ASSUME FannedOut, TypeInv, PlanInv, FlowInv, Divergent(req.level, Votes)
             PROVE  NoQuorumJustified
  OBVIOUS
<1>1. DOMAIN Votes = Voted /\ Voted \subseteq targets /\ \A p \in Voted : Votes[p] = VoteOf(p)
  BY VotesType DEF Votes
<1>2. PICK p, q \in Voted : DcOf[p] = DcOf[q] /\ VoteOf(p) # VoteOf(q)
  BY <1>1 DEF Divergent
<1>3. CASE req.level = "DC_SAFE_QUORUM"
  <2>1. p \in Locals /\ q \in Locals
    BY <1>1, <1>3 DEF PlanInv
  <2> QED BY <1>2, <1>3, <2>1 DEF NoQuorumJustified, Unanimous
<1>4. CASE req.level = "DC_EACH_SAFE_QUORUM"
  <2>1. p \in targets /\ p \in DcTargets(targets, DcOf[p]) /\ q \in DcTargets(targets, DcOf[p])
    BY <1>1, <1>2 DEF DcTargets
  <2>2. ~Unanimous(DcTargets(targets, DcOf[p]))
    BY <1>2, <2>1 DEF Unanimous
  <2> QED BY <1>4, <2>1, <2>2 DEF NoQuorumJustified
<1> QED BY <1>3, <1>4 DEF Divergent

\* Every vote is in and they do not reach the level.
LEMMA UnreachedJustifies ==
    (/\ FannedOut /\ TypeInv /\ PlanInv /\ FlowInv /\ Unreached(req.level, targets, received)
     /\ DOMAIN received = Voted \cap Heard /\ \A p \in DOMAIN received : received[p] = Votes[p])
        => NoQuorumJustified
<1> SUFFICES ASSUME FannedOut, TypeInv, PlanInv, FlowInv,
                    Unreached(req.level, targets, received), DOMAIN received = Voted \cap Heard,
                    \A p \in DOMAIN received : received[p] = Votes[p]
             PROVE  NoQuorumJustified
  OBVIOUS
<1>1. DOMAIN Votes = Voted /\ Voted \subseteq targets /\ \A p \in Voted : Votes[p] = VoteOf(p)
  BY VotesType DEF Votes
<1>2. Answering = {} => DOMAIN received = Voted
  BY <1>1 DEF Heard, Swallowed
<1>3. CASE req.level = "DC_ONE"
  <2>1. DOMAIN received = {}
    BY <1>3 DEF Unreached
  <2>2. Answering \subseteq targets
    BY <1>3 DEF Answering, Foremost
  <2>3. Answering # {} => Answering \cap Voted = {}
    BY <2>1, <2>2 DEF Heard, Swallowed
  <2> QED BY <1>2, <1>3, <2>1, <2>3 DEF NoQuorumJustified
<1>4. CASE req.level # "DC_ONE"
  <2>1. DOMAIN received = Voted
    BY <1>2, <1>4 DEF Answering
  <2>2. DOMAIN received # targets
    BY <1>4 DEF Unreached
  <2>3. PICK p \in targets : p \notin Voted
    BY <1>1, <2>1, <2>2
  <2>4. CASE req.level = "DC_QUORUM"
    <3>1. targets = Locals
      BY <2>4 DEF PlanInv
    <3>2. \A k : VotesOf(Locals, k) = VotesFor(received, DOMAIN received, k)
      BY <1>1, <2>1, <3>1 DEF VotesOf, VotesFor
    <3>3. \A k \in Reply : Cardinality(VotesOf(Locals, k)) < Quorum(targets)
      BY <2>4, <3>2 DEF Unreached
    <3>4. ~(Locals \subseteq Voted)
      BY <2>3, <3>1
    <3> QED BY <2>4, <3>3, <3>4 DEF NoQuorumJustified
  <2>5. CASE req.level = "DC_SAFE_QUORUM"
    <3>1. ~Unanimous(Locals)
      BY <2>3, <2>5 DEF PlanInv, Unanimous
    <3> QED BY <2>5, <3>1 DEF NoQuorumJustified
  <2>6. CASE req.level = "DC_EACH_SAFE_QUORUM"
    <3>1. ~Unanimous(DcTargets(targets, DcOf[p]))
      BY <2>3 DEF DcTargets, Unanimous
    <3> QED BY <2>6, <3>1 DEF NoQuorumJustified
  <2> QED BY <1>4, <2>4, <2>5, <2>6 DEF TypeInv, Levels
<1> QED BY <1>3, <1>4

\* The channel is drained and the actor ends.
LEMMA CloseKeeps ==
    ASSUME FanOutInv, AnswerInv, Close
    PROVE  FanOutInv'
<1> USE DEF FanOutInv
<1>1. /\ pc = "actor" /\ chan = <<>> /\ in_flight = {} /\ pc' = "done"
      /\ answers' = IF emitted THEN answers ELSE Append(answers, NoQuorum)
      /\ UNCHANGED <<req, targets, todo, sent, in_flight, chan, received, decided, emitted,
                     ts_replies, replied, good, repaired, cleaned, hinted, said>>
  BY DEF Close, planVars, actorVars
<1>2. UNCHANGED <<Votes, Voted, Heard, Answering, Locals>> /\ (FannedOut' <=> FannedOut)
      /\ FannedOut
  BY <1>1, VotesSame, StaticSame DEF PhaseInv
<1>3. TypeInv' /\ FlowInv' /\ PlanInv' /\ VotesInv'
  <2>1. TypeInv' /\ FlowInv'
    BY <1>1 DEF TypeInv, FlowInv
  <2>2. PlanInv'
    BY <1>1, <1>2 DEF PlanInv
  <2>3. VotesInv'
    BY <1>1, <1>2 DEF VotesInv
  <2> QED BY <2>1, <2>2, <2>3
<1>4. PhaseInv'
  BY <1>1, <1>2 DEF PhaseInv
<1>5. ~emitted => answers' = <<NoQuorum>>
  BY <1>1, AnswerKinds DEF AnswerInv
<1>6. KeptInv'
  BY <1>1, <1>2, <1>5, AnswerKinds DEF KeptInv, AnsweredWith, Unrepaired
<1>7. SplitInv'
  BY <1>1 DEF SplitInv
<1>8. MarkersKeptUntilAllGood'
  BY <1>1 DEF MarkersKeptUntilAllGood
<1>9. NoQuorumJustified'
  <2>1. CASE emitted /\ answers # <<NoQuorum>>
    BY <1>1, <2>1 DEF NoQuorumJustified
  <2>2. CASE emitted /\ answers = <<NoQuorum>>
    <3>1. Divergent(req.level, Votes)
      BY <1>1, <2>2 DEF SplitInv
    <3>2. (/\ FannedOut /\ TypeInv /\ PlanInv /\ FlowInv /\ Divergent(req.level, Votes))'
      BY <1>1, <1>2, <1>3, <3>1
    <3> QED BY <3>2, DivergentJustifies, PTL
  <2>3. CASE ~emitted
    <3>1. /\ DOMAIN received = Taken(chan, Votes) \cap Heard
          /\ Unreached(req.level, targets, received)
          /\ \A p \in DOMAIN received : received[p] = Votes[p]
      BY <1>2, <2>3 DEF VotesInv, ActorFits, PhaseInv
    <3>2. Taken(chan, Votes) = Voted
      <4>1. DOMAIN chan = {}
        BY <1>1
      <4> QED BY <4>1, VotesType DEF Taken, Srcs, Entries
    <3>3. (/\ FannedOut /\ TypeInv /\ PlanInv /\ FlowInv /\ Unreached(req.level, targets, received)
           /\ DOMAIN received = Voted \cap Heard
           /\ \A p \in DOMAIN received : received[p] = Votes[p])'
      BY <1>1, <1>2, <1>3, <3>1, <3>2
    <3> QED BY <3>3, UnreachedJustifies, PTL
  <2> QED BY <1>1, <2>1, <2>2, <2>3
<1> QED BY <1>3, <1>4, <1>6, <1>7, <1>8, <1>9

\* The outcomes are told apart.
LEMMA OutcomeKinds ==
    /\ Failed # Pending
    /\ \A k : Ready(k) # Pending /\ Ready(k) # Failed /\ Ready(k).winner = k
BY DEF Failed, Pending, Ready

\* When every target's envelope was counted and counted as good, every target
\* has voted without an error.
LEMMA AllGood ==
    ASSUME TypeInv, FlowInv, NEW c, Cardinality(Taken(c, Votes)) = Cardinality(targets),
           Cardinality(GoodOf(Taken(c, Votes), Votes)) = Cardinality(targets)
    PROVE  \A p \in targets : p \in hinted \/ (p \in DOMAIN said /\ ~said[p].err)
<1>1. DOMAIN Votes = Voted /\ Voted \subseteq targets /\ targets \in SUBSET Peers
  BY VotesType DEF TypeInv
<1>2. GoodOf(Taken(c, Votes), Votes) \in SUBSET targets /\ IsFiniteSet(targets)
  BY <1>1, FinitePeers DEF GoodOf, Taken
<1>3. GoodOf(Taken(c, Votes), Votes) = targets
  BY <1>2, FS_Subset
<1>4. \A p \in targets : p \in Voted /\ ~VoteOf(p).err
  BY <1>1, <1>3 DEF GoodOf, Taken, Votes
<1> QED BY <1>4, PlainReply DEF VoteOf, Voted, TypeInv, IsReplyMap

\* The actor takes the first envelope: it counts, and the tracker records it
\* unless it is swallowed or the tracker has decided.
LEMMA RecvTakes ==
    ASSUME VotesInv, FannedOut, IsReplyMap(Votes), chan # <<>>
    PROVE  LET src == Head(chan).src
               x == Plain(req, Head(chan).rsp)
               c2 == Tail(chan)
               f2 == RecordReply(received, src, x)
           IN  /\ src \in DOMAIN Votes /\ x = Votes[src] /\ src \in Peers
           /\ src \notin DOMAIN received
               /\ x.err = Head(chan).rsp.err
               /\ ChannelFits(req, c2, Votes)
               /\ Taken(c2, Votes) = Taken(chan, Votes) \cup {src}
               /\ replied + 1 = Cardinality(Taken(c2, Votes))
               /\ (IF x.err THEN good ELSE good + 1) = Cardinality(GoodOf(Taken(c2, Votes), Votes))
               /\ DOMAIN received \subseteq Taken(c2, Votes)
               /\ IsReplyMap(f2) /\ DOMAIN f2 = DOMAIN received \cup {src} /\ src \in DOMAIN f2
               /\ \A p \in DOMAIN f2 : f2[p] = Votes[p]
<1> DEFINE src == Head(chan).src
           x == Plain(req, Head(chan).rsp)
           c2 == Tail(chan)
           f2 == RecordReply(received, src, x)
<1>1. chan \in Seq(Env) /\ Once(chan)
      /\ \A e \in Entries(chan) : e.src \in DOMAIN Votes /\ Plain(req, e.rsp) = Votes[e.src]
  BY DEF ChannelFits, VotesInv
<1>2. /\ c2 \in Seq(Env) /\ Head(chan) \in Env /\ Head(chan) \in Entries(chan)
      /\ Entries(c2) \subseteq Entries(chan) /\ Srcs(c2) = Srcs(chan) \ {src} /\ src \in Srcs(chan)
      /\ Once(c2)
  BY <1>1, EntriesTail
<1>3. src \in DOMAIN Votes /\ x = Votes[src] /\ src \in Peers /\ x \in Reply
  BY <1>1, <1>2, PlainReply DEF Env
<1>0. x.err = Head(chan).rsp.err
  BY <1>2, PlainReply DEF Env
<1>4. ChannelFits(req, c2, Votes)
  BY <1>1, <1>2 DEF ChannelFits
<1>5. Taken(c2, Votes) = Taken(chan, Votes) \cup {src} /\ src \notin Taken(chan, Votes)
  BY <1>2, <1>3 DEF Taken
<1>6. IsFiniteSet(Taken(chan, Votes)) /\ IsFiniteSet(GoodOf(Taken(chan, Votes), Votes))
  <2>1. Taken(chan, Votes) \in SUBSET Peers /\ GoodOf(Taken(chan, Votes), Votes) \in SUBSET Peers
    BY DEF Taken, GoodOf, IsReplyMap
  <2> QED BY <2>1, FinitePeers
<1>7. replied = Cardinality(Taken(chan, Votes))
      /\ good = Cardinality(GoodOf(Taken(chan, Votes), Votes))
  BY DEF ActorFits, VotesInv
<1>8. replied + 1 = Cardinality(Taken(c2, Votes))
  BY <1>5, <1>6, <1>7, FS_AddElement
<1>9. (IF x.err THEN good ELSE good + 1) = Cardinality(GoodOf(Taken(c2, Votes), Votes))
  <2>1. GoodOf(Taken(c2, Votes), Votes)
          = IF x.err THEN GoodOf(Taken(chan, Votes), Votes)
            ELSE GoodOf(Taken(chan, Votes), Votes) \cup {src}
    <3> HIDE DEF src, x, c2
    <3> QED BY <1>3, <1>5 DEF GoodOf
  <2>2. src \notin GoodOf(Taken(chan, Votes), Votes)
    BY <1>5 DEF GoodOf
  <2> QED BY <1>6, <1>7, <2>1, <2>2, FS_AddElement
<1>10. /\ DOMAIN received \subseteq Taken(chan, Votes) /\ IsReplyMap(received)
       /\ \A p \in DOMAIN received : received[p] = Votes[p]
  BY DEF ActorFits, VotesInv
<1>11. src \notin DOMAIN received
  BY <1>5, <1>10
<1>12. IsReplyMap(f2) /\ DOMAIN f2 = DOMAIN received \cup {src} /\ f2[src] = x
       /\ \A q \in DOMAIN received : f2[q] = received[q]
  <2> HIDE DEF src, x
  <2>1. IsReplyMap(received) /\ src \in Peers /\ x \in Reply
    BY <1>3, <1>10
  <2>2. /\ IsReplyMap(f2) /\ DOMAIN f2 = DOMAIN received \cup {src} /\ f2[src] = x
        /\ \A q \in DOMAIN received : q # src => f2[q] = received[q]
    BY <2>1 DEF RecordReply, IsReplyMap
  <2> QED BY <1>11, <2>2
<1>13. \A p \in DOMAIN f2 : f2[p] = Votes[p]
  BY <1>3, <1>10, <1>12
<1> QED BY <1>3, <1>0, <1>4, <1>5, <1>8, <1>9, <1>10, <1>11, <1>12, <1>13

\* One envelope through the actor.
LEMMA RecvKeeps ==
    ASSUME FanOutInv, AnswerInv, NEW built \in BOOLEAN, Recv(built)
    PROVE  FanOutInv'
<1> USE DEF FanOutInv
<1> DEFINE src == Head(chan).src
           raw == Head(chan).rsp
           rsp == Plain(req, raw)
           reps == IF TsRead(req) /\ ~raw.err
                   THEN Append(ts_replies, [src |-> src, ver |-> raw.val]) ELSE ts_replies
           records == ~Swallowed(src) /\ ~decided
           f2 == RecordReply(received, src, rsp)
           outcome == IF records THEN Evaluate(req.level, targets, f2, src) ELSE Pending
           repair == TsRead(req) /\ ~emitted /\ outcome # Pending /\ Stale(reps) # {} /\ built
           answer == IF repair
                     THEN ToClient(Plain(req, [err |-> FALSE, val |-> FirstNotStale(reps).ver]))
                     ELSE IF outcome = Failed THEN NoQuorum ELSE ToClient(outcome.winner)
<1>1. /\ pc = "actor" /\ chan # <<>> /\ chan' = Tail(chan)
      /\ replied' = replied + 1 /\ good' = IF rsp.err THEN good ELSE good + 1
      /\ ts_replies' = reps
      /\ received' = IF records THEN f2 ELSE received
      /\ decided' = (decided \/ outcome # Pending)
      /\ repaired' = IF repair THEN {reps[i].src : i \in Stale(reps)} ELSE repaired
      /\ cleaned' = (cleaned \/ DropsMarkers(replied', good'))
      /\ UNCHANGED <<pc, req, targets, todo, sent, in_flight, hinted, said>>
  BY DEF Recv, planVars
<1>2. IF outcome # Pending /\ ~emitted
      THEN answers' = Append(answers, answer) /\ emitted' = TRUE
      ELSE answers' = answers /\ emitted' = emitted
  BY DEF Recv
<1>3. UNCHANGED <<Votes, Voted, Heard, Answering, Locals>> /\ (FannedOut' <=> FannedOut)
      /\ FannedOut
  BY <1>1, VotesSame, StaticSame DEF PhaseInv
<1>4. /\ IsReplyMap(Votes) /\ DOMAIN Votes = Voted /\ Voted \subseteq targets
      /\ targets \in SUBSET Peers /\ targets # {}
  BY <1>3, VotesType, FannedOutSome DEF TypeInv
<1>5. /\ ChannelFits(req, chan, Votes)
      /\ ActorFits(req.level, targets, Heard, chan, Votes, received, decided, replied, good)
  BY <1>3 DEF VotesInv
<1>6. /\ src \in DOMAIN Votes /\ rsp = Votes[src] /\ src \in Peers /\ src \notin DOMAIN received
      /\ ChannelFits(req, chan', Votes)
      /\ Taken(chan', Votes) = Taken(chan, Votes) \cup {src}
      /\ replied' = Cardinality(Taken(chan', Votes))
      /\ good' = Cardinality(GoodOf(Taken(chan', Votes), Votes))
      /\ DOMAIN received \subseteq Taken(chan', Votes)
      /\ IsReplyMap(f2) /\ DOMAIN f2 = DOMAIN received \cup {src} /\ src \in DOMAIN f2
      /\ \A p \in DOMAIN f2 : f2[p] = Votes[p]
  <2>1. /\ src \in DOMAIN Votes /\ rsp = Votes[src] /\ src \in Peers /\ src \notin DOMAIN received
        /\ ChannelFits(req, Tail(chan), Votes)
        /\ Taken(Tail(chan), Votes) = Taken(chan, Votes) \cup {src}
        /\ replied + 1 = Cardinality(Taken(Tail(chan), Votes))
        /\ (IF rsp.err THEN good ELSE good + 1) = Cardinality(GoodOf(Taken(Tail(chan), Votes), Votes))
        /\ DOMAIN received \subseteq Taken(Tail(chan), Votes)
        /\ IsReplyMap(f2) /\ DOMAIN f2 = DOMAIN received \cup {src} /\ src \in DOMAIN f2
        /\ \A p \in DOMAIN f2 : f2[p] = Votes[p]
    <3>1. chan # <<>> /\ IsReplyMap(Votes)
      BY <1>1, <1>4
    <3> QED BY <1>3, <3>1, RecvTakes
  <2> HIDE DEF src, rsp, f2, records, outcome, repair, reps
  <2> QED BY <1>1, <2>1
<1>7. raw \in Reply
  <2>1. chan \in Seq(Env)
    BY <1>5 DEF ChannelFits
  <2>2. Head(chan) \in Env
    BY <1>1, <2>1, HeadTailProperties
  <2> QED BY <2>2 DEF Env
<1>8. \/ outcome = Pending /\ (records => Unreached(req.level, targets, f2))
      \/ outcome = Failed /\ records /\ Divergent(req.level, f2)
      \/ \E k \in Reply : /\ outcome = Ready(k) /\ records
                          /\ Backed(req.level, targets, Answering, f2, k)
  <2>1. CASE ~records
    BY <2>1
  <2>2. CASE records
    <3>1. AtMostOne(Answering) /\ (Answering = {} \/ src \in Answering)
      <4>1. AtMostOne(Answering)
        <5>1. targets \subseteq Candidates
          BY <1>3 DEF PlanInv
        <5>2. {p \in targets : InOwnRack(p)} \in SUBSET Candidates
          BY <5>1
        <5> QED BY <5>2, ForemostIsOne DEF Answering, AtMostOne
      <4> QED BY <2>2, <4>1 DEF Swallowed
    <3>2. DOMAIN f2 \subseteq targets
      BY <1>4, <1>6 DEF Taken
    <3>3. req.level \in {"DC_QUORUM", "DC_SAFE_QUORUM"} => targets = LocalTargets(targets)
      BY <1>3 DEF PlanInv, Locals
    <3>4. req.level \in Levels
      BY DEF TypeInv
    <3>5. outcome = Evaluate(req.level, targets, f2, src)
      BY <2>2
    <3>6. IsReplyMap(f2) /\ src \in DOMAIN f2
      BY <1>6
    <3> HIDE DEF f2, outcome, src, records
    <3>7. \/ outcome = Pending /\ Unreached(req.level, targets, f2)
          \/ outcome = Failed /\ Divergent(req.level, f2)
          \/ \E k \in Reply : outcome = Ready(k) /\ Backed(req.level, targets, Answering, f2, k)
      BY <1>4, <3>1, <3>2, <3>3, <3>4, <3>5, <3>6, EvaluateOutcome
    <3> QED BY <2>2, <3>7
  <2> QED BY <2>1, <2>2
<1> HIDE DEF src, raw, rsp, records, f2, outcome, repair, answer
<1>9. records <=> src \in Heard /\ ~decided
  BY <1>4, <1>6 DEF records, Heard
<1>10. decided = emitted /\ decided \in BOOLEAN
  BY DEF PhaseInv, TypeInv
<1>11. TypeInv'
  <2>1. reps \in Seq([src : Peers, ver : Payloads])
    <3>1. [src |-> src, ver |-> raw.val] \in [src : Peers, ver : Payloads]
      BY <1>6, <1>7 DEF Reply
    <3>2. ts_replies \in Seq([src : Peers, ver : Payloads])
      BY DEF TypeInv
    <3> QED BY <3>1, <3>2, AppendProperties
  <2> QED BY <1>1, <1>2, <1>10, <2>1 DEF TypeInv
<1> HIDE DEF reps
<1>12. PlanInv' /\ FlowInv'
  BY <1>1, <1>3 DEF PlanInv, FlowInv
<1>13. repair => TsRead(req) /\ ~emitted /\ outcome # Pending /\ Stale(reps) # {}
  BY DEF repair
<1>14. PhaseInv'
  BY <1>1, <1>2, <1>3, <1>10, <1>13 DEF PhaseInv
<1>15. VotesInv'
  <2>1. /\ IsReplyMap(received') /\ DOMAIN received' \subseteq Taken(chan', Votes)
        /\ \A p \in DOMAIN received' : received'[p] = Votes[p]
    <3>1. IsReplyMap(received) /\ \A p \in DOMAIN received : received[p] = Votes[p]
      BY <1>5 DEF ActorFits
    <3>2. DOMAIN f2 \subseteq Taken(chan', Votes)
      BY <1>6
    <3> QED BY <1>1, <1>6, <3>1, <3>2
  <2>2. ASSUME ~decided'
        PROVE  /\ DOMAIN received' = Taken(chan', Votes) \cap Heard
               /\ Unreached(req.level, targets, received')
    <3>1. outcome = Pending /\ ~decided
      BY <1>1, <2>2
    <3>2. DOMAIN received = Taken(chan, Votes) \cap Heard
          /\ Unreached(req.level, targets, received)
      BY <1>5, <3>1 DEF ActorFits
    <3>3. CASE records
      BY <1>1, <1>6, <1>8, <1>9, <3>1, <3>2, <3>3, OutcomeKinds
    <3>4. CASE ~records
      BY <1>1, <1>6, <1>9, <3>1, <3>2, <3>4
    <3> QED BY <3>3, <3>4
  <2>3. ActorFits(req.level, targets, Heard, chan', Votes, received', decided', replied', good')
    BY <1>6, <2>1, <2>2 DEF ActorFits
  <2> QED BY <1>1, <1>3, <1>6, <2>3 DEF VotesInv
<1>16. KeptInv' /\ SplitInv'
  <2>1. CASE outcome # Pending /\ ~emitted
    <3>1. answers' = <<answer>>
      BY <1>1, <1>2, <2>1, AnswerKinds DEF AnswerInv
    <3>2. DOMAIN f2 \subseteq DOMAIN Votes /\ \A p \in DOMAIN f2 : f2[p] = Votes[p]
      BY <1>6 DEF Taken
    <3>3. CASE repair
      <4>1. repaired' # {}
        BY <1>1, <1>13, <3>3
      <4>2. \E k : answers' = <<ToClient(k)>>
        BY <3>1, <3>3 DEF answer
      <4>3. KeptInv'
        BY <4>1 DEF KeptInv, Unrepaired
      <4>4. SplitInv'
        BY <4>2, AnswerKinds DEF SplitInv
      <4> QED BY <4>3, <4>4
    <3>4. CASE ~repair /\ outcome = Failed
      <4>1. answers' = <<NoQuorum>>
        BY <3>1, <3>4 DEF answer
      <4>2. Divergent(req.level, f2)
        BY <1>8, <3>4, OutcomeKinds
      <4>3. Divergent(req.level, Votes)
        BY <3>2, <4>2 DEF Divergent
      <4>4. KeptInv'
        BY <4>1, AnswerKinds DEF KeptInv, AnsweredWith
      <4>5. SplitInv'
        BY <1>1, <1>3, <4>3 DEF SplitInv
      <4> QED BY <4>4, <4>5
    <3>5. CASE ~repair /\ outcome # Failed
      <4>1. PICK k \in Reply : outcome = Ready(k) /\ Backed(req.level, targets, Answering, f2, k)
        BY <1>8, <2>1, <3>5
      <4>2. answers' = <<ToClient(k)>>
        BY <3>1, <3>5, <4>1, OutcomeKinds DEF answer
      <4>3. Backed(req.level, targets, Answering, Votes, k)
        BY <1>4, <3>2, <4>1, BackedExtends
      <4>4. KeptInv'
        BY <1>1, <1>3, <4>2, <4>3, AnswerKinds DEF KeptInv, AnsweredWith
      <4>5. SplitInv'
        BY <4>2, AnswerKinds DEF SplitInv
      <4> QED BY <4>4, <4>5
    <3> QED BY <3>3, <3>4, <3>5
  <2>2. CASE ~(outcome # Pending /\ ~emitted)
    <3>1. UNCHANGED <<answers, repaired>>
      BY <1>1, <1>2, <1>13, <2>2
    <3>2. KeptInv'
      BY <1>1, <1>3, <3>1 DEF KeptInv, AnsweredWith, Unrepaired
    <3>3. SplitInv'
      BY <1>1, <1>3, <3>1 DEF SplitInv
    <3> QED BY <3>2, <3>3
  <2> QED BY <2>1, <2>2
<1>18. NoQuorumJustified'
  BY <1>1 DEF NoQuorumJustified
<1>19. MarkersKeptUntilAllGood'
  <2>1. CASE cleaned
    BY <1>1, <2>1 DEF MarkersKeptUntilAllGood
  <2>2. CASE DropsMarkers(replied', good')
    <3>1. replied' = Cardinality(targets) /\ good' = Cardinality(targets)
      BY <2>2 DEF DropsMarkers
    <3>2. \A p \in targets : p \in hinted \/ (p \in DOMAIN said /\ ~said[p].err)
      BY <1>6, <3>1, AllGood
    <3> QED BY <1>1, <3>2 DEF MarkersKeptUntilAllGood
  <2>3. CASE ~cleaned'
    BY <2>3 DEF MarkersKeptUntilAllGood
  <2> QED BY <1>1, <2>1, <2>2, <2>3
<1> QED BY <1>11, <1>12, <1>14, <1>15, <1>16, <1>18, <1>19

-----------------------------------------------------------------------------
(* The theorems                                                            *)

\* Every step keeps the invariant.
LEMMA FanOutInvStep == FanOutInv /\ AnswerInv /\ [Next]_vars => FanOutInv'
<1> SUFFICES ASSUME FanOutInv, AnswerInv, [Next]_vars PROVE FanOutInv'
  OBVIOUS
<1>1. ASSUME NEW r \in Workload, NEW state, NEW later_down, Dispatch(r, state, later_down)
      PROVE  FanOutInv'
  BY <1>1, WorkloadAssumption, DispatchKeeps
<1>2. ASSUME NEW p, NEW rsp \in LinkReplies, LinkReply(p, rsp) PROVE FanOutInv'
  <2>1. rsp \in Reply
    BY PlainReply, ContentsAssumption DEF LinkReplies, Reply
  <2> QED BY <1>2, <2>1, LinkReplyKeeps
<1>3. CASE UNCHANGED vars
  <2>1. UNCHANGED <<pc, req, targets, down, todo, sent, in_flight, chan, received, decided, emitted,
                    ts_replies, replied, good, repaired, cleaned, hinted, said, answers>>
    BY <1>3 DEF vars, planVars, actorVars
  <2>2. UNCHANGED <<Votes, Voted, Heard, Answering, Locals>> /\ (FannedOut' <=> FannedOut)
    BY <2>1, VotesSame, StaticSame
  <2>3. TypeInv' /\ PlanInv' /\ FlowInv'
    BY <2>1, <2>2 DEF FanOutInv, TypeInv, PlanInv, FlowInv
  <2>4. PhaseInv'
    BY <2>1, <2>2 DEF FanOutInv, PhaseInv
  <2>5. VotesInv'
    BY <2>1, <2>2 DEF FanOutInv, VotesInv
  <2>6. KeptInv' /\ SplitInv'
    BY <2>1, <2>2 DEF FanOutInv, KeptInv, SplitInv, AnsweredWith, Unrepaired
  <2>7. NoQuorumJustified'
    BY <2>1, <2>2 DEF FanOutInv, NoQuorumJustified, Unanimous, VotesOf, VoteOf
  <2>8. MarkersKeptUntilAllGood'
    BY <2>1 DEF FanOutInv, MarkersKeptUntilAllGood
  <2> QED BY <2>3, <2>4, <2>5, <2>6, <2>7, <2>8 DEF FanOutInv
<1> QED BY <1>1, <1>2, <1>3, FanOutNextKeeps, FanOutDoneKeeps, DirectStepKeeps, RecvKeeps,
           CloseKeeps, RetireKeeps, LinkDropKeeps DEF Next

\* Together the two invariants hold from the start.
LEMMA FanOutInvariant == Spec => [](FanOutInv /\ AnswerInv)
<1>1. Init => AnswerInv
  BY DEF Init, AnswerInv
<1> QED BY <1>1, InitInv, FanOutInvStep, AnswerInvStep, PTL DEF Spec

\* What a level's answer rests on is what the level promises.
LEMMA InvKeepsLevel == FanOutInv => LevelKept
<1> SUFFICES ASSUME FanOutInv PROVE LevelKept
  OBVIOUS
<1> USE DEF FanOutInv
<1>1. DOMAIN Votes = Voted /\ Voted \subseteq targets /\ \A p \in Voted : Votes[p] = VoteOf(p)
  BY VotesType DEF Votes
<1>2. QuorumAnswer
  <2> SUFFICES ASSUME FannedOut, req.level = "DC_QUORUM", Unrepaired,
                      NEW k \in Reply, AnsweredWith(k)
               PROVE  \/ Cardinality(VotesOf(Locals, k)) >= Quorum(targets)
                      \/ /\ Locals \subseteq Voted
                         /\ \A j \in Reply :
                               Cardinality(VotesOf(Locals, j)) <= Cardinality(VotesOf(Locals, k))
    BY DEF QuorumAnswer
  <2>1. targets = Locals
    BY DEF PlanInv
  <2>2. \A j : VotesOf(Locals, j) = VotesFor(Votes, DOMAIN Votes, j)
    BY <1>1, <2>1 DEF VotesOf, VotesFor
  <2>3. Backed("DC_QUORUM", targets, Answering, Votes, k)
    BY DEF KeptInv
  <2> QED BY <1>1, <2>1, <2>2, <2>3 DEF Backed
<1>3. SafeAnswer
  <2> SUFFICES ASSUME FannedOut, Unrepaired, NEW k \in Reply, AnsweredWith(k)
               PROVE  /\ req.level \in {"DC_SAFE_QUORUM", "DC_EACH_SAFE_QUORUM"} =>
                            VotesOf(Locals, k) = Locals
                      /\ req.level = "DC_EACH_SAFE_QUORUM" =>
                            \A p \in targets : Unanimous(DcTargets(targets, DcOf[p]))
    BY DEF SafeAnswer
  <2>1. Backed(req.level, targets, Answering, Votes, k)
    BY DEF KeptInv
  <2>2. CASE req.level = "DC_SAFE_QUORUM"
    BY <1>1, <2>1, <2>2 DEF Backed, VotesOf, Locals, LocalTargets
  <2>3. CASE req.level = "DC_EACH_SAFE_QUORUM"
    <3>1. /\ Voted = targets /\ \A p \in Locals : VoteOf(p) = k
          /\ \A p, q \in targets : DcOf[p] = DcOf[q] => VoteOf(p) = VoteOf(q)
      BY <1>1, <2>1, <2>3 DEF Backed, Locals, LocalTargets
    <3>2. VotesOf(Locals, k) = Locals
      BY <3>1 DEF VotesOf, Locals, LocalTargets
    <3>3. \A p \in targets : Unanimous(DcTargets(targets, DcOf[p]))
      BY <3>1 DEF Unanimous, DcTargets
    <3> QED BY <3>2, <3>3
  <2> QED BY <2>2, <2>3
<1>4. OwnRackAnswers
  <2> SUFFICES ASSUME FannedOut, req.level = "DC_ONE", NEW k \in Reply, AnsweredWith(k)
               PROVE  VotesOf(Answering, k) = Answering
    BY DEF OwnRackAnswers
  <2>1. Unrepaired
    BY DEF Unrepaired, PhaseInv, PlanInv
  <2>2. Backed("DC_ONE", targets, Answering, Votes, k)
    BY <2>1 DEF KeptInv
  <2> QED BY <1>1, <2>2 DEF Backed, VotesOf
<1> QED BY <1>2, <1>3, <1>4 DEF LevelKept

\* Whatever the topology, the number of replicas, the consistency level, the order
\* of the replies, the hints and the links that drop theirs, the client gets the
\* reply its level promises: a majority's or, with every local reply in, the
\* plurality's; every local replica's; every datacenter's; its own rack's
\* (dispatch.rs, coalesce_actor; coalesce.rs, CoalesceTracker::evaluate).
THEOREM LevelIsKept == Spec => []LevelKept
BY FanOutInvariant, InvKeepsLevel, PTL

\* The client is refused for want of a quorum only when the votes that were cast,
\* all of them, do not reach the level (coalesce_actor, FanOutDone's inline error).
THEOREM NoQuorumIsJustified == Spec => []NoQuorumJustified
<1>1. FanOutInv => NoQuorumJustified
  BY DEF FanOutInv
<1> QED BY <1>1, FanOutInvariant, PTL

\* A write is never both sent and hinted, and delete markers are dropped only when
\* every target took the delete (dispatch_replicas, coalesce_actor).
THEOREM ReplicasAreSpared == Spec => []ReplicasSpared
<1>1. FanOutInv => ReplicasSpared
  BY DEF FanOutInv, FlowInv, ReplicasSpared, SentOrHinted
<1> QED BY <1>1, FanOutInvariant, PTL

-----------------------------------------------------------------------------
(* Read repair                                                             *)

TsReply == [src : Peers, ver : Payloads]

\* Of finitely many versions one is the greatest: the one the fewest exceed.
LEMMA GreatestVersion ==
    ASSUME NEW s \in Seq(TsReply), DOMAIN s # {}
    PROVE  \E i \in DOMAIN s : \A j \in DOMAIN s : s[j].ver <= s[i].ver
<1> DEFINE D == DOMAIN s
           Above(i) == {j \in D : s[j].ver > s[i].ver}
           N(i) == Cardinality(Above(i))
<1>1. IsFiniteSet(D) /\ \A i \in D : s[i].ver \in Nat
  <2>1. D = 1..Len(s) /\ Len(s) \in Nat /\ \A i \in D : s[i] \in TsReply
    BY LenProperties, ElementOfSeq
  <2>2. IsFiniteSet(1..Len(s))
    BY <2>1, FS_Interval
  <2> QED BY <2>1, <2>2, PayloadsAssumption DEF TsReply
<1>2. \A i \in D : IsFiniteSet(Above(i)) /\ N(i) \in Nat
  BY <1>1, FS_Subset, FS_CardinalityType
<1>3. PICK i \in D : \A j \in D : N(i) <= N(j)
  <2> HIDE DEF N, D
  <2> DEFINE T == {N(i) : i \in D}
  <2>1. T \subseteq Nat /\ T # {}
    BY <1>2 DEF D
  <2>2. PICK x \in T : \A y \in T : x <= y
    <3> HIDE DEF T
    <3> QED BY <2>1, LeastNat
  <2>3. PICK i \in D : x = N(i)
    BY <2>2
  <2>4. \A j \in D : N(i) <= N(j)
    BY <2>2, <2>3
  <2> QED BY <2>4
<1>4. ASSUME NEW j \in D, s[j].ver > s[i].ver PROVE FALSE
  <2>1. Above(j) \in SUBSET Above(i) /\ Above(j) # Above(i)
    BY <1>1, <1>4
  <2>2. N(j) <= N(i) /\ N(i) # N(j) /\ N(i) \in Nat /\ N(j) \in Nat
    BY <1>2, <2>1, FS_Subset
  <2>3. N(i) <= N(j)
    BY <1>3
  <2> HIDE DEF N
  <2> QED BY <2>2, <2>3
<1>5. \A j \in D : s[j].ver <= s[i].ver
  BY <1>1, <1>4
<1> QED BY <1>5

\* The reply repair() answers with carries the greatest version.
LEMMA FirstNotStaleFreshest ==
    ASSUME NEW s \in Seq(TsReply), DOMAIN s # {}, \A i \in DOMAIN s : s[i].ver # 0
    PROVE  FirstNotStale(s).ver = FreshestVersion(s)
<1>1. DOMAIN s \subseteq Nat /\ \A i \in DOMAIN s : s[i].ver \in Nat
  <2>1. DOMAIN s = 1..Len(s) /\ Len(s) \in Nat /\ \A i \in DOMAIN s : s[i] \in TsReply
    BY LenProperties, ElementOfSeq
  <2>2. DOMAIN s \subseteq Nat
    BY <2>1
  <2>3. \A i \in DOMAIN s : s[i].ver \in Nat
    BY <2>1, PayloadsAssumption DEF TsReply
  <2> QED BY <2>2, <2>3
<1> DEFINE Fresh == DOMAIN s \ Stale(s)
<1>2. \A i \in DOMAIN s : i \in Fresh <=> \A j \in DOMAIN s : s[j].ver <= s[i].ver
  BY <1>1 DEF Stale
<1>3. Fresh # {} /\ Fresh \subseteq Nat
  BY <1>1, <1>2, GreatestVersion
<1> HIDE DEF Fresh
<1>4. PICK i \in Fresh : FirstNotStale(s) = s[i]
  <2>1. \E i \in Fresh : \A j \in Fresh : i <= j
    BY <1>3, LeastNat
  <2>2. FirstNotStale(s) = s[CHOOSE i \in Fresh : \A j \in Fresh : i <= j]
    BY DEF FirstNotStale, Fresh
  <2> QED BY <2>1, <2>2
<1>5. i \in DOMAIN s /\ \A j \in DOMAIN s : s[j].ver <= s[i].ver
  BY <1>2 DEF Fresh
<1>6. \A v \in {s[j].ver : j \in DOMAIN s} : (\A j \in DOMAIN s : s[j].ver <= v) <=> v = s[i].ver
  BY <1>1, <1>5
<1> QED BY <1>4, <1>5, <1>6 DEF FreshestVersion

\* The step that repairs is the one that answers, with the freshest version.
LEMMA RepairAnswersFreshest ==
    ASSUME FanOutInv, AnswerInv, [Next]_vars, repaired = {}, repaired' # {},
           \A i \in DOMAIN ts_replies' : ts_replies'[i].ver # 0
    PROVE  answers' = <<FreshestReply(ts_replies')>>
<1>1. PICK built \in BOOLEAN : Recv(built)
  <2>1. \A r, state, later_down : Dispatch(r, state, later_down) => repaired' = repaired
    BY DEF Dispatch, actorVars
  <2>2. FanOutNext \/ FanOutDone \/ Direct \/ Close => repaired' = repaired
    BY DEF FanOutNext, FanOutDone, Direct, Close, actorVars
  <2>3. Retire => repaired' = {}
    BY DEF Retire
  <2>4. \A p, rsp : LinkReply(p, rsp) \/ LinkDrop(p) => repaired' = repaired
    BY DEF LinkReply, LinkDrop, actorVars
  <2>5. UNCHANGED vars => repaired' = repaired
    BY DEF vars, actorVars
  <2> QED BY <2>1, <2>2, <2>3, <2>4, <2>5 DEF Next
<1> DEFINE s == ts_replies'
<1>2. Stale(s) # {} /\ ~emitted /\ pc = "actor"
      /\ answers' = Append(answers,
                           ToClient(Plain(req, [err |-> FALSE, val |-> FirstNotStale(s).ver])))
  BY <1>1 DEF Recv
<1>3. FanOutInv' 
  BY FanOutInvStep
<1>4. s \in Seq(TsReply) /\ DOMAIN s # {}
  BY <1>2, <1>3 DEF FanOutInv, TypeInv, TsReply, Stale
<1>5. FirstNotStale(s).ver = FreshestVersion(s)
  BY <1>4, FirstNotStaleFreshest
<1>6. answers = <<>>
  BY <1>2 DEF AnswerInv
<1> HIDE DEF s
<1>7. answers' = <<FreshestReply(s)>>
  BY <1>2, <1>5, <1>6, AnswerKinds DEF FreshestReply
<1> QED BY <1>7 DEF s

\* A read that repairs stale replicas answers with the freshest version it saw
\* (ReadRepairContext::repair, find_most_updated).
THEOREM RepairedReadsAreFresh == Spec => RepairedReadIsFresh
<1>1. FanOutInv /\ AnswerInv /\ [Next]_vars =>
        [ (/\ repaired = {} /\ repaired' # {}
           /\ \A i \in DOMAIN ts_replies' : ts_replies'[i].ver # 0)
            => answers' = <<FreshestReply(ts_replies')>> ]_vars
  BY RepairAnswersFreshest
<1> QED BY <1>1, FanOutInvariant, PTL DEF Spec, RepairedReadIsFresh
=============================================================================
