--------------------------- MODULE PeerLinkProofs ---------------------------
(***************************************************************************)
(* PeerLink, for any requests, gossip frames and channel capacity: type    *)
(* correctness; the reason matching replies by position is right when the  *)
(* receiver hands every request to its datastore; that requests and frames *)
(* are neither doubled nor reordered, and which frames alone are lost; and *)
(* that every step is one ReplyContract allows.                            *)
(***************************************************************************)
EXTENDS PeerLink, SequenceTheorems, TLAPS

-----------------------------------------------------------------------------
(* Queues in series.                                                        *)

\* What is appended to the last queue is appended to the whole.
LEMMA ConcatAppend ==
    ASSUME NEW S, NEW s \in Seq(S), NEW t \in Seq(S), NEW e \in S
    PROVE  s \o Append(t, e) = Append(s \o t, e)
<1>1. /\ s \o t \in Seq(S) /\ Append(t, e) \in Seq(S)
      /\ s \o Append(t, e) \in Seq(S) /\ Append(s \o t, e) \in Seq(S)
  BY ConcatProperties, AppendProperties
<1>2. Len(s \o Append(t, e)) = Len(Append(s \o t, e))
  BY <1>1, ConcatProperties, AppendProperties, LenProperties
<1>3. ASSUME NEW i \in 1..Len(s \o Append(t, e))
      PROVE  (s \o Append(t, e))[i] = Append(s \o t, e)[i]
  BY <1>1, LenProperties
<1> QED BY <1>1, <1>2, <1>3, SeqEqual

\* Moving the head of one queue to the tail of the queue before it leaves the
\* whole unchanged.
LEMMA ConcatMove ==
    ASSUME NEW S, NEW s \in Seq(S), NEW t \in Seq(S), t # <<>>
    PROVE  Append(s, Head(t)) \o Tail(t) = s \o t
<1>1. /\ Head(t) \in S /\ Tail(t) \in Seq(S) /\ Append(s, Head(t)) \in Seq(S)
      /\ Append(s, Head(t)) \o Tail(t) \in Seq(S) /\ s \o t \in Seq(S)
  BY HeadTailProperties, AppendProperties, ConcatProperties
<1>2. Len(Append(s, Head(t)) \o Tail(t)) = Len(s \o t)
  BY <1>1, HeadTailProperties, AppendProperties, ConcatProperties, LenProperties
<1>3. ASSUME NEW i \in 1..Len(Append(s, Head(t)) \o Tail(t))
      PROVE  (Append(s, Head(t)) \o Tail(t))[i] = (s \o t)[i]
  BY <1>1, LenProperties
<1> QED BY <1>1, <1>2, <1>3, SeqEqual

\* The head of the first queue is the head of the whole.
LEMMA ConcatHeadTail ==
    ASSUME NEW S, NEW s \in Seq(S), NEW t \in Seq(S), s # <<>>
    PROVE  /\ s \o t # <<>>
           /\ Head(s \o t) = Head(s)
           /\ Tail(s \o t) = Tail(s) \o t
<1>1. s \o t \in Seq(S) /\ s \o t # <<>>
  BY ConcatProperties, ConcatEqualIffEmpty
<1>2. Head(s \o t) = Head(s)
  BY <1>1, LenProperties
<1>3. /\ Tail(s \o t) \in Seq(S) /\ Tail(s) \in Seq(S) /\ Tail(s) \o t \in Seq(S)
  BY <1>1, HeadTailProperties, ConcatProperties
<1>4. Len(Tail(s \o t)) = Len(Tail(s) \o t)
  BY <1>1, <1>3, HeadTailProperties, ConcatProperties, LenProperties
<1>5. ASSUME NEW i \in 1..Len(Tail(s \o t))
      PROVE  Tail(s \o t)[i] = (Tail(s) \o t)[i]
  BY <1>1, <1>3, LenProperties
<1> QED BY <1>1, <1>2, <1>3, <1>4, <1>5, SeqEqual

-----------------------------------------------------------------------------
(* What a queue holds, and in which order.                                  *)

Elems(s) == {s[i] : i \in DOMAIN s}
Uniq(s) == \A i, j \in DOMAIN s : s[i] = s[j] => i = j

\* x comes before y in the sequence o.
Prec(o, x, y) == \E i, j \in DOMAIN o : i < j /\ o[i] = x /\ o[j] = y

\* Every member of X comes before every member of Y; s is in the order of o.
Before(o, X, Y) == \A x \in X, y \in Y : Prec(o, x, y)
Ascending(o, s) == \A i, j \in DOMAIN s : i < j => Prec(o, s[i], s[j])

\* An empty queue holds nothing.
LEMMA ElemsEmpty == Elems(<<>>) = {} /\ Uniq(<<>>)
BY DEF Elems, Uniq

\* A queue holds elements of its type only.
LEMMA ElemsIn == \A S : \A s \in Seq(S) : Elems(s) \subseteq S
BY DEF Elems

\* Appending to a queue adds one element, and repeats none if it is new.
LEMMA ElemsAppend ==
    ASSUME NEW S, NEW s \in Seq(S), NEW e \in S
    PROVE  /\ Elems(Append(s, e)) = Elems(s) \cup {e}
           /\ Uniq(s) /\ e \notin Elems(s) => Uniq(Append(s, e))
<1>1. /\ Append(s, e) \in Seq(S) /\ Len(Append(s, e)) = Len(s) + 1
      /\ DOMAIN s = 1..Len(s) /\ DOMAIN Append(s, e) = 1..(Len(s) + 1)
      /\ \A i \in 1..Len(s) : Append(s, e)[i] = s[i]
      /\ Append(s, e)[Len(s) + 1] = e /\ Len(s) \in Nat
  BY AppendProperties, LenProperties
<1>2. Elems(Append(s, e)) = Elems(s) \cup {e}
  BY <1>1 DEF Elems
<1>3. ASSUME Uniq(s), e \notin Elems(s) PROVE Uniq(Append(s, e))
  BY <1>1, <1>3 DEF Elems, Uniq
<1> QED BY <1>2, <1>3

\* Taking the head of a queue removes that element, and all of it if nothing repeats.
LEMMA ElemsTail ==
    ASSUME NEW S, NEW s \in Seq(S), s # <<>>
    PROVE  /\ Head(s) \in S /\ Tail(s) \in Seq(S)
           /\ Elems(s) = {Head(s)} \cup Elems(Tail(s))
           /\ Uniq(s) => Uniq(Tail(s)) /\ Head(s) \notin Elems(Tail(s))
<1>1. /\ Head(s) \in S /\ Tail(s) \in Seq(S) /\ Head(s) = s[1] /\ Len(s) \in Nat \ {0}
      /\ DOMAIN s = 1..Len(s) /\ DOMAIN Tail(s) = 1..(Len(s) - 1)
      /\ \A i \in 1..(Len(s) - 1) : Tail(s)[i] = s[i + 1]
  BY HeadTailProperties, LenProperties, EmptySeq
<1>2. Elems(s) \subseteq {Head(s)} \cup Elems(Tail(s))
  <2>1. ASSUME NEW i \in 1..Len(s), i # 1 PROVE s[i] \in Elems(Tail(s))
    <3>1. i - 1 \in 1..(Len(s) - 1) /\ (i - 1) + 1 = i
      BY <1>1, <2>1
    <3>2. i - 1 \in DOMAIN Tail(s) /\ Tail(s)[i - 1] = s[i]
      BY <1>1, <3>1
    <3> QED BY <3>2 DEF Elems
  <2> QED BY <1>1, <2>1 DEF Elems
<1>3. {Head(s)} \cup Elems(Tail(s)) \subseteq Elems(s)
  BY <1>1 DEF Elems
<1>4. ASSUME Uniq(s) PROVE Uniq(Tail(s)) /\ Head(s) \notin Elems(Tail(s))
  <2>1. Uniq(Tail(s))
    <3> SUFFICES ASSUME NEW i \in 1..(Len(s) - 1), NEW j \in 1..(Len(s) - 1),
                        Tail(s)[i] = Tail(s)[j]
                 PROVE  i = j
      BY <1>1 DEF Uniq
    <3>1. s[i + 1] = s[j + 1] /\ i + 1 \in DOMAIN s /\ j + 1 \in DOMAIN s
      BY <1>1
    <3>2. i + 1 = j + 1
      BY <3>1, <1>4 DEF Uniq
    <3> QED BY <3>2
  <2>2. ASSUME NEW i \in 1..(Len(s) - 1), Tail(s)[i] = Head(s) PROVE FALSE
    <3>1. s[i + 1] = s[1] /\ i + 1 \in DOMAIN s /\ 1 \in DOMAIN s
      BY <1>1, <2>2
    <3>2. i + 1 = 1
      BY <3>1, <1>4 DEF Uniq
    <3> QED BY <3>2
  <2> QED BY <1>1, <2>1, <2>2 DEF Elems
<1> QED BY <1>1, <1>2, <1>3, <1>4

\* Two queues in series hold what either holds, and nothing twice if they share nothing.
LEMMA UniqConcat ==
    ASSUME NEW S, NEW s \in Seq(S), NEW t \in Seq(S)
    PROVE  /\ s \o t \in Seq(S) /\ Elems(s \o t) = Elems(s) \cup Elems(t)
           /\ Uniq(s) /\ Uniq(t) /\ Elems(s) \cap Elems(t) = {} => Uniq(s \o t)
<1>1. /\ s \o t \in Seq(S) /\ Len(s) \in Nat /\ Len(t) \in Nat
      /\ DOMAIN s = 1..Len(s) /\ DOMAIN t = 1..Len(t)
      /\ DOMAIN (s \o t) = 1..(Len(s) + Len(t))
      /\ \A i \in 1..Len(s) : (s \o t)[i] = s[i]
      /\ \A i \in (Len(s) + 1)..(Len(s) + Len(t)) : (s \o t)[i] = t[i - Len(s)]
  BY ConcatProperties, LenProperties
<1>2. Elems(s \o t) \subseteq Elems(s) \cup Elems(t)
  <2> SUFFICES ASSUME NEW i \in 1..(Len(s) + Len(t))
               PROVE  (s \o t)[i] \in Elems(s) \cup Elems(t)
    BY <1>1 DEF Elems
  <2>1. CASE i <= Len(s)
    BY <1>1, <2>1 DEF Elems
  <2>2. CASE i > Len(s)
    <3>1. i - Len(s) \in 1..Len(t) /\ (s \o t)[i] = t[i - Len(s)]
      BY <1>1, <2>2
    <3> QED BY <1>1, <3>1 DEF Elems
  <2> QED BY <1>1, <2>1, <2>2
<1>3. Elems(s) \cup Elems(t) \subseteq Elems(s \o t)
  <2>1. ASSUME NEW i \in 1..Len(s) PROVE s[i] \in Elems(s \o t)
    BY <1>1 DEF Elems
  <2>2. ASSUME NEW i \in 1..Len(t) PROVE t[i] \in Elems(s \o t)
    <3>1. /\ Len(s) + i \in (Len(s) + 1)..(Len(s) + Len(t))
          /\ (Len(s) + i) - Len(s) = i
      BY <1>1
    <3>2. (s \o t)[Len(s) + i] = t[i] /\ Len(s) + i \in DOMAIN (s \o t)
      BY <1>1, <3>1
    <3> QED BY <3>2 DEF Elems
  <2> QED BY <1>1, <2>1, <2>2 DEF Elems
<1>4. ASSUME Uniq(s), Uniq(t), Elems(s) \cap Elems(t) = {},
             NEW i \in 1..(Len(s) + Len(t)), NEW j \in 1..(Len(s) + Len(t)),
             (s \o t)[i] = (s \o t)[j]
      PROVE  i = j
  <2>1. ASSUME NEW k \in 1..(Len(s) + Len(t))
        PROVE  IF k <= Len(s) THEN (s \o t)[k] = s[k] /\ s[k] \in Elems(s) /\ k \in DOMAIN s
               ELSE /\ (s \o t)[k] = t[k - Len(s)] /\ t[k - Len(s)] \in Elems(t)
                    /\ k - Len(s) \in DOMAIN t
    <3>1. CASE k <= Len(s)
      BY <1>1, <3>1 DEF Elems
    <3>2. CASE ~(k <= Len(s))
      <4>1. k - Len(s) \in 1..Len(t) /\ k \in (Len(s) + 1)..(Len(s) + Len(t))
        BY <1>1, <3>2
      <4> QED BY <1>1, <3>2, <4>1 DEF Elems
    <3> QED BY <3>1, <3>2
  <2>2. CASE i <= Len(s) /\ j <= Len(s)
    BY <1>4, <2>1, <2>2 DEF Uniq
  <2>3. CASE ~(i <= Len(s)) /\ ~(j <= Len(s))
    <3>1. i - Len(s) = j - Len(s)
      BY <1>4, <2>1, <2>3 DEF Uniq
    <3> QED BY <1>1, <3>1
  <2>4. CASE (i <= Len(s)) # (j <= Len(s))
    BY <1>4, <2>1, <2>4
  <2> QED BY <2>2, <2>3, <2>4
<1>5. Uniq(s) /\ Uniq(t) /\ Elems(s) \cap Elems(t) = {} => Uniq(s \o t)
  BY <1>1, <1>4 DEF Uniq
<1> QED BY <1>1, <1>2, <1>3, <1>5

\* Appending to a history keeps its order and puts the new element last.
LEMMA PrecAppend ==
    ASSUME NEW S, NEW o \in Seq(S), NEW e \in S
    PROVE  /\ \A x, y : Prec(o, x, y) => Prec(Append(o, e), x, y)
           /\ \A x \in Elems(o) : Prec(Append(o, e), x, e)
<1>1. /\ DOMAIN o = 1..Len(o) /\ DOMAIN Append(o, e) = 1..(Len(o) + 1) /\ Len(o) \in Nat
      /\ \A i \in 1..Len(o) : Append(o, e)[i] = o[i]
      /\ Append(o, e)[Len(o) + 1] = e
  BY AppendProperties, LenProperties
<1>2. \A x, y : Prec(o, x, y) => Prec(Append(o, e), x, y)
  BY <1>1 DEF Prec
<1>3. ASSUME NEW x \in Elems(o) PROVE Prec(Append(o, e), x, e)
  <2>1. PICK i \in 1..Len(o) : o[i] = x
    BY <1>1, <1>3 DEF Elems
  <2>2. i \in DOMAIN Append(o, e) /\ Len(o) + 1 \in DOMAIN Append(o, e) /\ i < Len(o) + 1
    BY <1>1
  <2> QED BY <1>1, <2>1, <2>2 DEF Prec
<1> QED BY <1>2, <1>3

\* A queue stays in order when what is appended comes after all it holds.
LEMMA AscendingAppend ==
    ASSUME NEW S, NEW s \in Seq(S), NEW e \in S, NEW o, Ascending(o, s),
           Before(o, Elems(s), {e})
    PROVE  Ascending(o, Append(s, e))
<1>1. /\ DOMAIN s = 1..Len(s) /\ DOMAIN Append(s, e) = 1..(Len(s) + 1) /\ Len(s) \in Nat
      /\ \A i \in 1..Len(s) : Append(s, e)[i] = s[i]
      /\ Append(s, e)[Len(s) + 1] = e
  BY AppendProperties, LenProperties
<1>2. ASSUME NEW i \in 1..(Len(s) + 1), NEW j \in 1..(Len(s) + 1), i < j
      PROVE  Prec(o, Append(s, e)[i], Append(s, e)[j])
  <2>1. i \in 1..Len(s) /\ Append(s, e)[i] = s[i] /\ s[i] \in Elems(s)
    BY <1>1, <1>2 DEF Elems
  <2>2. CASE j = Len(s) + 1
    BY <1>1, <2>1, <2>2 DEF Before
  <2>3. CASE j # Len(s) + 1
    BY <1>1, <1>2, <2>1, <2>3 DEF Ascending
  <2> QED BY <2>2, <2>3
<1> QED BY <1>1, <1>2 DEF Ascending

\* The head of a queue in order comes before all the rest.
LEMMA AscendingTail ==
    ASSUME NEW S, NEW s \in Seq(S), s # <<>>, NEW o, Ascending(o, s)
    PROVE  Ascending(o, Tail(s)) /\ Before(o, {Head(s)}, Elems(Tail(s)))
<1>1. /\ Head(s) = s[1] /\ Len(s) \in Nat \ {0}
      /\ DOMAIN s = 1..Len(s) /\ DOMAIN Tail(s) = 1..(Len(s) - 1)
      /\ \A i \in 1..(Len(s) - 1) : Tail(s)[i] = s[i + 1]
  BY HeadTailProperties, LenProperties, EmptySeq
<1>2. ASSUME NEW i \in 1..(Len(s) - 1), NEW j \in 1..(Len(s) - 1), i < j
      PROVE  Prec(o, Tail(s)[i], Tail(s)[j])
  <2>1. i + 1 \in DOMAIN s /\ j + 1 \in DOMAIN s /\ i + 1 < j + 1
    BY <1>1, <1>2
  <2>2. Prec(o, s[i + 1], s[j + 1])
    BY <2>1 DEF Ascending
  <2> QED BY <1>1, <2>2
<1>3. ASSUME NEW i \in 1..(Len(s) - 1) PROVE Prec(o, Head(s), Tail(s)[i])
  <2>1. i + 1 \in DOMAIN s /\ 1 \in DOMAIN s /\ 1 < i + 1
    BY <1>1, <1>3
  <2>2. Prec(o, s[1], s[i + 1])
    BY <2>1 DEF Ascending
  <2> QED BY <1>1, <2>2
<1> QED BY <1>1, <1>2, <1>3 DEF Ascending, Before, Elems

\* The elements of an appended-to sequence are the old ones, where they were,
\* and the new one, last.
LEMMA AppendLast ==
    ASSUME NEW S, NEW s \in Seq(S), NEW e \in S
    PROVE  \A x, y \in DOMAIN Append(s, e) : x < y =>
             /\ x \in DOMAIN s /\ Append(s, e)[x] = s[x]
             /\ (y \in DOMAIN s /\ Append(s, e)[y] = s[y]) \/ Append(s, e)[y] = e
<1>1. /\ DOMAIN s = 1..Len(s) /\ DOMAIN Append(s, e) = 1..(Len(s) + 1) /\ Len(s) \in Nat
      /\ \A i \in 1..Len(s) : Append(s, e)[i] = s[i]
      /\ Append(s, e)[Len(s) + 1] = e
  BY AppendProperties, LenProperties
<1> QED BY <1>1

-----------------------------------------------------------------------------

\* The variables have their types in every reachable state (net/dnode_server.rs,
\* net/dnode_client.rs).
THEOREM TypeCorrect == Spec => []TypeOK
<1> USE ControlAssumption, ChannelCapAssumption
<1>1. Init => TypeOK
  BY DEF Init, TypeOK
<1>2. TypeOK /\ [Next]_vars => TypeOK'
  <2> SUFFICES ASSUME TypeOK, [Next]_vars PROVE TypeOK'
    OBVIOUS
  <2> USE DEF TypeOK, Messages, originator, receiver, hist, Reply
  <2>1. ASSUME NEW m \in Reqs \cup Control, Accept(m) PROVE TypeOK'
    <3>1. chan' \in Seq(Messages) /\ Len(chan') <= ChannelCap
      BY <2>1, AppendProperties, LenProperties DEF Accept
    <3>2. CASE m \in Reqs
      BY <2>1, <3>1, <3>2 DEF Accept
    <3>3. CASE m \notin Reqs
      <4>1. accepted' = Append(accepted, m) /\ m \in Control /\ UNCHANGED answer
        BY <2>1, <3>3 DEF Accept
      <4> QED BY <2>1, <3>1, <4>1, AppendProperties DEF Accept
    <3> QED BY <3>2, <3>3
  <2>2. CASE DialOk
    BY <2>2 DEF DialOk
  <2>3. CASE DialFailed
    BY <2>3 DEF DialFailed
  <2>4. CASE BackoffOver
    BY <2>4 DEF BackoffOver
  <2>5. CASE Refuse
    <3>1. Head(chan) \in Messages /\ Tail(chan) \in Seq(Messages) /\ Len(Tail(chan)) <= ChannelCap
      BY <2>5, HeadTailProperties, LenProperties DEF Refuse
    <3>2. CASE Head(chan) \in Control
      <4>1. held' = Append(held, Head(chan)) /\ UNCHANGED answer
        BY <2>5, <3>2 DEF Refuse
      <4> QED BY <2>5, <3>1, <3>2, <4>1, AppendProperties DEF Refuse
    <3>3. CASE Head(chan) \notin Control
      <4>1. Head(chan) \in Reqs /\ answer' = [answer EXCEPT ![Head(chan)] = "error"]
        BY <2>5, <3>1, <3>3 DEF Refuse
      <4> QED BY <2>5, <3>1, <3>3, <4>1 DEF Refuse
    <3> QED BY <3>2, <3>3
  <2>6. CASE Write
    <3> DEFINE m == IF first # <<>> THEN Head(first) ELSE Head(chan)
    <3>1. /\ m \in Messages
          /\ first' \in Seq(Control) /\ chan' \in Seq(Messages) /\ Len(chan') <= ChannelCap
      <4>1. CASE first # <<>>
        <5>1. Head(first) \in Control /\ Tail(first) \in Seq(Control)
          BY <4>1, HeadTailProperties
        <5> QED BY <2>6, <4>1, <5>1 DEF Write
      <4>2. CASE first = <<>>
        <5>1. chan # <<>>
          BY <2>6, <4>2 DEF Write
        <5>2. /\ Head(chan) \in Messages /\ Tail(chan) \in Seq(Messages)
              /\ Len(Tail(chan)) <= ChannelCap
          BY <5>1, HeadTailProperties, LenProperties
        <5> QED BY <2>6, <4>2, <5>2 DEF Write
      <4> QED BY <4>1, <4>2
    <3>2. CASE m \in Control
      <4>1. gossiped' = Append(gossiped, m) /\ UNCHANGED <<pending, out>>
        BY <2>6, <3>2 DEF Write
      <4> QED BY <2>6, <3>1, <3>2, <4>1, AppendProperties DEF Write
    <3>3. CASE m \notin Control
      <4>1. /\ m \in Reqs /\ pending' = Append(pending, m) /\ out' = Append(out, m)
            /\ UNCHANGED gossiped
        BY <2>6, <3>1, <3>3 DEF Write
      <4> QED BY <2>6, <3>1, <4>1, AppendProperties DEF Write
    <3> QED BY <3>2, <3>3
  <2>7. CASE ReadReply
    <3>1. back' \in Seq(Reqs)
      BY <2>7, HeadTailProperties DEF ReadReply
    <3>2. CASE pending = <<>>
      BY <2>7, <3>1, <3>2 DEF ReadReply
    <3>3. CASE pending # <<>>
      <4>1. Head(pending) \in Reqs /\ Tail(pending) \in Seq(Reqs)
        BY <3>3, HeadTailProperties
      <4> QED BY <2>7, <3>1, <3>3, <4>1 DEF ReadReply
    <3> QED BY <3>2, <3>3
  <2>8. CASE Disconnect
    <3>1. Range(first) \subseteq Control
      BY DEF Range
    <3> QED BY <2>8, <3>1 DEF Disconnect
  <2>9. CASE FailNext
    <3>1. CASE pending # <<>>
      <4>1. Head(pending) \in Reqs /\ Tail(pending) \in Seq(Reqs)
        BY <3>1, HeadTailProperties
      <4> QED BY <2>9, <3>1, <4>1 DEF FailNext
    <3>2. CASE pending = <<>>
      BY <2>9, <3>2 DEF FailNext
    <3> QED BY <3>1, <3>2
  <2>10. ASSUME NEW o \in ReceiverOutcomes, Parse(o) PROVE TypeOK'
    <3>1. Head(out) \in Reqs /\ out' \in Seq(Reqs)
      BY <2>10, HeadTailProperties DEF Parse
    <3>2. backend' \in Seq(Reqs) /\ rsp' \in Seq(Reqs)
      BY <2>10, <3>1, AppendProperties DEF Parse
    <3>3. spawned' \subseteq Reqs
      BY <2>10, <3>1 DEF Parse
    <3> QED BY <2>10, <3>1, <3>2, <3>3 DEF Parse
  <2>11. CASE BackendReply
    BY <2>11, HeadTailProperties, AppendProperties DEF BackendReply
  <2>12. CASE WriteReply
    BY <2>12, HeadTailProperties, AppendProperties DEF WriteReply
  <2>13. ASSUME NEW r \in Reqs, SpawnedReply(r) PROVE TypeOK'
    <3>1. spawned' \subseteq Reqs
      BY <2>13 DEF SpawnedReply
    <3>2. Append(rsp, r) \in Seq(Reqs)
      BY AppendProperties
    <3>3. rsp' \in Seq(Reqs)
      BY <2>13, <3>2 DEF SpawnedReply
    <3> QED BY <2>13, <3>1, <3>3 DEF SpawnedReply
  <2>14. CASE UNCHANGED vars
    BY <2>14 DEF vars
  <2> QED BY <2>1, <2>2, <2>3, <2>4, <2>5, <2>6, <2>7, <2>8, <2>9, <2>10, <2>11,
             <2>12, <2>13, <2>14 DEF Next, Lost, Timeout
<1> QED BY <1>1, <1>2, PTL DEF Spec

-----------------------------------------------------------------------------

\* Nothing of an old connection is left when there is no connection.
Quiet ==
    conn # "up" => out = <<>> /\ back = <<>> /\ backend = <<>> /\ rsp = <<>> /\ spawned = {}

\* What holds while the receiver answers in order.
Matched ==
    /\ conn = "up" => ((back \o rsp) \o backend) \o out = pending
    /\ spawned = {}
    /\ \A r \in Reqs : answer[r] # "crossed"

\* The inductive invariant.  PipelineInOrder alone is not inductive: a new
\* connection must start with nothing in flight, and no hook task may answer.
PipeInv == TypeOK /\ Quiet /\ (in_order => Matched)

\* The invariant holds initially: not connected, nothing in flight.
LEMMA PipeInvInit == Init => PipeInv
<1>1. Init => TypeOK
  BY ChannelCapAssumption DEF Init, TypeOK
<1>2. Init => Quiet /\ Matched
  BY DEF Init, Quiet, Matched
<1> QED BY <1>1, <1>2 DEF PipeInv

\* A connection that ends takes everything with it, and nothing starts again
\* before the next one.
LEMMA QuietStep == Quiet /\ [Next]_vars => Quiet'
<1> SUFFICES ASSUME Quiet, [Next]_vars PROVE Quiet'
  OBVIOUS
<1> USE DEF Quiet, originator, receiver, hist
<1>1. ASSUME NEW m \in Reqs \cup Control, Accept(m) PROVE Quiet'
  BY <1>1 DEF Accept
<1>2. CASE DialOk \/ DialFailed \/ BackoffOver
  BY <1>2 DEF DialOk, DialFailed, BackoffOver
<1>3. CASE Refuse
  BY <1>3 DEF Refuse
<1>4. CASE Write
  BY <1>4 DEF Write
<1>5. CASE ReadReply
  BY <1>5 DEF ReadReply
<1>6. CASE Disconnect
  BY <1>6 DEF Disconnect
<1>7. CASE FailNext
  BY <1>7 DEF FailNext
<1>8. ASSUME NEW o \in ReceiverOutcomes, Parse(o) PROVE Quiet'
  BY <1>8 DEF Parse
<1>9. CASE BackendReply \/ WriteReply
  BY <1>9 DEF BackendReply, WriteReply
<1>10. ASSUME NEW r \in Reqs, SpawnedReply(r) PROVE Quiet'
  BY <1>10 DEF SpawnedReply
<1>11. CASE UNCHANGED vars
  BY <1>11 DEF vars
<1> QED BY <1>1, <1>2, <1>3, <1>4, <1>5, <1>6, <1>7, <1>8, <1>9, <1>10, <1>11
        DEF Next, Lost, Timeout

\* Once the receiver answered otherwise, it counts for good.
LEMMA InOrderStep == [Next]_vars /\ in_order' => in_order
BY DEF Next, vars, originator, receiver, hist, Accept, DialOk, DialFailed, BackoffOver,
       Refuse, Write, ReadReply, Lost, Timeout, Disconnect, FailNext, Parse, BackendReply,
       WriteReply, SpawnedReply

\* Every step that keeps the receiver in order keeps the match.
LEMMA MatchedStep ==
    ASSUME TypeOK, Quiet, Matched, in_order', [Next]_vars
    PROVE  Matched'
<1> DEFINE sent == (back \o rsp) \o backend
<1> USE DEF Quiet, Matched, Reply,
            originator, receiver, hist
<1>1. /\ back \in Seq(Reqs) /\ rsp \in Seq(Reqs) /\ backend \in Seq(Reqs) /\ out \in Seq(Reqs)
      /\ pending \in Seq(Reqs) /\ back \o rsp \in Seq(Reqs) /\ sent \in Seq(Reqs)
      /\ answer \in [Reqs -> {"none", "owed", "own", "error", "crossed"}]
      /\ \A r \in Reqs : answer[r] # "crossed"
  BY ConcatProperties DEF TypeOK
<1>2. ASSUME NEW m \in Reqs \cup Control, Accept(m) PROVE Matched'
  <2>1. UNCHANGED <<conn, pending, out, back, receiver>>
    BY <1>2 DEF Accept
  <2>2. \A r \in Reqs : answer'[r] # "crossed"
    BY <1>1, <1>2 DEF Accept
  <2> QED BY <2>1, <2>2
<1>3. CASE DialOk
  BY <1>1, <1>3, ConcatEmptySeq DEF DialOk
<1>4. CASE DialFailed \/ BackoffOver
  BY <1>4 DEF DialFailed, BackoffOver
<1>5. CASE Refuse
  <2>1. UNCHANGED <<conn, pending, out, back, receiver>>
    BY <1>5 DEF Refuse
  <2>2. \A r \in Reqs : answer'[r] # "crossed"
    BY <1>1, <1>5 DEF Refuse
  <2> QED BY <2>1, <2>2
<1>6. CASE Write
  <2> DEFINE m == IF first # <<>> THEN Head(first) ELSE Head(chan)
  <2>1. CASE m \in Control
    BY <1>6, <2>1 DEF Write
  <2>2. CASE m \notin Control
    <3>1. /\ pending' = Append(pending, m) /\ out' = Append(out, m)
          /\ UNCHANGED <<conn, back, receiver, answer>> /\ conn = "up"
      BY <1>6, <2>2 DEF Write
    <3>2. m \in Reqs
      <4>1. CASE first # <<>>
        BY <2>2, <4>1, HeadTailProperties DEF TypeOK
      <4>2. CASE first = <<>>
        <5>1. chan \in Seq(Messages) /\ chan # <<>> /\ m = Head(chan)
          BY <1>6, <4>2 DEF TypeOK, Write
        <5>2. Head(chan) \in Messages
          BY <5>1, HeadTailProperties
        <5> QED BY <2>2, <5>1, <5>2 DEF Messages
      <4> QED BY <4>1, <4>2
    <3>3. sent \o Append(out, m) = Append(sent \o out, m)
      BY <1>1, <3>2, ConcatAppend
    <3> QED BY <1>1, <3>1, <3>3
  <2> QED BY <2>1, <2>2
<1>7. CASE ReadReply
  <2>1. conn = "up" /\ back # <<>> /\ back' = Tail(back) /\ UNCHANGED <<conn, out, receiver>>
    BY <1>7 DEF ReadReply
  <2>2. /\ back \o rsp # <<>> /\ Head(back \o rsp) = Head(back)
        /\ Tail(back \o rsp) = Tail(back) \o rsp
    BY ONLY <1>1, <2>1, ConcatHeadTail
  <2>3. /\ sent # <<>> /\ Head(sent) = Head(back)
        /\ Tail(sent) = (Tail(back) \o rsp) \o backend
    <3> DEFINE q == back \o rsp
    <3>1. q \in Seq(Reqs) /\ q # <<>> /\ Head(q) = Head(back) /\ Tail(q) = Tail(back) \o rsp
      BY <1>1, <2>2
    <3> HIDE DEF q
    <3>2. q \o backend # <<>> /\ Head(q \o backend) = Head(q) /\ Tail(q \o backend) = Tail(q) \o backend
      <4>1. q \in Seq(Reqs) /\ backend \in Seq(Reqs) /\ q # <<>>
        BY <1>1, <3>1
      <4> QED BY ONLY <4>1, ConcatHeadTail
    <3>3. sent = q \o backend
      BY DEF q
    <3> QED BY ONLY <3>1, <3>2, <3>3
  <2>4. /\ pending # <<>> /\ Head(pending) = Head(back)
        /\ Tail(pending) = ((Tail(back) \o rsp) \o backend) \o out
    <3> HIDE DEF sent
    <3>1. /\ sent \o out # <<>> /\ Head(sent \o out) = Head(sent)
          /\ Tail(sent \o out) = Tail(sent) \o out
      BY ONLY <1>1, <2>3, ConcatHeadTail, SMTT(60)
    <3>2. sent \o out = pending
      BY <2>1 DEF sent
    <3> QED BY ONLY <2>3, <3>1, <3>2
  <2>5. /\ pending' = Tail(pending)
        /\ answer' = [answer EXCEPT ![Head(pending)] = "own"]
    BY <1>7, <2>4 DEF ReadReply
  <2> QED BY <1>1, <2>1, <2>4, <2>5
<1>8. CASE Disconnect
  BY <1>8 DEF Disconnect
<1>9. CASE FailNext
  <2>1. /\ conn = "failing" /\ conn' # "up" /\ UNCHANGED <<out, back, receiver>>
    BY <1>9 DEF FailNext
  <2>2. \A r \in Reqs : answer'[r] # "crossed"
    BY <1>1, <1>9 DEF FailNext
  <2> QED BY <2>1, <2>2
<1>10. ASSUME NEW o \in ReceiverOutcomes, Parse(o) PROVE Matched'
  <2>1. /\ o = "backend" /\ out # <<>> /\ out' = Tail(out)
        /\ backend' = Append(backend, Head(out))
        /\ UNCHANGED <<conn, pending, back, spawned, rsp, answer>>
    BY <1>10 DEF Parse
  <2>2. (back \o rsp) \o Append(backend, Head(out)) = Append(sent, Head(out))
    BY <1>1, <2>1, ConcatAppend, HeadTailProperties, SMTT(60)
  <2>3. Append(sent, Head(out)) \o Tail(out) = sent \o out
    BY <1>1, <2>1, ConcatMove
  <2> QED BY <2>1, <2>2, <2>3
<1>11. CASE BackendReply
  <2>1. /\ backend # <<>> /\ rsp' = Append(rsp, Head(backend)) /\ backend' = Tail(backend)
        /\ UNCHANGED <<conn, pending, out, back, spawned, answer>>
    BY <1>11 DEF BackendReply
  <2>2. back \o Append(rsp, Head(backend)) = Append(back \o rsp, Head(backend))
    BY <1>1, <2>1, ConcatAppend, HeadTailProperties, SMTT(60)
  <2>3. Append(back \o rsp, Head(backend)) \o Tail(backend) = sent
    BY <1>1, <2>1, ConcatMove
  <2> QED BY <2>1, <2>2, <2>3
<1>12. CASE WriteReply
  <2>1. /\ rsp # <<>> /\ back' = Append(back, Head(rsp)) /\ rsp' = Tail(rsp)
        /\ UNCHANGED <<conn, pending, out, backend, spawned, answer>>
    BY <1>12 DEF WriteReply
  <2>2. Append(back, Head(rsp)) \o Tail(rsp) = back \o rsp
    BY <1>1, <2>1, ConcatMove
  <2> QED BY <2>1, <2>2
<1>13. ASSUME NEW r \in Reqs, SpawnedReply(r) PROVE Matched'
  BY <1>13 DEF SpawnedReply
<1>14. CASE UNCHANGED vars
  BY <1>14 DEF vars
<1> QED BY <1>2, <1>3, <1>4, <1>5, <1>6, <1>7, <1>8, <1>9, <1>10, <1>11, <1>12, <1>13,
           <1>14 DEF Next, Lost, Timeout

\* Every step keeps the invariant.
LEMMA PipeInvStep == PipeInv /\ TypeOK' /\ [Next]_vars => PipeInv'
BY QuietStep, InOrderStep, MatchedStep DEF PipeInv

\* As long as the receiver's dispatcher hands every request to a datastore that
\* answers in order, what is in flight answers the pending requests in their
\* order (drive_response pairs replies by position only).
THEOREM PipelineOrder == Spec => []PipelineInOrder
<1>1. PipeInv => PipelineInOrder
  BY DEF PipeInv, Matched, PipelineInOrder
<1> QED BY <1>1, PipeInvInit, PipeInvStep, TypeCorrect, PTL DEF Spec

\* Under the same condition every reply reaches the request it answers, across
\* timeouts, lost connections and redials.
THEOREM RepliesNotCrossed == Spec => []NoCrossedReply
<1>1. PipeInv => NoCrossedReply
  BY DEF PipeInv, Matched, NoCrossedReply
<1> QED BY <1>1, PipeInvInit, PipeInvStep, TypeCorrect, PTL DEF Spec

-----------------------------------------------------------------------------
(* What was handed over is accounted for, in its order                      *)

Gossip(s) == Elems(s) \cap Control

\* A request waits in the channel or among the pending ones, once; between
\* connections nothing is pending.
OwedInv ==
    /\ conn \in {"dialing", "backoff"} => pending = <<>>
    /\ Uniq(chan) /\ Uniq(pending) /\ Elems(chan) \cap Elems(pending) = {}
    /\ (Elems(chan) \cap Reqs) \cup Elems(pending) = {r \in Reqs : answer[r] = "owed"}
    /\ Gossip(chan) \subseteq Elems(accepted)

\* Gossip frames stand in the order they were accepted, from those written to
\* those in the channel.  Frames are held while the link is down, and go first
\* when it is up.
GossipInv ==
    /\ Uniq(accepted)
    /\ Ascending(accepted, gossiped) /\ Ascending(accepted, first) /\ Ascending(accepted, held)
    /\ \A i, j \in DOMAIN chan :
          (i < j /\ chan[i] \in Control /\ chan[j] \in Control)
             => Prec(accepted, chan[i], chan[j])
    /\ Before(accepted, Elems(gossiped), Elems(first) \cup Elems(held) \cup Gossip(chan))
    /\ Before(accepted, Elems(first) \cup Elems(held), Gossip(chan))
    /\ Elems(gossiped) \cup Elems(first) \cup Elems(held) \subseteq Elems(accepted)
    /\ IF conn = "up" THEN held = <<>> ELSE first = <<>>

TrafficInv == TypeOK /\ OwedInv /\ GossipInv

\* A request or frame leaves the channel at its head; a gossip frame there comes
\* before the others in the channel.
LEMMA TakeHead ==
    ASSUME TrafficInv, chan # <<>>
    PROVE  /\ Head(chan) \in Reqs \cup Control /\ Tail(chan) \in Seq(Messages)
           /\ Elems(chan) = {Head(chan)} \cup Elems(Tail(chan))
           /\ Uniq(Tail(chan)) /\ Head(chan) \notin Elems(Tail(chan))
           /\ Gossip(Tail(chan)) \subseteq Gossip(chan)
           /\ \A i, j \in DOMAIN Tail(chan) :
                 (i < j /\ Tail(chan)[i] \in Control /\ Tail(chan)[j] \in Control)
                    => Prec(accepted, Tail(chan)[i], Tail(chan)[j])
           /\ Head(chan) \in Control => Before(accepted, {Head(chan)}, Gossip(Tail(chan)))
<1>1. chan \in Seq(Messages)
  BY DEF TrafficInv, TypeOK
<1>2. /\ Head(chan) \in Messages /\ Tail(chan) \in Seq(Messages)
      /\ Elems(chan) = {Head(chan)} \cup Elems(Tail(chan))
      /\ Uniq(Tail(chan)) /\ Head(chan) \notin Elems(Tail(chan))
  BY <1>1, ElemsTail DEF TrafficInv, OwedInv
<1>3. /\ Head(chan) = chan[1] /\ Len(chan) \in Nat \ {0}
      /\ DOMAIN chan = 1..Len(chan) /\ DOMAIN Tail(chan) = 1..(Len(chan) - 1)
      /\ \A i \in 1..(Len(chan) - 1) : Tail(chan)[i] = chan[i + 1]
  BY <1>1, HeadTailProperties, LenProperties, EmptySeq
<1>4. ASSUME NEW i \in 1..(Len(chan) - 1), NEW j \in 1..(Len(chan) - 1), i < j,
             Tail(chan)[i] \in Control, Tail(chan)[j] \in Control
      PROVE  Prec(accepted, Tail(chan)[i], Tail(chan)[j])
  <2>1. i + 1 \in DOMAIN chan /\ j + 1 \in DOMAIN chan /\ i + 1 < j + 1
    BY <1>3, <1>4
  <2>2. chan[i + 1] = Tail(chan)[i] /\ chan[j + 1] = Tail(chan)[j]
    BY <1>3
  <2> QED BY <1>4, <2>1, <2>2 DEF TrafficInv, GossipInv
<1>5. ASSUME Head(chan) \in Control, NEW i \in 1..(Len(chan) - 1), Tail(chan)[i] \in Control
      PROVE  Prec(accepted, Head(chan), Tail(chan)[i])
  <2>1. 1 \in DOMAIN chan /\ i + 1 \in DOMAIN chan /\ 1 < i + 1
    BY <1>3, <1>5
  <2>2. chan[i + 1] = Tail(chan)[i] /\ chan[1] = Head(chan)
    BY <1>3
  <2> QED BY <1>5, <2>1, <2>2 DEF TrafficInv, GossipInv
<1>6. Head(chan) \in Control => Before(accepted, {Head(chan)}, Gossip(Tail(chan)))
  BY <1>3, <1>5 DEF Before, Gossip, Elems
<1>7. \A i, j \in DOMAIN Tail(chan) :
         (i < j /\ Tail(chan)[i] \in Control /\ Tail(chan)[j] \in Control)
            => Prec(accepted, Tail(chan)[i], Tail(chan)[j])
  BY <1>3, <1>4
<1> QED BY <1>2, <1>6, <1>7 DEF Gossip, Messages

\* A message accepted into the channel is new, and the last of its kind.
LEMMA AcceptTraffic ==
    ASSUME TrafficInv, TypeOK', NEW m \in Reqs \cup Control, Accept(m)
    PROVE  TrafficInv'
<1> USE ControlAssumption
<1>1. /\ chan' = Append(chan, m) /\ UNCHANGED <<conn, held, first, pending, gossiped>>
      /\ chan \in Seq(Messages) /\ accepted \in Seq(Control) /\ pending \in Seq(Reqs)
      /\ answer \in [Reqs -> {"none", "owed", "own", "error", "crossed"}]
  BY DEF Accept, TrafficInv, TypeOK
<1>2. m \in Messages /\ Elems(pending) \subseteq Reqs
  BY <1>1, ElemsIn DEF Messages
<1>3. m \notin Elems(chan) \cup Elems(pending)
  <2>1. CASE m \in Reqs
    <3>1. answer[m] # "owed"
      BY <2>1 DEF Accept
    <3> QED BY <2>1, <3>1 DEF TrafficInv, OwedInv
  <2>2. CASE m \notin Reqs
    <3>1. m \in Control /\ m \notin Range(accepted)
      BY <2>2 DEF Accept
    <3>2. m \notin Elems(accepted)
      BY <3>1 DEF Range, Elems
    <3> QED BY <1>2, <2>2, <3>1, <3>2 DEF TrafficInv, OwedInv, Gossip
  <2> QED BY <2>1, <2>2
<1>4. Elems(chan') = Elems(chan) \cup {m} /\ Uniq(chan')
  BY <1>1, <1>2, <1>3, ElemsAppend DEF TrafficInv, OwedInv
<1>5. CASE m \in Reqs
  <2>1. answer' = [answer EXCEPT ![m] = "owed"] /\ accepted' = accepted /\ m \notin Control
    BY <1>5 DEF Accept, Reply
  <2>2. Gossip(chan') = Gossip(chan)
    BY <1>4, <2>1 DEF Gossip
  <2>3. OwedInv'
    <3>1. (Elems(chan') \cap Reqs) \cup Elems(pending') = {r \in Reqs : answer'[r] = "owed"}
      BY <1>1, <1>4, <1>5, <2>1 DEF TrafficInv, OwedInv
    <3> QED BY <1>1, <1>3, <1>4, <2>1, <2>2, <3>1 DEF TrafficInv, OwedInv
  <2>4. \A i, j \in DOMAIN chan' :
           (i < j /\ chan'[i] \in Control /\ chan'[j] \in Control)
              => Prec(accepted', chan'[i], chan'[j])
    BY <1>1, <1>2, <2>1, AppendLast DEF TrafficInv, GossipInv
  <2>5. GossipInv'
    BY <1>1, <2>1, <2>2, <2>4 DEF TrafficInv, GossipInv
  <2> QED BY <2>3, <2>5 DEF TrafficInv
<1>6. CASE m \notin Reqs
  <2>1. m \in Control /\ accepted' = Append(accepted, m) /\ answer' = answer
    BY <1>6 DEF Accept
  <2>2. m \notin Elems(accepted)
    BY <1>6 DEF Accept, Range, Elems
  <2>3. /\ Elems(accepted') = Elems(accepted) \cup {m} /\ Uniq(accepted')
        /\ \A x, y : Prec(accepted, x, y) => Prec(accepted', x, y)
        /\ \A x \in Elems(accepted) : Prec(accepted', x, m)
    BY <1>1, <2>1, <2>2, ElemsAppend, PrecAppend DEF TrafficInv, GossipInv
  <2>4. Gossip(chan') = Gossip(chan) \cup {m} /\ Gossip(chan) \subseteq Elems(accepted)
    BY <1>4, <2>1 DEF Gossip, TrafficInv, OwedInv
  <2>5. OwedInv'
    BY <1>1, <1>3, <1>4, <1>6, <2>1, <2>3, <2>4 DEF TrafficInv, OwedInv
  <2>6. ASSUME NEW i \in DOMAIN chan', NEW j \in DOMAIN chan', i < j,
               chan'[i] \in Control, chan'[j] \in Control
        PROVE  Prec(accepted', chan'[i], chan'[j])
    <3>1. /\ i \in DOMAIN chan /\ chan'[i] = chan[i]
          /\ (j \in DOMAIN chan /\ chan'[j] = chan[j]) \/ chan'[j] = m
      BY <1>1, <1>2, <2>6, AppendLast
    <3>2. chan[i] \in Gossip(chan)
      BY <2>6, <3>1 DEF Gossip, Elems
    <3> QED BY <2>3, <2>4, <2>6, <3>1, <3>2 DEF TrafficInv, GossipInv
  <2>7. Ascending(accepted', gossiped') /\ Ascending(accepted', first') /\ Ascending(accepted', held')
    BY <1>1, <2>3 DEF TrafficInv, GossipInv, Ascending
  <2>8. /\ Before(accepted', Elems(gossiped'), Elems(first') \cup Elems(held') \cup Gossip(chan'))
        /\ Before(accepted', Elems(first') \cup Elems(held'), Gossip(chan'))
    BY <1>1, <2>3, <2>4 DEF TrafficInv, GossipInv, Before
  <2>9. GossipInv'
    BY <1>1, <2>3, <2>6, <2>7, <2>8 DEF TrafficInv, GossipInv
  <2> QED BY <2>5, <2>9 DEF TrafficInv
<1> QED BY <1>5, <1>6

\* A request that is answered has left its queue.
LEMMA AnswerTraffic ==
    ASSUME TrafficInv, NEW r \in Reqs, NEW a \in {"own", "error", "crossed"}, Reply(r, a),
           (Elems(chan') \cap Reqs) \cup Elems(pending')
              = ((Elems(chan) \cap Reqs) \cup Elems(pending)) \ {r}
    PROVE  (Elems(chan') \cap Reqs) \cup Elems(pending') = {q \in Reqs : answer'[q] = "owed"}
<1>1. \A q \in Reqs : answer'[q] = IF q = r THEN a ELSE answer[q]
  BY DEF Reply, TrafficInv, TypeOK
<1> QED BY <1>1 DEF TrafficInv, OwedInv

\* The head of the channel is answered during a backoff, or kept for the next
\* connection if it is a gossip frame.
LEMMA RefuseTraffic ==
    ASSUME TrafficInv, TypeOK', Refuse
    PROVE  TrafficInv'
<1> USE ControlAssumption
<1>1. /\ conn = "backoff" /\ chan # <<>> /\ chan' = Tail(chan)
      /\ UNCHANGED <<conn, first, pending, accepted, gossiped>>
      /\ held \in Seq(Control) /\ pending = <<>>
  BY DEF Refuse, TrafficInv, TypeOK, OwedInv
<1>2. /\ Head(chan) \in Reqs \cup Control
      /\ Elems(chan) = {Head(chan)} \cup Elems(chan')
      /\ Uniq(chan') /\ Head(chan) \notin Elems(chan') /\ Gossip(chan') \subseteq Gossip(chan)
      /\ \A i, j \in DOMAIN chan' :
            (i < j /\ chan'[i] \in Control /\ chan'[j] \in Control)
               => Prec(accepted, chan'[i], chan'[j])
      /\ Head(chan) \in Control => Before(accepted, {Head(chan)}, Gossip(chan'))
  BY <1>1, TakeHead
<1>3. Elems(pending) = {}
  BY <1>1, ElemsEmpty
<1>4. CASE Head(chan) \in Control
  <2>1. held' = Append(held, Head(chan)) /\ answer' = answer
    BY <1>4 DEF Refuse
  <2>2. Head(chan) \in Gossip(chan)
    BY <1>2, <1>4 DEF Gossip
  <2>3. Before(accepted, Elems(held), {Head(chan)})
    BY <2>2 DEF TrafficInv, GossipInv, Before
  <2>4. Elems(held') = Elems(held) \cup {Head(chan)}
    BY <1>1, <1>4, <2>1, ElemsAppend
  <2>5. Ascending(accepted, held)
    BY DEF TrafficInv, GossipInv
  <2>6. Ascending(accepted, held')
    BY <1>1, <1>4, <2>1, <2>3, <2>5, AscendingAppend
  <2>7. OwedInv'
    BY <1>1, <1>2, <1>4, <2>1 DEF TrafficInv, OwedInv
  <2>8. /\ Before(accepted', Elems(gossiped'), Elems(first') \cup Elems(held') \cup Gossip(chan'))
        /\ Before(accepted', Elems(first') \cup Elems(held'), Gossip(chan'))
        /\ Elems(gossiped') \cup Elems(first') \cup Elems(held') \subseteq Elems(accepted')
    BY <1>1, <1>2, <1>4, <2>2, <2>4 DEF TrafficInv, OwedInv, GossipInv, Before
  <2>9. GossipInv'
    BY <1>1, <1>2, <2>6, <2>8 DEF TrafficInv, GossipInv
  <2> QED BY <2>7, <2>9 DEF TrafficInv
<1>5. CASE Head(chan) \notin Control
  <2>1. Reply(Head(chan), "error") /\ held' = held /\ Head(chan) \in Reqs
    BY <1>2, <1>5 DEF Refuse
  <2>2. (Elems(chan') \cap Reqs) \cup Elems(pending')
           = ((Elems(chan) \cap Reqs) \cup Elems(pending)) \ {Head(chan)}
    BY <1>1, <1>2, <1>3
  <2>3. (Elems(chan') \cap Reqs) \cup Elems(pending') = {q \in Reqs : answer'[q] = "owed"}
    BY <2>1, <2>2, AnswerTraffic
  <2>4. OwedInv'
    BY <1>1, <1>2, <2>3 DEF TrafficInv, OwedInv
  <2>5. GossipInv'
    BY <1>1, <1>2, <2>1 DEF TrafficInv, GossipInv, Before
  <2> QED BY <2>4, <2>5 DEF TrafficInv
<1> QED BY <1>4, <1>5

\* A message is written: a held gossip frame, then the channel's.
LEMMA WriteTraffic ==
    ASSUME TrafficInv, TypeOK', Write
    PROVE  TrafficInv'
<1> USE ControlAssumption
<1>1. /\ conn = "up" /\ UNCHANGED <<conn, held, answer, accepted>>
      /\ first \in Seq(Control) /\ gossiped \in Seq(Control) /\ pending \in Seq(Reqs)
      /\ held = <<>> /\ Elems(held) = {}
  BY ElemsEmpty DEF Write, TrafficInv, TypeOK, GossipInv
<1>2. CASE first # <<>>
  <2>1. /\ Head(first) \in Control /\ first' = Tail(first)
        /\ Elems(first) = {Head(first)} \cup Elems(first')
        /\ Ascending(accepted, first') /\ Before(accepted, {Head(first)}, Elems(first'))
    <3>1. Ascending(accepted, first) /\ first' = Tail(first)
      BY <1>2 DEF Write, TrafficInv, GossipInv
    <3>2. Head(first) \in Control /\ Elems(first) = {Head(first)} \cup Elems(first')
      BY <1>1, <1>2, <3>1, ElemsTail
    <3> QED BY <1>1, <1>2, <3>1, <3>2, AscendingTail
  <2>2. gossiped' = Append(gossiped, Head(first)) /\ UNCHANGED <<chan, pending>>
    BY <1>2, <2>1 DEF Write
  <2>3. Elems(gossiped') = Elems(gossiped) \cup {Head(first)}
    BY <1>1, <2>1, <2>2, ElemsAppend
  <2>4. Before(accepted, Elems(gossiped), {Head(first)}) /\ Ascending(accepted, gossiped)
    BY <2>1 DEF TrafficInv, GossipInv, Before
  <2>5. Ascending(accepted, gossiped')
    BY <1>1, <2>1, <2>2, <2>4, AscendingAppend
  <2>6. GossipInv'
    BY <1>1, <2>1, <2>2, <2>3, <2>5 DEF TrafficInv, GossipInv, Before
  <2>7. OwedInv'
    BY <1>1, <2>2 DEF TrafficInv, OwedInv
  <2> QED BY <2>6, <2>7 DEF TrafficInv
<1>3. CASE first = <<>>
  <2>1. chan # <<>> /\ chan' = Tail(chan) /\ first' = first /\ Elems(first) = {}
    BY <1>3, ElemsEmpty DEF Write
  <2>2. /\ Head(chan) \in Reqs \cup Control
        /\ Elems(chan) = {Head(chan)} \cup Elems(chan')
        /\ Uniq(chan') /\ Head(chan) \notin Elems(chan') /\ Gossip(chan') \subseteq Gossip(chan)
        /\ \A i, j \in DOMAIN chan' :
              (i < j /\ chan'[i] \in Control /\ chan'[j] \in Control)
                 => Prec(accepted, chan'[i], chan'[j])
        /\ Head(chan) \in Control => Before(accepted, {Head(chan)}, Gossip(chan'))
    BY <2>1, TakeHead
  <2>3. CASE Head(chan) \in Control
    <3>1. gossiped' = Append(gossiped, Head(chan)) /\ pending' = pending
      BY <1>3, <2>3 DEF Write
    <3>2. Head(chan) \in Gossip(chan)
      BY <2>2, <2>3 DEF Gossip
    <3>3. Before(accepted, Elems(gossiped), {Head(chan)}) /\ Ascending(accepted, gossiped)
      BY <3>2 DEF TrafficInv, GossipInv, Before
    <3>4. Elems(gossiped') = Elems(gossiped) \cup {Head(chan)}
      BY <1>1, <2>3, <3>1, ElemsAppend
    <3>5. Ascending(accepted, gossiped')
      BY <1>1, <2>3, <3>1, <3>3, AscendingAppend
    <3>6. Head(chan) \in Elems(accepted)
      BY <3>2 DEF TrafficInv, OwedInv
    <3>7. GossipInv'
      BY <1>1, <2>1, <2>2, <2>3, <3>4, <3>5, <3>6 DEF TrafficInv, GossipInv, Before
    <3>8. OwedInv'
      BY <1>1, <2>2, <2>3, <3>1 DEF TrafficInv, OwedInv
    <3> QED BY <3>7, <3>8 DEF TrafficInv
  <2>4. CASE Head(chan) \notin Control
    <3>1. pending' = Append(pending, Head(chan)) /\ gossiped' = gossiped /\ Head(chan) \in Reqs
      BY <1>3, <2>2, <2>4 DEF Write
    <3>2. Head(chan) \notin Elems(pending)
      BY <2>2 DEF TrafficInv, OwedInv
    <3>3. Elems(pending') = Elems(pending) \cup {Head(chan)} /\ Uniq(pending')
      BY <1>1, <3>1, <3>2, ElemsAppend DEF TrafficInv, OwedInv
    <3>4. OwedInv'
      BY <1>1, <2>2, <3>1, <3>3 DEF TrafficInv, OwedInv
    <3>5. GossipInv'
      BY <1>1, <2>1, <2>2, <3>1 DEF TrafficInv, GossipInv, Before
    <3> QED BY <3>4, <3>5 DEF TrafficInv
  <2> QED BY <2>3, <2>4
<1> QED BY <1>2, <1>3

\* The oldest pending request is answered, by a reply or by fail_pending.
LEMMA PendingTraffic ==
    ASSUME TrafficInv, TypeOK', pending # <<>>, NEW a \in {"own", "error", "crossed"},
           Reply(Head(pending), a), pending' = Tail(pending),
           UNCHANGED <<chan, conn, held, first, accepted, gossiped>>
    PROVE  TrafficInv'
<1> USE ControlAssumption
<1>1. pending \in Seq(Reqs)
  BY DEF TrafficInv, TypeOK
<1>2. /\ Head(pending) \in Reqs /\ Elems(pending) = {Head(pending)} \cup Elems(pending')
      /\ Uniq(pending') /\ Head(pending) \notin Elems(pending')
  BY <1>1, ElemsTail DEF TrafficInv, OwedInv
<1>3. (Elems(chan') \cap Reqs) \cup Elems(pending')
         = ((Elems(chan) \cap Reqs) \cup Elems(pending)) \ {Head(pending)}
  BY <1>2 DEF TrafficInv, OwedInv
<1>4. (Elems(chan') \cap Reqs) \cup Elems(pending') = {q \in Reqs : answer'[q] = "owed"}
  BY <1>2, <1>3, AnswerTraffic
<1>5. OwedInv'
  BY <1>2, <1>4 DEF TrafficInv, OwedInv
<1>6. GossipInv'
  BY DEF TrafficInv, GossipInv
<1> QED BY <1>5, <1>6 DEF TrafficInv

\* Nothing is queued, written or held at first.
LEMMA TrafficInit == Init => TrafficInv
<1> SUFFICES ASSUME Init PROVE TrafficInv
  OBVIOUS
<1>1. TypeOK
  BY ChannelCapAssumption DEF Init, TypeOK
<1>2. OwedInv
  BY ElemsEmpty DEF Init, OwedInv, Gossip
<1>3. GossipInv
  BY ElemsEmpty DEF Init, GossipInv, Gossip, Ascending, Before
<1> QED BY <1>1, <1>2, <1>3 DEF TrafficInv

\* Every step keeps the traffic accounted for.
LEMMA TrafficStep == TrafficInv /\ TypeOK' /\ [Next]_vars => TrafficInv'
<1> SUFFICES ASSUME TrafficInv, TypeOK', [Next]_vars PROVE TrafficInv'
  OBVIOUS
<1> USE ControlAssumption
<1>1. ASSUME UNCHANGED <<originator, hist>> PROVE TrafficInv'
  BY <1>1 DEF originator, hist, TrafficInv, OwedInv, GossipInv
<1>2. CASE DialOk
  <2>1. /\ conn = "dialing" /\ conn' = "up" /\ first' = held /\ held' = <<>> /\ pending' = <<>>
        /\ first = <<>> /\ pending = <<>>
        /\ UNCHANGED <<chan, answer, accepted, gossiped>>
    BY <1>2 DEF DialOk, hist, TrafficInv, OwedInv, GossipInv
  <2>2. OwedInv'
    BY <2>1 DEF TrafficInv, OwedInv
  <2>3. GossipInv'
    BY <2>1, ElemsEmpty DEF TrafficInv, GossipInv, Before
  <2> QED BY <2>2, <2>3 DEF TrafficInv
<1>3. CASE DialFailed \/ BackoffOver
  <2>1. /\ conn \in {"dialing", "backoff"} /\ conn' \in {"dialing", "backoff"}
        /\ UNCHANGED <<chan, held, first, pending, answer, accepted, gossiped>>
    BY <1>3 DEF DialFailed, BackoffOver, hist
  <2> QED BY <2>1 DEF TrafficInv, OwedInv, GossipInv
<1>4. CASE ReadReply
  <2>1. UNCHANGED <<chan, conn, held, first, accepted, gossiped>>
    BY <1>4 DEF ReadReply
  <2>2. CASE pending = <<>>
    BY <1>4, <2>1, <2>2 DEF ReadReply, TrafficInv, OwedInv, GossipInv
  <2>3. CASE pending # <<>>
    <3>1. /\ \E a \in {"own", "error", "crossed"} : Reply(Head(pending), a)
          /\ pending' = Tail(pending)
      BY <1>4, <2>3 DEF ReadReply
    <3> QED BY <2>1, <2>3, <3>1, PendingTraffic
  <2> QED BY <2>2, <2>3
<1>5. CASE Disconnect
  <2>1. /\ conn = "up" /\ conn' = "failing" /\ first' = <<>> /\ held = <<>>
        /\ UNCHANGED <<chan, held, pending, answer, accepted, gossiped>>
    BY <1>5 DEF Disconnect, hist, TrafficInv, GossipInv
  <2>2. OwedInv'
    BY <2>1 DEF TrafficInv, OwedInv
  <2>3. GossipInv'
    BY <2>1, ElemsEmpty DEF TrafficInv, GossipInv, Before, Ascending
  <2> QED BY <2>2, <2>3 DEF TrafficInv
<1>6. CASE FailNext
  <2>1. conn = "failing" /\ UNCHANGED <<chan, held, first, accepted, gossiped>>
    BY <1>6 DEF FailNext
  <2>2. CASE pending = <<>>
    <3>1. conn' = "backoff" /\ UNCHANGED <<pending, answer>>
      BY <1>6, <2>2 DEF FailNext
    <3> QED BY <2>1, <2>2, <3>1 DEF TrafficInv, OwedInv, GossipInv
  <2>3. CASE pending # <<>>
    BY <1>6, <2>1, <2>3, PendingTraffic DEF FailNext
  <2> QED BY <2>2, <2>3
<1>7. ASSUME NEW o \in ReceiverOutcomes, Parse(o) PROVE TrafficInv'
  <2>1. UNCHANGED <<originator, answer, accepted, gossiped>>
    BY <1>7 DEF Parse
  <2> QED BY <2>1 DEF originator, TrafficInv, OwedInv, GossipInv
<1>8. CASE BackendReply \/ WriteReply \/ \E r \in Reqs : SpawnedReply(r)
  BY <1>1, <1>8 DEF BackendReply, WriteReply, SpawnedReply
<1>9. CASE UNCHANGED vars
  BY <1>1, <1>9 DEF vars
<1> QED BY AcceptTraffic, RefuseTraffic, WriteTraffic, <1>2, <1>3, <1>4, <1>5, <1>6, <1>7,
           <1>8, <1>9 DEF Next, Lost, Timeout

\* In a history without repetitions nothing comes before itself.
LEMMA PrecStrict ==
    ASSUME NEW S, NEW o \in Seq(S), Uniq(o)
    PROVE  \A x : ~Prec(o, x, x)
<1>1. Len(o) \in Nat /\ DOMAIN o = 1..Len(o)
  BY LenProperties
<1> QED BY <1>1 DEF Prec, Uniq

\* Where a frame handed over is: waiting, written, or lost with a connection's
\* `first`.
Waiting == Gossip(chan) \cup Elems(held) \cup Elems(first)
FrameInv ==
    /\ Elems(accepted) = (Waiting \cup Elems(gossiped)) \cup dropped
    /\ (Waiting \cup Elems(gossiped)) \cap dropped = {}

\* A frame never waits in two places, nor waits once written.
LEMMA FramesApart ==
    ASSUME TrafficInv
    PROVE  /\ Waiting \cap Elems(gossiped) = {} /\ Gossip(chan) \cap Elems(first) = {}
           /\ Gossip(chan) \cap Elems(held) = {}
<1>1. accepted \in Seq(Control) /\ Uniq(accepted)
  BY DEF TrafficInv, TypeOK, GossipInv
<1>2. \A x : ~Prec(accepted, x, x)
  BY <1>1, PrecStrict
<1> QED BY <1>2 DEF TrafficInv, GossipInv, Before, Waiting

\* Every step keeps each frame in one place; only a lost connection drops any.
LEMMA FrameStep == TrafficInv /\ TrafficInv' /\ FrameInv /\ [Next]_vars => FrameInv'
<1> SUFFICES ASSUME TrafficInv, TrafficInv', FrameInv, [Next]_vars PROVE FrameInv'
  OBVIOUS
<1> USE ControlAssumption
<1>1. /\ chan \in Seq(Messages) /\ held \in Seq(Control) /\ first \in Seq(Control)
      /\ accepted \in Seq(Control) /\ gossiped \in Seq(Control)
  BY DEF TrafficInv, TypeOK
<1>2. ASSUME UNCHANGED <<chan, held, first, accepted, gossiped, dropped>> PROVE FrameInv'
  BY <1>2 DEF FrameInv, Waiting, Gossip
<1>3. ASSUME NEW m \in Reqs \cup Control, Accept(m) PROVE FrameInv'
  <2>1. chan' = Append(chan, m) /\ UNCHANGED <<held, first, gossiped, dropped>> /\ m \in Messages
    BY <1>3 DEF Accept, Messages
  <2>2. Elems(chan') = Elems(chan) \cup {m}
    BY <1>1, <2>1, ElemsAppend
  <2>3. CASE m \in Reqs
    <3>1. accepted' = accepted /\ Gossip(chan') = Gossip(chan)
      BY <1>3, <2>2, <2>3 DEF Accept, Gossip
    <3> QED BY <2>1, <3>1 DEF FrameInv, Waiting
  <2>4. CASE m \notin Reqs
    <3>1. /\ m \in Control /\ accepted' = Append(accepted, m) /\ m \notin Elems(accepted)
          /\ Gossip(chan') = Gossip(chan) \cup {m}
      BY <1>3, <2>2, <2>4 DEF Accept, Gossip, Range, Elems
    <3>2. Elems(accepted') = Elems(accepted) \cup {m}
      BY <1>1, <3>1, ElemsAppend
    <3> QED BY <2>1, <3>1, <3>2 DEF FrameInv, Waiting
  <2> QED BY <2>3, <2>4
<1>4. ASSUME chan # <<>>, chan' = Tail(chan)
      PROVE  /\ Head(chan) \in Reqs \cup Control
             /\ Gossip(chan) = Gossip(chan') \cup ({Head(chan)} \cap Control)
  BY <1>4, TakeHead DEF Gossip
<1>5. CASE Refuse
  <2>1. chan # <<>> /\ chan' = Tail(chan) /\ UNCHANGED <<first, accepted, gossiped, dropped>>
    BY <1>5 DEF Refuse
  <2>2. CASE Head(chan) \in Control
    <3>1. held' = Append(held, Head(chan))
      BY <1>5, <2>2 DEF Refuse
    <3>2. Elems(held') = Elems(held) \cup {Head(chan)}
      BY <1>1, <2>2, <3>1, ElemsAppend
    <3>3. Waiting' = Waiting
      BY <1>4, <2>1, <2>2, <3>2 DEF Waiting
    <3> QED BY <2>1, <3>3 DEF FrameInv
  <2>3. CASE Head(chan) \notin Control
    <3>1. held' = held /\ Gossip(chan') = Gossip(chan)
      BY <1>4, <1>5, <2>1, <2>3 DEF Refuse
    <3> QED BY <2>1, <3>1 DEF FrameInv, Waiting
  <2> QED BY <2>2, <2>3
<1>6. CASE Write
  <2>1. UNCHANGED <<held, accepted, dropped>>
    BY <1>6 DEF Write
  <2>2. CASE first # <<>>
    <3>1. /\ Head(first) \in Control /\ Elems(first) = {Head(first)} \cup Elems(Tail(first))
      BY <1>1, <2>2, ElemsTail
    <3>2. first' = Tail(first) /\ chan' = chan /\ gossiped' = Append(gossiped, Head(first))
      BY <1>6, <2>2, <3>1 DEF Write
    <3>3. Elems(gossiped') = Elems(gossiped) \cup {Head(first)} /\ Gossip(chan') = Gossip(chan)
      BY <1>1, <3>1, <3>2, ElemsAppend DEF Gossip
    <3>4. Waiting' \cup Elems(gossiped') = Waiting \cup Elems(gossiped)
      BY <2>1, <3>1, <3>2, <3>3 DEF Waiting
    <3> QED BY <2>1, <3>4 DEF FrameInv
  <2>3. CASE first = <<>>
    <3>1. chan # <<>> /\ chan' = Tail(chan) /\ first' = first
      BY <1>6, <2>3 DEF Write
    <3>2. CASE Head(chan) \in Control
      <4>1. gossiped' = Append(gossiped, Head(chan))
        BY <1>6, <2>3, <3>2 DEF Write
      <4>2. Elems(gossiped') = Elems(gossiped) \cup {Head(chan)}
        BY <1>1, <3>2, <4>1, ElemsAppend
      <4>3. Waiting' \cup Elems(gossiped') = Waiting \cup Elems(gossiped)
        BY <1>4, <2>1, <3>1, <3>2, <4>2 DEF Waiting
      <4> QED BY <2>1, <4>3 DEF FrameInv
    <3>3. CASE Head(chan) \notin Control
      <4>1. gossiped' = gossiped /\ Gossip(chan') = Gossip(chan)
        BY <1>4, <1>6, <2>3, <3>1, <3>3 DEF Write
      <4> QED BY <2>1, <3>1, <4>1 DEF FrameInv, Waiting
    <3> QED BY <3>2, <3>3
  <2> QED BY <2>2, <2>3
<1>7. CASE DialOk
  <2>1. first = <<>> /\ first' = held /\ held' = <<>> /\ UNCHANGED <<chan, accepted, gossiped, dropped>>
    BY <1>7 DEF DialOk, hist, TrafficInv, GossipInv
  <2>2. Waiting' = Waiting
    BY <2>1, ElemsEmpty DEF Waiting, Gossip
  <2> QED BY <2>1, <2>2 DEF FrameInv
<1>8. CASE Disconnect
  <2>1. /\ first' = <<>> /\ dropped' = dropped \cup Range(first) /\ held = <<>> /\ held' = <<>>
        /\ UNCHANGED <<chan, accepted, gossiped>>
    BY <1>8 DEF Disconnect, TrafficInv, GossipInv
  <2>2. Range(first) = Elems(first)
    BY DEF Range, Elems
  <2>3. Waiting' = Gossip(chan) /\ Waiting = Gossip(chan) \cup Elems(first)
    BY <2>1, ElemsEmpty DEF Waiting, Gossip
  <2>4. Gossip(chan) \cap Elems(first) = {} /\ Elems(first) \cap Elems(gossiped) = {}
    BY <2>3, FramesApart
  <2> QED BY <2>1, <2>2, <2>3, <2>4 DEF FrameInv
<1>9. CASE \/ DialFailed \/ BackoffOver \/ ReadReply \/ FailNext
           \/ (\E o \in ReceiverOutcomes : Parse(o)) \/ BackendReply \/ WriteReply
           \/ (\E r \in Reqs : SpawnedReply(r)) \/ UNCHANGED vars
  BY <1>2, <1>9 DEF DialFailed, BackoffOver, ReadReply, FailNext, Parse, BackendReply,
                    WriteReply, SpawnedReply, vars, originator, hist
<1> QED BY <1>3, <1>5, <1>6, <1>7, <1>8, <1>9 DEF Next, Lost, Timeout

\* Whatever the connection does, a request the link accepted waits in exactly
\* one queue until it is answered; gossip frames are written in the order they
\* were handed over, held ones included; and each frame waits, was written, or
\* was lost with a connection that ended before writing the frames held for it
\* (run_with, refuse_peer_requests_while, held_control), for any requests,
\* frames and channel capacity and any receiver.
THEOREM TrafficIsAccounted == Spec => []TrafficAccounted
<1>1. TrafficInv => OwedOnce /\ ControlInOrder
  <2> SUFFICES ASSUME TrafficInv PROVE OwedOnce /\ ControlInOrder
    OBVIOUS
  <2>1. chan \in Seq(Messages) /\ pending \in Seq(Messages) /\ Elems(pending) \subseteq Reqs
    BY ElemsIn DEF TrafficInv, TypeOK, Messages
  <2>2. Uniq(chan \o pending) /\ Elems(chan \o pending) = Elems(chan) \cup Elems(pending)
    BY <2>1, UniqConcat DEF TrafficInv, OwedInv
  <2>3. Range(chan \o pending) = Elems(chan \o pending)
    BY DEF Range, Elems
  <2>4. Range(chan \o pending) \cap Reqs = {r \in Reqs : answer[r] = "owed"}
    BY <2>1, <2>2, <2>3 DEF TrafficInv, OwedInv
  <2>5. OwedOnce
    BY <2>2, <2>4 DEF OwedOnce, Uniq
  <2>6. ControlInOrder
    BY DEF TrafficInv, GossipInv, Ascending, Prec, ControlInOrder
  <2> QED BY <2>5, <2>6
<1>2. TrafficInv /\ FrameInv => FramesOnce
  <2> SUFFICES ASSUME TrafficInv, FrameInv PROVE FramesOnce
    OBVIOUS
  <2>1. \A s : Range(s) = Elems(s)
    BY DEF Range, Elems
  <2>2. Waiting \cap Elems(gossiped) = {}
    BY FramesApart
  <2> QED BY <2>1, <2>2 DEF FramesOnce, FrameInv, Waiting, Gossip
<1>3. Init => FrameInv
  BY ElemsEmpty DEF Init, FrameInv, Waiting, Gossip
<1>4. Spec => []TrafficInv
  BY TrafficInit, TrafficStep, TypeCorrect, PTL DEF Spec
<1>5. Spec => []FrameInv
  BY <1>3, <1>4, FrameStep, PTL DEF Spec
<1>6. OwedOnce /\ ControlInOrder /\ FramesOnce => TrafficAccounted
  BY DEF TrafficAccounted
<1> QED BY <1>1, <1>2, <1>4, <1>5, <1>6, PTL

-----------------------------------------------------------------------------
(* The link keeps its contract, step by step                                *)

\* One request's status changes the way the contract allows.
LEMMA StatusStep ==
    ASSUME TypeOK, NEW r \in Reqs,
           \/ answer[r] = "none" /\ answer' = [answer EXCEPT ![r] = "owed"]
           \/ /\ answer[r] = "owed"
              /\ \E a \in {"own", "error", "crossed"} : answer' = [answer EXCEPT ![r] = a]
    PROVE  Contract!Next
<1>1. /\ StatusOf("none") = "new" /\ StatusOf("owed") = "owed" /\ StatusOf("error") = "error"
      /\ StatusOf("own") = "reply" /\ StatusOf("crossed") = "reply"
  BY DEF StatusOf
<1>2. answer \in [Reqs -> {"none", "owed", "own", "error", "crossed"}]
  BY DEF TypeOK
<1>3. CASE answer[r] = "none" /\ answer' = [answer EXCEPT ![r] = "owed"]
  <2>1. LinkStatus[r] = "new" /\ LinkStatus' = [LinkStatus EXCEPT ![r] = "owed"]
    BY <1>1, <1>2, <1>3 DEF LinkStatus
  <2> QED BY <2>1 DEF Contract!Next, Contract!Accept
<1>4. ASSUME answer[r] = "owed", NEW a \in {"own", "error", "crossed"},
             answer' = [answer EXCEPT ![r] = a]
      PROVE  Contract!Next
  <2>1. /\ LinkStatus[r] = "owed" /\ StatusOf(a) \in {"reply", "error"}
        /\ LinkStatus' = [LinkStatus EXCEPT ![r] = StatusOf(a)]
    BY <1>1, <1>2, <1>4 DEF LinkStatus
  <2> QED BY <2>1 DEF Contract!Next, Contract!Answer
<1> QED BY <1>3, <1>4

\* The safety part of ReplyContract: towards the dispatcher every step of the
\* link accepts a new request, answers one that is owed, or changes nothing; no
\* request is answered twice or without having been accepted (fanout_send,
\* drive_response, fail_pending, refuse_peer_requests_while).
THEOREM LinkRefinesContract == Spec => Contract!Init /\ [][Contract!Next]_LinkStatus
<1>1. Init => Contract!Init
  BY DEF Init, Contract!Init, LinkStatus, StatusOf
<1>2. TrafficInv /\ [Next]_vars => [Contract!Next]_LinkStatus
  <2> SUFFICES ASSUME TrafficInv, [Next]_vars PROVE [Contract!Next]_LinkStatus
    OBVIOUS
  <2> USE ControlAssumption
  <2>1. TypeOK /\ chan \in Seq(Messages) /\ pending \in Seq(Reqs)
    BY DEF TrafficInv, TypeOK
  <2>2. ASSUME UNCHANGED answer PROVE LinkStatus' = LinkStatus
    BY <2>2 DEF LinkStatus
  <2>3. pending # <<>> => Head(pending) \in Reqs /\ answer[Head(pending)] = "owed"
    <3>1. pending # <<>> => Head(pending) \in Elems(pending)
      BY <2>1, ElemsTail
    <3> QED BY <3>1 DEF TrafficInv, OwedInv
  <2>4. ASSUME NEW m \in Reqs \cup Control, Accept(m) PROVE [Contract!Next]_LinkStatus
    BY <2>1, <2>2, <2>4, StatusStep DEF Accept, Reply
  <2>5. CASE Refuse
    <3>1. Head(chan) \in Messages /\ Head(chan) \in Elems(chan)
      BY <2>1, <2>5, ElemsTail DEF Refuse
    <3>2. CASE Head(chan) \in Control
      BY <2>2, <2>5, <3>2 DEF Refuse
    <3>3. CASE Head(chan) \notin Control
      <4>1. Head(chan) \in Reqs /\ answer[Head(chan)] = "owed"
        BY <3>1, <3>3 DEF Messages, TrafficInv, OwedInv
      <4>2. answer' = [answer EXCEPT ![Head(chan)] = "error"]
        BY <2>5, <3>3 DEF Refuse, Reply
      <4> QED BY <2>1, <4>1, <4>2, StatusStep
    <3> QED BY <3>2, <3>3
  <2>6. CASE ReadReply
    <3>1. CASE pending = <<>>
      BY <2>2, <2>6, <3>1 DEF ReadReply
    <3>2. CASE pending # <<>>
      <4>1. \E a \in {"own", "error", "crossed"} : answer' = [answer EXCEPT ![Head(pending)] = a]
        BY <2>6, <3>2 DEF ReadReply, Reply
      <4> QED BY <2>1, <2>3, <3>2, <4>1, StatusStep
    <3> QED BY <3>1, <3>2
  <2>7. CASE FailNext
    <3>1. CASE pending = <<>>
      BY <2>2, <2>7, <3>1 DEF FailNext
    <3>2. CASE pending # <<>>
      BY <2>1, <2>3, <2>7, <3>2, StatusStep DEF FailNext, Reply
    <3> QED BY <3>1, <3>2
  <2>8. CASE \/ DialOk \/ DialFailed \/ BackoffOver \/ Write \/ Disconnect
             \/ BackendReply \/ WriteReply \/ UNCHANGED vars
    BY <2>2, <2>8 DEF DialOk, DialFailed, BackoffOver, Write, Disconnect, BackendReply,
                      WriteReply, vars, hist
  <2>9. CASE \E o \in ReceiverOutcomes : Parse(o)
    BY <2>2, <2>9 DEF Parse
  <2>10. CASE \E r \in Reqs : SpawnedReply(r)
    BY <2>2, <2>10 DEF SpawnedReply, hist
  <2> QED BY <2>4, <2>5, <2>6, <2>7, <2>8, <2>9, <2>10 DEF Next, Lost, Timeout
<1> QED BY <1>1, <1>2, TrafficInit, TrafficStep, TypeCorrect, PTL DEF Spec
=============================================================================
