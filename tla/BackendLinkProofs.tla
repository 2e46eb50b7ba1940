-------------------------- MODULE BackendLinkProofs --------------------------
(***************************************************************************)
(* BackendLink, for any requests, scripts, noreply requests, node states   *)
(* and channel capacity: type correctness; that no request is forgotten,   *)
(* kept twice or answered out of turn; which requests alone can get        *)
(* another's reply; and that every step is one ReplyContract allows.       *)
(***************************************************************************)
EXTENDS BackendLink, SequenceTheorems, TLAPS

-----------------------------------------------------------------------------
(* What a queue holds, and in which order.                                  *)

Elems(s) == {s[i] : i \in DOMAIN s}
Uniq(s) == \A i, j \in DOMAIN s : s[i] = s[j] => i = j

\* x comes before y in the sequence o.
Prec(o, x, y) == \E i, j \in DOMAIN o : i < j /\ o[i] = x /\ o[j] = y

\* Every member of X comes before every member of Y; s is in the order of o.
Before(o, X, Y) == \A x \in X, y \in Y : Prec(o, x, y)
Ascending(o, s) == \A i, j \in DOMAIN s : i < j => Prec(o, s[i], s[j])

\* An empty queue holds nothing.
LEMMA ElemsEmpty == Elems(<<>>) = {} /\ Uniq(<<>>)
BY DEF Elems, Uniq

\* A queue holds elements of its type only.
LEMMA ElemsIn == \A S : \A s \in Seq(S) : Elems(s) \subseteq S
BY DEF Elems

\* Appending to a queue adds one element, and repeats none if it is new.
LEMMA ElemsAppend ==
    ASSUME NEW S, NEW s \in Seq(S), NEW e \in S
    PROVE  /\ Elems(Append(s, e)) = Elems(s) \cup {e}
           /\ Uniq(s) /\ e \notin Elems(s) => Uniq(Append(s, e))
<1>1. /\ Append(s, e) \in Seq(S) /\ Len(Append(s, e)) = Len(s) + 1
      /\ DOMAIN s = 1..Len(s) /\ DOMAIN Append(s, e) = 1..(Len(s) + 1)
      /\ \A i \in 1..Len(s) : Append(s, e)[i] = s[i]
      /\ Append(s, e)[Len(s) + 1] = e /\ Len(s) \in Nat
  BY AppendProperties, LenProperties
<1>2. Elems(Append(s, e)) = Elems(s) \cup {e}
  BY <1>1 DEF Elems
<1>3. ASSUME Uniq(s), e \notin Elems(s) PROVE Uniq(Append(s, e))
  BY <1>1, <1>3 DEF Elems, Uniq
<1> QED BY <1>2, <1>3

\* Taking the head of a queue removes that element, and all of it if nothing repeats.
LEMMA ElemsTail ==
    ASSUME NEW S, NEW s \in Seq(S), s # <<>>
    PROVE  /\ Head(s) \in S /\ Tail(s) \in Seq(S)
           /\ Elems(s) = {Head(s)} \cup Elems(Tail(s))
           /\ Uniq(s) => Uniq(Tail(s)) /\ Head(s) \notin Elems(Tail(s))
<1>1. /\ Head(s) \in S /\ Tail(s) \in Seq(S) /\ Head(s) = s[1] /\ Len(s) \in Nat \ {0}
      /\ DOMAIN s = 1..Len(s) /\ DOMAIN Tail(s) = 1..(Len(s) - 1)
      /\ \A i \in 1..(Len(s) - 1) : Tail(s)[i] = s[i + 1]
  BY HeadTailProperties, LenProperties, EmptySeq
<1>2. Elems(s) \subseteq {Head(s)} \cup Elems(Tail(s))
  <2>1. ASSUME NEW i \in 1..Len(s), i # 1 PROVE s[i] \in Elems(Tail(s))
    <3>1. i - 1 \in 1..(Len(s) - 1) /\ (i - 1) + 1 = i
      BY <1>1, <2>1
    <3>2. i - 1 \in DOMAIN Tail(s) /\ Tail(s)[i - 1] = s[i]
      BY <1>1, <3>1
    <3> QED BY <3>2 DEF Elems
  <2> QED BY <1>1, <2>1 DEF Elems
<1>3. {Head(s)} \cup Elems(Tail(s)) \subseteq Elems(s)
  BY <1>1 DEF Elems
<1>4. ASSUME Uniq(s) PROVE Uniq(Tail(s)) /\ Head(s) \notin Elems(Tail(s))
  <2>1. Uniq(Tail(s))
    <3> SUFFICES ASSUME NEW i \in 1..(Len(s) - 1), NEW j \in 1..(Len(s) - 1),
                        Tail(s)[i] = Tail(s)[j]
                 PROVE  i = j
      BY <1>1 DEF Uniq
    <3>1. s[i + 1] = s[j + 1] /\ i + 1 \in DOMAIN s /\ j + 1 \in DOMAIN s
      BY <1>1
    <3>2. i + 1 = j + 1
      BY <3>1, <1>4 DEF Uniq
    <3> QED BY <3>2
  <2>2. ASSUME NEW i \in 1..(Len(s) - 1), Tail(s)[i] = Head(s) PROVE FALSE
    <3>1. s[i + 1] = s[1] /\ i + 1 \in DOMAIN s /\ 1 \in DOMAIN s
      BY <1>1, <2>2
    <3>2. i + 1 = 1
      BY <3>1, <1>4 DEF Uniq
    <3> QED BY <3>2
  <2> QED BY <1>1, <2>1, <2>2 DEF Elems
<1> QED BY <1>1, <1>2, <1>3, <1>4

\* Two queues in series hold what either holds, and nothing twice if they share nothing.
LEMMA UniqConcat ==
    ASSUME NEW S, NEW s \in Seq(S), NEW t \in Seq(S)
    PROVE  /\ s \o t \in Seq(S) /\ Elems(s \o t) = Elems(s) \cup Elems(t)
           /\ Uniq(s) /\ Uniq(t) /\ Elems(s) \cap Elems(t) = {} => Uniq(s \o t)
<1>1. /\ s \o t \in Seq(S) /\ Len(s) \in Nat /\ Len(t) \in Nat
      /\ DOMAIN s = 1..Len(s) /\ DOMAIN t = 1..Len(t)
      /\ DOMAIN (s \o t) = 1..(Len(s) + Len(t))
      /\ \A i \in 1..Len(s) : (s \o t)[i] = s[i]
      /\ \A i \in (Len(s) + 1)..(Len(s) + Len(t)) : (s \o t)[i] = t[i - Len(s)]
  BY ConcatProperties, LenProperties
<1>2. Elems(s \o t) \subseteq Elems(s) \cup Elems(t)
  <2> SUFFICES ASSUME NEW i \in 1..(Len(s) + Len(t))
               PROVE  (s \o t)[i] \in Elems(s) \cup Elems(t)
    BY <1>1 DEF Elems
  <2>1. CASE i <= Len(s)
    BY <1>1, <2>1 DEF Elems
  <2>2. CASE i > Len(s)
    <3>1. i - Len(s) \in 1..Len(t) /\ (s \o t)[i] = t[i - Len(s)]
      BY <1>1, <2>2
    <3> QED BY <1>1, <3>1 DEF Elems
  <2> QED BY <1>1, <2>1, <2>2
<1>3. Elems(s) \cup Elems(t) \subseteq Elems(s \o t)
  <2>1. ASSUME NEW i \in 1..Len(s) PROVE s[i] \in Elems(s \o t)
    BY <1>1 DEF Elems
  <2>2. ASSUME NEW i \in 1..Len(t) PROVE t[i] \in Elems(s \o t)
    <3>1. /\ Len(s) + i \in (Len(s) + 1)..(Len(s) + Len(t))
          /\ (Len(s) + i) - Len(s) = i
      BY <1>1
    <3>2. (s \o t)[Len(s) + i] = t[i] /\ Len(s) + i \in DOMAIN (s \o t)
      BY <1>1, <3>1
    <3> QED BY <3>2 DEF Elems
  <2> QED BY <1>1, <2>1, <2>2 DEF Elems
<1>4. ASSUME Uniq(s), Uniq(t), Elems(s) \cap Elems(t) = {},
             NEW i \in 1..(Len(s) + Len(t)), NEW j \in 1..(Len(s) + Len(t)),
             (s \o t)[i] = (s \o t)[j]
      PROVE  i = j
  <2>1. ASSUME NEW k \in 1..(Len(s) + Len(t))
        PROVE  IF k <= Len(s) THEN (s \o t)[k] = s[k] /\ s[k] \in Elems(s) /\ k \in DOMAIN s
               ELSE /\ (s \o t)[k] = t[k - Len(s)] /\ t[k - Len(s)] \in Elems(t)
                    /\ k - Len(s) \in DOMAIN t
    <3>1. CASE k <= Len(s)
      BY <1>1, <3>1 DEF Elems
    <3>2. CASE ~(k <= Len(s))
      <4>1. k - Len(s) \in 1..Len(t) /\ k \in (Len(s) + 1)..(Len(s) + Len(t))
        BY <1>1, <3>2
      <4> QED BY <1>1, <3>2, <4>1 DEF Elems
    <3> QED BY <3>1, <3>2
  <2>2. CASE i <= Len(s) /\ j <= Len(s)
    BY <1>4, <2>1, <2>2 DEF Uniq
  <2>3. CASE ~(i <= Len(s)) /\ ~(j <= Len(s))
    <3>1. i - Len(s) = j - Len(s)
      BY <1>4, <2>1, <2>3 DEF Uniq
    <3> QED BY <1>1, <3>1
  <2>4. CASE (i <= Len(s)) # (j <= Len(s))
    BY <1>4, <2>1, <2>4
  <2> QED BY <2>2, <2>3, <2>4
<1>5. Uniq(s) /\ Uniq(t) /\ Elems(s) \cap Elems(t) = {} => Uniq(s \o t)
  BY <1>1, <1>4 DEF Uniq
<1> QED BY <1>1, <1>2, <1>3, <1>5

\* In a history without repetitions the order is strict.
LEMMA PrecFacts ==
    ASSUME NEW S, NEW o \in Seq(S), Uniq(o)
    PROVE  /\ \A x, y : Prec(o, x, y) => x # y /\ ~Prec(o, y, x)
           /\ \A x, y : Prec(o, x, y) => x \in Elems(o) /\ y \in Elems(o)
<1>1. Len(o) \in Nat /\ DOMAIN o = 1..Len(o)
  BY LenProperties
<1>2. ASSUME NEW x, NEW y, Prec(o, x, y) PROVE x # y /\ ~Prec(o, y, x)
  BY <1>1, <1>2 DEF Prec, Uniq
<1> QED BY <1>2 DEF Prec, Elems

\* Appending to a history keeps its order and puts the new element last.
LEMMA PrecAppend ==
    ASSUME NEW S, NEW o \in Seq(S), NEW e \in S
    PROVE  /\ \A x, y : Prec(o, x, y) => Prec(Append(o, e), x, y)
           /\ \A x \in Elems(o) : Prec(Append(o, e), x, e)
<1>1. /\ DOMAIN o = 1..Len(o) /\ DOMAIN Append(o, e) = 1..(Len(o) + 1) /\ Len(o) \in Nat
      /\ \A i \in 1..Len(o) : Append(o, e)[i] = o[i]
      /\ Append(o, e)[Len(o) + 1] = e
  BY AppendProperties, LenProperties
<1>2. \A x, y : Prec(o, x, y) => Prec(Append(o, e), x, y)
  BY <1>1 DEF Prec
<1>3. ASSUME NEW x \in Elems(o) PROVE Prec(Append(o, e), x, e)
  <2>1. PICK i \in 1..Len(o) : o[i] = x
    BY <1>1, <1>3 DEF Elems
  <2>2. i \in DOMAIN Append(o, e) /\ Len(o) + 1 \in DOMAIN Append(o, e) /\ i < Len(o) + 1
    BY <1>1
  <2> QED BY <1>1, <2>1, <2>2 DEF Prec
<1> QED BY <1>2, <1>3

\* A queue stays in order when what is appended comes after all it holds.
LEMMA AscendingAppend ==
    ASSUME NEW S, NEW s \in Seq(S), NEW e \in S, NEW o, Ascending(o, s),
           Before(o, Elems(s), {e})
    PROVE  Ascending(o, Append(s, e))
<1>1. /\ DOMAIN s = 1..Len(s) /\ DOMAIN Append(s, e) = 1..(Len(s) + 1) /\ Len(s) \in Nat
      /\ \A i \in 1..Len(s) : Append(s, e)[i] = s[i]
      /\ Append(s, e)[Len(s) + 1] = e
  BY AppendProperties, LenProperties
<1>2. ASSUME NEW i \in 1..(Len(s) + 1), NEW j \in 1..(Len(s) + 1), i < j
      PROVE  Prec(o, Append(s, e)[i], Append(s, e)[j])
  <2>1. i \in 1..Len(s) /\ Append(s, e)[i] = s[i] /\ s[i] \in Elems(s)
    BY <1>1, <1>2 DEF Elems
  <2>2. CASE j = Len(s) + 1
    BY <1>1, <2>1, <2>2 DEF Before
  <2>3. CASE j # Len(s) + 1
    BY <1>1, <1>2, <2>1, <2>3 DEF Ascending
  <2> QED BY <2>2, <2>3
<1> QED BY <1>1, <1>2 DEF Ascending

\* The head of a queue in order comes before all the rest.
LEMMA AscendingTail ==
    ASSUME NEW S, NEW s \in Seq(S), s # <<>>, NEW o, Ascending(o, s)
    PROVE  Ascending(o, Tail(s)) /\ Before(o, {Head(s)}, Elems(Tail(s)))
<1>1. /\ Head(s) = s[1] /\ Len(s) \in Nat \ {0}
      /\ DOMAIN s = 1..Len(s) /\ DOMAIN Tail(s) = 1..(Len(s) - 1)
      /\ \A i \in 1..(Len(s) - 1) : Tail(s)[i] = s[i + 1]
  BY HeadTailProperties, LenProperties, EmptySeq
<1>2. ASSUME NEW i \in 1..(Len(s) - 1), NEW j \in 1..(Len(s) - 1), i < j
      PROVE  Prec(o, Tail(s)[i], Tail(s)[j])
  <2>1. i + 1 \in DOMAIN s /\ j + 1 \in DOMAIN s /\ i + 1 < j + 1
    BY <1>1, <1>2
  <2>2. Prec(o, s[i + 1], s[j + 1])
    BY <2>1 DEF Ascending
  <2> QED BY <1>1, <2>2
<1>3. ASSUME NEW i \in 1..(Len(s) - 1) PROVE Prec(o, Head(s), Tail(s)[i])
  <2>1. i + 1 \in DOMAIN s /\ 1 \in DOMAIN s /\ 1 < i + 1
    BY <1>1, <1>3
  <2>2. Prec(o, s[1], s[i + 1])
    BY <2>1 DEF Ascending
  <2> QED BY <1>1, <2>2
<1> QED BY <1>1, <1>2, <1>3 DEF Ascending, Before, Elems

\* A queue in the order of a history without repetitions has none either.
LEMMA AscendingUniq ==
    ASSUME NEW S, NEW o \in Seq(S), Uniq(o), NEW T, NEW s \in Seq(T), Ascending(o, s)
    PROVE  Uniq(s)
<1>1. DOMAIN s = 1..Len(s) /\ Len(s) \in Nat
  BY LenProperties
<1>2. ASSUME NEW i \in DOMAIN s, NEW j \in DOMAIN s, s[i] = s[j], i < j PROVE FALSE
  <2>1. Prec(o, s[i], s[j])
    BY <1>2 DEF Ascending
  <2> QED BY <2>1, <1>2, PrecFacts
<1>3. \A i, j \in DOMAIN s : i < j \/ j < i \/ i = j
  BY <1>1
<1> QED BY <1>2, <1>3 DEF Uniq

\* The elements of an appended-to sequence are the old ones, where they were,
\* and the new one, last.
LEMMA AppendLast ==
    ASSUME NEW S, NEW s \in Seq(S), NEW e \in S
    PROVE  \A x, y \in DOMAIN Append(s, e) : x < y =>
             /\ x \in DOMAIN s /\ Append(s, e)[x] = s[x]
             /\ (y \in DOMAIN s /\ Append(s, e)[y] = s[y]) \/ Append(s, e)[y] = e
<1>1. /\ DOMAIN s = 1..Len(s) /\ DOMAIN Append(s, e) = 1..(Len(s) + 1) /\ Len(s) \in Nat
      /\ \A i \in 1..Len(s) : Append(s, e)[i] = s[i]
      /\ Append(s, e)[Len(s) + 1] = e
  BY AppendProperties, LenProperties
<1> QED BY <1>1

-----------------------------------------------------------------------------

\* The kind of datastore and the requests' deadlines never change.
LEMMA ConfKept == [Next]_vars => data_store' = data_store /\ dated' = dated
<1> SUFFICES ASSUME [Next]_vars PROVE data_store' = data_store /\ dated' = dated
  OBVIOUS
<1> USE DEF conf
<1>1. CASE Gate
  BY <1>1 DEF Gate, SetState, Send, Flush, ExpireHeld, AnswerExpired
<1>2. CASE Supervisor
  BY <1>2 DEF Supervisor, DialOk, DialFailed, BackoffOver, ServeError, Recv, DeliverReply,
              ScriptDone, Timeout, IoError, FailNext
<1>3. CASE UNCHANGED vars
  BY <1>3 DEF vars
<1> QED BY <1>1, <1>2, <1>3 DEF Next

\* Only a request taken from the channel is ever added to the muted ones.
LEMMA MutedKept == [Next]_vars => muted' = muted \/ (Recv /\ muted' \subseteq muted \cup {Head(chan)})
<1> SUFFICES ASSUME [Next]_vars, ~Recv PROVE muted' = muted
  BY DEF Recv
<1> USE DEF sup
<1>1. CASE Gate
  BY <1>1 DEF Gate, SetState, Send, Flush, ExpireHeld, AnswerExpired
<1>2. CASE Supervisor
  BY <1>2 DEF Supervisor, DialOk, DialFailed, BackoffOver, ServeError, DeliverReply,
              ScriptDone, Timeout, IoError, FailNext
<1>3. CASE UNCHANGED vars
  BY <1>3 DEF vars
<1> QED BY <1>1, <1>2, <1>3 DEF Next

\* The variables have their types, the request channel its capacity, in every
\* reachable state (LocalBackend, backend_supervisor).
THEOREM TypeCorrect == Spec => []TypeOK
<1> USE ReqsAssumption, ChannelCapAssumption
<1>1. Init => TypeOK
  BY DEF Init, TypeOK, Results
<1>2. TypeOK /\ [Next]_vars => TypeOK'
  <2> SUFFICES ASSUME TypeOK, [Next]_vars PROVE TypeOK'
    OBVIOUS
  <2>c. /\ data_store' \in {"Valkey", "Memcache"} /\ dated' \subseteq Reqs
        /\ muted' \subseteq Reqs
    <3>1. Recv => Head(chan) \in Reqs
      BY HeadTailProperties DEF Recv, TypeOK
    <3> QED BY <3>1, ConfKept, MutedKept DEF TypeOK
  <2> USE <2>c DEF TypeOK, Results, gate, sup, hist, Reply, Owed
  <2>0. ASSUME NEW r \in Reqs
        PROVE  /\ \A a \in Results : [answer EXCEPT ![r] = a] \in [Reqs -> Results]
               /\ Append(order, r) \in Seq(Reqs) /\ Append(answered, r) \in Seq(Reqs)
    BY <2>0, AppendProperties
  <2>1. ASSUME NEW s \in DynStates, SetState(s) PROVE TypeOK'
    BY <2>1 DEF SetState
  <2>2. ASSUME NEW r \in Reqs, TrySend(r)
        PROVE  /\ chan' \in Seq(Reqs) /\ Len(chan') <= ChannelCap
               /\ answer' \in [Reqs -> Results]
               /\ order' \in Seq(Reqs) /\ answered' \in Seq(Reqs)
    <3>1. CASE Room
      <4>1. /\ chan' = Append(chan, r) /\ Len(chan) < ChannelCap
            /\ answer' = [answer EXCEPT ![r] = "owed"]
            /\ order' = Append(order, r) /\ answered' = answered
        BY <2>2, <3>1 DEF TrySend, Room
      <4>2. chan' \in Seq(Reqs) /\ Len(chan') <= ChannelCap
        BY <4>1, AppendProperties, LenProperties
      <4> QED BY <2>0, <4>1, <4>2
    <3>2. CASE ~Room
      <4>1. /\ answer' = [answer EXCEPT ![r] = "refused"]
            /\ answered' = Append(answered, r) /\ UNCHANGED <<chan, order>>
        BY <2>2, <3>2 DEF TrySend
      <4> QED BY <2>0, <4>1
    <3> QED BY <3>1, <3>2
  <2>3. ASSUME NEW r \in Reqs, Send(r) PROVE TypeOK'
    <3> DEFINE g == LocalGate(state, r \in Reads)
    <3>1. UNCHANGED <<state, expired, sup>>
      BY <2>3 DEF Send
    <3>2. CASE g = "Refuse" /\ Reply(r, "refused") /\ UNCHANGED <<held, flushing, chan, order>>
      BY <3>1, <3>2, AppendProperties
    <3>3. CASE g = "SendIfIdle" /\ held = <<>> /\ TrySend(r) /\ UNCHANGED <<held, flushing>>
      BY <2>2, <3>1, <3>3
    <3>4. CASE /\ g = "Hold" \/ (g = "SendIfIdle" /\ held # <<>>)
               /\ held' = Append(held, r) /\ Owed(r) /\ UNCHANGED <<flushing, chan>>
      BY <3>1, <3>4, AppendProperties
    <3>5. CASE g = "Send" /\ flushing' = r /\ UNCHANGED <<held, chan, hist>>
      BY <3>1, <3>5
    <3> HIDE DEF TypeOK, Reply, Owed, g
    <3> QED BY <2>3, <3>2, <3>3, <3>4, <3>5 DEF Send, g
  <2>4. CASE Flush
    <3>1. flushing \in Reqs /\ UNCHANGED <<state, expired, sup>>
      BY <2>4 DEF Flush
    <3>2. CASE /\ held # <<>> /\ Room
               /\ chan' = Append(chan, Head(held)) /\ held' = Tail(held)
               /\ UNCHANGED <<flushing, hist>>
      <4>1. Head(held) \in Reqs /\ Tail(held) \in Seq(Reqs) /\ Len(chan) < ChannelCap
        BY <3>2, HeadTailProperties DEF Room
      <4>2. chan' \in Seq(Reqs) /\ Len(chan') <= ChannelCap
        BY <3>2, <4>1, AppendProperties, LenProperties
      <4> QED BY <3>1, <3>2, <4>1, <4>2
    <3>3. CASE /\ held # <<>> /\ ~Room
               /\ held' = Append(held, flushing) /\ Owed(flushing)
               /\ flushing' = NoReq /\ UNCHANGED chan
      BY <3>1, <3>3, AppendProperties
    <3>4. CASE held = <<>> /\ TrySend(flushing) /\ flushing' = NoReq /\ UNCHANGED held
      BY <2>2, <3>1, <3>4
    <3> HIDE DEF TypeOK, Reply, Owed
    <3> QED BY <2>4, <3>2, <3>3, <3>4 DEF Flush
  <2>5. CASE ExpireHeld
    BY <2>5 DEF ExpireHeld
  <2>6. CASE AnswerExpired
    <3>1. Head(expired) \in Reqs /\ Tail(expired) \in Seq(Reqs)
      BY <2>6, HeadTailProperties DEF AnswerExpired
    <3>2. /\ answer' = [answer EXCEPT ![Head(expired)] = "expired"]
          /\ answered' = Append(answered, Head(expired)) /\ expired' = Tail(expired)
          /\ UNCHANGED <<state, held, flushing, chan, sup, order>>
      BY <2>6 DEF AnswerExpired
    <3> QED BY <2>0, <3>1, <3>2
  <2>7. CASE DialOk \/ DialFailed \/ BackoffOver
    <3>1. /\ conn' \in {"up", "dialing", "backoff"} /\ pending' \in {pending, <<>>}
          /\ UNCHANGED <<gate, chan, script, wire, hist>>
      BY <2>7 DEF DialOk, DialFailed, BackoffOver
    <3>2. pending' \in Seq(Reqs)
      <4>1. pending \in Seq(Reqs) /\ <<>> \in Seq(Reqs)
        BY EmptySeq
      <4> HIDE DEF TypeOK
      <4> QED BY <3>1, <4>1
    <3> QED BY <3>1, <3>2
  <2>8. ASSUME chan # <<>>, chan' = Tail(chan)
        PROVE  Head(chan) \in Reqs /\ chan' \in Seq(Reqs) /\ Len(chan') <= ChannelCap
    <3>1. /\ Head(chan) \in Reqs /\ Tail(chan) \in Seq(Reqs)
          /\ Len(Tail(chan)) <= ChannelCap
      BY <2>8, HeadTailProperties, LenProperties
    <3> QED BY <2>8, <3>1
  <2>9. CASE ServeError
    <3>1. Head(chan) \in Reqs /\ chan' \in Seq(Reqs) /\ Len(chan') <= ChannelCap
      BY <2>8, <2>9 DEF ServeError
    <3> QED BY <2>0, <2>9, <3>1 DEF ServeError
  <2>10. CASE Recv
    <3>1. Head(chan) \in Reqs /\ chan' \in Seq(Reqs) /\ Len(chan') <= ChannelCap
      BY <2>8, <2>10 DEF Recv
    <3>2. CASE IsScript(Head(chan))
      BY <2>10, <3>1, <3>2 DEF Recv
    <3>3. CASE ~IsScript(Head(chan))
      <4>1. /\ pending' = Append(pending, Head(chan))
            /\ wire' = wire \/ wire' = Append(wire, Head(chan))
            /\ UNCHANGED <<script, gate, conn, hist>>
        BY <2>10, <3>3 DEF Recv
      <4>2. pending' \in Seq(Reqs) /\ wire' \in Seq(Reqs)
        <5>1. pending \in Seq(Reqs) /\ wire \in Seq(Reqs)
          OBVIOUS
        <5> HIDE DEF TypeOK
        <5> QED BY <3>1, <4>1, <5>1, AppendProperties
      <4> QED BY <3>1, <4>1, <4>2
    <3> QED BY <3>2, <3>3
  <2>11. CASE DeliverReply
    <3>1. wire' \in Seq(Reqs)
      BY <2>11, HeadTailProperties DEF DeliverReply
    <3>2. CASE pending = <<>>
      BY <2>11, <3>1, <3>2 DEF DeliverReply
    <3>3. CASE pending # <<>>
      <4>1. Head(pending) \in Reqs /\ Tail(pending) \in Seq(Reqs)
        BY <3>3, HeadTailProperties
      <4>2. /\ \E a \in Results : answer' = [answer EXCEPT ![Head(pending)] = a]
            /\ answered' = Append(answered, Head(pending)) /\ pending' = Tail(pending)
            /\ UNCHANGED <<order, gate, chan, conn, script>>
        BY <2>11, <3>3 DEF DeliverReply
      <4> QED BY <2>0, <3>1, <4>1, <4>2
    <3> QED BY <3>2, <3>3
  <2>12. CASE ScriptDone
    BY <2>12, AppendProperties DEF ScriptDone
  <2>13. CASE Timeout
    BY <2>13, AppendProperties DEF Timeout
  <2>14. CASE IoError
    BY <2>14 DEF IoError
  <2>15. CASE FailNext
    <3>1. conn = "failing" /\ UNCHANGED <<gate, script, wire>>
      BY <2>15 DEF FailNext
    <3>2. CASE /\ pending # <<>>
               /\ Reply(Head(pending), "error") /\ pending' = Tail(pending)
               /\ UNCHANGED <<chan, conn, order>>
      BY <3>1, <3>2, HeadTailProperties, AppendProperties
    <3>3. CASE /\ pending = <<>> /\ chan # <<>>
               /\ Reply(Head(chan), "error") /\ chan' = Tail(chan)
               /\ UNCHANGED <<pending, conn, order>>
      BY <2>8, <3>1, <3>3, AppendProperties
    <3>4. CASE conn' = "backoff" /\ UNCHANGED <<pending, chan, hist>>
      BY <3>1, <3>4
    <3> HIDE DEF TypeOK, Reply
    <3> QED BY <2>15, <3>2, <3>3, <3>4 DEF FailNext
  <2>16. CASE UNCHANGED vars
    BY <2>16 DEF vars
  <2> HIDE DEF TypeOK
  <2> QED BY <2>1, <2>3, <2>4, <2>5, <2>6, <2>7, <2>9, <2>10, <2>11, <2>12, <2>13, <2>14,
             <2>15, <2>16 DEF Next, Gate, Supervisor
<1> QED BY <1>1, <1>2, PTL DEF Spec

-----------------------------------------------------------------------------
(* No request is forgotten, kept twice or answered out of turn              *)

Running == IF script = NoReq THEN {} ELSE {script}

\* What the supervisor side of the link still has to answer.
Live == Elems(pending) \cup Running \cup Elems(chan) \cup Elems(held)

\* The queues in series hold requests in the order they were accepted; what
\* the gate has expired is in none of them.
QueuesInv ==
    /\ Ascending(order, pending) /\ Ascending(order, chan) /\ Ascending(order, held)
    /\ Before(order, Elems(pending), Running \cup Elems(chan) \cup Elems(held))
    /\ Before(order, Running, Elems(chan) \cup Elems(held))
    /\ Before(order, Elems(chan), Elems(held))
    /\ Uniq(expired) /\ Elems(expired) \cap Live = {}

\* Between connections nothing is written, and a script runs on a live one only.
ConnInv ==
    /\ conn \in {"dialing", "backoff"} => pending = <<>>
    /\ conn # "up" => script = NoReq
    /\ script # NoReq => script \in Scripts /\ data_store # "Memcache"

\* A request's result says where it is.
PlaceInv ==
    /\ Uniq(order) /\ Elems(order) = {r \in Reqs : answer[r] \notin {"none", "refused"}}
    /\ Uniq(answered)
    /\ Elems(answered) = {r \in Reqs : answer[r] \notin {"none", "owed", "dropped"}}
    /\ {r \in Reqs : answer[r] = "owed"} = Live \cup Elems(expired)
    /\ flushing # NoReq => answer[flushing] = "none"
    /\ OnlyScriptsDropped

\* The requests whose answers are to come in order, and have come.
Served == {r \in Elems(answered) : answer[r] \notin {"refused", "expired"}}

\* What was answered was accepted before everything still to be answered, and
\* the answers came in the order of acceptance.
TurnInv ==
    /\ Before(order, Served, Live)
    /\ \A a, b \in DOMAIN answered :
          (a < b /\ answered[a] \in Served /\ answered[b] \in Served)
             => Prec(order, answered[a], answered[b])

AccountInv == TypeOK /\ QueuesInv /\ ConnInv /\ PlaceInv /\ TurnInv

\* What AccountInv says of the types, for the provers.
LEMMA AccountTypes ==
    AccountInv => /\ order \in Seq(Reqs) /\ answered \in Seq(Reqs)
                  /\ pending \in Seq(Reqs) /\ chan \in Seq(Reqs) /\ held \in Seq(Reqs)
                  /\ expired \in Seq(Reqs) /\ answer \in [Reqs -> Results]
                  /\ Live \subseteq Reqs /\ Elems(expired) \subseteq Reqs
                  /\ Running \subseteq Reqs
                  /\ Live \subseteq Elems(order) /\ Served \subseteq Elems(order)
<1> SUFFICES ASSUME AccountInv PROVE AccountTypes!2
  OBVIOUS
<1>1. /\ order \in Seq(Reqs) /\ answered \in Seq(Reqs)
      /\ pending \in Seq(Reqs) /\ chan \in Seq(Reqs) /\ held \in Seq(Reqs)
      /\ expired \in Seq(Reqs) /\ answer \in [Reqs -> Results]
      /\ script \in Reqs \cup {NoReq}
  BY DEF AccountInv, TypeOK
<1>2. Running \subseteq Reqs
  BY <1>1 DEF Running
<1>3. /\ Elems(pending) \subseteq Reqs /\ Elems(chan) \subseteq Reqs /\ Elems(held) \subseteq Reqs
      /\ Elems(expired) \subseteq Reqs /\ Elems(answered) \subseteq Reqs
  BY <1>1, ElemsIn
<1>4. Live \subseteq Elems(order) /\ Served \subseteq Elems(order)
  BY DEF AccountInv, PlaceInv, Served
<1> QED BY <1>1, <1>2, <1>3, <1>4 DEF Live

\* A request the gate accepts, to the channel or to the held queue: it is now
\* the last in the order of acceptance.
LEMMA Accepting ==
    ASSUME AccountInv, data_store' = data_store, NEW r \in Reqs, answer[r] = "none", Owed(r),
           Live' = Live \cup {r}, expired' = expired, flushing' = NoReq \/ flushing' = flushing,
           flushing' # r
    PROVE  /\ PlaceInv' /\ TurnInv' /\ r \notin Live \cup Elems(expired)
           /\ \A X, Y : Before(order, X, Y) => Before(order', X, Y)
           /\ \A s : Ascending(order, s) => Ascending(order', s)
           /\ Before(order', Live, {r})
<1> USE AccountTypes
<1>1. /\ answer' = [answer EXCEPT ![r] = "owed"] /\ order' = Append(order, r)
      /\ answered' = answered
  BY DEF Owed
<1>2. r \notin Elems(order) /\ r \notin Live \cup Elems(expired) /\ r \notin Elems(answered)
  BY DEF AccountInv, PlaceInv
<1>3. Uniq(order') /\ Elems(order') = Elems(order) \cup {r}
  BY <1>1, <1>2, ElemsAppend DEF AccountInv, PlaceInv
<1>4. /\ \A x, y : Prec(order, x, y) => Prec(order', x, y)
      /\ \A x \in Elems(order) : Prec(order', x, r)
  BY <1>1, PrecAppend
<1>5. /\ \A X, Y : Before(order, X, Y) => Before(order', X, Y)
      /\ \A s : Ascending(order, s) => Ascending(order', s)
  BY <1>4 DEF Before, Ascending
<1>6. Before(order', Live, {r}) /\ Before(order', Served, {r})
  BY <1>4 DEF Before
<1>7. \A q \in Reqs : answer'[q] = IF q = r THEN "owed" ELSE answer[q]
  BY <1>1
<1>8. PlaceInv'
  <2>1. Elems(order)' = {q \in Reqs : answer'[q] \notin {"none", "refused"}}
    BY <1>3, <1>7 DEF AccountInv, PlaceInv
  <2>2. Elems(answered)' = {q \in Reqs : answer'[q] \notin {"none", "owed", "dropped"}}
    BY <1>1, <1>2, <1>7 DEF AccountInv, PlaceInv
  <2>3. {q \in Reqs : answer'[q] = "owed"} = Live' \cup Elems(expired')
    BY <1>7 DEF AccountInv, PlaceInv
  <2>4. flushing' # NoReq => answer'[flushing'] = "none"
    BY <1>7, ReqsAssumption DEF AccountInv, PlaceInv, TypeOK
  <2>5. OnlyScriptsDropped'
    BY <1>7 DEF AccountInv, PlaceInv, OnlyScriptsDropped, IsScript
  <2>6. Uniq(answered)'
    BY <1>1 DEF AccountInv, PlaceInv
  <2> QED BY <1>3, <2>1, <2>2, <2>3, <2>4, <2>5, <2>6 DEF PlaceInv
<1>9. Served' = Served
  BY <1>1, <1>2, <1>7, ElemsIn DEF Served
<1>10. TurnInv'
  <2>1. Before(order', Served', Live')
    BY <1>5, <1>6, <1>9 DEF AccountInv, TurnInv, Before
  <2>2. \A a, b \in DOMAIN answered' :
           (a < b /\ answered'[a] \in Served' /\ answered'[b] \in Served')
              => Prec(order', answered'[a], answered'[b])
    BY <1>1, <1>4, <1>9 DEF AccountInv, TurnInv
  <2> QED BY <2>1, <2>2 DEF TurnInv
<1> QED BY <1>2, <1>5, <1>6, <1>8, <1>10

\* An answer that is not the turn of the request: the gate refuses it, or has
\* expired it.
LEMMA Declining ==
    ASSUME AccountInv, data_store' = data_store, NEW r \in Reqs, NEW a \in {"refused", "expired"}, Reply(r, a),
           a = "refused" => answer[r] = "none" /\ expired' = expired,
           a = "expired" => /\ r \in Elems(expired) /\ r \notin Live
                            /\ Elems(expired') = Elems(expired) \ {r},
           Live' = Live, order' = order, flushing' = NoReq \/ flushing' = flushing,
           a = "refused" => flushing' # r
    PROVE  PlaceInv' /\ TurnInv'
<1> USE AccountTypes
<1>1. answer' = [answer EXCEPT ![r] = a] /\ answered' = Append(answered, r)
  BY DEF Reply
<1>2. /\ r \notin Elems(answered) /\ r \notin Live
      /\ a = "expired" => r \in Elems(order) /\ answer[r] = "owed"
      /\ a = "refused" => r \notin Elems(order) /\ r \notin Elems(expired)
  BY DEF AccountInv, PlaceInv
<1>3. Uniq(answered') /\ Elems(answered') = Elems(answered) \cup {r}
  BY <1>1, <1>2, ElemsAppend DEF AccountInv, PlaceInv
<1>4. \A q \in Reqs : answer'[q] = IF q = r THEN a ELSE answer[q]
  BY <1>1
<1>5. PlaceInv'
  <2>1. Uniq(order') /\ Elems(order)' = {q \in Reqs : answer'[q] \notin {"none", "refused"}}
    BY <1>2, <1>4 DEF AccountInv, PlaceInv
  <2>2. Elems(answered)' = {q \in Reqs : answer'[q] \notin {"none", "owed", "dropped"}}
    BY <1>3, <1>4 DEF AccountInv, PlaceInv
  <2>3. {q \in Reqs : answer'[q] = "owed"} = Live' \cup Elems(expired')
    BY <1>2, <1>4 DEF AccountInv, PlaceInv
  <2>4. flushing' # NoReq => answer'[flushing'] = "none"
    BY <1>2, <1>4, ReqsAssumption DEF AccountInv, PlaceInv, TypeOK
  <2>5. OnlyScriptsDropped'
    BY <1>4 DEF AccountInv, PlaceInv, OnlyScriptsDropped, IsScript
  <2> QED BY <1>3, <2>1, <2>2, <2>3, <2>4, <2>5 DEF PlaceInv
<1>6. Served' = Served /\ r \notin Served'
  BY <1>2, <1>3, <1>4, ElemsIn DEF Served
<1>7. \A x, y \in DOMAIN answered' :
         (x < y /\ answered'[x] \in Served' /\ answered'[y] \in Served')
            => Prec(order', answered'[x], answered'[y])
  BY <1>1, <1>6, AppendLast DEF AccountInv, TurnInv
<1> QED BY <1>5, <1>6, <1>7 DEF AccountInv, TurnInv

\* The answer of the foremost request the supervisor side owes.
LEMMA Serving ==
    ASSUME AccountInv, data_store' = data_store, NEW r \in Live, NEW a \in {"own", "error", "crossed"}, Reply(r, a),
           Before(order, {r}, Live'), Live' = Live \ {r},
           order' = order, expired' = expired, flushing' = flushing
    PROVE  PlaceInv' /\ TurnInv'
<1> USE AccountTypes
<1>1. /\ answer' = [answer EXCEPT ![r] = a] /\ answered' = Append(answered, r)
      /\ r \in Reqs
  BY DEF Reply
<1>2. /\ r \notin Elems(answered) /\ r \notin Elems(expired) /\ r \in Elems(order)
      /\ answer[r] = "owed"
  BY <1>1 DEF AccountInv, PlaceInv, QueuesInv
<1>3. Uniq(answered') /\ Elems(answered') = Elems(answered) \cup {r}
  BY <1>1, <1>2, ElemsAppend DEF AccountInv, PlaceInv
<1>4. \A q \in Reqs : answer'[q] = IF q = r THEN a ELSE answer[q]
  BY <1>1
<1>5. PlaceInv'
  <2>1. Uniq(order') /\ Elems(order)' = {q \in Reqs : answer'[q] \notin {"none", "refused"}}
    BY <1>2, <1>4 DEF AccountInv, PlaceInv
  <2>2. Elems(answered)' = {q \in Reqs : answer'[q] \notin {"none", "owed", "dropped"}}
    BY <1>3, <1>4 DEF AccountInv, PlaceInv
  <2>3. {q \in Reqs : answer'[q] = "owed"} = Live' \cup Elems(expired')
    BY <1>2, <1>4 DEF AccountInv, PlaceInv
  <2>4. flushing' # NoReq => answer'[flushing'] = "none"
    BY <1>2, <1>4, ReqsAssumption DEF AccountInv, PlaceInv, TypeOK
  <2>5. OnlyScriptsDropped'
    BY <1>4 DEF AccountInv, PlaceInv, OnlyScriptsDropped, IsScript
  <2> QED BY <1>3, <2>1, <2>2, <2>3, <2>4, <2>5 DEF PlaceInv
<1>6. Served' = Served \cup {r}
  BY <1>2, <1>3, <1>4, ElemsIn DEF Served
<1>7. Before(order, Served, {r}) /\ r \notin Served
  BY <1>2 DEF AccountInv, TurnInv, Before, Served
<1>8. \A x, y \in DOMAIN answered' :
         (x < y /\ answered'[x] \in Served' /\ answered'[y] \in Served')
            => Prec(order', answered'[x], answered'[y])
  <2> SUFFICES ASSUME NEW x \in DOMAIN answered', NEW y \in DOMAIN answered', x < y,
                      answered'[x] \in Served', answered'[y] \in Served'
               PROVE  Prec(order, answered'[x], answered'[y])
    OBVIOUS
  <2>1. /\ x \in DOMAIN answered /\ answered'[x] = answered[x]
        /\ (y \in DOMAIN answered /\ answered'[y] = answered[y]) \/ answered'[y] = r
    BY <1>1, AppendLast
  <2>2. answered[x] # r
    BY <1>2, <2>1 DEF Elems
  <2> QED BY <1>6, <1>7, <2>1, <2>2 DEF AccountInv, TurnInv, Before
<1>9. Before(order', Served', Live')
  BY <1>6 DEF AccountInv, TurnInv, Before
<1> QED BY <1>5, <1>8, <1>9 DEF TurnInv

\* A step that only moves requests between the queues, to the expired ones, or
\* drops a script, leaves the turns as they are.
LEMMA Moving ==
    ASSUME AccountInv, data_store' = data_store, Live' \subseteq Live,
           UNCHANGED <<order, answered>>,
           flushing' = flushing \/ (flushing' # NoReq => answer'[flushing'] = "none"),
           \/ /\ answer' = answer
              /\ Live' \cup Elems(expired') = Live \cup Elems(expired)
           \/ /\ data_store # "Memcache"
              /\ \E s \in Scripts \cap Live : /\ answer' = [answer EXCEPT ![s] = "dropped"]
                                              /\ Live' = Live \ {s} /\ expired' = expired
    PROVE  PlaceInv' /\ TurnInv'
<1> USE AccountTypes
<1>1. CASE /\ answer' = answer
           /\ Live' \cup Elems(expired') = Live \cup Elems(expired)
  <2>1. PlaceInv'
    BY <1>1 DEF AccountInv, PlaceInv, OnlyScriptsDropped, IsScript
  <2>2. Served' = Served
    BY <1>1 DEF Served
  <2> QED BY <2>1, <2>2 DEF AccountInv, TurnInv, Before
<1>2. ASSUME NEW s \in Scripts \cap Live, data_store # "Memcache",
             answer' = [answer EXCEPT ![s] = "dropped"], Live' = Live \ {s}, expired' = expired
      PROVE  PlaceInv' /\ TurnInv'
  <2>1. \A q \in Reqs : answer'[q] = IF q = s THEN "dropped" ELSE answer[q]
    BY <1>2
  <2>2. s \in Reqs /\ answer[s] = "owed" /\ s \notin Elems(expired) /\ s \notin Elems(answered)
    BY <1>2 DEF AccountInv, PlaceInv, QueuesInv
  <2>3. PlaceInv'
    <3>1. Elems(order)' = {q \in Reqs : answer'[q] \notin {"none", "refused"}}
      BY <2>1, <2>2 DEF AccountInv, PlaceInv
    <3>2. Elems(answered)' = {q \in Reqs : answer'[q] \notin {"none", "owed", "dropped"}}
      BY <2>1, <2>2 DEF AccountInv, PlaceInv
    <3>3. {q \in Reqs : answer'[q] = "owed"} = Live' \cup Elems(expired')
      BY <1>2, <2>1, <2>2 DEF AccountInv, PlaceInv
    <3>4. flushing' # NoReq => answer'[flushing'] = "none"
      BY <2>1, <2>2, ReqsAssumption DEF AccountInv, PlaceInv, TypeOK
    <3>5. OnlyScriptsDropped'
      BY <1>2, <2>1 DEF AccountInv, PlaceInv, OnlyScriptsDropped, IsScript
    <3> QED BY <3>1, <3>2, <3>3, <3>4, <3>5 DEF AccountInv, PlaceInv
  <2>4. Served' = Served
    BY <2>1, <2>2, ElemsIn DEF Served
  <2> QED BY <2>3, <2>4 DEF AccountInv, TurnInv, Before
<1> QED BY <1>1, <1>2

\* What is accepted, with every answer due before it: AccountInv gives the
\* property.
LEMMA AccountsKept == AccountInv => RequestsAccounted
<1> SUFFICES ASSUME AccountInv PROVE RequestsAccounted
  OBVIOUS
<1> USE AccountTypes
<1>1. \A x, y : Prec(order, x, y) => x # y /\ ~Prec(order, y, x)
  BY PrecFacts DEF AccountInv, PlaceInv
<1>2. HeldOnce
  <2> DEFINE run == IF script = NoReq THEN <<>> ELSE <<script>>
  <2>1. run \in Seq(Reqs) /\ Elems(run) = Running /\ Uniq(run)
    BY DEF AccountInv, TypeOK, Running, Elems, Uniq
  <2>2. /\ Uniq(pending) /\ Uniq(chan) /\ Uniq(held) /\ Uniq(expired)
    BY AscendingUniq DEF AccountInv, PlaceInv, QueuesInv
  <2> HIDE DEF run
  <2>3. /\ Elems(pending) \cap (Running \cup Elems(chan) \cup Elems(held)) = {}
        /\ Running \cap (Elems(chan) \cup Elems(held)) = {}
        /\ Elems(chan) \cap Elems(held) = {}
    BY <1>1 DEF AccountInv, QueuesInv, Before
  <2>4. Elems(expired) \cap Live = {}
    BY DEF AccountInv, QueuesInv
  <2> DEFINE front == pending \o run
             queued == front \o chan
             whole == queued \o held
  <2>5. front \in Seq(Reqs) /\ Uniq(front) /\ Elems(front) = Elems(pending) \cup Running
    BY <2>1, <2>2, <2>3, UniqConcat
  <2> HIDE DEF front
  <2>6. queued \in Seq(Reqs) /\ Uniq(queued) /\ Elems(queued) = Elems(front) \cup Elems(chan)
    BY <2>2, <2>3, <2>5, UniqConcat
  <2> HIDE DEF queued
  <2>7. whole \in Seq(Reqs) /\ Uniq(whole) /\ Elems(whole) = Live
    BY <2>2, <2>3, <2>5, <2>6, UniqConcat DEF Live
  <2> HIDE DEF whole
  <2>8. Uniq(whole \o expired) /\ Elems(whole \o expired) = Live \cup Elems(expired)
    BY <2>2, <2>4, <2>7, UniqConcat
  <2>9. Holding = whole \o expired
    BY DEF Holding, whole, queued, front, run
  <2>10. Uniq(Holding) /\ Elems(Holding) = {r \in Reqs : answer[r] = "owed"}
    BY <2>8, <2>9 DEF AccountInv, PlaceInv
  <2> QED BY <2>10 DEF HeldOnce, Uniq, Elems
<1>3. OnlyScriptsDropped
  BY DEF AccountInv, PlaceInv
<1>4. AnsweredInOrder
  <2> DEFINE expiring == {expired[i] : i \in DOMAIN expired}
             due(r) == answer[r] \notin {"dropped", "expired"} /\ r \notin expiring
  <2>1. \A a, b \in DOMAIN answered : answered[a] = answered[b] => a = b
    BY DEF AccountInv, PlaceInv, Uniq
  <2>2. ASSUME NEW b \in DOMAIN answered
        PROVE  answer[answered[b]] = "refused" \/ \E j \in DOMAIN order : order[j] = answered[b]
    <3>1. answered[b] \in Elems(answered)
      BY DEF Elems
    <3>2. answer[answered[b]] = "refused" \/ answered[b] \in Elems(order)
      BY <3>1 DEF AccountInv, PlaceInv
    <3> QED BY <3>2 DEF Elems
  <2>3. ASSUME NEW i \in DOMAIN order, NEW j \in DOMAIN order, NEW b \in DOMAIN answered,
               i < j, due(order[i]), due(order[j]), answered[b] = order[j]
        PROVE  \E a \in 1..(b - 1) : answered[a] = order[i]
    <3>1. Prec(order, order[i], order[j])
      BY <2>3 DEF Prec
    <3>2. ~Prec(order, order[j], order[i]) /\ order[i] # order[j]
      BY <1>1, <3>1
    <3>3. order[i] \in Elems(order) /\ order[j] \in Elems(order) /\ order[j] \in Elems(answered)
      BY <2>3 DEF Elems
    <3>4. order[j] \in Served
      BY <2>3, <3>3 DEF AccountInv, PlaceInv, Served
    <3>5. order[i] \notin Live
      BY <3>2, <3>4 DEF AccountInv, TurnInv, Before
    <3>6. order[i] \notin Elems(expired)
      BY <2>3 DEF Elems
    <3>7. order[i] \in Elems(answered) /\ order[i] \in Served
      BY <2>3, <3>3, <3>5, <3>6 DEF AccountInv, PlaceInv, Served
    <3>8. PICK a \in DOMAIN answered : answered[a] = order[i]
      BY <3>7 DEF Elems
    <3>9. DOMAIN answered = 1..Len(answered) /\ Len(answered) \in Nat
      BY LenProperties
    <3>10. ~(b < a)
      BY <2>3, <3>2, <3>4, <3>7, <3>8 DEF AccountInv, TurnInv
    <3>11. a # b
      BY <2>3, <3>2, <3>8
    <3> QED BY <3>8, <3>9, <3>10, <3>11
  <2> HIDE DEF due
  <2>4. \A i, j \in DOMAIN order, b \in DOMAIN answered :
           (i < j /\ due(order[i]) /\ due(order[j]) /\ answered[b] = order[j])
              => \E a \in 1..(b - 1) : answered[a] = order[i]
    BY <2>3
  <2> QED BY <2>1, <2>2, <2>4, Zenon DEF AnsweredInOrder, due
<1> QED BY <1>2, <1>3, <1>4 DEF RequestsAccounted

\* The gate's three ends of a send: the request joins the channel, joins the
\* held queue, or is turned away.
LEMMA JoinsChannel ==
    ASSUME AccountInv, TypeOK', data_store' = data_store, NEW r \in Reqs, answer[r] = "none", Owed(r),
           chan' = Append(chan, r), held = <<>>, held' = held,
           UNCHANGED <<expired, sup>>, flushing' = NoReq \/ flushing' = flushing,
           flushing' # r
    PROVE  AccountInv'
<1> USE AccountTypes
<1>1. UNCHANGED <<conn, pending, script, wire>>
  BY DEF sup
<1>2. Elems(chan') = Elems(chan) \cup {r} /\ Elems(held) = {}
  BY ElemsAppend, ElemsEmpty
<1>3. Live' = Live \cup {r} /\ Running' = Running
  BY <1>1, <1>2 DEF Live, Running
<1>4. /\ PlaceInv' /\ TurnInv' /\ r \notin Live \cup Elems(expired)
      /\ \A X, Y : Before(order, X, Y) => Before(order', X, Y)
      /\ \A s : Ascending(order, s) => Ascending(order', s)
      /\ Before(order', Live, {r})
  BY <1>3, Accepting
<1>5. Ascending(order', chan')
  <2>1. Ascending(order', chan) /\ Before(order', Elems(chan), {r})
    BY <1>4 DEF AccountInv, QueuesInv, Before, Live
  <2> QED BY <2>1, AscendingAppend
<1>6. QueuesInv'
  <2>1. Ascending(order', pending') /\ Ascending(order', held')
    BY <1>1, <1>4 DEF AccountInv, QueuesInv
  <2>2. /\ Before(order', Elems(pending'), Running' \cup Elems(chan') \cup Elems(held'))
        /\ Before(order', Running', Elems(chan') \cup Elems(held'))
        /\ Before(order', Elems(chan'), Elems(held'))
    BY <1>1, <1>2, <1>3, <1>4 DEF AccountInv, QueuesInv, Before, Live
  <2>3. Uniq(expired') /\ Elems(expired') \cap Live' = {}
    BY <1>3, <1>4 DEF AccountInv, QueuesInv
  <2> QED BY <1>5, <2>1, <2>2, <2>3 DEF QueuesInv
<1> QED BY <1>1, <1>4, <1>6 DEF AccountInv, ConnInv

LEMMA JoinsHeld ==
    ASSUME AccountInv, TypeOK', data_store' = data_store, NEW r \in Reqs, answer[r] = "none", Owed(r),
           held' = Append(held, r), chan' = chan,
           UNCHANGED <<expired, sup>>, flushing' = NoReq \/ flushing' = flushing,
           flushing' # r
    PROVE  AccountInv'
<1> USE AccountTypes
<1>1. UNCHANGED <<conn, pending, script, wire>>
  BY DEF sup
<1>2. Elems(held') = Elems(held) \cup {r}
  BY ElemsAppend
<1>3. Live' = Live \cup {r} /\ Running' = Running
  BY <1>1, <1>2 DEF Live, Running
<1>4. /\ PlaceInv' /\ TurnInv' /\ r \notin Live \cup Elems(expired)
      /\ \A X, Y : Before(order, X, Y) => Before(order', X, Y)
      /\ \A s : Ascending(order, s) => Ascending(order', s)
      /\ Before(order', Live, {r})
  BY <1>3, Accepting
<1>5. Ascending(order', held')
  <2>1. Ascending(order', held) /\ Before(order', Elems(held), {r})
    BY <1>4 DEF AccountInv, QueuesInv, Before, Live
  <2> QED BY <2>1, AscendingAppend
<1>6. QueuesInv'
  <2>1. Ascending(order', pending') /\ Ascending(order', chan')
    BY <1>1, <1>4 DEF AccountInv, QueuesInv
  <2>2. /\ Before(order', Elems(pending'), Running' \cup Elems(chan') \cup Elems(held'))
        /\ Before(order', Running', Elems(chan') \cup Elems(held'))
        /\ Before(order', Elems(chan'), Elems(held'))
    BY <1>1, <1>2, <1>3, <1>4 DEF AccountInv, QueuesInv, Before, Live
  <2>3. Uniq(expired') /\ Elems(expired') \cap Live' = {}
    BY <1>3, <1>4 DEF AccountInv, QueuesInv
  <2> QED BY <1>5, <2>1, <2>2, <2>3 DEF QueuesInv
<1> QED BY <1>1, <1>4, <1>6 DEF AccountInv, ConnInv

LEMMA TurnedAway ==
    ASSUME AccountInv, TypeOK', data_store' = data_store, NEW r \in Reqs, answer[r] = "none", Reply(r, "refused"),
           UNCHANGED <<chan, held, order, expired, sup>>,
           flushing' = NoReq \/ flushing' = flushing, flushing' # r
    PROVE  AccountInv'
<1>1. UNCHANGED <<conn, pending, script, wire>>
  BY DEF sup
<1>2. Live' = Live /\ Running' = Running
  BY <1>1 DEF Live, Running
<1>3. PlaceInv' /\ TurnInv'
  BY <1>2, Declining
<1> QED BY <1>1, <1>2, <1>3 DEF AccountInv, ConnInv, QueuesInv

\* The supervisor answers the foremost request it owes: the oldest written one,
\* or the oldest queued one when nothing is written.
LEMMA AnswersPending ==
    ASSUME AccountInv, TypeOK', data_store' = data_store, pending # <<>>, NEW a \in {"own", "error", "crossed"},
           Reply(Head(pending), a), pending' = Tail(pending),
           UNCHANGED <<gate, chan, conn, script, order>>
    PROVE  AccountInv'
<1> USE AccountTypes
<1>1. /\ Head(pending) \in Reqs /\ Elems(pending) = {Head(pending)} \cup Elems(pending')
      /\ Ascending(order, pending') /\ Before(order, {Head(pending)}, Elems(pending'))
  BY ElemsTail, AscendingTail DEF AccountInv, QueuesInv
<1>2. \A x, y : Prec(order, x, y) => x # y
  BY PrecFacts DEF AccountInv, PlaceInv
<1>3. UNCHANGED <<held, flushing, expired>> /\ Running' = Running
  BY DEF gate, Running
<1>4. Before(order, {Head(pending)}, Live') /\ Head(pending) \in Live
  BY <1>1, <1>3 DEF AccountInv, QueuesInv, Before, Live
<1>5. Live' = Live \ {Head(pending)}
  BY <1>1, <1>2, <1>3, <1>4 DEF Live, Before
<1>6. PlaceInv' /\ TurnInv'
  BY <1>3, <1>4, <1>5, Serving
<1>7. QueuesInv'
  BY <1>1, <1>3, <1>5 DEF AccountInv, QueuesInv, Before
<1>8. ConnInv'
  BY <1>1 DEF AccountInv, ConnInv
<1> QED BY <1>6, <1>7, <1>8 DEF AccountInv

LEMMA AnswersQueued ==
    ASSUME AccountInv, TypeOK', data_store' = data_store, pending = <<>>, script = NoReq, chan # <<>>,
           Reply(Head(chan), "error"), chan' = Tail(chan),
           UNCHANGED <<gate, conn, pending, script, order>>
    PROVE  AccountInv'
<1> USE AccountTypes
<1>1. /\ Head(chan) \in Reqs /\ Elems(chan) = {Head(chan)} \cup Elems(chan')
      /\ Ascending(order, chan') /\ Before(order, {Head(chan)}, Elems(chan'))
  BY ElemsTail, AscendingTail DEF AccountInv, QueuesInv
<1>2. \A x, y : Prec(order, x, y) => x # y
  BY PrecFacts DEF AccountInv, PlaceInv
<1>3. /\ UNCHANGED <<held, flushing, expired>> /\ Running' = {} /\ Running = {}
      /\ Elems(pending) = {}
  BY ElemsEmpty DEF gate, Running
<1>4. Before(order, {Head(chan)}, Live') /\ Head(chan) \in Live
  BY <1>1, <1>3 DEF AccountInv, QueuesInv, Before, Live
<1>5. Live' = Live \ {Head(chan)}
  BY <1>1, <1>2, <1>3, <1>4 DEF Live, Before
<1>6. PlaceInv' /\ TurnInv'
  BY <1>3, <1>4, <1>5, Serving
<1>7. QueuesInv'
  BY <1>1, <1>3, <1>5 DEF AccountInv, QueuesInv, Before
<1> QED BY <1>6, <1>7 DEF AccountInv, ConnInv

\* Nothing is accepted or answered at first.
LEMMA AccountInit == Init => AccountInv
<1> SUFFICES ASSUME Init PROVE AccountInv
  OBVIOUS
<1>1. TypeOK
  BY ReqsAssumption, ChannelCapAssumption DEF Init, TypeOK, Results
<1>2. Elems(pending) = {} /\ Elems(chan) = {} /\ Elems(held) = {} /\ Elems(expired) = {}
      /\ Running = {} /\ Live = {} /\ Elems(order) = {} /\ Elems(answered) = {} /\ Served = {}
  BY ElemsEmpty DEF Init, Running, Live, Served
<1>3. QueuesInv
  BY <1>2, ElemsEmpty DEF Init, QueuesInv, Ascending, Before
<1>4. PlaceInv
  BY <1>2, ElemsEmpty DEF Init, PlaceInv, OnlyScriptsDropped, IsScript
<1>5. TurnInv
  BY <1>2 DEF Init, TurnInv, Before
<1> QED BY <1>1, <1>3, <1>4, <1>5 DEF AccountInv, ConnInv, Init

\* Every step keeps the accounts.
LEMMA AccountStep == AccountInv /\ TypeOK' /\ [Next]_vars => AccountInv'
<1> SUFFICES ASSUME AccountInv, TypeOK', [Next]_vars PROVE AccountInv'
  OBVIOUS
<1>c. data_store' = data_store
  BY ConfKept
<1> USE AccountTypes, ReqsAssumption, <1>c
<1>0. flushing # NoReq => flushing \in Reqs /\ answer[flushing] = "none"
  BY DEF AccountInv, TypeOK, PlaceInv
<1>1. ASSUME UNCHANGED <<held, flushing, expired, chan, pending, script, hist>>, ConnInv'
      PROVE  AccountInv'
  <2>1. Live' = Live /\ Running' = Running
    BY <1>1 DEF Live, Running
  <2>2. UNCHANGED <<answer, order, answered>>
    BY <1>1 DEF hist
  <2>3. PlaceInv' /\ TurnInv'
    BY <1>1, <2>1, <2>2, Moving
  <2> QED BY <1>1, <2>1, <2>2, <2>3 DEF AccountInv, QueuesInv
<1>2. ASSUME NEW s \in DynStates, SetState(s) PROVE AccountInv'
  <2>1. UNCHANGED <<held, flushing, expired, chan, sup, hist>>
    BY <1>2 DEF SetState
  <2> QED BY <1>1, <2>1 DEF sup, AccountInv, ConnInv
<1>3. ASSUME NEW r \in Reqs, Send(r) PROVE AccountInv'
  <2>1. answer[r] = "none" /\ flushing = NoReq /\ UNCHANGED <<state, expired, sup>>
    BY <1>3 DEF Send
  <2>2. CASE Reply(r, "refused") /\ UNCHANGED <<held, flushing, chan, order>>
    BY <2>1, <2>2, TurnedAway
  <2>3. CASE held = <<>> /\ TrySend(r) /\ UNCHANGED <<held, flushing>>
    <3>1. CASE Room
      BY <2>1, <2>3, <3>1, JoinsChannel DEF TrySend
    <3>2. CASE ~Room
      BY <2>1, <2>3, <3>2, TurnedAway DEF TrySend
    <3> QED BY <3>1, <3>2
  <2>4. CASE held' = Append(held, r) /\ Owed(r) /\ UNCHANGED <<flushing, chan>>
    BY <2>1, <2>4, JoinsHeld
  <2>5. CASE flushing' = r /\ UNCHANGED <<held, chan, hist>>
    <3>1. UNCHANGED <<pending, script, conn, answer, order, answered>>
      BY <2>1, <2>5 DEF sup, hist
    <3>2. Live' = Live /\ Running' = Running
      BY <2>5, <3>1 DEF Live, Running
    <3>3. PlaceInv' /\ TurnInv'
      BY <2>1, <2>5, <3>1, <3>2, Moving
    <3> QED BY <2>1, <2>5, <3>1, <3>2, <3>3 DEF AccountInv, QueuesInv, ConnInv
  <2> QED BY <1>3, <2>2, <2>3, <2>4, <2>5 DEF Send
<1>4. CASE Flush
  <2>1. flushing # NoReq /\ UNCHANGED <<state, expired, sup>>
    BY <1>4 DEF Flush
  <2>2. CASE /\ held # <<>> /\ chan' = Append(chan, Head(held)) /\ held' = Tail(held)
             /\ UNCHANGED <<flushing, hist>>
    <3>1. UNCHANGED <<pending, script, conn, answer, order, answered>>
      BY <2>1, <2>2 DEF sup, hist
    <3>2. /\ Head(held) \in Reqs /\ Elems(held) = {Head(held)} \cup Elems(held')
          /\ Ascending(order, held') /\ Before(order, {Head(held)}, Elems(held'))
      BY <2>2, ElemsTail, AscendingTail DEF AccountInv, QueuesInv
    <3>3. Elems(chan') = Elems(chan) \cup {Head(held)} /\ Ascending(order, chan')
      <4>1. Before(order, Elems(chan), {Head(held)})
        BY <3>2 DEF AccountInv, QueuesInv, Before
      <4>2. Ascending(order, chan)
        BY DEF AccountInv, QueuesInv
      <4>3. Elems(chan') = Elems(chan) \cup {Head(held)}
        BY <2>2, <3>2, ElemsAppend
      <4> QED BY <2>2, <3>2, <4>1, <4>2, <4>3, AscendingAppend
    <3>4. Live' = Live /\ Running' = Running
      BY <3>1, <3>2, <3>3 DEF Live, Running
    <3>5. PlaceInv' /\ TurnInv'
      BY <2>1, <2>2, <3>1, <3>4, Moving
    <3>6. QueuesInv'
      BY <2>1, <3>1, <3>2, <3>3, <3>4 DEF AccountInv, QueuesInv, Before
    <3> QED BY <3>1, <3>5, <3>6 DEF AccountInv, ConnInv
  <2>3. CASE /\ held' = Append(held, flushing) /\ Owed(flushing)
             /\ flushing' = NoReq /\ UNCHANGED chan
    BY <1>0, <2>1, <2>3, JoinsHeld
  <2>4. CASE held = <<>> /\ TrySend(flushing) /\ flushing' = NoReq /\ UNCHANGED held
    <3>1. CASE Room
      BY <1>0, <2>1, <2>4, <3>1, JoinsChannel DEF TrySend
    <3>2. CASE ~Room
      BY <1>0, <2>1, <2>4, <3>2, TurnedAway DEF TrySend
    <3> QED BY <3>1, <3>2
  <2> QED BY <1>4, <2>2, <2>3, <2>4 DEF Flush
<1>5. CASE ExpireHeld
  <2>1. /\ expired = <<>> /\ expired' = held /\ held' = <<>>
        /\ UNCHANGED <<flushing, chan, pending, script, conn, answer, order, answered>>
    BY <1>5 DEF ExpireHeld, sup, hist
  <2>2. Elems(held') = {} /\ Elems(expired) = {} /\ Elems(expired') = Elems(held)
    BY <2>1, ElemsEmpty
  <2>3. Live = Live' \cup Elems(held) /\ Running' = Running
    BY <2>1, <2>2 DEF Live, Running
  <2>4. \A x, y : Prec(order, x, y) => x # y
    BY PrecFacts DEF AccountInv, PlaceInv
  <2>5. Elems(expired') \cap Live' = {}
    BY <2>1, <2>2, <2>4 DEF AccountInv, QueuesInv, Before, Live, Running
  <2>6. Uniq(expired')
    BY <2>1, AscendingUniq DEF AccountInv, QueuesInv, PlaceInv
  <2>7. PlaceInv' /\ TurnInv'
    BY <2>1, <2>2, <2>3, Moving
  <2>8. QueuesInv'
    BY <2>1, <2>2, <2>3, <2>5, <2>6 DEF AccountInv, QueuesInv, Before, Ascending
  <2> QED BY <2>1, <2>7, <2>8 DEF AccountInv, ConnInv
<1>6. CASE AnswerExpired
  <2>1. /\ expired # <<>> /\ Reply(Head(expired), "expired") /\ expired' = Tail(expired)
        /\ UNCHANGED <<held, flushing, chan, pending, script, conn, order>>
    BY <1>6 DEF AnswerExpired, sup
  <2>2. /\ Head(expired) \in Reqs /\ Elems(expired) = {Head(expired)} \cup Elems(expired')
        /\ Uniq(expired') /\ Head(expired) \notin Elems(expired')
    BY <2>1, ElemsTail DEF AccountInv, QueuesInv
  <2>3. Live' = Live /\ Running' = Running
    BY <2>1 DEF Live, Running
  <2>4. Head(expired) \notin Live /\ Elems(expired') = Elems(expired) \ {Head(expired)}
    BY <2>2 DEF AccountInv, QueuesInv
  <2>5. PlaceInv' /\ TurnInv'
    BY <2>1, <2>2, <2>3, <2>4, Declining
  <2>6. QueuesInv'
    BY <2>1, <2>2, <2>3 DEF AccountInv, QueuesInv
  <2> QED BY <2>1, <2>5, <2>6 DEF AccountInv, ConnInv
<1>7. CASE DialOk \/ DialFailed \/ BackoffOver
  <2>1. /\ UNCHANGED <<held, flushing, expired, chan, script, hist>>
        /\ pending = <<>> /\ pending' = <<>> /\ script = NoReq
    BY <1>7 DEF DialOk, DialFailed, BackoffOver, gate, AccountInv, ConnInv
  <2> QED BY <1>1, <2>1 DEF ConnInv
<1>8. CASE ServeError
  <2>1. /\ pending = <<>> /\ script = NoReq /\ chan # <<>>
        /\ Reply(Head(chan), "error") /\ chan' = Tail(chan)
        /\ UNCHANGED <<gate, conn, pending, script, order>>
    BY <1>8 DEF ServeError, AccountInv, ConnInv, sup
  <2> QED BY <2>1, AnswersQueued
<1>9. CASE Recv
  <2>1. /\ conn = "up" /\ script = NoReq /\ chan # <<>> /\ chan' = Tail(chan)
        /\ UNCHANGED <<held, flushing, expired, conn, answer, order, answered>>
    BY <1>9 DEF Recv, gate, hist
  <2>2. /\ Head(chan) \in Reqs /\ Elems(chan) = {Head(chan)} \cup Elems(chan')
        /\ Ascending(order, chan') /\ Before(order, {Head(chan)}, Elems(chan'))
    BY <2>1, ElemsTail, AscendingTail DEF AccountInv, QueuesInv
  <2>3. Running = {}
    BY <2>1 DEF Running
  <2>4. CASE IsScript(Head(chan))
    <3>1. script' = Head(chan) /\ pending' = pending /\ Running' = {Head(chan)}
      BY <1>9, <2>2, <2>4 DEF Recv, Running
    <3>2. Live' = Live
      BY <2>1, <2>2, <2>3, <3>1 DEF Live
    <3>3. PlaceInv' /\ TurnInv'
      BY <2>1, <3>2, Moving
    <3>4. QueuesInv'
      BY <2>1, <2>2, <3>1, <3>2 DEF AccountInv, QueuesInv, Before
    <3> QED BY <2>1, <2>4, <3>1, <3>3, <3>4 DEF AccountInv, ConnInv, IsScript
  <2>5. CASE ~IsScript(Head(chan))
    <3>1. script' = script /\ pending' = Append(pending, Head(chan)) /\ Running' = {}
      BY <1>9, <2>1, <2>5 DEF Recv, Running
    <3>2. /\ Elems(pending') = Elems(pending) \cup {Head(chan)}
          /\ Ascending(order, pending')
      <4>1. Before(order, Elems(pending), {Head(chan)})
        BY <2>2 DEF AccountInv, QueuesInv, Before
      <4>2. Ascending(order, pending)
        BY DEF AccountInv, QueuesInv
      <4>3. Elems(pending') = Elems(pending) \cup {Head(chan)}
        BY <2>2, <3>1, ElemsAppend
      <4> QED BY <2>2, <3>1, <4>1, <4>2, <4>3, AscendingAppend
    <3>3. Live' = Live
      BY <2>1, <2>2, <2>3, <3>1, <3>2 DEF Live
    <3>4. PlaceInv' /\ TurnInv'
      BY <2>1, <3>3, Moving
    <3>5. QueuesInv'
      BY <2>1, <2>2, <3>1, <3>2, <3>3 DEF AccountInv, QueuesInv, Before
    <3> QED BY <2>1, <3>1, <3>4, <3>5 DEF AccountInv, ConnInv
  <2> QED BY <2>4, <2>5
<1>10. CASE DeliverReply
  <2>1. conn = "up" /\ UNCHANGED <<gate, chan, conn, script>>
    BY <1>10 DEF DeliverReply
  <2>2. CASE pending = <<>>
    <3>1. UNCHANGED <<pending, hist>>
      BY <1>10, <2>2 DEF DeliverReply
    <3> QED BY <1>1, <2>1, <3>1 DEF gate, AccountInv, ConnInv
  <2>3. CASE pending # <<>>
    <3>1. /\ \E a \in {"own", "error", "crossed"} : Reply(Head(pending), a)
          /\ pending' = Tail(pending) /\ order' = order
      BY <1>10, <2>3 DEF DeliverReply
    <3> QED BY <2>1, <2>3, <3>1, AnswersPending
  <2> QED BY <2>2, <2>3
<1>11. CASE ScriptDone
  <2>1. /\ conn = "up" /\ script # NoReq /\ pending = <<>> /\ Reply(script, "own")
        /\ script' = NoReq
        /\ UNCHANGED <<held, flushing, expired, chan, conn, pending, order>>
    BY <1>11 DEF ScriptDone, gate
  <2>2. Running = {script} /\ Running' = {} /\ Elems(pending) = {}
    BY <2>1, ElemsEmpty DEF Running
  <2>3. \A x, y : Prec(order, x, y) => x # y
    BY PrecFacts DEF AccountInv, PlaceInv
  <2>4. Before(order, {script}, Live') /\ script \in Live
    BY <2>1, <2>2 DEF AccountInv, QueuesInv, Before, Live
  <2>5. Live' = Live \ {script}
    BY <2>1, <2>2, <2>3, <2>4 DEF Live, Before
  <2>6. PlaceInv' /\ TurnInv'
    BY <2>1, <2>4, <2>5, Serving
  <2>7. QueuesInv'
    BY <2>1, <2>2, <2>5 DEF AccountInv, QueuesInv, Before
  <2> QED BY <2>1, <2>6, <2>7 DEF AccountInv, ConnInv
<1>12. CASE Timeout
  <2>1. /\ conn' = "failing" /\ script' = NoReq
        /\ pending' = IF script # NoReq THEN Append(pending, script) ELSE pending
        /\ UNCHANGED <<held, flushing, expired, chan, answer, order, answered>>
    BY <1>12 DEF Timeout, gate, hist
  <2>2. /\ Elems(pending') = Elems(pending) \cup Running /\ Running' = {}
        /\ Ascending(order, pending')
    <3>1. CASE script = NoReq
      BY <2>1, <3>1 DEF Running, AccountInv, QueuesInv
    <3>2. CASE script # NoReq
      <4>1. script \in Reqs /\ Running = {script} /\ Before(order, Elems(pending), {script})
        BY <3>2 DEF Running, AccountInv, QueuesInv, Before, TypeOK
      <4>2. Ascending(order, pending) /\ pending' = Append(pending, script)
        BY <2>1, <3>2 DEF AccountInv, QueuesInv
      <4>3. Elems(pending') = Elems(pending) \cup {script}
        BY <4>1, <4>2, ElemsAppend
      <4>4. Ascending(order, pending')
        BY <4>1, <4>2, AscendingAppend
      <4> QED BY <2>1, <4>1, <4>3, <4>4 DEF Running
    <3> QED BY <3>1, <3>2
  <2>3. Live' = Live
    BY <2>1, <2>2 DEF Live
  <2>4. PlaceInv' /\ TurnInv'
    BY <2>1, <2>3, Moving
  <2>5. QueuesInv'
    BY <2>1, <2>2, <2>3 DEF AccountInv, QueuesInv, Before
  <2> QED BY <2>1, <2>4, <2>5 DEF AccountInv, ConnInv
<1>13. CASE IoError
  <2>1. /\ conn' = "failing" /\ script' = NoReq
        /\ answer' = IF script # NoReq THEN [answer EXCEPT ![script] = "dropped"] ELSE answer
        /\ UNCHANGED <<held, flushing, expired, chan, pending, order, answered>>
    BY <1>13 DEF IoError, gate
  <2>2. CASE script = NoReq
    BY <1>1, <2>1, <2>2 DEF hist, ConnInv
  <2>3. CASE script # NoReq
    <3>1. /\ Running = {script} /\ Running' = {} /\ script \in Scripts
          /\ data_store # "Memcache"
      BY <2>1, <2>3 DEF Running, AccountInv, ConnInv
    <3>2. \A x, y : Prec(order, x, y) => x # y
      BY PrecFacts DEF AccountInv, PlaceInv
    <3>3. script \in Live /\ script \notin Elems(pending) \cup Elems(chan) \cup Elems(held)
      BY <3>1, <3>2 DEF AccountInv, QueuesInv, Before, Live
    <3>4. Live' = Live \ {script}
      BY <2>1, <3>1, <3>3 DEF Live
    <3>5. PlaceInv' /\ TurnInv'
      BY <2>1, <2>3, <3>1, <3>3, <3>4, Moving
    <3>6. QueuesInv'
      BY <2>1, <3>1, <3>4 DEF AccountInv, QueuesInv, Before
    <3> QED BY <2>1, <3>5, <3>6 DEF AccountInv, ConnInv
  <2> QED BY <2>2, <2>3
<1>14. CASE FailNext
  <2>1. conn = "failing" /\ script = NoReq /\ UNCHANGED <<gate, script, wire>>
    BY <1>14 DEF FailNext, AccountInv, ConnInv
  <2>2. CASE /\ pending # <<>>
             /\ Reply(Head(pending), "error") /\ pending' = Tail(pending)
             /\ UNCHANGED <<chan, conn, order>>
    BY <2>1, <2>2, AnswersPending
  <2>3. CASE /\ pending = <<>> /\ chan # <<>>
             /\ Reply(Head(chan), "error") /\ chan' = Tail(chan)
             /\ UNCHANGED <<pending, conn, order>>
    BY <2>1, <2>3, AnswersQueued
  <2>4. CASE /\ pending = <<>> /\ conn' = "backoff" /\ UNCHANGED <<pending, chan, hist>>
    BY <1>1, <2>1, <2>4 DEF gate, ConnInv
  <2> QED BY <1>14, <2>2, <2>3, <2>4 DEF FailNext
<1>15. CASE UNCHANGED vars
  BY <1>1, <1>15 DEF vars, gate, sup, AccountInv, ConnInv
<1> QED BY <1>2, <1>3, <1>4, <1>5, <1>6, <1>7, <1>8, <1>9, <1>10, <1>11, <1>12, <1>13,
           <1>14, <1>15 DEF Next, Gate, Supervisor

\* No request is forgotten, kept twice, dropped without being a script, or
\* answered twice or out of turn, whatever the node's state, the held queue, the
\* expiry and the connection do (LocalBackend, run_one_backend_conn,
\* fail_backend_requests), for any requests and channel capacity.
THEOREM RequestsAreAccounted == Spec => []RequestsAccounted
BY AccountInit, AccountStep, AccountsKept, TypeCorrect, PTL DEF Spec

-----------------------------------------------------------------------------
(* Replies are not crossed                                                  *)

\* The inductive invariant.  Without a muted request among the pending ones the
\* wire holds exactly these; with one, every request written before it still has
\* its own reply at its own place, everything behind it is muted, and fewer
\* replies are to come than are owed, so that the pending queue does not run
\* empty with the shift still in the connection.
Aligned ==
    /\ \A i \in DOMAIN pending :
          pending[i] \notin muted => i \in DOMAIN wire /\ wire[i] = pending[i]
    /\ \A i, j \in DOMAIN pending : i < j /\ pending[i] \in muted => pending[j] \in muted
    /\ IF \E i \in DOMAIN pending : pending[i] \in muted
       THEN Len(wire) < Len(pending) ELSE wire = pending

WireInv ==
    /\ IF conn = "up" THEN Aligned ELSE wire = <<>>
    /\ \A r \in muted : r \in Elems(pending) \/ answer[r] \notin {"none", "owed"}
    /\ NoCrossedReply

\* A request the supervisor takes from the channel was not muted before.
LEMMA TakenUnmuted ==
    ASSUME AccountInv, WireInv, chan # <<>>
    PROVE  Head(chan) \notin muted /\ Head(chan) \in Reqs
<1> USE AccountTypes
<1>1. Head(chan) \in Elems(chan) /\ Head(chan) \in Reqs
  BY ElemsTail
<1>2. Head(chan) \notin Elems(pending)
  <2>1. \A x, y : Prec(order, x, y) => x # y
    BY PrecFacts DEF AccountInv, PlaceInv
  <2> QED BY <1>1, <2>1 DEF AccountInv, QueuesInv, Before
<1>3. answer[Head(chan)] = "owed"
  BY <1>1 DEF AccountInv, PlaceInv, Live
<1> QED BY <1>1, <1>2, <1>3 DEF WireInv

\* Writing a request keeps the wire aligned.
LEMMA WriteAligned ==
    ASSUME AccountInv, AccountInv', WireInv, Recv
    PROVE  WireInv'
<1> USE AccountTypes
<1>1. /\ conn = "up" /\ conn' = "up" /\ chan # <<>> /\ answer' = answer /\ Aligned
  BY DEF Recv, hist, WireInv
<1>2. Head(chan) \notin muted /\ Head(chan) \in Reqs
  BY <1>1, TakenUnmuted
<1>3. CASE IsScript(Head(chan))
  BY <1>1, <1>3 DEF Recv, WireInv, Aligned, NoCrossedReply
<1>4. CASE ~IsScript(Head(chan))
  <2> DEFINE r == Head(chan)
             behind == \E i \in DOMAIN pending : pending[i] \in muted
  <2>1. /\ pending' = Append(pending, r)
        /\ wire' = IF IsSilent(r) THEN wire ELSE Append(wire, r)
        /\ muted' = IF IsSilent(r) \/ behind THEN muted \cup {r} ELSE muted
    BY <1>4 DEF Recv
  <2>2. pending \in Seq(Reqs) /\ wire \in Seq(Reqs)
    BY DEF AccountInv, TypeOK
  <2>3. /\ DOMAIN pending = 1..Len(pending) /\ DOMAIN pending' = 1..(Len(pending) + 1)
        /\ \A i \in 1..Len(pending) : pending'[i] = pending[i]
        /\ pending'[Len(pending) + 1] = r /\ Len(pending) \in Nat
        /\ Len(pending') = Len(pending) + 1
    BY <1>2, <2>1, <2>2, AppendProperties, LenProperties
  <2>4. /\ DOMAIN wire = 1..Len(wire) /\ Len(wire) \in Nat
        /\ DOMAIN Append(wire, r) = 1..(Len(wire) + 1)
        /\ \A i \in 1..Len(wire) : Append(wire, r)[i] = wire[i]
        /\ Append(wire, r)[Len(wire) + 1] = r /\ Len(Append(wire, r)) = Len(wire) + 1
    BY <1>2, <2>2, AppendProperties, LenProperties
  <2>5. \A i \in DOMAIN wire : i \in DOMAIN wire' /\ wire'[i] = wire[i]
    BY <2>1, <2>4
  <2>6. Elems(pending') = Elems(pending) \cup {r}
    BY <1>2, <2>1, <2>2, ElemsAppend
  <2>7. \A i \in DOMAIN pending : pending[i] \in muted' <=> pending[i] \in muted
    <3>1. \A i \in DOMAIN pending : pending[i] # r
      <4>1. \A x, y : Prec(order, x, y) => x # y
        BY PrecFacts DEF AccountInv, PlaceInv
      <4>2. r \in Elems(chan)
        BY <1>1, ElemsTail
      <4> QED BY <4>1, <4>2 DEF AccountInv, QueuesInv, Before, Elems
    <3> QED BY <2>1, <3>1
  <2> HIDE DEF r
  <2>8. CASE IsSilent(r) \/ behind
    <3>1. muted' = muted \cup {r} /\ Len(wire') < Len(pending')
      <4>1. CASE behind
        BY <1>1, <2>1, <2>3, <2>4, <4>1 DEF Aligned
      <4>2. CASE ~behind
        BY <1>1, <2>1, <2>3, <2>4, <2>8, <4>2 DEF Aligned
      <4> QED BY <2>1, <2>8, <4>1, <4>2
    <3>2. \A i \in DOMAIN pending' :
             pending'[i] \notin muted' => i \in DOMAIN wire' /\ wire'[i] = pending'[i]
      <4> SUFFICES ASSUME NEW i \in DOMAIN pending', pending'[i] \notin muted'
                   PROVE  i \in DOMAIN wire' /\ wire'[i] = pending'[i]
        OBVIOUS
      <4>1. i \in DOMAIN pending /\ pending'[i] = pending[i] /\ pending[i] \notin muted
        BY <2>3, <3>1
      <4> QED BY <1>1, <2>5, <4>1 DEF Aligned
    <3>3. \A i, j \in DOMAIN pending' :
             i < j /\ pending'[i] \in muted' => pending'[j] \in muted'
      <4> SUFFICES ASSUME NEW i \in DOMAIN pending', NEW j \in DOMAIN pending', i < j,
                          pending'[i] \in muted'
                   PROVE  pending'[j] \in muted'
        OBVIOUS
      <4>1. i \in DOMAIN pending /\ pending'[i] = pending[i] /\ pending[i] \in muted
        BY <2>3, <2>7
      <4>2. CASE j = Len(pending) + 1
        BY <2>3, <3>1, <4>2
      <4>3. CASE j # Len(pending) + 1
        <5>1. j \in DOMAIN pending /\ pending'[j] = pending[j]
          BY <2>3, <4>3
        <5> QED BY <1>1, <3>1, <4>1, <5>1 DEF Aligned
      <4> QED BY <4>2, <4>3
    <3>4. Len(pending) + 1 \in DOMAIN pending' /\ pending'[Len(pending) + 1] \in muted'
      BY <2>3, <3>1
    <3>5. Aligned'
      BY <3>1, <3>2, <3>3, <3>4 DEF Aligned
    <3>6. NoCrossedReply'
      BY <1>1, <3>1 DEF NoCrossedReply, WireInv
    <3> QED BY <1>1, <2>6, <3>1, <3>5, <3>6 DEF WireInv
  <2>9. CASE ~IsSilent(r) /\ ~behind
    <3>1. muted' = muted /\ wire' = Append(wire, r) /\ wire = pending /\ wire' = pending'
      BY <1>1, <2>1, <2>9 DEF Aligned
    <3>2. \A i \in DOMAIN pending' : pending'[i] \notin muted'
      <4> SUFFICES ASSUME NEW i \in DOMAIN pending' PROVE pending'[i] \notin muted
        BY <3>1
      <4>1. CASE i = Len(pending) + 1
        BY <1>2, <2>3, <4>1 DEF r
      <4>2. CASE i # Len(pending) + 1
        <5>1. i \in DOMAIN pending /\ pending'[i] = pending[i]
          BY <2>3, <4>2
        <5> QED BY <2>9, <5>1
      <4> QED BY <4>1, <4>2
    <3>3. Aligned'
      BY <3>1, <3>2 DEF Aligned
    <3> QED BY <1>1, <2>6, <3>1, <3>3 DEF WireInv, NoCrossedReply
  <2> QED BY <2>8, <2>9
<1> QED BY <1>3, <1>4

\* A reply taken off the wire and the request it is given to: the request's own,
\* or that of a muted one, and the wire stays aligned.
LEMMA ReadAligned ==
    ASSUME AccountInv, WireInv, DeliverReply
    PROVE  WireInv'
<1> USE AccountTypes
<1>1. /\ conn = "up" /\ conn' = "up" /\ wire # <<>> /\ wire' = Tail(wire) /\ muted' = muted
      /\ Aligned
  BY DEF DeliverReply, WireInv
<1>2. pending \in Seq(Reqs) /\ wire \in Seq(Reqs)
  BY DEF AccountInv, TypeOK
<1>3. /\ Len(wire) \in Nat \ {0} /\ DOMAIN wire = 1..Len(wire) /\ Head(wire) = wire[1]
      /\ DOMAIN Tail(wire) = 1..(Len(wire) - 1) /\ Len(Tail(wire)) = Len(wire) - 1
      /\ \A i \in 1..(Len(wire) - 1) : Tail(wire)[i] = wire[i + 1]
  BY <1>1, <1>2, HeadTailProperties, LenProperties, EmptySeq
<1>4. pending # <<>>
  <2>1. SUFFICES ASSUME pending = <<>> PROVE FALSE
    OBVIOUS
  <2>2. wire = pending
    BY <1>1, <2>1 DEF Aligned
  <2> QED BY <1>1, <2>1, <2>2
<1>5. /\ Len(pending) \in Nat \ {0} /\ DOMAIN pending = 1..Len(pending)
      /\ Head(pending) = pending[1] /\ Head(pending) \in Reqs
      /\ DOMAIN Tail(pending) = 1..(Len(pending) - 1) /\ Len(Tail(pending)) = Len(pending) - 1
      /\ \A i \in 1..(Len(pending) - 1) : Tail(pending)[i] = pending[i + 1]
  BY <1>2, <1>4, HeadTailProperties, LenProperties, EmptySeq
<1>6. /\ pending' = Tail(pending)
      /\ answer' = [answer EXCEPT ![Head(pending)] =
                       IF Head(pending) = Head(wire) THEN "own" ELSE "crossed"]
  BY <1>4 DEF DeliverReply, Reply
<1>7. Head(pending) # Head(wire) => Head(pending) \in muted
  <2>1. 1 \in DOMAIN pending
    BY <1>5
  <2>2. pending[1] \notin muted => wire[1] = pending[1]
    BY <1>1, <2>1 DEF Aligned
  <2> QED BY <1>3, <1>5, <2>2
<1>8. NoCrossedReply'
  BY <1>1, <1>5, <1>6, <1>7 DEF NoCrossedReply, WireInv
<1>9. \A q \in muted' : q \in Elems(pending') \/ answer'[q] \notin {"none", "owed"}
  <2>1. Elems(pending) = {Head(pending)} \cup Elems(pending')
    BY <1>2, <1>4, <1>6, ElemsTail
  <2>2. \A q \in Reqs : q # Head(pending) => answer'[q] = answer[q]
    BY <1>6
  <2>3. answer'[Head(pending)] \notin {"none", "owed"} /\ muted \subseteq Reqs
    BY <1>5, <1>6 DEF AccountInv, TypeOK
  <2> QED BY <1>1, <2>1, <2>2, <2>3 DEF WireInv
<1>10. Aligned'
  <2>1. \A i \in DOMAIN pending' : /\ i + 1 \in DOMAIN pending /\ pending'[i] = pending[i + 1]
                                   /\ i \in Nat
    BY <1>5, <1>6
  <2>2. \A i \in Nat : i + 1 \in DOMAIN wire /\ i # 0 => i \in DOMAIN wire' /\ wire'[i] = wire[i + 1]
    BY <1>1, <1>3
  <2>3. \A i \in DOMAIN pending' :
           pending'[i] \notin muted' => i \in DOMAIN wire' /\ wire'[i] = pending'[i]
    <3> SUFFICES ASSUME NEW i \in DOMAIN pending', pending'[i] \notin muted'
                 PROVE  i \in DOMAIN wire' /\ wire'[i] = pending'[i]
      OBVIOUS
    <3>1. i + 1 \in DOMAIN wire /\ wire[i + 1] = pending[i + 1] /\ i # 0
      BY <1>1, <1>5, <1>6, <2>1 DEF Aligned
    <3> QED BY <2>1, <2>2, <3>1
  <2>4. \A i, j \in DOMAIN pending' :
           i < j /\ pending'[i] \in muted' => pending'[j] \in muted'
    <3> SUFFICES ASSUME NEW i \in DOMAIN pending', NEW j \in DOMAIN pending', i < j,
                        pending'[i] \in muted'
                 PROVE  pending'[j] \in muted'
      OBVIOUS
    <3>1. i + 1 < j + 1 /\ pending[i + 1] \in muted
      BY <1>1, <2>1
    <3>2. pending[j + 1] \in muted
      BY <1>1, <2>1, <3>1 DEF Aligned
    <3> QED BY <1>1, <2>1, <3>2
  <2>5. CASE \E i \in DOMAIN pending : pending[i] \in muted
    <3>1. Len(wire) < Len(pending)
      BY <1>1, <2>5 DEF Aligned
    <3>2. Len(wire') < Len(pending') /\ Len(pending') \in 1..Len(pending')
      BY <1>1, <1>3, <1>5, <1>6, <3>1
    <3>3. Len(pending) \in DOMAIN pending /\ pending[Len(pending)] \in muted
      <4>1. PICK i \in DOMAIN pending : pending[i] \in muted
        BY <2>5
      <4>2. CASE i = Len(pending)
        BY <1>5, <4>1, <4>2
      <4>3. CASE i # Len(pending)
        <5>1. i < Len(pending) /\ Len(pending) \in DOMAIN pending
          BY <1>5, <4>3
        <5> QED BY <1>1, <4>1, <5>1 DEF Aligned
      <4> QED BY <4>2, <4>3
    <3>4. Len(pending') \in DOMAIN pending' /\ pending'[Len(pending')] \in muted'
      BY <1>1, <1>5, <1>6, <3>2, <3>3
    <3> QED BY <2>3, <2>4, <3>2, <3>4 DEF Aligned
  <2>6. CASE ~\E i \in DOMAIN pending : pending[i] \in muted
    <3>1. wire = pending /\ wire' = pending'
      BY <1>1, <1>6, <2>6 DEF Aligned
    <3>2. \A i \in DOMAIN pending' : pending'[i] \notin muted'
      BY <1>1, <2>1, <2>6
    <3> QED BY <2>3, <2>4, <3>1, <3>2 DEF Aligned
  <2> QED BY <2>5, <2>6
<1> QED BY <1>1, <1>8, <1>9, <1>10 DEF WireInv

\* Every step keeps the wire aligned and crosses no reply of a request that is
\* not muted.
LEMMA WireStep == AccountInv /\ AccountInv' /\ WireInv /\ [Next]_vars => WireInv'
<1> SUFFICES ASSUME AccountInv, AccountInv', WireInv, [Next]_vars PROVE WireInv'
  OBVIOUS
<1> USE AccountTypes, ReqsAssumption
<1>0. muted \subseteq Reqs /\ pending \in Seq(Reqs) /\ chan \in Seq(Reqs) /\ expired \in Seq(Reqs)
  BY DEF AccountInv, TypeOK
\* A step that leaves the connection alone, and at most takes a new request or
\* answers one.
<1>1. ASSUME UNCHANGED sup,
             \/ answer' = answer
             \/ \E q \in Reqs, a \in Results \ {"none", "crossed"} :
                   /\ answer' = [answer EXCEPT ![q] = a]
                   /\ a = "owed" => answer[q] = "none"
      PROVE  WireInv'
  <2>1. conn' = conn /\ pending' = pending /\ wire' = wire /\ muted' = muted
    BY <1>1 DEF sup
  <2>2. \A q \in Reqs : /\ answer'[q] = "crossed" => answer[q] = "crossed"
                        /\ answer[q] \notin {"none", "owed"} => answer'[q] \notin {"none", "owed"}
    BY <1>1 DEF Results
  <2>3. Aligned' <=> Aligned
    BY <2>1 DEF Aligned
  <2> QED BY <1>0, <2>1, <2>2, <2>3 DEF WireInv, NoCrossedReply
\* A step that ends on no connection.
<1>2. ASSUME conn' # "up", wire' = <<>>, muted' = muted,
             \A q \in Elems(pending) : q \in Elems(pending') \/ answer'[q] \notin {"none", "owed"},
             \A q \in Reqs : /\ answer'[q] = "crossed" => answer[q] = "crossed"
                             /\ answer[q] \notin {"none", "owed"}
                                   => answer'[q] \notin {"none", "owed"}
      PROVE  WireInv'
  BY <1>0, <1>2 DEF WireInv, NoCrossedReply
<1>3. ASSUME NEW s \in DynStates, SetState(s) PROVE WireInv'
  BY <1>1, <1>3 DEF SetState, hist
<1>4. ASSUME NEW r \in Reqs, Send(r) PROVE WireInv'
  <2>1. UNCHANGED sup /\ answer[r] = "none"
    BY <1>4 DEF Send
  <2>2. \/ answer' = answer
        \/ answer' = [answer EXCEPT ![r] = "owed"] \/ answer' = [answer EXCEPT ![r] = "refused"]
    BY <1>4 DEF Send, TrySend, Reply, Owed, hist
  <2> QED BY <1>1, <2>1, <2>2 DEF Results
<1>5. CASE Flush
  <2>1. UNCHANGED sup /\ flushing \in Reqs /\ answer[flushing] = "none"
    BY <1>5 DEF Flush, AccountInv, TypeOK, PlaceInv
  <2>2. \/ answer' = answer
        \/ answer' = [answer EXCEPT ![flushing] = "owed"]
        \/ answer' = [answer EXCEPT ![flushing] = "refused"]
    BY <1>5 DEF Flush, TrySend, Reply, Owed, hist
  <2> QED BY <1>1, <2>1, <2>2 DEF Results
<1>6. CASE ExpireHeld
  BY <1>1, <1>6 DEF ExpireHeld, hist
<1>7. CASE AnswerExpired
  <2>1. /\ UNCHANGED sup /\ expired # <<>>
        /\ answer' = [answer EXCEPT ![Head(expired)] = "expired"]
    BY <1>7 DEF AnswerExpired, Reply
  <2>2. Head(expired) \in Reqs /\ "expired" \in Results \ {"none", "crossed"}
    BY <1>0, <2>1, ElemsTail DEF Results
  <2>3. \E q \in Reqs, a \in Results \ {"none", "crossed"} :
           answer' = [answer EXCEPT ![q] = a] /\ (a = "owed" => answer[q] = "none")
    <3>1. "expired" # "owed"
      OBVIOUS
    <3> QED BY <2>1, <2>2, <3>1
  <2> QED BY <1>1, <2>1, <2>3
<1>8. CASE DialOk
  <2>1. /\ conn' = "up" /\ pending' = <<>> /\ pending = <<>> /\ wire' = <<>> /\ muted' = muted
        /\ answer' = answer
    BY <1>8 DEF DialOk, hist, WireInv, AccountInv, ConnInv
  <2>2. Aligned'
    BY <2>1 DEF Aligned
  <2> QED BY <2>1, <2>2 DEF WireInv, NoCrossedReply
<1>9. CASE DialFailed \/ BackoffOver
  <2>1. conn' # "up" /\ conn # "up" /\ UNCHANGED <<pending, wire, muted, answer>>
    BY <1>9 DEF DialFailed, BackoffOver, hist
  <2> QED BY <1>2, <2>1 DEF WireInv
<1>10. CASE ServeError
  <2>1. UNCHANGED sup /\ chan # <<>> /\ answer' = [answer EXCEPT ![Head(chan)] = "error"]
    BY <1>10 DEF ServeError, Reply
  <2>2. Head(chan) \in Reqs /\ "error" \in Results \ {"none", "crossed"}
    BY <1>0, <2>1, ElemsTail DEF Results
  <2>3. \E q \in Reqs, a \in Results \ {"none", "crossed"} :
           answer' = [answer EXCEPT ![q] = a] /\ (a = "owed" => answer[q] = "none")
    <3>1. "error" # "owed"
      OBVIOUS
    <3> QED BY <2>1, <2>2, <3>1
  <2> QED BY <1>1, <2>1, <2>3
<1>11. CASE ScriptDone
  <2>1. /\ conn' = "up" /\ UNCHANGED <<conn, pending, wire, muted>> /\ script \in Reqs
        /\ answer' = [answer EXCEPT ![script] = "own"]
    BY <1>11 DEF ScriptDone, Reply, AccountInv, TypeOK
  <2>2. \A q \in Reqs : answer'[q] = IF q = script THEN "own" ELSE answer[q]
    BY <2>1
  <2>3. Aligned' <=> Aligned
    BY <2>1 DEF Aligned
  <2> QED BY <1>0, <2>1, <2>2, <2>3 DEF WireInv, NoCrossedReply
<1>12. CASE Timeout
  <2>1. /\ conn' # "up" /\ wire' = <<>> /\ muted' = muted /\ answer' = answer
        /\ pending' = IF script # NoReq THEN Append(pending, script) ELSE pending
    BY <1>12 DEF Timeout, hist
  <2>2. Elems(pending) \subseteq Elems(pending')
    <3>1. CASE script = NoReq
      BY <2>1, <3>1
    <3>2. CASE script # NoReq
      <4>1. script \in Reqs
        BY <3>2 DEF AccountInv, TypeOK
      <4>2. Elems(Append(pending, script)) = Elems(pending) \cup {script}
        BY <1>0, <4>1, ElemsAppend
      <4> QED BY <2>1, <3>2, <4>2
    <3> QED BY <3>1, <3>2
  <2> QED BY <1>2, <2>1, <2>2
<1>13. CASE IoError
  <2>1. /\ conn' # "up" /\ wire' = <<>> /\ muted' = muted /\ pending' = pending
        /\ answer' = IF script # NoReq THEN [answer EXCEPT ![script] = "dropped"] ELSE answer
    BY <1>13 DEF IoError
  <2>2. \A q \in Reqs : answer'[q] = answer[q] \/ answer'[q] = "dropped"
    BY <2>1
  <2> QED BY <1>2, <2>1, <2>2
<1>14. CASE FailNext
  <2>1. conn = "failing" /\ conn' # "up" /\ wire' = wire /\ muted' = muted /\ wire = <<>>
    BY <1>14 DEF FailNext, WireInv
  <2>2. CASE pending # <<>>
    <3>1. answer' = [answer EXCEPT ![Head(pending)] = "error"] /\ pending' = Tail(pending)
      BY <1>14, <2>2 DEF FailNext, Reply
    <3>2. Head(pending) \in Reqs /\ Elems(pending) = {Head(pending)} \cup Elems(pending')
      BY <1>0, <2>2, <3>1, ElemsTail
    <3>3. \A q \in Reqs : answer'[q] = IF q = Head(pending) THEN "error" ELSE answer[q]
      BY <3>1
    <3> QED BY <1>2, <2>1, <3>2, <3>3
  <2>3. CASE pending = <<>>
    <3>1. pending' = <<>> /\ (answer' = answer \/ (chan # <<>> /\ Reply(Head(chan), "error")))
      BY <1>14, <2>3 DEF FailNext, hist
    <3>2. chan # <<>> => Head(chan) \in Reqs
      BY <1>0, ElemsTail
    <3>3. \A q \in Reqs : answer'[q] = answer[q] \/ answer'[q] = "error"
      BY <3>1, <3>2 DEF Reply
    <3> QED BY <1>2, <2>1, <2>3, <3>1, <3>3
  <2> QED BY <2>2, <2>3
<1>15. CASE UNCHANGED vars
  BY <1>1, <1>15 DEF vars, hist
<1> QED BY WriteAligned, ReadAligned, <1>3, <1>4, <1>5, <1>6, <1>7, <1>8, <1>9, <1>10, <1>11,
           <1>12, <1>13, <1>14, <1>15 DEF Next, Gate, Supervisor

\* Replies are matched by position only (deliver_replies), and yet a request gets
\* another's reply only if it was a memcache noreply request or was written
\* behind one on the same connection, for any interleaving of timeouts, lost
\* connections, scripts and redials.
THEOREM RepliesNotCrossed == Spec => []NoCrossedReply
<1>1. Init => WireInv
  BY DEF Init, WireInv, NoCrossedReply
<1>2. WireInv => NoCrossedReply
  BY DEF WireInv
<1>3. Spec => []AccountInv
  BY AccountInit, AccountStep, TypeCorrect, PTL DEF Spec
<1> QED BY <1>1, <1>2, <1>3, WireStep, PTL DEF Spec

-----------------------------------------------------------------------------
(* The link keeps its contract, step by step                                *)

\* One request's status changes the way the contract allows, or it carries a
\* script and is not the contract's.
LEMMA StatusStep ==
    ASSUME TypeOK, NEW r \in Reqs,
           \/ /\ answer[r] = "none"
              /\ \E a \in {"owed", "refused"} : answer' = [answer EXCEPT ![r] = a]
           \/ /\ answer[r] = "owed"
              /\ \E a \in {"own", "error", "crossed", "expired"} :
                    answer' = [answer EXCEPT ![r] = a]
           \/ r \in Scripts /\ answer' = [answer EXCEPT ![r] = "dropped"]
    PROVE  [Contract!Next]_LinkStatus
<1>1. /\ StatusOf("none") = "new" /\ StatusOf("owed") = "owed" /\ StatusOf("error") = "error"
      /\ StatusOf("own") = "reply" /\ StatusOf("crossed") = "reply"
      /\ StatusOf("refused") = "error" /\ StatusOf("expired") = "error"
  BY DEF StatusOf
<1>2. answer \in [Reqs -> Results] /\ \E a \in Results : answer' = [answer EXCEPT ![r] = a]
  BY DEF TypeOK, Results
<1>3. CASE r \in Scripts
  <2>1. \A q \in Reqs \ Scripts : answer'[q] = answer[q]
    BY <1>2, <1>3
  <2> QED BY <2>1 DEF LinkStatus
<1>4. ASSUME r \notin Scripts, answer[r] = "none", NEW a \in {"owed", "refused"},
             answer' = [answer EXCEPT ![r] = a]
      PROVE  Contract!Next
  <2>1. /\ LinkStatus[r] = "new" /\ r \in Reqs \ Scripts
        /\ LinkStatus' = [LinkStatus EXCEPT ![r] = StatusOf(a)]
        /\ StatusOf(a) = "owed" \/ StatusOf(a) = "error"
    BY <1>1, <1>2, <1>4 DEF LinkStatus
  <2> QED BY <2>1 DEF Contract!Next, Contract!Accept, Contract!TurnAway
<1>5. ASSUME r \notin Scripts, answer[r] = "owed",
             NEW a \in {"own", "error", "crossed", "expired"},
             answer' = [answer EXCEPT ![r] = a]
      PROVE  Contract!Next
  <2>1. /\ LinkStatus[r] = "owed" /\ StatusOf(a) \in {"reply", "error"} /\ r \in Reqs \ Scripts
        /\ LinkStatus' = [LinkStatus EXCEPT ![r] = StatusOf(a)]
    BY <1>1, <1>2, <1>5 DEF LinkStatus
  <2> QED BY <2>1 DEF Contract!Next, Contract!Answer
<1> QED BY <1>3, <1>4, <1>5

\* The safety part of ReplyContract, for the requests without a script: towards
\* the dispatcher every step of the gate and the supervisor takes a new request,
\* turns one away, answers one that is owed, or changes nothing
\* (LocalBackend::send, expire_held, deliver_replies, fail_backend_requests).
THEOREM LinkRefinesContract == Spec => Contract!Init /\ [][Contract!Next]_LinkStatus
<1>1. Init => Contract!Init
  BY ReqsAssumption DEF Init, Contract!Init, LinkStatus, StatusOf
<1>2. AccountInv /\ [Next]_vars => [Contract!Next]_LinkStatus
  <2> SUFFICES ASSUME AccountInv, [Next]_vars PROVE [Contract!Next]_LinkStatus
    OBVIOUS
  <2> USE AccountTypes, ReqsAssumption
  <2>1. TypeOK
    BY DEF AccountInv
  <2>2. ASSUME UNCHANGED answer PROVE LinkStatus' = LinkStatus
    BY <2>2 DEF LinkStatus
  <2>3. \A r \in Live \cup Elems(expired) : r \in Reqs /\ answer[r] = "owed"
    BY DEF AccountInv, PlaceInv
  <2>4. /\ pending # <<>> => Head(pending) \in Live
        /\ chan # <<>> => Head(chan) \in Live
        /\ expired # <<>> => Head(expired) \in Elems(expired)
        /\ script # NoReq => script \in Live /\ script \in Scripts
    BY ElemsTail DEF Live, Running, AccountInv, ConnInv
  <2>5. ASSUME NEW r \in Reqs, answer[r] = "none",
               Reply(r, "refused") \/ Owed(r) \/ TrySend(r)
        PROVE  [Contract!Next]_LinkStatus
    BY <2>1, <2>5, StatusStep DEF Reply, Owed, TrySend
  <2>6. ASSUME NEW r \in Live \cup Elems(expired),
               \E a \in {"own", "error", "crossed", "expired"} : Reply(r, a)
        PROVE  [Contract!Next]_LinkStatus
    BY <2>1, <2>3, <2>6, StatusStep DEF Reply
  <2>7. ASSUME NEW r \in Reqs, Send(r) PROVE [Contract!Next]_LinkStatus
    BY <2>2, <2>5, <2>7 DEF Send, hist
  <2>8. CASE Flush
    <3>1. flushing \in Reqs /\ answer[flushing] = "none"
      BY <2>8 DEF Flush, AccountInv, TypeOK, PlaceInv
    <3> QED BY <2>2, <2>5, <2>8, <3>1 DEF Flush, hist
  <2>9. CASE AnswerExpired
    BY <2>4, <2>6, <2>9 DEF AnswerExpired
  <2>10. CASE ServeError
    BY <2>4, <2>6, <2>10 DEF ServeError
  <2>11. CASE DeliverReply
    <3>1. CASE pending = <<>>
      BY <2>2, <2>11, <3>1 DEF DeliverReply, hist
    <3>2. CASE pending # <<>>
      <4>1. \E a \in {"own", "error", "crossed", "expired"} : Reply(Head(pending), a)
        BY <2>11, <3>2 DEF DeliverReply
      <4> QED BY <2>4, <2>6, <3>2, <4>1
    <3> QED BY <3>1, <3>2
  <2>12. CASE ScriptDone
    BY <2>4, <2>6, <2>12 DEF ScriptDone
  <2>13. CASE IoError
    <3>1. CASE script = NoReq
      BY <2>2, <2>13, <3>1 DEF IoError
    <3>2. CASE script # NoReq
      BY <2>1, <2>4, <2>13, <3>2, StatusStep DEF IoError
    <3> QED BY <3>1, <3>2
  <2>14. CASE FailNext
    BY <2>2, <2>4, <2>6, <2>14 DEF FailNext, hist
  <2>15. CASE \/ \E s \in DynStates : SetState(s)
              \/ ExpireHeld \/ DialOk \/ DialFailed \/ BackoffOver \/ Recv \/ Timeout
              \/ UNCHANGED vars
    BY <2>2, <2>15 DEF SetState, ExpireHeld, DialOk, DialFailed, BackoffOver, Recv, Timeout,
                       vars, hist
  <2> QED BY <2>7, <2>8, <2>9, <2>10, <2>11, <2>12, <2>13, <2>14, <2>15
          DEF Next, Gate, Supervisor
<1> QED BY <1>1, <1>2, AccountInit, AccountStep, TypeCorrect, PTL DEF Spec
=============================================================================
