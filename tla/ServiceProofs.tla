---------------------------- MODULE ServiceProofs ----------------------------
(***************************************************************************)
(* The supervision tree, for any children, strategy and policies; a client *)
(* connection, for any requests and channel capacity; the hint store, for  *)
(* any hints, peers, weights, cap, crashes and disk faults; a replicated   *)
(* Riak object, for any nodes, operations, quorums and failures.  The four *)
(* modules share no name, and have nothing to do with each other here.     *)
(***************************************************************************)
EXTENDS Supervisor, ClientLoop, HintStore, RiakObject, FiniteSets, FiniteSetTheorems, SequenceTheorems, WellFoundedInduction, TLAPS

-----------------------------------------------------------------------------
(* What a queue holds.                                                       *)

Elems(s) == {s[i] : i \in DOMAIN s}
Uniq(s) == \A i, j \in DOMAIN s : s[i] = s[j] => i = j

\* An empty queue holds nothing.
LEMMA ElemsEmpty == Elems(<<>>) = {} /\ Uniq(<<>>)
BY DEF Elems, Uniq

\* A queue holds elements of its type only.
LEMMA ElemsIn == \A S : \A s \in Seq(S) : Elems(s) \subseteq S
BY DEF Elems

\* Appending to a queue adds one element, and repeats none if it is new.
LEMMA ElemsAppend ==
    ASSUME NEW S, NEW s \in Seq(S), NEW e \in S
    PROVE  /\ Elems(Append(s, e)) = Elems(s) \cup {e}
           /\ Uniq(s) /\ e \notin Elems(s) => Uniq(Append(s, e))
<1>1. /\ Append(s, e) \in Seq(S) /\ Len(Append(s, e)) = Len(s) + 1
      /\ DOMAIN s = 1..Len(s) /\ DOMAIN Append(s, e) = 1..(Len(s) + 1)
      /\ \A i \in 1..Len(s) : Append(s, e)[i] = s[i]
      /\ Append(s, e)[Len(s) + 1] = e /\ Len(s) \in Nat
  BY AppendProperties, LenProperties
<1>2. Elems(Append(s, e)) = Elems(s) \cup {e}
  BY <1>1 DEF Elems
<1>3. ASSUME Uniq(s), e \notin Elems(s) PROVE Uniq(Append(s, e))
  BY <1>1, <1>3 DEF Elems, Uniq
<1> QED BY <1>2, <1>3

\* Taking the head of a queue removes that element, and all of it if nothing repeats.
LEMMA ElemsTail ==
    ASSUME NEW S, NEW s \in Seq(S), s # <<>>
    PROVE  /\ Head(s) \in S /\ Tail(s) \in Seq(S)
           /\ Elems(s) = {Head(s)} \cup Elems(Tail(s))
           /\ Uniq(s) => Uniq(Tail(s)) /\ Head(s) \notin Elems(Tail(s))
<1>1. /\ Head(s) \in S /\ Tail(s) \in Seq(S) /\ Head(s) = s[1] /\ Len(s) \in Nat \ {0}
      /\ DOMAIN s = 1..Len(s) /\ DOMAIN Tail(s) = 1..(Len(s) - 1)
      /\ \A i \in 1..(Len(s) - 1) : Tail(s)[i] = s[i + 1]
  BY HeadTailProperties, LenProperties, EmptySeq
<1>2. Elems(s) \subseteq {Head(s)} \cup Elems(Tail(s))
  <2>1. ASSUME NEW i \in 1..Len(s), i # 1 PROVE s[i] \in Elems(Tail(s))
    <3>1. i - 1 \in 1..(Len(s) - 1) /\ (i - 1) + 1 = i
      BY <1>1, <2>1
    <3>2. i - 1 \in DOMAIN Tail(s) /\ Tail(s)[i - 1] = s[i]
      BY <1>1, <3>1
    <3> QED BY <3>2 DEF Elems
  <2> QED BY <1>1, <2>1 DEF Elems
<1>3. {Head(s)} \cup Elems(Tail(s)) \subseteq Elems(s)
  BY <1>1 DEF Elems
<1>4. ASSUME Uniq(s) PROVE Uniq(Tail(s)) /\ Head(s) \notin Elems(Tail(s))
  <2>1. Uniq(Tail(s))
    <3> SUFFICES ASSUME NEW i \in 1..(Len(s) - 1), NEW j \in 1..(Len(s) - 1),
                        Tail(s)[i] = Tail(s)[j]
                 PROVE  i = j
      BY <1>1 DEF Uniq
    <3>1. s[i + 1] = s[j + 1] /\ i + 1 \in DOMAIN s /\ j + 1 \in DOMAIN s
      BY <1>1
    <3>2. i + 1 = j + 1
      BY <3>1, <1>4 DEF Uniq
    <3> QED BY <3>2
  <2>2. ASSUME NEW i \in 1..(Len(s) - 1), Tail(s)[i] = Head(s) PROVE FALSE
    <3>1. s[i + 1] = s[1] /\ i + 1 \in DOMAIN s /\ 1 \in DOMAIN s
      BY <1>1, <2>2
    <3>2. i + 1 = 1
      BY <3>1, <1>4 DEF Uniq
    <3> QED BY <3>2
  <2> QED BY <1>1, <2>1, <2>2 DEF Elems
<1> QED BY <1>1, <1>2, <1>3, <1>4

-----------------------------------------------------------------------------
(* The supervision tree.                                                     *)

Exited(e, c, g) == e.kind = "ChildExited" /\ e.child = c /\ e.gen = g

SupTypes ==
    /\ state \in [Children -> States]
    /\ generation \in [Children -> Nat] /\ abort \in [Children -> Nat]
    /\ tasks \subseteq [child : Children, gen : Nat, aborted : BOOLEAN, body : BOOLEAN]
    /\ timers \subseteq [child : Children, gen : Nat]
    /\ events \in Seq([kind : {"ChildExited", "RestartReady"}, child : Children, gen : Nat,
                        exit : {"Ok", "Err", "Cancelled", "none"}]
                       \cup {Event("Shutdown", NoChild, 0, "none")})

\* Generations are given out once, and the handle held is of the task nobody
\* told to stop: a run that ended is no task any more.
SupRuns ==
    /\ phase = "built" => tasks = {} /\ timers = {} /\ events = <<>>
    /\ \A t \in tasks : t.gen <= generation[t.child]
    /\ \A t \in tasks : ~t.aborted => abort[t.child] = t.gen
    /\ \A t, u \in tasks : t.child = u.child /\ t.gen = u.gen => t = u
    /\ \A e \in Elems(events) : e.kind = "ChildExited" =>
            /\ e.gen <= generation[e.child]
            /\ \A t \in tasks : ~Exited(e, t.child, t.gen)

SupTasks ==
    /\ \A t \in tasks : ~t.aborted =>
            phase = "running" /\ state[t.child] = "Running" /\ t.gen = generation[t.child]
    /\ phase = "running" => \A c \in Children : state[c] = "Running" =>
            \/ \E t \in tasks : t.child = c /\ t.gen = generation[c] /\ ~t.aborted
            \/ \E e \in Elems(events) : Exited(e, c, generation[c])

SupInv == SupTypes /\ SupRuns /\ SupTasks

\* What happens to the siblings of a child does not happen to the child.
LEMMA SiblingsOthers ==
    ASSUME NEW c \in Children
    PROVE  Siblings(c) \subseteq Children \ {c}
<1>1. CASE strategy = "OneForAll"
  BY <1>1 DEF Siblings
<1>2. CASE strategy = "RestForOne"
  BY <1>2 DEF Siblings, Children
<1>3. CASE strategy \notin {"OneForAll", "RestForOne"}
  BY <1>3 DEF Siblings
<1> QED BY <1>1, <1>2, <1>3

\* A task that is told to stop is the same run otherwise.
LEMMA AbortedTasks ==
    ASSUME SupTypes, NEW S, NEW x \in Aborting(S)
    PROVE  /\ x \in [child : Children, gen : Nat, aborted : BOOLEAN, body : BOOLEAN]
           /\ \E t \in tasks :
                 /\ x.child = t.child /\ x.gen = t.gen
                 /\ x = IF t.child \in S /\ t.gen = abort[t.child] THEN [t EXCEPT !.aborted = TRUE] ELSE t
<1>1. PICK t \in tasks :
        x = IF t.child \in S /\ t.gen = abort[t.child] THEN [t EXCEPT !.aborted = TRUE] ELSE t
  BY DEF Aborting
<1>2. t \in [child : Children, gen : Nat, aborted : BOOLEAN, body : BOOLEAN]
  BY DEF SupTypes
<1> QED BY <1>1, <1>2

\* An exit that is believed: the siblings are told to stop, and whoever is spawned
\* gets a generation nobody had (handle_child_exited, cascade, spawn_child).
LEMMA CascadeStep ==
    ASSUME SupInv, phase = "running", UNCHANGED phase, NEW e \in Elems(events),
           e.child \in Children, Exited(e, e.child, generation[e.child]),
           e = Head(events), events # <<>>, events' = Tail(events), Cascade(e.child, e.exit)
    PROVE  SupInv'
<1> DEFINE c == e.child
           siblings == Siblings(c)
           again == {d \in siblings : policy[d] # "Temporary"}
           self == RestartsSelf(c, e.exit)
           spawned == again \cup (IF self /\ e.exit = "Ok" THEN {c} ELSE {})
           TaskSet == [child : Children, gen : Nat, aborted : BOOLEAN, body : BOOLEAN]
<1>1. /\ siblings \subseteq Children \ {c} /\ again \subseteq siblings
      /\ spawned \subseteq siblings \cup {c} /\ c \in Children
      /\ siblings \ spawned = siblings \ again /\ siblings \cap spawned = again
      /\ c \in spawned <=> (self /\ e.exit = "Ok")
  BY SiblingsOthers
<1>2. /\ generation' = [d \in Children |->
             IF d \in again THEN generation[d] + 2
             ELSE IF d \in siblings \cup (IF self THEN {c} ELSE {}) THEN generation[d] + 1
             ELSE generation[d]]
      /\ state' = [d \in Children |->
             IF d \in spawned THEN "Running" ELSE IF d = c /\ self THEN "BackingOff"
             ELSE IF d \in siblings \cup {c} THEN "Removed" ELSE state[d]]
      /\ abort' = [d \in Children |->
             IF d \in spawned THEN generation'[d] ELSE IF d \in siblings \cup {c} THEN 0 ELSE abort[d]]
      /\ tasks' = Aborting(siblings) \cup {Task(d, generation'[d]) : d \in spawned}
      /\ timers' = timers \cup
             (IF self /\ e.exit # "Ok" THEN {[child |-> c, gen |-> generation'[c]]} ELSE {})
  BY DEF Cascade, SiblingGeneration
<1> HIDE DEF siblings, again, self, spawned
<1>3. generation \in [Children -> Nat] /\ abort \in [Children -> Nat]
      /\ state \in [Children -> States] /\ tasks \subseteq TaskSet
  BY DEF SupInv, SupTypes
<1>4. ASSUME NEW d \in Children
      PROVE  /\ generation'[d] \in Nat /\ generation[d] \in Nat /\ generation'[d] >= generation[d]
             /\ d \in spawned => /\ generation'[d] > generation[d]
                                 /\ state'[d] = "Running" /\ abort'[d] = generation'[d]
             /\ d \notin siblings \cup {c} => /\ generation'[d] = generation[d]
                                              /\ state'[d] = state[d] /\ abort'[d] = abort[d]
             /\ d \in (siblings \cup {c}) \ spawned => state'[d] # "Running"
             /\ abort'[d] \in Nat /\ state'[d] \in States
  <2>1. generation[d] \in Nat /\ abort[d] \in Nat /\ state[d] \in States
    BY <1>3
  <2>2. generation'[d] = IF d \in again THEN generation[d] + 2
             ELSE IF d \in siblings \cup (IF self THEN {c} ELSE {}) THEN generation[d] + 1
             ELSE generation[d]
    BY <1>2
  <2>3. /\ state'[d] = IF d \in spawned THEN "Running" ELSE IF d = c /\ self THEN "BackingOff"
                       ELSE IF d \in siblings \cup {c} THEN "Removed" ELSE state[d]
        /\ abort'[d] = IF d \in spawned THEN generation'[d]
                       ELSE IF d \in siblings \cup {c} THEN 0 ELSE abort[d]
    BY <1>2
  <2>4. d \in spawned => d \in again \/ (d = c /\ self)
    BY DEF spawned
  <2> QED BY <1>1, <2>1, <2>2, <2>3, <2>4 DEF States
<1>5. ASSUME NEW t \in tasks PROVE ~Exited(e, t.child, t.gen)
  BY DEF SupInv, SupRuns, Exited
<1>6. Elems(events') \subseteq Elems(events) /\ Elems(events) = {e} \cup Elems(events')
  BY ElemsTail DEF SupInv, SupTypes
<1>7. ASSUME NEW x \in tasks'
      PROVE  /\ x \in TaskSet
             /\ \/ \E t \in tasks :
                      /\ x.child = t.child /\ x.gen = t.gen
                      /\ x = IF t.child \in siblings /\ t.gen = abort[t.child]
                             THEN [t EXCEPT !.aborted = TRUE] ELSE t
                \/ /\ x.child \in spawned /\ x.gen = generation'[x.child]
                   /\ x = Task(x.child, generation'[x.child])
  <2>1. CASE x \in Aborting(siblings)
    BY <2>1, AbortedTasks DEF SupInv
  <2>2. CASE \E d \in spawned : x = Task(d, generation'[d])
    <3>1. PICK d \in spawned : x = Task(d, generation'[d])
      BY <2>2
    <3>2. d \in Children /\ generation'[d] \in Nat
      BY <1>1, <1>4
    <3> QED BY <3>1, <3>2 DEF Task
  <2> QED BY <1>2, <2>1, <2>2
<1>8. ASSUME NEW x \in tasks', ~x.aborted
      PROVE  /\ state'[x.child] = "Running" /\ x.gen = generation'[x.child]
             /\ abort'[x.child] = x.gen
  <2>1. CASE x.child \in spawned /\ x.gen = generation'[x.child]
    BY <1>1, <1>4, <2>1
  <2>2. ASSUME NEW t \in tasks, x.child = t.child, x.gen = t.gen,
               x = IF t.child \in siblings /\ t.gen = abort[t.child]
                   THEN [t EXCEPT !.aborted = TRUE] ELSE t
        PROVE  /\ state'[x.child] = "Running" /\ x.gen = generation'[x.child]
               /\ abort'[x.child] = x.gen
    <3>1. t \in TaskSet
      BY <1>3
    <3>2. ~(t.child \in siblings /\ t.gen = abort[t.child]) /\ x = t
      BY <1>8, <2>2, <3>1
    <3>3. abort[t.child] = t.gen /\ state[t.child] = "Running" /\ t.gen = generation[t.child]
      BY <1>8, <3>2 DEF SupInv, SupRuns, SupTasks
    <3>4. t.child \notin siblings /\ t.child # c
      BY <1>5, <3>2, <3>3 DEF Exited
    <3>5. t.child \in Children
      BY <3>1
    <3> QED BY <1>4, <3>2, <3>3, <3>4, <3>5
  <2> QED BY <1>7, <2>1, <2>2
<1>9. ASSUME NEW x \in tasks' PROVE x.gen <= generation'[x.child]
  <2>1. CASE x.child \in spawned /\ x.gen = generation'[x.child]
    BY <1>1, <1>4, <2>1
  <2>2. ASSUME NEW t \in tasks, x.child = t.child, x.gen = t.gen
        PROVE  x.gen <= generation'[x.child]
    <3>1. t.child \in Children /\ t.gen \in Nat /\ t.gen <= generation[t.child]
      BY <1>3 DEF SupInv, SupRuns
    <3> QED BY <1>4, <2>2, <3>1
  <2> QED BY <1>7, <2>1, <2>2
<1>10. ASSUME NEW x \in tasks', NEW y \in tasks', x.child = y.child, x.gen = y.gen PROVE x = y
  <2> DEFINE Old(z, t) == /\ z.child = t.child /\ z.gen = t.gen
                          /\ z = IF t.child \in siblings /\ t.gen = abort[t.child]
                                 THEN [t EXCEPT !.aborted = TRUE] ELSE t
             New(z) == /\ z.child \in spawned /\ z.gen = generation'[z.child]
                       /\ z = Task(z.child, generation'[z.child])
  <2>1. (\E t \in tasks : Old(x, t)) \/ New(x)
    BY <1>7
  <2>2. (\E t \in tasks : Old(y, t)) \/ New(y)
    BY <1>7
  <2>3. ASSUME NEW z, NEW w, NEW t \in tasks, Old(z, t), New(w), z.child = w.child, z.gen = w.gen
        PROVE  FALSE
    <3>1. t.child \in Children /\ t.gen \in Nat /\ t.gen <= generation[t.child]
      BY <1>3 DEF SupInv, SupRuns
    <3> QED BY <1>4, <2>3, <3>1
  <2>4. ASSUME NEW t \in tasks, NEW u \in tasks, Old(x, t), Old(y, u) PROVE x = y
    <3>1. t = u
      BY <1>10, <2>4 DEF SupInv, SupRuns
    <3> QED BY <2>4, <3>1
  <2>5. New(x) /\ New(y) => x = y
    BY <1>10
  <2> HIDE DEF Old, New
  <2> QED BY <1>10, <2>1, <2>2, <2>3, <2>4, <2>5
<1>11. ASSUME NEW f \in Elems(events'), f.kind = "ChildExited"
       PROVE  /\ f.gen <= generation'[f.child]
              /\ \A x \in tasks' : ~Exited(f, x.child, x.gen)
  <2>1. /\ f.child \in Children /\ f.gen \in Nat /\ f.gen <= generation[f.child]
        /\ \A t \in tasks : ~Exited(f, t.child, t.gen)
    <3>1. f \in Elems(events)
      BY <1>6
    <3>2. /\ f.child \in Children /\ f.gen \in Nat
      BY <1>11, <3>1, ElemsIn DEF SupInv, SupTypes, Event
    <3> QED BY <1>11, <3>1, <3>2 DEF SupInv, SupRuns
  <2>2. f.gen <= generation'[f.child]
    BY <1>4, <2>1
  <2>3. ASSUME NEW x \in tasks', Exited(f, x.child, x.gen) PROVE FALSE
    <3>1. CASE x.child \in spawned /\ x.gen = generation'[x.child]
      BY <1>4, <2>1, <2>3, <3>1 DEF Exited
    <3>2. CASE \E t \in tasks : x.child = t.child /\ x.gen = t.gen
      BY <2>1, <2>3, <3>2
    <3> QED BY <1>7, <3>1, <3>2
  <2> QED BY <2>2, <2>3
<1>12. ASSUME NEW d \in Children, state'[d] = "Running"
       PROVE  \/ \E x \in tasks' : x.child = d /\ x.gen = generation'[d] /\ ~x.aborted
              \/ \E f \in Elems(events') : Exited(f, d, generation'[d])
  <2>1. CASE d \in spawned
    <3>1. Task(d, generation'[d]) \in tasks'
      BY <1>2, <2>1
    <3> QED BY <3>1 DEF Task
  <2>2. CASE d \notin siblings \cup {c}
    <3>1. state[d] = "Running" /\ generation'[d] = generation[d]
      BY <1>4, <1>12, <2>2
    <3>2. \/ \E t \in tasks : t.child = d /\ t.gen = generation[d] /\ ~t.aborted
          \/ \E f \in Elems(events) : Exited(f, d, generation[d])
      BY <3>1 DEF SupInv, SupTasks
    <3>3. ASSUME NEW t \in tasks, t.child = d PROVE t \in tasks'
      <4>1. t \in Aborting(siblings)
        BY <2>2, <3>3 DEF Aborting
      <4> QED BY <1>2, <4>1
    <3>4. ASSUME NEW f \in Elems(events), Exited(f, d, generation[d]) PROVE f \in Elems(events')
      BY <1>6, <2>2, <3>4 DEF Exited
    <3> QED BY <3>1, <3>2, <3>3, <3>4
  <2> QED BY <1>4, <1>12, <2>1, <2>2
<1>13. SupTypes'
  <2>1. state' \in [Children -> States] /\ generation' \in [Children -> Nat]
        /\ abort' \in [Children -> Nat]
    <3>1. \A d \in Children : /\ state'[d] \in States /\ generation'[d] \in Nat
                              /\ abort'[d] \in Nat
      BY <1>4
    <3> QED BY <1>2, <3>1
  <2>2. tasks' \subseteq TaskSet
    BY <1>7
  <2>3. timers' \subseteq [child : Children, gen : Nat]
    BY <1>1, <1>2, <1>4 DEF SupInv, SupTypes
  <2> QED BY <2>1, <2>2, <2>3, ElemsTail DEF SupInv, SupTypes
<1>14. SupRuns'
  BY <1>8, <1>9, <1>10, <1>11 DEF SupRuns
<1>15. SupTasks'
  BY <1>8, <1>12 DEF SupTasks
<1> QED BY <1>13, <1>14, <1>15 DEF SupInv

SupEvents == [kind : {"ChildExited", "RestartReady"}, child : Children, gen : Nat,
              exit : {"Ok", "Err", "Cancelled", "none"}]
             \cup {Event("Shutdown", NoChild, 0, "none")}

\* What is sent is queued while the supervisor is there to receive it.
LEMMA SentEvents ==
    ASSUME SupTypes, NEW e \in SupEvents, Sent(e)
    PROVE  /\ events' \in Seq(SupEvents) /\ Elems(events') \subseteq Elems(events) \cup {e}
           /\ Elems(events) \subseteq Elems(events')
           /\ phase = "running" => e \in Elems(events')
           /\ phase # "running" => events' = events
<1>1. events \in Seq(SupEvents)
  BY DEF SupTypes, SupEvents
<1>2. CASE phase = "running"
  <2>1. events' = Append(events, e)
    BY <1>2 DEF Sent
  <2> QED BY <1>1, <1>2, <2>1, ElemsAppend, AppendProperties
<1>3. CASE phase # "running"
  BY <1>1, <1>3 DEF Sent
<1> QED BY <1>2, <1>3

\* A run that ends is reported, and its task is gone (spawn_child's join task).
LEMMA ExitStep ==
    ASSUME SupInv, NEW t \in tasks, NEW exit \in {"Ok", "Err", "Cancelled"},
           tasks' = tasks \ {t}, Sent(Event("ChildExited", t.child, t.gen, exit)),
           UNCHANGED <<phase, state, generation, abort, timers>>
    PROVE  SupInv'
<1> DEFINE e == Event("ChildExited", t.child, t.gen, exit)
<1>1. t.child \in Children /\ t.gen \in Nat /\ t.gen <= generation[t.child]
  BY DEF SupInv, SupTypes, SupRuns
<1>2. e \in SupEvents /\ e.kind = "ChildExited" /\ e.child = t.child /\ e.gen = t.gen
  BY <1>1 DEF SupEvents, Event
<1> HIDE DEF e
<1>3. /\ events' \in Seq(SupEvents) /\ Elems(events') \subseteq Elems(events) \cup {e}
      /\ Elems(events) \subseteq Elems(events')
      /\ phase = "running" => e \in Elems(events')
      /\ phase # "running" => events' = events
  BY <1>2, SentEvents DEF SupInv, e
<1>4. SupTypes'
  BY <1>3 DEF SupInv, SupTypes, SupEvents
<1>5. ASSUME NEW f \in Elems(events'), f.kind = "ChildExited"
      PROVE  f.gen <= generation[f.child] /\ \A u \in tasks' : ~Exited(f, u.child, u.gen)
  <2>1. CASE f \in Elems(events)
    BY <1>5, <2>1 DEF SupInv, SupRuns
  <2>2. CASE f = e
    <3>1. ASSUME NEW u \in tasks', Exited(f, u.child, u.gen) PROVE FALSE
      <4>1. u.child = t.child /\ u.gen = t.gen /\ u \in tasks /\ u # t
        BY <1>2, <2>2, <3>1 DEF Exited
      <4> QED BY <4>1 DEF SupInv, SupRuns
    <3> QED BY <1>1, <1>2, <2>2, <3>1
  <2> QED BY <1>3, <2>1, <2>2
<1>6. SupRuns'
  <2>1. phase # "built"
    BY DEF SupInv, SupRuns
  <2> QED BY <1>5, <2>1 DEF SupInv, SupRuns
<1>7. ASSUME phase = "running", NEW c \in Children, state[c] = "Running"
      PROVE  \/ \E u \in tasks' : u.child = c /\ u.gen = generation[c] /\ ~u.aborted
             \/ \E f \in Elems(events') : Exited(f, c, generation[c])
  <2>1. CASE \E f \in Elems(events) : Exited(f, c, generation[c])
    <3>1. PICK f \in Elems(events) : Exited(f, c, generation[c])
      BY <2>1
    <3>2. f \in Elems(events')
      BY <1>3
    <3> QED BY <3>1, <3>2
  <2>2. CASE \E u \in tasks : u.child = c /\ u.gen = generation[c] /\ ~u.aborted
    <3>1. PICK u \in tasks : u.child = c /\ u.gen = generation[c] /\ ~u.aborted
      BY <2>2
    <3>2. CASE u = t
      <4>1. Exited(e, c, generation[c])
        BY <1>2, <3>1, <3>2 DEF Exited
      <4>2. e \in Elems(events')
        BY <1>3, <1>7
      <4> QED BY <4>1, <4>2
    <3>3. CASE u # t
      BY <3>1, <3>3
    <3> QED BY <3>2, <3>3
  <2> QED BY <1>7, <2>1, <2>2 DEF SupInv, SupTasks
<1>8. SupTasks'
  BY <1>7 DEF SupInv, SupTasks
<1> QED BY <1>4, <1>6, <1>8 DEF SupInv

\* An event is taken that changes no child and no task.
LEMMA TakenStep ==
    ASSUME SupInv, events # <<>>, events' = Tail(events), phase # "built",
           UNCHANGED <<phase, state, generation, abort, tasks, timers>>,
           \A c \in Children : ~Exited(Head(events), c, generation[c])
    PROVE  SupInv'
<1>1. events \in Seq(SupEvents)
  BY DEF SupInv, SupTypes, SupEvents
<1>2. events' \in Seq(SupEvents) /\ Elems(events) = {Head(events)} \cup Elems(events')
  BY <1>1, ElemsTail
<1>3. SupTypes'
  BY <1>2 DEF SupInv, SupTypes, SupEvents
<1>4. SupRuns'
  BY <1>2 DEF SupInv, SupRuns
<1>5. SupTasks'
  BY <1>2 DEF SupInv, SupTasks
<1> QED BY <1>3, <1>4, <1>5 DEF SupInv

\* A child whose backoff is over runs under a new generation (handle_restart_ready).
LEMMA RestartStep ==
    ASSUME SupInv, NEW c \in Children, phase = "running", UNCHANGED <<phase, timers>>,
           events # <<>>, events' = Tail(events), Head(events).kind # "ChildExited",
           state[c] = "BackingOff",
           generation' = [generation EXCEPT ![c] = generation[c] + 1],
           abort' = [abort EXCEPT ![c] = generation[c] + 1],
           state' = [state EXCEPT ![c] = "Running"],
           tasks' = tasks \cup {Task(c, generation[c] + 1)}
    PROVE  SupInv'
<1> DEFINE g == generation[c] + 1
           t == Task(c, g)
<1>1. /\ generation \in [Children -> Nat] /\ abort \in [Children -> Nat]
      /\ state \in [Children -> States] /\ events \in Seq(SupEvents)
  BY DEF SupInv, SupTypes, SupEvents
<1>2. /\ generation[c] \in Nat /\ g \in Nat /\ g > generation[c]
      /\ t.child = c /\ t.gen = g /\ ~t.aborted
      /\ t \in [child : Children, gen : Nat, aborted : BOOLEAN, body : BOOLEAN]
  BY <1>1 DEF Task
<1>3. /\ generation' \in [Children -> Nat] /\ abort' \in [Children -> Nat]
      /\ state' \in [Children -> States]
      /\ generation'[c] = g /\ abort'[c] = g /\ state'[c] = "Running"
      /\ \A d \in Children \ {c} : /\ generation'[d] = generation[d] /\ abort'[d] = abort[d]
                                   /\ state'[d] = state[d]
  BY <1>1, <1>2 DEF States
<1>4. events' \in Seq(SupEvents) /\ Elems(events) = {Head(events)} \cup Elems(events')
  BY <1>1, ElemsTail
<1>5. tasks' = tasks \cup {t}
  OBVIOUS
<1> HIDE DEF t, g
<1>6. ASSUME NEW u \in tasks
      PROVE  /\ u.child \in Children /\ u.gen \in Nat /\ u.gen <= generation[u.child]
             /\ ~u.aborted => u.child # c
             /\ u.child = c => u.gen < g
  <2>1. u.child \in Children /\ u.gen \in Nat /\ u.gen <= generation[u.child]
    BY DEF SupInv, SupTypes, SupRuns
  <2>2. ~u.aborted => u.child # c
    BY DEF SupInv, SupTasks
  <2> QED BY <1>2, <2>1, <2>2
<1>7. ASSUME NEW f \in Elems(events'), f.kind = "ChildExited"
      PROVE  f.gen <= generation'[f.child] /\ \A u \in tasks' : ~Exited(f, u.child, u.gen)
  <2>1. f \in Elems(events) /\ f.child \in Children /\ f.gen \in Nat
    BY <1>4, <1>7, ElemsIn DEF SupEvents, Event
  <2>2. f.gen <= generation[f.child] /\ \A u \in tasks : ~Exited(f, u.child, u.gen)
    BY <1>7, <2>1 DEF SupInv, SupRuns
  <2>3. ~Exited(f, t.child, t.gen)
    BY <1>2, <2>1, <2>2 DEF Exited
  <2>4. f.gen <= generation'[f.child]
    BY <1>1, <1>2, <1>3, <2>1, <2>2
  <2> QED BY <1>5, <2>2, <2>3, <2>4
<1>8. SupTypes'
  BY <1>2, <1>3, <1>4, <1>5 DEF SupInv, SupTypes, SupEvents
<1>9. SupRuns'
  <2>1. \A u \in tasks' : u.gen <= generation'[u.child]
    BY <1>1, <1>2, <1>3, <1>5, <1>6
  <2>2. \A u \in tasks' : ~u.aborted => abort'[u.child] = u.gen
    <3>1. \A u \in tasks : ~u.aborted => abort[u.child] = u.gen
      BY DEF SupInv, SupRuns
    <3> QED BY <1>2, <1>3, <1>5, <1>6, <3>1
  <2>3. \A u, v \in tasks' : u.child = v.child /\ u.gen = v.gen => u = v
    <3>1. \A u, v \in tasks : u.child = v.child /\ u.gen = v.gen => u = v
      BY DEF SupInv, SupRuns
    <3>2. \A u \in tasks : ~(u.child = t.child /\ u.gen = t.gen)
      BY <1>2, <1>6
    <3> QED BY <1>5, <3>1, <3>2
  <2> QED BY <1>7, <2>1, <2>2, <2>3 DEF SupRuns
<1>10. SupTasks'
  <2>1. ASSUME NEW u \in tasks', ~u.aborted
        PROVE  state'[u.child] = "Running" /\ u.gen = generation'[u.child]
    BY <1>2, <1>3, <1>5, <1>6, <2>1 DEF SupInv, SupTasks
  <2>2. ASSUME NEW d \in Children, state'[d] = "Running"
        PROVE  \/ \E u \in tasks' : u.child = d /\ u.gen = generation'[d] /\ ~u.aborted
               \/ \E f \in Elems(events') : Exited(f, d, generation'[d])
    <3>1. CASE d = c
      BY <1>2, <1>3, <1>5, <3>1
    <3>2. CASE d # c
      <4>1. state[d] = "Running" /\ generation'[d] = generation[d]
        BY <1>3, <2>2, <3>2
      <4>2. ~Exited(Head(events), d, generation[d])
        BY DEF Exited
      <4> QED BY <1>4, <1>5, <4>1, <4>2 DEF SupInv, SupTasks
    <3> QED BY <3>1, <3>2
  <2> QED BY <2>1, <2>2 DEF SupTasks
<1> QED BY <1>8, <1>9, <1>10 DEF SupInv

\* Shutdown tells every task to stop and takes no child for running
\* (handle_shutdown_event).
LEMMA ShutdownStep ==
    ASSUME SupInv, HandleShutdown
    PROVE  SupInv'
<1> DEFINE TaskSet == [child : Children, gen : Nat, aborted : BOOLEAN, body : BOOLEAN]
<1>1. /\ phase = "running" /\ UNCHANGED <<phase, generation, timers>>
      /\ events # <<>> /\ events' = Tail(events) /\ tasks' = Aborting(Children)
      /\ abort' = [c \in Children |-> 0]
      /\ state' = [c \in Children |-> IF state[c] = "Running" THEN "Idle"
                     ELSE IF state[c] = "BackingOff" THEN "Removed" ELSE state[c]]
  BY DEF HandleShutdown, Next_event, config, signal
<1>2. events \in Seq(SupEvents) /\ state \in [Children -> States] /\ tasks \subseteq TaskSet
  BY DEF SupInv, SupTypes, SupEvents
<1>3. events' \in Seq(SupEvents) /\ Elems(events) = {Head(events)} \cup Elems(events')
  BY <1>1, <1>2, ElemsTail
<1>4. ASSUME NEW x \in tasks'
      PROVE  /\ x \in TaskSet /\ x.aborted
             /\ \E t \in tasks : /\ x.child = t.child /\ x.gen = t.gen
                                 /\ x = IF t.child \in Children /\ t.gen = abort[t.child]
                                        THEN [t EXCEPT !.aborted = TRUE] ELSE t
  <2>1. /\ x \in TaskSet
        /\ \E t \in tasks : /\ x.child = t.child /\ x.gen = t.gen
                            /\ x = IF t.child \in Children /\ t.gen = abort[t.child]
                                   THEN [t EXCEPT !.aborted = TRUE] ELSE t
    BY <1>1, AbortedTasks DEF SupInv
  <2>2. PICK t \in tasks : x = IF t.child \in Children /\ t.gen = abort[t.child]
                               THEN [t EXCEPT !.aborted = TRUE] ELSE t
    BY <2>1
  <2>3. t \in TaskSet /\ (~t.aborted => abort[t.child] = t.gen)
    BY <1>2 DEF SupInv, SupRuns
  <2>4. x.aborted
    BY <2>2, <2>3
  <2> QED BY <2>1, <2>4
<1>5. \A c \in Children : state'[c] \in States /\ state'[c] # "Running"
  BY <1>1, <1>2 DEF States
<1>6. SupTypes'
  <2>1. state' \in [Children -> States] /\ abort' \in [Children -> Nat]
    BY <1>1, <1>5
  <2>2. tasks' \subseteq TaskSet
    BY <1>4
  <2> QED BY <1>1, <1>3, <2>1, <2>2 DEF SupInv, SupTypes, SupEvents
<1>7. ASSUME NEW x \in tasks', NEW y \in tasks', x.child = y.child, x.gen = y.gen PROVE x = y
  <2>1. PICK t \in tasks : /\ x.child = t.child /\ x.gen = t.gen
                           /\ x = IF t.child \in Children /\ t.gen = abort[t.child]
                                  THEN [t EXCEPT !.aborted = TRUE] ELSE t
    BY <1>4
  <2>2. PICK u \in tasks : /\ y.child = u.child /\ y.gen = u.gen
                           /\ y = IF u.child \in Children /\ u.gen = abort[u.child]
                                  THEN [u EXCEPT !.aborted = TRUE] ELSE u
    BY <1>4
  <2>3. t = u
    BY <1>7, <2>1, <2>2 DEF SupInv, SupRuns
  <2> QED BY <2>1, <2>2, <2>3
<1>8. SupRuns'
  <2>1. \A x \in tasks' : x.gen <= generation[x.child]
    BY <1>4 DEF SupInv, SupRuns
  <2>2. ASSUME NEW f \in Elems(events'), f.kind = "ChildExited"
        PROVE  f.gen <= generation[f.child] /\ \A x \in tasks' : ~Exited(f, x.child, x.gen)
    <3>1. f.gen <= generation[f.child] /\ \A t \in tasks : ~Exited(f, t.child, t.gen)
      BY <1>3, <2>2 DEF SupInv, SupRuns
    <3> QED BY <1>4, <3>1
  <2> QED BY <1>1, <1>4, <1>7, <2>1, <2>2 DEF SupRuns
<1>9. SupTasks'
  BY <1>4, <1>5 DEF SupTasks
<1> QED BY <1>6, <1>8, <1>9 DEF SupInv

\* The supervisor returns only with no task left that was not told to stop (run).
LEMMA ReturnStep ==
    ASSUME SupInv, Return
    PROVE  SupInv'
<1>1. /\ phase = "running" /\ phase' \in {"Shutdown", "AllChildrenStopped"} /\ events' = <<>>
      /\ UNCHANGED <<state, generation, abort, tasks, timers>> /\ Returns
  BY DEF Return, config, child
<1>2. \A c \in Children : state[c] # "Running"
  <2>1. CASE shutting_down
    BY <1>1, <2>1 DEF Returns, Alive
  <2>2. CASE ~shutting_down
    BY <1>1, <2>2 DEF Returns, AllTerminal
  <2> QED BY <2>1, <2>2
<1>3. \A t \in tasks : t.aborted
  BY <1>2 DEF SupInv, SupTypes, SupTasks
<1>4. Elems(<<>>) = {}
  BY ElemsEmpty
<1>5. SupTypes'
  BY <1>1 DEF SupInv, SupTypes
<1> QED BY <1>1, <1>3, <1>4, <1>5 DEF SupInv, SupRuns, SupTasks

\* The children are spawned (run).
LEMMA RunStep ==
    ASSUME SupInv, Run
    PROVE  SupInv'
<1>1. /\ phase = "built" /\ phase' = "running" /\ UNCHANGED <<timers, events>>
      /\ state' = [c \in Children |-> "Running"] /\ generation' = [c \in Children |-> 1]
      /\ abort' = [c \in Children |-> 1] /\ tasks' = {Task(c, 1) : c \in Children}
  BY DEF Run, config
<1>2. timers' = {} /\ events' = <<>> /\ Elems(events') = {}
  BY <1>1, ElemsEmpty DEF SupInv, SupRuns
<1>3. ASSUME NEW t \in tasks'
      PROVE  /\ t.child \in Children /\ t.gen = 1 /\ ~t.aborted /\ t = Task(t.child, 1)
             /\ t \in [child : Children, gen : Nat, aborted : BOOLEAN, body : BOOLEAN]
  <2>1. PICK c \in Children : t = Task(c, 1)
    BY <1>1
  <2> QED BY <2>1 DEF Task
<1>4. ASSUME NEW c \in Children PROVE \E t \in tasks' : t.child = c /\ t.gen = 1 /\ ~t.aborted
  <2>1. Task(c, 1) \in tasks'
    BY <1>1
  <2> QED BY <2>1 DEF Task
<1>5. SupTypes'
  BY <1>1, <1>2, <1>3 DEF SupInv, SupTypes, States
<1>6. SupRuns'
  BY <1>1, <1>2, <1>3 DEF SupRuns
<1>7. SupTasks'
  BY <1>1, <1>3, <1>4 DEF SupTasks
<1> QED BY <1>5, <1>6, <1>7 DEF SupInv

\* Something is sent that is no exit.
LEMMA QuietStep ==
    ASSUME SupInv, NEW e \in SupEvents, e.kind # "ChildExited", Sent(e) \/ UNCHANGED events,
           timers' \subseteq timers, phase # "built" \/ UNCHANGED events,
           UNCHANGED <<phase, state, generation, abort, tasks>>
    PROVE  SupInv'
<1>1. /\ events' \in Seq(SupEvents) /\ Elems(events') \subseteq Elems(events) \cup {e}
      /\ Elems(events) \subseteq Elems(events')
  <2>1. CASE UNCHANGED events
    BY <2>1 DEF SupInv, SupTypes, SupEvents
  <2>2. CASE Sent(e)
    BY <2>2, SentEvents DEF SupInv
  <2> QED BY <2>1, <2>2
<1>2. SupTypes'
  BY <1>1 DEF SupInv, SupTypes, SupEvents
<1>3. SupRuns'
  BY <1>1 DEF SupInv, SupRuns
<1>4. SupTasks'
  BY <1>1 DEF SupInv, SupTasks
<1> QED BY <1>2, <1>3, <1>4 DEF SupInv

\* The child's lock is taken: the task is the same run (make_factory).
LEMMA EnterStep ==
    ASSUME SupInv, NEW t \in tasks, Enter(t)
    PROVE  SupInv'
<1> DEFINE v == [t EXCEPT !.body = TRUE]
<1>1. /\ tasks' = (tasks \ {t}) \cup {v}
      /\ UNCHANGED <<phase, state, generation, abort, timers, events>>
  BY DEF Enter, config, child, signal
<1>2. /\ v \in [child : Children, gen : Nat, aborted : BOOLEAN, body : BOOLEAN]
      /\ v.child = t.child /\ v.gen = t.gen /\ v.aborted = t.aborted
  BY DEF SupInv, SupTypes
<1> HIDE DEF v
<1>3. SupTypes'
  BY <1>1, <1>2 DEF SupInv, SupTypes
<1>4. \A u \in tasks' : \E w \in tasks : /\ u.child = w.child /\ u.gen = w.gen
                                         /\ u.aborted = w.aborted /\ u = (IF w = t THEN v ELSE w)
  BY <1>1, <1>2
<1>5. ASSUME NEW w \in tasks
      PROVE  \E u \in tasks' : u.child = w.child /\ u.gen = w.gen /\ u.aborted = w.aborted
  BY <1>1, <1>2
<1>6. SupRuns'
  <2>1. ASSUME NEW x \in tasks', NEW y \in tasks', x.child = y.child, x.gen = y.gen PROVE x = y
    <3>1. PICK a \in tasks : x.child = a.child /\ x.gen = a.gen /\ x = (IF a = t THEN v ELSE a)
      BY <1>4
    <3>2. PICK b \in tasks : y.child = b.child /\ y.gen = b.gen /\ y = (IF b = t THEN v ELSE b)
      BY <1>4
    <3>3. a = b
      BY <2>1, <3>1, <3>2 DEF SupInv, SupRuns
    <3> QED BY <3>1, <3>2, <3>3
  <2>2. ASSUME NEW x \in tasks'
        PROVE  x.gen <= generation[x.child] /\ (~x.aborted => abort[x.child] = x.gen)
    BY <1>4 DEF SupInv, SupRuns
  <2>3. ASSUME NEW f \in Elems(events), f.kind = "ChildExited"
        PROVE  f.gen <= generation[f.child] /\ \A x \in tasks' : ~Exited(f, x.child, x.gen)
    <3>1. f.gen <= generation[f.child] /\ \A w \in tasks : ~Exited(f, w.child, w.gen)
      BY <2>3 DEF SupInv, SupRuns
    <3> QED BY <1>4, <3>1
  <2>4. phase # "built"
    BY DEF SupInv, SupRuns
  <2> QED BY <1>1, <2>1, <2>2, <2>3, <2>4 DEF SupRuns
<1>7. SupTasks'
  <2>1. ASSUME NEW x \in tasks', ~x.aborted
        PROVE  phase = "running" /\ state[x.child] = "Running" /\ x.gen = generation[x.child]
    BY <1>4, <2>1 DEF SupInv, SupTasks
  <2>2. ASSUME phase = "running", NEW c \in Children, state[c] = "Running"
        PROVE  \/ \E u \in tasks' : u.child = c /\ u.gen = generation[c] /\ ~u.aborted
               \/ \E e \in Elems(events) : Exited(e, c, generation[c])
    BY <1>5, <2>2 DEF SupInv, SupTasks
  <2> QED BY <1>1, <2>1, <2>2 DEF SupTasks
<1> QED BY <1>3, <1>6, <1>7 DEF SupInv

\* The supervisor takes an exit or a timer from its channel.
LEMMA HandledStep ==
    ASSUME SupInv, HandleChildExited \/ HandleRestartReady
    PROVE  SupInv'
<1> DEFINE e == Head(events)
<1>1. /\ phase = "running" /\ UNCHANGED phase /\ events # <<>> /\ events' = Tail(events)
      /\ e.kind \in {"ChildExited", "RestartReady"}
  BY DEF HandleChildExited, HandleRestartReady, Next_event
<1>2. e \in Elems(events) /\ e \in SupEvents
  BY <1>1, ElemsTail DEF SupInv, SupTypes, SupEvents
<1>3. e.child \in Children /\ e.gen \in Nat
  BY <1>1, <1>2 DEF SupEvents, Event
<1>4. CASE HandleChildExited
  <2>1. e.kind = "ChildExited"
    BY <1>4 DEF HandleChildExited, Next_event
  <2>2. CASE e.gen # generation[e.child]
    <3>1. UNCHANGED <<state, generation, abort, tasks, timers>>
      BY <1>4, <2>2 DEF HandleChildExited, child
    <3>2. \A c \in Children : ~Exited(e, c, generation[c])
      BY <2>2 DEF Exited
    <3> QED BY <1>1, <3>1, <3>2, TakenStep
  <2>3. CASE e.gen = generation[e.child]
    <3>1. Cascade(e.child, e.exit)
      BY <1>4, <2>3 DEF HandleChildExited
    <3>2. Exited(e, e.child, generation[e.child])
      BY <2>1, <2>3 DEF Exited
    <3> QED BY <1>1, <1>2, <1>3, <3>1, <3>2, CascadeStep
  <2> QED BY <2>2, <2>3
<1>5. CASE HandleRestartReady
  <2>1. e.kind = "RestartReady" /\ UNCHANGED timers
    BY <1>5 DEF HandleRestartReady, Next_event
  <2>2. CASE e.gen = generation[e.child] /\ state[e.child] = "BackingOff"
    <3> DEFINE c == e.child
    <3>1. /\ generation' = [generation EXCEPT ![c] = generation[c] + 1]
          /\ abort' = [abort EXCEPT ![c] = generation[c] + 1]
          /\ state' = [state EXCEPT ![c] = "Running"]
          /\ tasks' = tasks \cup {Task(c, generation[c] + 1)}
      BY <1>5, <2>2 DEF HandleRestartReady
    <3> QED BY <1>1, <1>3, <2>1, <2>2, <3>1, RestartStep
  <2>3. CASE ~(e.gen = generation[e.child] /\ state[e.child] = "BackingOff")
    <3>1. UNCHANGED <<state, generation, abort, tasks>>
      BY <1>5, <2>3 DEF HandleRestartReady, child
    <3>2. \A c \in Children : ~Exited(e, c, generation[c])
      BY <2>1 DEF Exited
    <3> QED BY <1>1, <2>1, <3>1, <3>2, TakenStep
  <2> QED BY <2>2, <2>3
<1> QED BY <1>4, <1>5

\* The supervisor's bookkeeping and the runtime's tasks agree whatever exits,
\* timers, cascades and shutdowns overtake each other: no child has two runs
\* nobody told to stop, and none is taken for running that has stopped unnoticed
\* (spawn_child, handle_child_exited, cascade, handle_shutdown_event).
THEOREM TasksAreAccounted == SupSpec => []TasksAccounted
<1>1. SupInit => SupInv
  <2> SUFFICES ASSUME SupInit PROVE SupInv
    OBVIOUS
  <2>1. SupTypes
    BY DEF SupInit, SupTypes, States
  <2>2. tasks = {} /\ timers = {} /\ events = <<>> /\ phase = "built"
    BY DEF SupInit
  <2> QED BY <2>1, <2>2, ElemsEmpty DEF SupInv, SupRuns, SupTasks
<1>2. SupInv /\ [SupNext]_supVars => SupInv'
  <2> SUFFICES ASSUME SupInv, [SupNext]_supVars PROVE SupInv'
    OBVIOUS
  <2>0. Event("Shutdown", NoChild, 0, "none") \in SupEvents
        /\ Event("Shutdown", NoChild, 0, "none").kind # "ChildExited"
    BY DEF SupEvents, Event
  <2>1. CASE Run
    BY <2>1, RunStep
  <2>2. CASE Return
    BY <2>2, ReturnStep
  <2>3. CASE HandleShutdown
    BY <2>3, ShutdownStep
  <2>4. CASE HandleChildExited \/ HandleRestartReady
    BY <2>4, HandledStep
  <2>5. ASSUME NEW t \in tasks, Enter(t) PROVE SupInv'
    BY <2>5, EnterStep
  <2>6. ASSUME NEW t \in tasks, Cancelled(t) PROVE SupInv'
    BY <2>6, ExitStep DEF Cancelled, child
  <2>7. ASSUME NEW t \in tasks, NEW exit \in {"Ok", "Err"}, Exit(t, exit) PROVE SupInv'
    BY <2>7, ExitStep DEF Exit, child
  <2>8. ASSUME NEW r \in timers, Timer(r) PROVE SupInv'
    <3> DEFINE e == Event("RestartReady", r.child, r.gen, "none")
    <3>1. e \in SupEvents /\ e.kind # "ChildExited"
      BY DEF SupInv, SupTypes, SupEvents, Event
    <3>2. /\ Sent(e) /\ timers' \subseteq timers /\ UNCHANGED <<phase, state, generation, abort, tasks>>
      BY <2>8 DEF Timer, child
    <3>3. phase # "built"
      BY DEF SupInv, SupRuns
    <3> HIDE DEF e
    <3> QED BY <3>1, <3>2, <3>3, QuietStep
  <2>9. CASE Shutdown
    BY <2>0, <2>9, QuietStep DEF Shutdown, child
  <2>10. CASE Bridge
    <3> DEFINE e == Event("Shutdown", NoChild, 0, "none")
    <3>1. Sent(e) /\ UNCHANGED <<phase, state, generation, abort, tasks, timers>>
      BY <2>10 DEF Bridge, child
    <3>2. phase # "built" \/ UNCHANGED events
      BY <3>1 DEF Sent
    <3> HIDE DEF e
    <3> QED BY <2>0, <3>1, <3>2, QuietStep DEF e
  <2>11. CASE UNCHANGED supVars
    BY <2>0, <2>11, QuietStep DEF supVars, child
  <2> QED BY <2>1, <2>2, <2>3, <2>4, <2>5, <2>6, <2>7, <2>8, <2>9, <2>10, <2>11 DEF SupNext
<1>3. SupInv => TasksAccounted
  <2> SUFFICES ASSUME SupInv PROVE TasksAccounted
    OBVIOUS
  <2>1. \A c, g : (\E e \in Elems(events) : Exited(e, c, g)) <=>
           \E i \in DOMAIN events : /\ events[i].kind = "ChildExited" /\ events[i].child = c
                                    /\ events[i].gen = g
    BY DEF Elems, Exited
  <2> QED BY <2>1 DEF SupInv, SupTasks, TasksAccounted
<1> QED BY <1>1, <1>2, <1>3, PTL DEF SupSpec

-----------------------------------------------------------------------------
(* A client connection: the replies written and the requests outstanding.    *)

\* A set of numbers that is not empty has a least one.
LEMMA Least ==
    ASSUME NEW I, I \subseteq Nat, I # {}
    PROVE  \E x \in I : \A y \in I : x <= y
<1> DEFINE Below == OpToRel(<, Nat)
<1>1. IsWellFoundedOn(Below, Nat)
  BY NatLessThanWellFounded
<1>2. \A x, y \in Nat : y < x => <<y, x>> \in Below
  BY DEF OpToRel
<1> HIDE DEF Below
<1>3. PICK x \in I : \A y \in I : ~ (<<y, x>> \in Below)
  BY <1>1, WFMin
<1>4. ASSUME NEW y \in I PROVE x <= y
  <2>1. x \in Nat /\ y \in Nat /\ ~ (y < x)
    BY <1>2, <1>3
  <2> QED BY <2>1
<1> QED BY <1>4

\* A queue has a longest prefix within a set.
LEMMA LongestPrefix ==
    ASSUME NEW S, NEW s \in Seq(S), NEW G
    PROVE  \E n \in 0..Len(s) : /\ \A i \in 1..n : s[i] \in G
                                /\ n < Len(s) => s[n + 1] \notin G
<1> DEFINE Out == {i \in 1..Len(s) : s[i] \notin G}
<1>0. Len(s) \in Nat
  BY LenProperties
<1>1. CASE Out = {}
  <2>1. \A i \in 1..Len(s) : s[i] \in G
    BY <1>1
  <2> WITNESS Len(s) \in 0..Len(s)
  <2> QED BY <1>0, <2>1
<1>2. CASE Out # {}
  <2>1. Out \subseteq Nat
    BY <1>0
  <2>2. PICK k \in Out : \A y \in Out : k <= y
    BY <1>2, <2>1, Least
  <2>3. k \in 1..Len(s) /\ s[k] \notin G
    BY <2>2
  <2>4. ASSUME NEW i \in 1..(k - 1) PROVE s[i] \in G
    <3>1. i \in 1..Len(s) /\ ~ (k <= i)
      BY <1>0, <2>3
    <3> QED BY <2>2, <3>1
  <2>5. k - 1 \in 0..Len(s) /\ (k - 1) + 1 = k
    BY <1>0, <2>3
  <2> QED BY <2>3, <2>4, <2>5
<1> QED BY <1>1, <1>2

\* Appending to a queue appends to what stands before it and the queue together.
LEMMA ConcatAppend ==
    ASSUME NEW S, NEW s \in Seq(S), NEW t \in Seq(S), NEW e \in S
    PROVE  s \o Append(t, e) = Append(s \o t, e)
<1>1. /\ s \o t \in Seq(S) /\ Append(t, e) \in Seq(S)
      /\ s \o Append(t, e) \in Seq(S) /\ Append(s \o t, e) \in Seq(S)
  BY ConcatProperties, AppendProperties
<1>2. Len(s \o Append(t, e)) = Len(Append(s \o t, e))
  BY <1>1, ConcatProperties, AppendProperties, LenProperties
<1>3. ASSUME NEW i \in 1..Len(s \o Append(t, e))
      PROVE  (s \o Append(t, e))[i] = Append(s \o t, e)[i]
  BY <1>1, LenProperties
<1> QED BY <1>1, <1>2, <1>3, SeqEqual

\* A prefix of a queue may be moved to what stands before it.
LEMMA ConcatSplit ==
    ASSUME NEW S, NEW s \in Seq(S), NEW t \in Seq(S), NEW n \in 0..Len(t)
    PROVE  /\ SubSeq(t, 1, n) \in Seq(S) /\ SubSeq(t, n + 1, Len(t)) \in Seq(S)
           /\ (s \o SubSeq(t, 1, n)) \o SubSeq(t, n + 1, Len(t)) = s \o t
           /\ \A i \in 1..Len(t) : i > n => t[i] \in Elems(SubSeq(t, n + 1, Len(t)))
<1> DEFINE a == SubSeq(t, 1, n)
           b == SubSeq(t, n + 1, Len(t))
<1>0. Len(t) \in Nat /\ Len(s) \in Nat /\ n \in Nat /\ n <= Len(t)
  BY LenProperties
<1>1. /\ a \in Seq(S) /\ Len(a) = n /\ \A i \in 1..n : a[i] = t[i]
  BY <1>0, SubSeqProperties, ElementOfSeq
<1>2. /\ b \in Seq(S) /\ Len(b) = Len(t) - n /\ \A i \in 1..(Len(t) - n) : b[i] = t[n + i]
  BY <1>0, SubSeqProperties, ElementOfSeq
<1> HIDE DEF a, b
<1> DEFINE c == s \o a
           d == c \o b
           e == s \o t
<1>3. /\ c \in Seq(S) /\ Len(c) = Len(s) + n
      /\ \A i \in 1..(Len(s) + n) : c[i] = IF i <= Len(s) THEN s[i] ELSE a[i - Len(s)]
  BY <1>1, ConcatProperties
<1>4. /\ e \in Seq(S) /\ Len(e) = Len(s) + Len(t)
      /\ \A i \in 1..(Len(s) + Len(t)) : e[i] = IF i <= Len(s) THEN s[i] ELSE t[i - Len(s)]
  BY ConcatProperties
<1> HIDE DEF c
<1>5. /\ d \in Seq(S) /\ Len(d) = Len(s) + Len(t)
      /\ \A i \in 1..(Len(s) + Len(t)) : d[i] = IF i <= Len(s) + n THEN c[i] ELSE b[i - (Len(s) + n)]
  <2>1. /\ d \in Seq(S) /\ Len(d) = Len(c) + Len(b)
        /\ \A i \in 1..(Len(c) + Len(b)) : d[i] = IF i <= Len(c) THEN c[i] ELSE b[i - Len(c)]
    BY <1>2, <1>3, ConcatProperties
  <2> HIDE DEF d
  <2>2. Len(c) + Len(b) = Len(s) + Len(t)
    BY <1>0, <1>2, <1>3
  <2> QED BY <1>3, <2>1, <2>2
<1> HIDE DEF d, e
<1>6. ASSUME NEW i \in 1..(Len(s) + Len(t)) PROVE d[i] = e[i]
  <2>1. CASE i <= Len(s) + n
    <3>1. i \in 1..(Len(s) + n) /\ d[i] = c[i]
      BY <1>0, <1>5, <2>1
    <3>2. CASE i <= Len(s)
      BY <1>0, <1>3, <1>4, <3>1, <3>2
    <3>3. CASE i > Len(s)
      <4>1. i - Len(s) \in 1..n /\ ~ (i <= Len(s))
        BY <1>0, <3>1, <3>3
      <4>2. c[i] = a[i - Len(s)] /\ e[i] = t[i - Len(s)]
        BY <1>3, <1>4, <3>1, <4>1
      <4> QED BY <1>1, <3>1, <4>1, <4>2
    <3> QED BY <1>0, <3>2, <3>3
  <2>2. CASE i > Len(s) + n
    <3> DEFINE k == i - (Len(s) + n)
    <3>1. k \in 1..(Len(t) - n) /\ n + k = i - Len(s) /\ i > Len(s)
      BY <1>0, <2>2
    <3>2. ~ (i <= Len(s) + n) /\ ~ (i <= Len(s))
      BY <1>0, <2>2
    <3>3. d[i] = b[k] /\ e[i] = t[i - Len(s)]
      BY <1>4, <1>5, <3>2
    <3> HIDE DEF k
    <3> QED BY <1>2, <3>1, <3>3
  <2> QED BY <1>0, <2>1, <2>2
<1>7. d = e
  BY <1>4, <1>5, <1>6, SeqEqual
<1>8. ASSUME NEW i \in 1..Len(t), i > n PROVE t[i] \in Elems(b)
  <2>1. i - n \in 1..(Len(t) - n) /\ n + (i - n) = i
    BY <1>0, <1>8
  <2>2. i - n \in DOMAIN b /\ b[i - n] = t[i]
    BY <1>0, <1>2, <2>1, LenProperties
  <2> QED BY <2>2 DEF Elems
<1> QED BY <1>1, <1>2, <1>7, <1>8 DEF a, b, c, d, e

Rising(s) == \A i, j \in DOMAIN s : i < j => s[i] < s[j]

ClientTypes ==
    /\ next_id \in Nat \ {0} /\ omsg_q \in Seq(Nat) /\ written \in Seq(Nat) /\ chan \in Seq(Nat)
    /\ dropped \subseteq 1..(next_id - 1)

\* A reply is owed, in the channel or early, never two of them, and always for
\* a request that is outstanding: no reply is for nobody.
ClientOwed ==
    /\ Uniq(chan)
    /\ waiting \cap Elems(chan) = {} /\ waiting \cap early = {} /\ early \cap Elems(chan) = {}
    /\ Elems(chan) \cup waiting \cup early \subseteq Elems(omsg_q)

ClientInOrder ==
    /\ Rising(written \o omsg_q)
    /\ Elems(written \o omsg_q) = (1..(next_id - 1)) \ dropped

ClientInv == ClientTypes /\ ClientOwed /\ ClientInOrder

\* A larger number at the end keeps a queue rising.
LEMMA RisingAppend ==
    ASSUME NEW s \in Seq(Nat), NEW e \in Nat, Rising(s), \A x \in Elems(s) : x < e
    PROVE  Rising(Append(s, e))
<1>1. /\ DOMAIN s = 1..Len(s) /\ DOMAIN Append(s, e) = 1..(Len(s) + 1) /\ Len(s) \in Nat
      /\ \A i \in 1..Len(s) : Append(s, e)[i] = s[i]
      /\ Append(s, e)[Len(s) + 1] = e
  BY AppendProperties, LenProperties
<1>2. ASSUME NEW i \in 1..(Len(s) + 1), NEW j \in 1..(Len(s) + 1), i < j
      PROVE  Append(s, e)[i] < Append(s, e)[j]
  <2>1. i \in 1..Len(s) /\ Append(s, e)[i] = s[i] /\ s[i] \in Elems(s)
    BY <1>1, <1>2 DEF Elems
  <2>2. CASE j = Len(s) + 1
    BY <1>1, <2>1, <2>2
  <2>3. CASE j # Len(s) + 1
    BY <1>1, <1>2, <2>1, <2>3 DEF Rising
  <2> QED BY <2>2, <2>3
<1> QED BY <1>1, <1>2 DEF Rising

\* The elements of a queue stay when something is put before it.
LEMMA ElemsConcat ==
    ASSUME NEW S, NEW s \in Seq(S), NEW t \in Seq(S)
    PROVE  Elems(t) \subseteq Elems(s \o t)
<1>1. /\ s \o t \in Seq(S) /\ Len(s \o t) = Len(s) + Len(t) /\ Len(s) \in Nat /\ Len(t) \in Nat
      /\ DOMAIN t = 1..Len(t) /\ DOMAIN (s \o t) = 1..(Len(s) + Len(t))
      /\ \A i \in 1..(Len(s) + Len(t)) : (s \o t)[i] = IF i <= Len(s) THEN s[i] ELSE t[i - Len(s)]
  BY ConcatProperties, LenProperties
<1>2. ASSUME NEW i \in 1..Len(t) PROVE t[i] \in Elems(s \o t)
  <2>1. Len(s) + i \in 1..(Len(s) + Len(t)) /\ ~ (Len(s) + i <= Len(s)) /\ (Len(s) + i) - Len(s) = i
    BY <1>1
  <2>2. (s \o t)[Len(s) + i] = t[i]
    BY <1>1, <2>1
  <2> QED BY <1>1, <2>1, <2>2 DEF Elems
<1> QED BY <1>1, <1>2 DEF Elems

\* A request is parsed and dispatched (drive_parser).
LEMMA ParseStep ==
    ASSUME ClientInv, NEW outcome, Parse(outcome)
    PROVE  ClientInv'
<1> DEFINE all == written \o omsg_q
<1>1. /\ next_id' = next_id + 1 /\ UNCHANGED <<early, written>>
      /\ omsg_q' = IF outcome = "drop" THEN omsg_q ELSE Append(omsg_q, next_id)
      /\ dropped' = IF outcome = "drop" THEN dropped \cup {next_id} ELSE dropped
      /\ waiting' = IF outcome = "pending" THEN waiting \cup {next_id} ELSE waiting
      /\ chan' = chan \/ (chan' = Append(chan, next_id) /\ outcome \in {"hint", "inline", "quit"})
  BY DEF Parse
<1>2. /\ next_id \in Nat \ {0} /\ omsg_q \in Seq(Nat) /\ written \in Seq(Nat) /\ chan \in Seq(Nat)
      /\ all \in Seq(Nat) /\ dropped \subseteq 1..(next_id - 1)
  BY ConcatProperties DEF ClientInv, ClientTypes
<1>3. Elems(omsg_q) \subseteq Elems(all) /\ \A x \in Elems(all) : x \in 1..(next_id - 1)
  BY <1>2, ElemsConcat DEF ClientInv, ClientInOrder
<1>4. next_id \notin Elems(omsg_q) /\ next_id \notin Elems(chan) /\ next_id \notin waiting
      /\ next_id \notin early
  BY <1>2, <1>3 DEF ClientInv, ClientOwed
<1>5. \A x \in Elems(all) : x < next_id
  BY <1>2, <1>3
<1>6. CASE outcome = "drop"
  <2>1. UNCHANGED <<omsg_q, waiting, chan, early, written>> /\ dropped' = dropped \cup {next_id}
    BY <1>1, <1>6
  <2>2. (1..((next_id + 1) - 1)) \ (dropped \cup {next_id}) = (1..(next_id - 1)) \ dropped
    BY <1>2
  <2>3. next_id' \in Nat \ {0} /\ dropped' \subseteq 1..(next_id' - 1)
    BY <1>1, <1>2, <2>1
  <2> QED BY <1>1, <2>1, <2>2, <2>3 DEF ClientInv, ClientTypes, ClientOwed, ClientInOrder
<1>7. CASE outcome # "drop"
  <2>1. omsg_q' = Append(omsg_q, next_id) /\ UNCHANGED <<dropped, written>>
    BY <1>1, <1>7
  <2>2. /\ omsg_q' \in Seq(Nat) /\ Elems(omsg_q') = Elems(omsg_q) \cup {next_id}
    <3>1. omsg_q \in Seq(Nat) /\ next_id \in Nat
      BY <1>2
    <3>2. /\ Append(omsg_q, next_id) \in Seq(Nat)
          /\ Elems(Append(omsg_q, next_id)) = Elems(omsg_q) \cup {next_id}
      BY <3>1, ElemsAppend, AppendProperties
    <3> QED BY <2>1, <3>2
  <2>3. (written \o omsg_q)' = Append(all, next_id)
    BY <1>2, <2>1, ConcatAppend
  <2>4. Elems(Append(all, next_id)) = Elems(all) \cup {next_id} /\ Rising(Append(all, next_id))
    <3>1. Rising(all)
      BY DEF ClientInv, ClientInOrder
    <3>2. all \in Seq(Nat) /\ next_id \in Nat
      BY <1>2
    <3> HIDE DEF all
    <3>3. Elems(Append(all, next_id)) = Elems(all) \cup {next_id}
      BY <3>2, ElemsAppend
    <3>4. Rising(Append(all, next_id))
      BY <1>5, <3>1, <3>2, RisingAppend
    <3> QED BY <3>3, <3>4
  <2>5. (1..((next_id + 1) - 1)) \ dropped = ((1..(next_id - 1)) \ dropped) \cup {next_id}
    BY <1>2
  <2>6. ClientInOrder'
    BY <1>1, <2>1, <2>3, <2>4, <2>5 DEF ClientInv, ClientInOrder
  <2>7. chan' \in Seq(Nat) /\ Uniq(chan')
        /\ \/ chan' = chan
           \/ Elems(chan') = Elems(chan) \cup {next_id} /\ waiting' = waiting
    <3>1. CASE chan' = chan
      BY <1>2, <3>1 DEF ClientInv, ClientOwed
    <3>2. CASE chan' = Append(chan, next_id) /\ outcome \in {"hint", "inline", "quit"}
      <4>1. Uniq(chan) /\ next_id \in Nat /\ waiting' = waiting
        BY <1>1, <1>2, <3>2 DEF ClientInv, ClientOwed
      <4> QED BY <1>2, <1>4, <3>2, <4>1, ElemsAppend, AppendProperties
    <3> QED BY <1>1, <3>1, <3>2
  <2>8. ClientOwed'
    BY <1>1, <1>4, <2>2, <2>7 DEF ClientInv, ClientOwed
  <2>9. next_id' \in Nat \ {0} /\ dropped' \subseteq 1..(next_id' - 1)
    BY <1>1, <1>2, <2>1
  <2> QED BY <1>2, <2>1, <2>2, <2>6, <2>7, <2>8, <2>9 DEF ClientInv, ClientTypes
<1> QED BY <1>6, <1>7

\* An answer reaches the channel.
LEMMA DeliverStep ==
    ASSUME ClientInv, NEW id \in waiting, Deliver(id)
    PROVE  ClientInv'
<1>1. /\ waiting' = waiting \ {id} /\ chan' = Append(chan, id)
      /\ UNCHANGED <<next_id, omsg_q, early, written, dropped>>
  BY DEF Deliver
<1>2. id \in Elems(omsg_q) /\ id \notin Elems(chan) /\ id \notin early
  BY DEF ClientInv, ClientOwed
<1>3. id \in Nat /\ chan \in Seq(Nat) /\ Uniq(chan)
  BY <1>2, ElemsIn DEF ClientInv, ClientTypes, ClientOwed
<1>4. chan' \in Seq(Nat) /\ Uniq(chan') /\ Elems(chan') = Elems(chan) \cup {id}
  BY <1>1, <1>2, <1>3, ElemsAppend, AppendProperties
<1>5. ClientOwed'
  BY <1>1, <1>2, <1>4 DEF ClientInv, ClientOwed
<1> QED BY <1>1, <1>4, <1>5 DEF ClientInv, ClientTypes, ClientInOrder

\* A reply is received, and the replies whose turn it is are written
\* (release_in_order): they leave the outstanding queue in its order, and what
\* is still owed is for requests behind them.
LEMMA RecvStep ==
    ASSUME ClientInv, Recv
    PROVE  ClientInv'
<1> DEFINE id == Head(chan)
           ready == early \cup {id}
           n == ReadyPrefix(omsg_q, ready)
           rest == SubSeq(omsg_q, n + 1, Len(omsg_q))
<1>1. /\ omsg_q \in Seq(Nat) /\ written \in Seq(Nat) /\ chan \in Seq(Nat) /\ chan # <<>>
  BY DEF ClientInv, ClientTypes, Recv
<1>2. /\ Tail(chan) \in Seq(Nat) /\ Elems(chan) = {id} \cup Elems(Tail(chan))
      /\ Uniq(Tail(chan)) /\ id \notin Elems(Tail(chan))
  BY <1>1, ElemsTail DEF ClientInv, ClientOwed
<1>3. id \in Elems(omsg_q) /\ id \notin early /\ id \notin waiting
  BY <1>2 DEF ClientInv, ClientOwed
<1>4. n \in 0..Len(omsg_q) /\ \A i \in 1..n : omsg_q[i] \in ready
  <2>1. \E k \in 0..Len(omsg_q) : /\ \A i \in 1..k : omsg_q[i] \in ready
                                  /\ k < Len(omsg_q) => omsg_q[k + 1] \notin ready
    BY <1>1, LongestPrefix
  <2> QED BY <2>1 DEF ReadyPrefix
<1>5. /\ chan' = Tail(chan) /\ omsg_q' = rest /\ UNCHANGED <<next_id, waiting, dropped>>
      /\ written' = written \o SubSeq(omsg_q, 1, n)
      /\ early' = {x \in ready : x \in Elems(rest)}
  <2>1. Range(omsg_q) = Elems(omsg_q) /\ Range(rest) = Elems(rest)
    BY DEF Range, Elems
  <2>2. /\ chan' = Tail(chan) /\ omsg_q' = rest /\ UNCHANGED <<next_id, waiting, dropped>>
        /\ written' = IF id \notin Range(omsg_q) THEN Append(written, id)
                      ELSE written \o SubSeq(omsg_q, 1, n)
        /\ early' = {x \in ready : x \in Range(rest)}
    BY DEF Recv
  <2> HIDE DEF id, ready, n, rest
  <2> QED BY <1>3, <2>1, <2>2
<1>6. /\ SubSeq(omsg_q, 1, n) \in Seq(Nat) /\ rest \in Seq(Nat)
      /\ (written \o SubSeq(omsg_q, 1, n)) \o rest = written \o omsg_q
      /\ \A i \in 1..Len(omsg_q) : i > n => omsg_q[i] \in Elems(rest)
  <2>1. omsg_q \in Seq(Nat) /\ written \in Seq(Nat) /\ n \in 0..Len(omsg_q)
    BY <1>1, <1>4
  <2> HIDE DEF n
  <2> QED BY <2>1, ConcatSplit, Zenon
<1>7. ASSUME NEW x \in Elems(omsg_q), x \notin ready PROVE x \in Elems(rest)
  <2> HIDE DEF n, rest, ready
  <2>1. PICK i \in 1..Len(omsg_q) : x = omsg_q[i]
    BY <1>1, LenProperties DEF Elems
  <2>2. ~ (i \in 1..n)
    BY <1>4, <1>7, <2>1
  <2>3. i > n
    BY <1>1, <1>4, <2>2, LenProperties
  <2> QED BY <1>6, <2>1, <2>3
<1> HIDE DEF n, rest
<1>8. ClientInOrder'
  <2>1. (written \o omsg_q)' = written \o omsg_q
    BY <1>5, <1>6
  <2> QED BY <1>5, <2>1 DEF ClientInv, ClientInOrder
<1>9. ClientOwed'
  <2>1. \A x \in Elems(Tail(chan)) : x \in Elems(rest) /\ x \notin ready
    BY <1>2, <1>7 DEF ClientInv, ClientOwed
  <2>2. \A x \in waiting : x \in Elems(rest) /\ x \notin ready /\ x \notin Elems(Tail(chan))
    BY <1>2, <1>3, <1>7 DEF ClientInv, ClientOwed
  <2> HIDE DEF ready
  <2> QED BY <1>2, <1>5, <2>1, <2>2 DEF ClientOwed
<1>10. ClientTypes'
  BY <1>1, <1>2, <1>5, <1>6, ConcatProperties DEF ClientInv, ClientTypes
<1> QED BY <1>8, <1>9, <1>10 DEF ClientInv

\* Replies are written in request order, each once, and to a request that asked
\* for one, however the dispatcher reorders its answers and whatever the size of
\* the channel (drive_parser, release_in_order, drop_outstanding).
THEOREM RepliesAreInRequestOrder == ClientSpec => []RepliesInRequestOrder
<1>1. (next_id = 1 /\ omsg_q = <<>> /\ written = <<>> /\ chan = <<>> /\ waiting = {}
       /\ early = {} /\ dropped = {}) => ClientInv
  <2> SUFFICES ASSUME next_id = 1, omsg_q = <<>>, written = <<>>, chan = <<>>, waiting = {},
                      early = {}, dropped = {}
               PROVE  ClientInv
    OBVIOUS
  <2>1. written \o omsg_q = <<>> /\ 1..(next_id - 1) = {}
    BY ConcatEmptySeq, EmptySeq
  <2>2. Rising(<<>>)
    BY DEF Rising
  <2>3. ClientTypes
    BY EmptySeq DEF ClientTypes
  <2> QED BY <2>1, <2>2, <2>3, ElemsEmpty DEF ClientInv, ClientOwed, ClientInOrder
<1>2. ClientInit => ClientInv
  BY <1>1 DEF ClientInit
<1>3. ClientInv /\ [ClientNext]_clientVars => ClientInv'
  <2> SUFFICES ASSUME ClientInv, [ClientNext]_clientVars PROVE ClientInv'
    OBVIOUS
  <2>0. UNCHANGED <<next_id, omsg_q, waiting, chan, early, written, dropped>> => ClientInv'
    BY DEF ClientInv, ClientTypes, ClientOwed, ClientInOrder
  <2>1. ASSUME NEW n \in 1..MaxReqs, Read(n) PROVE ClientInv'
    BY <2>0, <2>1 DEF Read
  <2>2. ASSUME NEW outcome \in Outcomes, Parse(outcome) PROVE ClientInv'
    BY <2>2, ParseStep
  <2>3. ASSUME NEW id \in waiting, Deliver(id) PROVE ClientInv'
    BY <2>3, DeliverStep
  <2>4. CASE ReadEof \/ Abort \/ UNCHANGED clientVars
    BY <2>0, <2>4 DEF ReadEof, Abort, clientVars
  <2>5. CASE Recv
    BY <2>5, RecvStep
  <2>6. CASE Accept
    <3>1. /\ next_id' = 1 /\ omsg_q' = <<>> /\ written' = <<>> /\ chan' = <<>> /\ waiting' = {}
          /\ early' = {} /\ dropped' = {}
      BY <2>6 DEF Accept
    <3>2. (written \o omsg_q)' = <<>> /\ 1..(next_id' - 1) = {}
      BY <3>1, ConcatEmptySeq, EmptySeq
    <3>3. Rising(<<>>)
      BY DEF Rising
    <3>4. ClientTypes'
      BY <3>1, EmptySeq DEF ClientTypes
    <3> QED BY <3>1, <3>2, <3>3, <3>4, ElemsEmpty DEF ClientInv, ClientOwed, ClientInOrder
  <2> QED BY <2>1, <2>2, <2>3, <2>4, <2>5, <2>6 DEF ClientNext
<1>4. ClientInv => RepliesInRequestOrder
  BY DEF ClientInv, ClientInOrder, Rising, Elems, RepliesInRequestOrder, Range
<1> QED BY <1>2, <1>3, <1>4, PTL DEF ClientSpec

-----------------------------------------------------------------------------
(* The hint store: what is kept, and where.                                  *)

\* The function by which the elements of q that are not in L are kept, up to
\* each position.
Keeps(f, q, L, n) ==
    \A i \in 0..n : f[i] = IF i = 0 THEN <<>>
                           ELSE IF q[i] \in L THEN f[i - 1] ELSE Append(f[i - 1], q[i])

KeepFcn(q, L) ==
    CHOOSE f : f = [i \in 0..Len(q) |-> IF i = 0 THEN <<>>
                                        ELSE IF q[i] \in L THEN f[i - 1]
                                        ELSE Append(f[i - 1], q[i])]

Filter(q, L) == KeepFcn(q, L)[Len(q)]

\* Such a function exists, for every queue.
LEMMA KeepExists ==
    ASSUME NEW S, NEW q \in Seq(S), NEW L
    PROVE  /\ KeepFcn(q, L) \in [0..Len(q) -> Seq(S)]
           /\ Keeps(KeepFcn(q, L), q, L, Len(q))
<1> DEFINE P(n) == \E f \in [0..n -> Seq(S)] : Keeps(f, q, L, n)
           Bad == {n \in 0..Len(q) : ~P(n)}
<1>0. Len(q) \in Nat /\ \A i \in 1..Len(q) : q[i] \in S
  BY LenProperties, ElementOfSeq
<1>1. P(0)
  <2> DEFINE f == [i \in 0..0 |-> <<>>]
  <2>1. f \in [0..0 -> Seq(S)] /\ Keeps(f, q, L, 0)
    BY EmptySeq DEF Keeps
  <2> QED BY <2>1
<1>2. ASSUME NEW n \in 0..Len(q), n # 0, P(n - 1) PROVE P(n)
  <2>1. PICK f \in [0..(n - 1) -> Seq(S)] : Keeps(f, q, L, n - 1)
    BY <1>2
  <2>2. n \in 1..Len(q) /\ n \in Nat /\ n - 1 \in 0..(n - 1) /\ n \in 0..n
    BY <1>0, <1>2
  <2> DEFINE e == IF q[n] \in L THEN f[n - 1] ELSE Append(f[n - 1], q[n])
             g == [i \in 0..n |-> IF i = n THEN e ELSE f[i]]
  <2>3. f[n - 1] \in Seq(S) /\ q[n] \in S
    BY <1>0, <2>2
  <2>4. e \in Seq(S)
    BY <2>3, AppendProperties
  <2>5. g \in [0..n -> Seq(S)]
    <3> HIDE DEF e
    <3>1. \A i \in 0..n : i # n => i \in 0..(n - 1)
      BY <2>2
    <3> QED BY <2>4, <3>1
  <2>6. ASSUME NEW i \in 0..n
        PROVE  g[i] = IF i = 0 THEN <<>>
                      ELSE IF q[i] \in L THEN g[i - 1] ELSE Append(g[i - 1], q[i])
    <3>1. CASE i = n
      <4>1. g[n] = e /\ g[n - 1] = f[n - 1] /\ n # 0
        BY <1>2, <2>2
      <4> HIDE DEF g
      <4> QED BY <3>1, <4>1
    <3>2. CASE i # n
      <4>1. i \in 0..(n - 1) /\ (i # 0 => i - 1 \in 0..n /\ i - 1 # n)
        BY <2>2, <3>2
      <4>2. g[i] = f[i] /\ (i # 0 => g[i - 1] = f[i - 1])
        BY <3>2, <4>1
      <4> HIDE DEF g
      <4> QED BY <2>1, <4>1, <4>2 DEF Keeps
    <3> QED BY <3>1, <3>2
  <2>7. Keeps(g, q, L, n)
    <3> HIDE DEF g
    <3> QED BY <2>6 DEF Keeps
  <2> QED BY <2>5, <2>7
<1> HIDE DEF P
<1>3. Bad = {}
  <2> SUFFICES ASSUME Bad # {} PROVE FALSE
    OBVIOUS
  <2>1. Bad \subseteq Nat
    BY <1>0
  <2>2. PICK n \in Bad : \A m \in Bad : n <= m
    BY <2>1, Least
  <2>3. n \in 0..Len(q) /\ ~P(n) /\ n # 0
    BY <1>1, <2>2
  <2>4. n - 1 \in 0..Len(q) /\ ~ (n <= n - 1)
    BY <1>0, <2>3
  <2>5. P(n - 1)
    BY <2>2, <2>4
  <2> QED BY <1>2, <2>3, <2>5
<1>4. PICK f \in [0..Len(q) -> Seq(S)] : Keeps(f, q, L, Len(q))
  <2>1. P(Len(q))
    BY <1>0, <1>3
  <2> QED BY <2>1 DEF P
<1>5. f = [i \in 0..Len(q) |-> IF i = 0 THEN <<>>
                               ELSE IF q[i] \in L THEN f[i - 1] ELSE Append(f[i - 1], q[i])]
  BY <1>4 DEF Keeps
<1> DEFINE k == KeepFcn(q, L)
<1>6. k = [i \in 0..Len(q) |-> IF i = 0 THEN <<>>
                               ELSE IF q[i] \in L THEN k[i - 1] ELSE Append(k[i - 1], q[i])]
  BY <1>5 DEF KeepFcn
<1> HIDE DEF k
<1>7. Keeps(k, q, L, Len(q)) /\ DOMAIN k = 0..Len(q)
  BY <1>6 DEF Keeps
<1> DEFINE Off == {i \in 0..Len(q) : k[i] # f[i]}
<1>8. Off = {}
  <2> SUFFICES ASSUME Off # {} PROVE FALSE
    OBVIOUS
  <2>1. Off \subseteq Nat
    BY <1>0
  <2>2. PICK i \in Off : \A j \in Off : i <= j
    BY <2>1, Least
  <2>3. CASE i = 0
    BY <1>4, <1>7, <2>2, <2>3 DEF Keeps
  <2>4. CASE i # 0
    <3>1. i - 1 \in 0..Len(q) /\ ~ (i <= i - 1)
      BY <1>0, <2>2, <2>4
    <3>2. k[i - 1] = f[i - 1]
      BY <2>2, <3>1
    <3> QED BY <1>4, <1>7, <2>2, <2>4, <3>2 DEF Keeps
  <2> QED BY <2>3, <2>4
<1>9. k \in [0..Len(q) -> Seq(S)]
  <2>1. \A i \in 0..Len(q) : k[i] = f[i]
    BY <1>8
  <2>2. k = [i \in 0..Len(q) |-> k[i]]
    BY <1>6
  <2> QED BY <1>4, <2>1, <2>2
<1> QED BY <1>7, <1>9 DEF k

\* Filtering a queue that an element was appended to.
LEMMA FilterAppend ==
    ASSUME NEW S, NEW q \in Seq(S), NEW e \in S, NEW L
    PROVE  /\ Filter(q, L) \in Seq(S)
           /\ Filter(<<>>, L) = <<>>
           /\ e \in L => Filter(Append(q, e), L) = Filter(q, L)
           /\ e \notin L => Filter(Append(q, e), L) = Append(Filter(q, L), e)
<1> DEFINE r == Append(q, e)
           f == KeepFcn(q, L)
           g == KeepFcn(r, L)
<1>1. /\ r \in Seq(S) /\ Len(r) = Len(q) + 1 /\ Len(q) \in Nat
      /\ r[Len(q) + 1] = e /\ \A i \in 1..Len(q) : r[i] = q[i]
  BY AppendProperties, LenProperties
<1>2. /\ f \in [0..Len(q) -> Seq(S)] /\ Keeps(f, q, L, Len(q))
  BY KeepExists
<1>3. Keeps(g, r, L, Len(q) + 1)
  BY <1>1, KeepExists
<1>4. Filter(<<>>, L) = <<>>
  <2>1. <<>> \in Seq(S) /\ Len(<<>>) = 0
    BY EmptySeq
  <2>2. Keeps(KeepFcn(<<>>, L), <<>>, L, 0)
    BY <2>1, KeepExists
  <2>3. 0 \in 0..0
    OBVIOUS
  <2>4. KeepFcn(<<>>, L)[0] = <<>>
    BY <2>2, <2>3 DEF Keeps
  <2> QED BY <2>1, <2>4 DEF Filter
<1> HIDE DEF r, f, g
<1> DEFINE Off == {i \in 0..Len(q) : g[i] # f[i]}
<1>5. Off = {}
  <2> SUFFICES ASSUME Off # {} PROVE FALSE
    OBVIOUS
  <2>1. Off \subseteq Nat
    BY <1>1
  <2>2. PICK i \in Off : \A j \in Off : i <= j
    BY <2>1, Least
  <2>3. i \in 0..Len(q) /\ i \in 0..(Len(q) + 1) /\ g[i] # f[i]
    BY <1>1, <2>2
  <2>4. CASE i = 0
    BY <1>2, <1>3, <2>3, <2>4 DEF Keeps
  <2>5. CASE i # 0
    <3>1. i - 1 \in 0..Len(q) /\ ~ (i <= i - 1) /\ i \in 1..Len(q)
      BY <1>1, <2>3, <2>5
    <3>2. g[i - 1] = f[i - 1] /\ r[i] = q[i]
      BY <1>1, <2>2, <3>1
    <3>3. f[i] = IF q[i] \in L THEN f[i - 1] ELSE Append(f[i - 1], q[i])
      BY <1>2, <2>3, <2>5 DEF Keeps
    <3>4. g[i] = IF r[i] \in L THEN g[i - 1] ELSE Append(g[i - 1], r[i])
      BY <1>3, <2>3, <2>5 DEF Keeps
    <3> QED BY <2>3, <3>2, <3>3, <3>4
  <2> QED BY <2>4, <2>5
<1>6. g[Len(q)] = f[Len(q)]
  <2>1. Len(q) \in 0..Len(q)
    BY <1>1
  <2> QED BY <1>5, <2>1
<1>7. g[Len(q) + 1] = IF e \in L THEN g[Len(q)] ELSE Append(g[Len(q)], e)
  <2>1. Len(q) + 1 \in 0..(Len(q) + 1) /\ Len(q) + 1 # 0 /\ (Len(q) + 1) - 1 = Len(q)
    BY <1>1
  <2> DEFINE m == Len(q) + 1
  <2>2. g[m] = IF r[m] \in L THEN g[m - 1] ELSE Append(g[m - 1], r[m])
    <3> HIDE DEF m
    <3>1. m \in 0..m /\ m # 0 /\ Keeps(g, r, L, m)
      BY <1>3, <2>1 DEF m
    <3> QED BY <3>1 DEF Keeps
  <2> QED BY <1>1, <2>1, <2>2
<1>8. f[Len(q)] \in Seq(S)
  <2>1. Len(q) \in 0..Len(q)
    BY <1>1
  <2> QED BY <1>2, <2>1
<1> QED BY <1>1, <1>4, <1>6, <1>7, <1>8 DEF Filter, f, g, r

\* The same, as a fact to rewrite with.
LEMMA FilterPush ==
    \A S, L : \A q \in Seq(S), e \in S :
        /\ e \in L => Filter(Append(q, e), L) = Filter(q, L)
        /\ e \notin L => Filter(Append(q, e), L) = Append(Filter(q, L), e)
BY FilterAppend

\* A queue that is not empty is one something was appended to.
LEMMA LastAppended ==
    ASSUME NEW S, NEW q \in Seq(S), Len(q) # 0
    PROVE  \E r \in Seq(S), e \in S : q = Append(r, e) /\ Len(r) = Len(q) - 1
<1> DEFINE r == SubSeq(q, 1, Len(q) - 1)
<1>1. Len(q) \in Nat /\ Len(q) > 0 /\ \A i \in 1..Len(q) : q[i] \in S
  BY LenProperties, ElementOfSeq
<1>2. r \in Seq(S) /\ Len(r) = Len(q) - 1 /\ \A i \in 1..(Len(q) - 1) : r[i] = q[i]
  <2> DEFINE n == Len(q) - 1
  <2>1. n \in Nat /\ \A i \in 1..n : q[i] \in S
    BY <1>1
  <2> HIDE DEF n
  <2>2. /\ SubSeq(q, 1, n) \in Seq(S) /\ Len(SubSeq(q, 1, n)) = IF 1 <= n THEN n - 1 + 1 ELSE 0
        /\ \A i \in 1..(n - 1 + 1) : SubSeq(q, 1, n)[i] = q[1 + i - 1]
    BY <2>1, SubSeqProperties
  <2>3. n - 1 + 1 = n /\ \A i \in 1..n : 1 + i - 1 = i
    BY <2>1
  <2>4. Len(SubSeq(q, 1, n)) = n /\ \A i \in 1..n : SubSeq(q, 1, n)[i] = q[i]
    BY <2>1, <2>2, <2>3
  <2> QED BY <2>2, <2>4 DEF n
<1>3. q[Len(q)] \in S
  BY <1>1
<1> DEFINE e == q[Len(q)]
<1> HIDE DEF r, e
<1>4. /\ Append(r, e) \in Seq(S) /\ Len(Append(r, e)) = (Len(q) - 1) + 1
      /\ \A i \in 1..(Len(q) - 1) : Append(r, e)[i] = r[i]
      /\ Append(r, e)[(Len(q) - 1) + 1] = e
  BY <1>2, <1>3, AppendProperties DEF e
<1>5. Len(Append(r, e)) = Len(q) /\ Append(r, e)[Len(q)] = e
  BY <1>1, <1>4
<1>6. ASSUME NEW i \in 1..Len(q) PROVE Append(r, e)[i] = q[i]
  <2>1. CASE i = Len(q)
    BY <1>5, <2>1 DEF e
  <2>2. CASE i # Len(q)
    <3>1. i \in 1..(Len(q) - 1)
      BY <1>1, <2>2
    <3> QED BY <1>2, <1>4, <3>1
  <2> QED BY <2>1, <2>2
<1>7. Append(r, e) = q
  BY <1>4, <1>5, <1>6, SeqEqual
<1> QED BY <1>2, <1>3, <1>7 DEF e

\* What a filtered queue holds; it repeats nothing the queue does not, and
\* filtering it again with a larger set is filtering once.
Filtered(q, L, M) ==
    /\ Elems(Filter(q, L)) = Elems(q) \ L
    /\ Uniq(q) => Uniq(Filter(q, L))
    /\ L \subseteq M => Filter(Filter(q, L), M) = Filter(q, M)
    /\ L \cap Elems(q) = M \cap Elems(q) => Filter(q, L) = Filter(q, M)

LEMMA FilterFacts ==
    ASSUME NEW S, NEW L, NEW M
    PROVE  \A q \in Seq(S) : Filter(q, L) \in Seq(S) /\ Filtered(q, L, M)
<1>1. ASSUME NEW q \in Seq(S), NEW e \in S, NEW K
      PROVE  /\ Filter(q, K) \in Seq(S)
             /\ e \in K => Filter(Append(q, e), K) = Filter(q, K)
             /\ e \notin K => Filter(Append(q, e), K) = Append(Filter(q, K), e)
  BY FilterAppend
<1>2. ASSUME NEW q \in Seq(S), NEW K PROVE Filter(q, K) \in Seq(S)
  <2>1. Len(q) \in 0..Len(q)
    BY LenProperties
  <2> QED BY <2>1, KeepExists DEF Filter
<1>3. ASSUME NEW q \in Seq(S), NEW e \in S, Filtered(q, L, M) PROVE Filtered(Append(q, e), L, M)
  <2> DEFINE r == Append(q, e)
  <2>1. /\ Elems(r) = Elems(q) \cup {e} /\ r \in Seq(S)
        /\ Uniq(r) => Uniq(q) /\ e \notin Elems(q)
    <3>1. ASSUME Uniq(r) PROVE Uniq(q) /\ e \notin Elems(q)
      <4>1. /\ DOMAIN q = 1..Len(q) /\ DOMAIN r = 1..(Len(q) + 1) /\ Len(q) \in Nat
            /\ \A i \in 1..Len(q) : r[i] = q[i]
            /\ r[Len(q) + 1] = e
        BY AppendProperties, LenProperties
      <4> HIDE DEF r
      <4>2. \A i, j \in 1..(Len(q) + 1) : r[i] = r[j] => i = j
        BY <3>1, <4>1 DEF Uniq
      <4>3. Uniq(q)
        BY <4>1, <4>2 DEF Uniq
      <4>4. ASSUME NEW i \in 1..Len(q), q[i] = e PROVE FALSE
        <5>1. i \in 1..(Len(q) + 1) /\ Len(q) + 1 \in 1..(Len(q) + 1) /\ i # Len(q) + 1
          BY <4>1
        <5> QED BY <4>1, <4>2, <4>4, <5>1
      <4> QED BY <4>1, <4>3, <4>4 DEF Elems
    <3> QED BY <3>1, ElemsAppend, AppendProperties
  <2>2. /\ e \in L => Filter(r, L) = Filter(q, L)
        /\ e \notin L => Filter(r, L) = Append(Filter(q, L), e)
        /\ e \in M => Filter(r, M) = Filter(q, M)
        /\ e \notin M => Filter(r, M) = Append(Filter(q, M), e)
        /\ Filter(q, L) \in Seq(S) /\ Filter(q, M) \in Seq(S)
    BY <1>1
  <2>3. /\ Elems(Append(Filter(q, L), e)) = Elems(Filter(q, L)) \cup {e}
        /\ Uniq(Filter(q, L)) /\ e \notin Elems(Filter(q, L)) => Uniq(Append(Filter(q, L), e))
    BY <2>2, ElemsAppend
  <2>4. /\ e \in M => Filter(Append(Filter(q, L), e), M) = Filter(Filter(q, L), M)
        /\ e \notin M => Filter(Append(Filter(q, L), e), M) = Append(Filter(Filter(q, L), M), e)
    <3>1. Filter(q, L) \in Seq(S)
      BY <2>2
    <3> QED BY <1>1, <3>1, Zenon
  <2> HIDE DEF r
  <2>5. Elems(Filter(r, L)) = Elems(r) \ L
    BY <1>3, <2>1, <2>2, <2>3 DEF Filtered
  <2>6. ASSUME Uniq(r) PROVE Uniq(Filter(r, L))
    BY <1>3, <2>1, <2>2, <2>3, <2>6 DEF Filtered
  <2>7. ASSUME L \subseteq M PROVE Filter(Filter(r, L), M) = Filter(r, M)
    BY <1>3, <2>2, <2>4, <2>7 DEF Filtered
  <2>8. ASSUME L \cap Elems(r) = M \cap Elems(r) PROVE Filter(r, L) = Filter(r, M)
    <3>1. L \cap Elems(q) = M \cap Elems(q) /\ (e \in L <=> e \in M)
      BY <2>1, <2>8
    <3> QED BY <1>3, <2>2, <3>1 DEF Filtered
  <2> QED BY <2>5, <2>6, <2>7, <2>8 DEF Filtered, r
<1>4. ASSUME NEW q \in Seq(S), Len(q) = 0 PROVE Filtered(q, L, M)
  <2>1. q = <<>>
    BY <1>4, EmptySeq, LenProperties
  <2>2. \A K : Filter(<<>>, K) = <<>>
    <3> TAKE K
    <3>1. <<>> \in Seq({0}) /\ 0 \in {0}
      BY EmptySeq
    <3> QED BY <3>1, FilterAppend
  <2> QED BY <2>1, <2>2, ElemsEmpty DEF Filtered
<1> DEFINE Bad == {n \in Nat : \E q \in Seq(S) : Len(q) = n /\ ~Filtered(q, L, M)}
<1>5. Bad = {}
  <2> SUFFICES ASSUME Bad # {} PROVE FALSE
    OBVIOUS
  <2>1. PICK n \in Bad : \A m \in Bad : n <= m
    BY Least
  <2>2. PICK q \in Seq(S) : Len(q) = n /\ ~Filtered(q, L, M)
    BY <2>1
  <2>3. Len(q) # 0 /\ Len(q) \in Nat
    BY <1>4, <2>2, LenProperties
  <2>4. PICK r \in Seq(S), e \in S : q = Append(r, e) /\ Len(r) = Len(q) - 1
    BY <2>3, LastAppended
  <2>5. Len(r) \in Nat /\ ~ (n <= Len(r))
    BY <2>2, <2>3, <2>4
  <2>6. Filtered(r, L, M)
    BY <2>1, <2>5
  <2> QED BY <1>3, <2>2, <2>4, <2>6
<1> QED BY <1>2, <1>5, LenProperties

\* The drainer's filter is Live (expire_now, take_for, open).
LEMMA LiveFilter == ASSUME NEW q PROVE Live(q) = Filter(q, late)
BY DEF Live, Filter, KeepFcn

\* No record but Torn is there twice.
NoTwice(s) == \A i, j \in DOMAIN s : s[i] = s[j] => i = j \/ s[i] = Torn

\* Replay reads a segment's records up to the first torn one (decode_records).
LEMMA IntactPrefix ==
    ASSUME NEW s \in Seq(Hints \cup {Torn})
    PROVE  \E n \in 0..Len(s) :
             /\ \A i \in 1..n : s[i] # Torn /\ s[i] \in Hints
             /\ n < Len(s) => s[n + 1] = Torn
             /\ Intact(s) \in Seq(Hints) /\ Len(Intact(s)) = n
             /\ \A i \in 1..n : Intact(s)[i] = s[i]
             /\ Intact(s) \in Seq(Hints \cup {Torn})
<1> DEFINE Is(n) == /\ \A i \in 1..n : s[i] # Torn
                    /\ n < Len(s) => s[n + 1] = Torn
<1>0. Len(s) \in Nat /\ DOMAIN s = 1..Len(s) /\ \A i \in 1..Len(s) : s[i] \in Hints \cup {Torn}
  BY LenProperties, ElementOfSeq
<1>1. \E n \in 0..Len(s) : Is(n)
  <2> DEFINE G == Hints \ {Torn}
  <2>1. PICK n \in 0..Len(s) : /\ \A i \in 1..n : s[i] \in G
                               /\ n < Len(s) => s[n + 1] \notin G
    BY LongestPrefix
  <2>2. \A i \in 1..n : s[i] # Torn
    BY <2>1
  <2>3. ASSUME n < Len(s) PROVE s[n + 1] = Torn
    <3>1. n + 1 \in 1..Len(s)
      BY <1>0, <2>3
    <3> QED BY <1>0, <2>1, <2>3, <3>1
  <2> QED BY <2>2, <2>3
<1> DEFINE k == CHOOSE n \in 0..Len(s) : Is(n)
<1>2. k \in 0..Len(s) /\ Is(k)
  BY <1>1
<1>3. Intact(s) = SubSeq(s, 1, k)
  BY DEF Intact
<1> HIDE DEF k
<1> DEFINE t == SubSeq(s, 1, k)
<1>4. k \in Nat /\ k <= Len(s) /\ \A i \in 1..k : s[i] \in Hints
  BY <1>0, <1>2
<1>5. /\ t \in Seq(Hints) /\ Len(t) = k /\ \A i \in 1..k : t[i] = s[i]
  <2>1. /\ t \in Seq(Hints) /\ Len(t) = IF 1 <= k THEN k - 1 + 1 ELSE 0
        /\ \A i \in 1..(k - 1 + 1) : t[i] = s[1 + i - 1]
    BY <1>4, SubSeqProperties
  <2>2. k - 1 + 1 = k /\ \A i \in 1..k : 1 + i - 1 = i
    BY <1>4
  <2> HIDE DEF t
  <2> QED BY <1>4, <2>1, <2>2
<1>6. t \in Seq(Hints \cup {Torn})
  <2>1. \A i \in 1..k : s[i] \in Hints \cup {Torn}
    BY <1>4
  <2> QED BY <1>4, <2>1, SubSeqProperties
<1> HIDE DEF t
<1> QED BY <1>2, <1>3, <1>4, <1>5, <1>6 DEF t

\* What replay reads of a segment (decode_records).
LEMMA IntactFacts ==
    ASSUME NEW s \in Seq(Hints \cup {Torn})
    PROVE  /\ Intact(s) \in Seq(Hints)
           /\ Elems(Intact(s)) \subseteq Elems(s)
           /\ NoTwice(s) => Uniq(Intact(s))
           /\ Torn \notin Elems(s) => Intact(s) = s
<1> DEFINE t == Intact(s)
<1>0. Len(s) \in Nat /\ DOMAIN s = 1..Len(s) /\ \A i \in 1..Len(s) : s[i] \in Hints \cup {Torn}
  BY LenProperties, ElementOfSeq
<1>2. PICK k \in 0..Len(s) :
             /\ \A i \in 1..k : s[i] # Torn /\ s[i] \in Hints
             /\ k < Len(s) => s[k + 1] = Torn
             /\ t \in Seq(Hints) /\ Len(t) = k
             /\ \A i \in 1..k : t[i] = s[i]
             /\ t \in Seq(Hints \cup {Torn})
  BY IntactPrefix
<1>4. k \in Nat /\ k <= Len(s)
  BY <1>0, <1>2
<1> HIDE DEF t
<1>6. DOMAIN t = 1..k /\ \A i \in 1..k : i \in 1..Len(s)
  BY <1>0, <1>2, <1>4, LenProperties
<1>7. Elems(t) \subseteq Elems(s)
  BY <1>0, <1>2, <1>6 DEF Elems
<1>8. NoTwice(s) => Uniq(t)
  BY <1>0, <1>2, <1>6 DEF NoTwice, Uniq
<1>9. ASSUME Torn \notin Elems(s) PROVE t = s
  <2>1. \A i \in 1..Len(s) : s[i] # Torn
    BY <1>0, <1>9 DEF Elems
  <2>2. ~ (k < Len(s))
    <3> SUFFICES ASSUME k < Len(s) PROVE FALSE
      OBVIOUS
    <3>1. k + 1 \in 1..Len(s)
      BY <1>0, <1>4
    <3> QED BY <1>2, <2>1, <3>1
  <2>3. k = Len(s)
    <3>1. k \in Nat /\ Len(s) \in Nat /\ k <= Len(s)
      BY <1>0, <1>4
    <3> QED BY ONLY <2>2, <3>1
  <2>4. t \in Seq(Hints \cup {Torn})
    BY <1>2
  <2> QED BY <1>2, <2>3, <2>4, SeqEqual
<1> QED BY <1>2, <1>7, <1>8, <1>9 DEF t

\* A record appended to a segment is all that replay may read more.
LEMMA IntactAppend ==
    ASSUME NEW s \in Seq(Hints \cup {Torn}), NEW e \in Hints \cup {Torn}
    PROVE  \A x \in Elems(Intact(Append(s, e))) : x # Torn /\ (x \in Elems(Intact(s)) \/ x = e)
<1> DEFINE r == Append(s, e)
           t == Intact(s)
           u == Intact(r)
<1>1. /\ r \in Seq(Hints \cup {Torn}) /\ Len(s) \in Nat /\ Len(r) = Len(s) + 1
      /\ \A i \in 1..Len(s) : r[i] = s[i]
      /\ r[Len(s) + 1] = e
  <2> DEFINE Recs == Hints \cup {Torn}
  <2>1. s \in Seq(Recs) /\ e \in Recs
    OBVIOUS
  <2> HIDE DEF Recs
  <2>2. r \in Seq(Recs) /\ Len(s) \in Nat /\ Len(r) = Len(s) + 1
    BY <2>1, AppendProperties, LenProperties
  <2>3. (\A i \in 1..Len(s) : r[i] = s[i]) /\ r[Len(s) + 1] = e
    BY <2>1, AppendProperties
  <2> HIDE DEF r
  <2> QED BY <2>2, <2>3 DEF Recs
<1>2. PICK n \in 0..Len(s) :
             /\ \A i \in 1..n : s[i] # Torn
             /\ n < Len(s) => s[n + 1] = Torn
             /\ t \in Seq(Hints) /\ Len(t) = n
             /\ \A i \in 1..n : t[i] = s[i]
  BY IntactPrefix
<1> HIDE DEF r
<1>3. PICK m \in 0..Len(r) :
             /\ \A i \in 1..m : r[i] # Torn
             /\ u \in Seq(Hints) /\ Len(u) = m
             /\ \A i \in 1..m : u[i] = r[i]
  BY <1>1, IntactPrefix
<1> HIDE DEF t, u
<1>4. DOMAIN t = 1..n /\ DOMAIN u = 1..m
  BY <1>2, <1>3, LenProperties
<1>5. ASSUME NEW i \in 1..m PROVE u[i] # Torn /\ (u[i] \in Elems(t) \/ u[i] = e)
  <2>1. u[i] = r[i] /\ u[i] # Torn
    BY <1>3
  <2>2. CASE i \in 1..n
    <3>1. i \in 1..Len(s)
      BY <1>1, <2>2
    <3>2. u[i] = t[i]
      BY <1>1, <1>2, <2>1, <2>2, <3>1
    <3> QED BY <1>4, <2>1, <2>2, <3>2 DEF Elems
  <2>3. CASE i \notin 1..n
    <3>1. n + 1 \in 1..i /\ i \in 1..(Len(s) + 1)
      BY <1>1, <2>3
    <3>2. ~ (n < Len(s))
      <4> SUFFICES ASSUME n < Len(s) PROVE FALSE
        OBVIOUS
      <4>1. n + 1 \in 1..Len(s) /\ n + 1 \in 1..m
        BY <1>1, <3>1
      <4> QED BY <1>1, <1>2, <1>3, <4>1
    <3>3. i = Len(s) + 1
      BY <1>1, <3>1, <3>2
    <3> QED BY <1>1, <2>1, <3>3
  <2> QED BY <2>2, <2>3
<1>6. ASSUME NEW x \in Elems(u) PROVE x # Torn /\ (x \in Elems(t) \/ x = e)
  BY <1>4, <1>5 DEF Elems
<1> QED BY <1>6 DEF t, u, r

\* Records appended to a segment, and filtered queues as segments.
LEMMA NoTwiceFacts ==
    ASSUME NEW S, NEW s \in Seq(S), NEW e \in S
    PROVE  /\ NoTwice(s) /\ e \notin Elems(s) => NoTwice(Append(s, e))
           /\ NoTwice(s) => NoTwice(Append(s, Torn))
           /\ Uniq(s) => NoTwice(s)
<1>1. ASSUME NEW x, NoTwice(s), x \notin Elems(s) \/ x = Torn PROVE NoTwice(Append(s, x))
  <2>1. s \in Seq(S \cup {x}) /\ x \in S \cup {x}
    BY SeqMonotonic
  <2>2. /\ DOMAIN s = 1..Len(s) /\ DOMAIN Append(s, x) = 1..(Len(s) + 1) /\ Len(s) \in Nat
        /\ \A i \in 1..Len(s) : Append(s, x)[i] = s[i]
        /\ Append(s, x)[Len(s) + 1] = x
    <3> DEFINE T == S \cup {x}
    <3>1. s \in Seq(T) /\ x \in T
      BY <2>1
    <3> HIDE DEF T
    <3> QED BY <3>1, AppendProperties, LenProperties
  <2>3. \A i \in 1..Len(s) : s[i] = x => x = Torn
    BY <1>1, <2>2 DEF Elems
  <2> DEFINE t == Append(s, x)
  <2> HIDE DEF t
  <2>4. ASSUME NEW i \in 1..(Len(s) + 1), NEW j \in 1..(Len(s) + 1), t[i] = t[j]
        PROVE  i = j \/ t[i] = Torn
    <3>1. CASE i = Len(s) + 1
      BY <2>2, <2>3, <2>4, <3>1 DEF t
    <3>2. CASE j = Len(s) + 1
      BY <2>2, <2>3, <2>4, <3>2 DEF t
    <3>3. CASE i # Len(s) + 1 /\ j # Len(s) + 1
      <4>1. i \in 1..Len(s) /\ j \in 1..Len(s)
        BY <2>2, <3>3
      <4> QED BY <1>1, <2>2, <2>4, <4>1 DEF t, NoTwice
    <3> QED BY <3>1, <3>2, <3>3
  <2> QED BY <2>2, <2>4 DEF NoTwice, t
<1> QED BY <1>1 DEF NoTwice, Uniq

HintTypes ==
    /\ by_peer \in [Peers -> Seq(Hints)] /\ segment \in [Peers -> Seq(Hints \cup {Torn})]
    /\ batch \in Seq(Hints) /\ acked \in Seq(Hints)
    /\ link \subseteq Hints /\ accepted \subseteq Hints
    /\ faults \in Nat /\ crashes \in Nat
    /\ ~Durable => \A p \in Peers : segment[p] = <<>>
    /\ ~up => crashes # 0

\* The hints that have left the store.
Taken == Elems(batch) \cup link \cup Elems(acked)

\* h has a record for p, in memory or on disk.
Stored(h, p) == h \in Elems(by_peer[p]) \/ h \in Elems(segment[p])

\* While disk operations succeed, a hint is in the store, taken, on the link or
\* acknowledged, in one of these places and once.
HintsOnce ==
    /\ \A p \in Peers : Uniq(by_peer[p]) /\ NoTwice(segment[p])
    /\ \A p \in Peers, h \in Hints :
         Stored(h, p) => PeerOf[h] = p /\ h \in accepted /\ h \notin Taken
    /\ Uniq(batch) /\ Uniq(acked) /\ Taken \subseteq accepted
    /\ Elems(batch) \cap link = {} /\ Elems(batch) \cap Elems(acked) = {}
    /\ link \cap Elems(acked) = {}

HintOnce == faults = 0 => HintsOnce

\* Until a crash, an accepted hint is somewhere.
Somewhere(h) ==
    \/ \E p \in Peers : h \in Elems(by_peer[p])
    \/ h \in Taken \/ h \in failed \/ h \in expired \/ h \in lost

HintKept == crashes = 0 => \A h \in accepted : Somewhere(h)

\* A segment with no torn record has what is queued, and filters to the same
\* hints in the same order while disk operations succeed.
Mirrored(p) ==
    /\ Elems(by_peer[p]) \subseteq Elems(segment[p])
    /\ faults = 0 => Filter(segment[p], late) = Filter(by_peer[p], late)

HintMirror ==
    (up /\ Durable) => \A p \in Peers : Torn \notin Elems(segment[p]) => Mirrored(p)

HintInv == HintTypes /\ HintOnce /\ HintKept /\ HintMirror

\* The store after a push that succeeds: h is the last record of its peer's
\* queue and segment, and nothing else changed (enqueue).
LEMMA PushFacts ==
    ASSUME HintTypes, PeerOf \in [Hints -> Peers], NEW h \in Hints, Push(h)
    PROVE  /\ by_peer' \in [Peers -> Seq(Hints)] /\ segment' \in [Peers -> Seq(Hints \cup {Torn})]
           /\ faults' = faults /\ PeerOf[h] \in Peers
           /\ \A p \in Peers : p # PeerOf[h] => by_peer'[p] = by_peer[p] /\ segment'[p] = segment[p]
           /\ by_peer'[PeerOf[h]] = Append(by_peer[PeerOf[h]], h)
           /\ Durable => segment'[PeerOf[h]] = Append(segment[PeerOf[h]], h)
           /\ ~Durable => segment' = segment
<1>1. /\ by_peer \in [Peers -> Seq(Hints)] /\ segment \in [Peers -> Seq(Hints \cup {Torn})]
      /\ PeerOf[h] \in Peers
  BY DEF HintTypes
<1>2. /\ by_peer' = [by_peer EXCEPT ![PeerOf[h]] = Append(@, h)] /\ faults' = faults
      /\ segment' = IF Durable THEN [segment EXCEPT ![PeerOf[h]] = Append(@, h)] ELSE segment
  BY DEF Push
<1> DEFINE Recs == Hints \cup {Torn}
<1>3. h \in Recs /\ segment \in [Peers -> Seq(Recs)]
  BY <1>1
<1> HIDE DEF Recs
<1>4. Append(by_peer[PeerOf[h]], h) \in Seq(Hints) /\ Append(segment[PeerOf[h]], h) \in Seq(Recs)
  BY <1>1, <1>3, AppendProperties
<1>5. by_peer' \in [Peers -> Seq(Hints)]
  BY <1>1, <1>2, <1>4
<1>6. segment' \in [Peers -> Seq(Recs)]
  BY <1>1, <1>2, <1>3, <1>4
<1>7. by_peer'[PeerOf[h]] = Append(by_peer[PeerOf[h]], h)
      /\ \A p \in Peers : p # PeerOf[h] => by_peer'[p] = by_peer[p]
  BY <1>1, <1>2
<1>8. /\ Durable => segment'[PeerOf[h]] = Append(segment[PeerOf[h]], h)
      /\ \A p \in Peers : p # PeerOf[h] => segment'[p] = segment[p]
  BY <1>1, <1>2
<1> QED BY <1>1, <1>2, <1>5, <1>6, <1>7, <1>8 DEF Recs

\* The store after a push that fails: at most a torn record is new (enqueue).
LEMMA PushFailsFacts ==
    ASSUME HintTypes, PeerOf \in [Hints -> Peers], NEW h \in Hints, PushFails(h)
    PROVE  /\ UNCHANGED by_peer /\ segment' \in [Peers -> Seq(Hints \cup {Torn})]
           /\ faults' \in Nat /\ (faults' = 0 => faults = 0 /\ segment' = segment)
           /\ ~Durable => segment' = segment
           /\ \A p \in Peers : segment'[p] = segment[p] \/ segment'[p] = Append(segment[p], Torn)
<1>1. segment \in [Peers -> Seq(Hints \cup {Torn})] /\ PeerOf[h] \in Peers /\ faults \in Nat
  BY DEF HintTypes
<1> DEFINE Recs == Hints \cup {Torn}
           new == [segment EXCEPT ![PeerOf[h]] = Append(@, Torn)]
<1>2. /\ UNCHANGED by_peer
      /\ \/ segment' = segment /\ faults' = faults
         \/ Durable /\ faults' = faults + 1 /\ (segment' = segment \/ segment' = new)
  BY DEF PushFails, DiskFault
<1>3. Torn \in Recs /\ segment \in [Peers -> Seq(Recs)]
  BY <1>1
<1>4. new \in [Peers -> Seq(Recs)] /\ \A p \in Peers : new[p] = segment[p] \/ new[p] = Append(segment[p], Torn)
  <2> HIDE DEF Recs
  <2>1. Append(segment[PeerOf[h]], Torn) \in Seq(Recs)
    BY <1>1, <1>3, AppendProperties
  <2> QED BY <1>1, <1>3, <2>1
<1>5. faults' \in Nat /\ (faults' = 0 => faults = 0 /\ segment' = segment)
  BY <1>1, <1>2
<1> HIDE DEF new
<1> QED BY <1>1, <1>2, <1>4, <1>5

\* What appending does to what a segment holds.
LEMMA SegmentAppend ==
    ASSUME NEW s \in Seq(Hints \cup {Torn}), NEW h \in Hints \cup {Torn}
    PROVE  /\ Elems(Append(s, h)) = Elems(s) \cup {h}
           /\ NoTwice(s) /\ h \notin Elems(s) => NoTwice(Append(s, h))
           /\ NoTwice(s) => NoTwice(Append(s, Torn))
<1> DEFINE Recs == Hints \cup {Torn}
<1>1. s \in Seq(Recs) /\ h \in Recs
  OBVIOUS
<1> HIDE DEF Recs
<1> QED BY <1>1, ElemsAppend, NoTwiceFacts

\* What a push that succeeds does to what is stored (enqueue).
LEMMA PushStored ==
    ASSUME HintTypes, PeerOf \in [Hints -> Peers], NEW h \in Hints, Push(h)
    PROVE  /\ \A p \in Peers : \A x : x \in Elems(by_peer'[p]) <=>
                x \in Elems(by_peer[p]) \/ (x = h /\ p = PeerOf[h])
           /\ \A p \in Peers : \A x : x \in Elems(segment'[p]) =>
                x \in Elems(segment[p]) \/ (x = h /\ p = PeerOf[h])
           /\ \A p \in Peers : Elems(segment[p]) \subseteq Elems(segment'[p])
           /\ Durable => h \in Elems(segment'[PeerOf[h]])
<1> DEFINE p == PeerOf[h]
<1>1. /\ by_peer[p] \in Seq(Hints) /\ segment[p] \in Seq(Hints \cup {Torn})
      /\ h \in Hints \cup {Torn} /\ p \in Peers
  BY DEF HintTypes
<1>2. /\ Elems(Append(by_peer[p], h)) = Elems(by_peer[p]) \cup {h}
      /\ Elems(Append(segment[p], h)) = Elems(segment[p]) \cup {h}
  BY <1>1, ElemsAppend, SegmentAppend
<1>3. /\ \A q \in Peers : q # p => by_peer'[q] = by_peer[q] /\ segment'[q] = segment[q]
      /\ by_peer'[p] = Append(by_peer[p], h)
      /\ Durable => segment'[p] = Append(segment[p], h)
      /\ ~Durable => segment' = segment
  BY PushFacts
<1> HIDE DEF p
<1>4. Elems(by_peer'[p]) = Elems(by_peer[p]) \cup {h}
  BY <1>2, <1>3
<1>5. /\ Durable => Elems(segment'[p]) = Elems(segment[p]) \cup {h}
      /\ ~Durable => Elems(segment'[p]) = Elems(segment[p])
  BY <1>2, <1>3
<1> QED BY <1>3, <1>4, <1>5 DEF p

\* A hint that is nowhere in the store may be pushed without repeating anything.
LEMMA PushOnce ==
    ASSUME HintTypes, PeerOf \in [Hints -> Peers], NEW h \in Hints, Push(h),
           \A p \in Peers : Uniq(by_peer[p]) /\ NoTwice(segment[p]) /\ ~Stored(h, p)
    PROVE  \A p \in Peers : Uniq(by_peer'[p]) /\ NoTwice(segment'[p])
<1> DEFINE q == PeerOf[h]
<1>1. /\ by_peer[q] \in Seq(Hints) /\ segment[q] \in Seq(Hints \cup {Torn})
      /\ h \in Hints \cup {Torn} /\ q \in Peers
  BY DEF HintTypes
<1>2. Uniq(Append(by_peer[q], h)) /\ NoTwice(Append(segment[q], h))
  BY <1>1, ElemsAppend, SegmentAppend DEF Stored
<1>3. /\ \A p \in Peers : p # q => by_peer'[p] = by_peer[p] /\ segment'[p] = segment[p]
      /\ by_peer'[q] = Append(by_peer[q], h)
      /\ Durable => segment'[q] = Append(segment[q], h)
      /\ ~Durable => segment' = segment
  BY PushFacts
<1> HIDE DEF q
<1>4. ASSUME NEW p \in Peers PROVE Uniq(by_peer'[p]) /\ NoTwice(segment'[p])
  <2>1. CASE p # q
    BY <1>3, <2>1
  <2>2. CASE p = q /\ Durable
    BY <1>2, <1>3, <2>2
  <2>3. CASE p = q /\ ~Durable
    BY <1>2, <1>3, <2>3
  <2> QED BY <2>1, <2>2, <2>3
<1> QED BY <1>4

\* A push that succeeds keeps queue and segment alike, whatever is late.
LEMMA PushMirror ==
    ASSUME HintTypes, PeerOf \in [Hints -> Peers], NEW h \in Hints, Push(h), Durable,
           NEW p \in Peers, NEW L, Filter(segment[p], L) = Filter(by_peer[p], L)
    PROVE  Filter(segment'[p], L) = Filter(by_peer'[p], L)
<1>1. CASE p # PeerOf[h]
  <2>1. by_peer'[p] = by_peer[p] /\ segment'[p] = segment[p]
    BY <1>1, PushFacts
  <2> QED BY <2>1
<1>2. CASE p = PeerOf[h]
  <2> DEFINE Recs == Hints \cup {Torn}
  <2>1. by_peer'[p] = Append(by_peer[p], h) /\ segment'[p] = Append(segment[p], h)
    BY <1>2, PushFacts
  <2>2. by_peer[p] \in Seq(Hints) /\ segment[p] \in Seq(Recs) /\ h \in Recs
    BY DEF HintTypes
  <2> HIDE DEF Recs
  <2>3. /\ h \in L => Filter(Append(by_peer[p], h), L) = Filter(by_peer[p], L)
        /\ h \notin L => Filter(Append(by_peer[p], h), L) = Append(Filter(by_peer[p], L), h)
    BY <2>2, FilterPush
  <2>4. /\ h \in L => Filter(Append(segment[p], h), L) = Filter(segment[p], L)
        /\ h \notin L => Filter(Append(segment[p], h), L) = Append(Filter(segment[p], L), h)
    BY <2>2, FilterPush
  <2> QED BY <2>1, <2>3, <2>4
<1> QED BY <1>1, <1>2

\* What a push that fails does to what is stored (enqueue).
LEMMA PushFailsStored ==
    ASSUME HintTypes, PeerOf \in [Hints -> Peers], NEW h \in Hints, PushFails(h), NEW p \in Peers
    PROVE  /\ Elems(segment[p]) \subseteq Elems(segment'[p])
           /\ segment'[p] = segment[p] \/ Torn \in Elems(segment'[p])
<1>1. segment[p] \in Seq(Hints \cup {Torn})
  BY DEF HintTypes
<1>2. Elems(Append(segment[p], Torn)) = Elems(segment[p]) \cup {Torn}
  BY <1>1, SegmentAppend
<1>3. segment'[p] = segment[p] \/ segment'[p] = Append(segment[p], Torn)
  BY PushFailsFacts
<1> QED BY <1>2, <1>3

\* A hint is recorded, or refused (enqueue).
LEMMA EnqueueStep ==
    ASSUME HintInv, PeerOf \in [Hints -> Peers], Torn \notin Hints, NEW h \in Hints, Enqueue(h)
    PROVE  HintInv'
<1>1. /\ h \notin accepted
      /\ UNCHANGED <<up, crashes, late, batch, link, acked, failed, expired, lost>>
      /\ \/ Push(h) /\ accepted' = accepted \cup {h}
         \/ PushFails(h) /\ accepted' = accepted
  BY DEF Enqueue, drainer
<1>2. HintTypes
  BY DEF HintInv
<1>3. UNCHANGED Taken
  BY <1>1 DEF Taken
<1>4. CASE Push(h) /\ accepted' = accepted \cup {h}
  <2>1. /\ by_peer' \in [Peers -> Seq(Hints)] /\ segment' \in [Peers -> Seq(Hints \cup {Torn})]
        /\ faults' = faults /\ PeerOf[h] \in Peers /\ (~Durable => segment' = segment)
    BY <1>2, <1>4, PushFacts
  <2>2. HintTypes'
    BY <1>1, <1>2, <1>4, <2>1 DEF HintTypes
  <2>3. /\ \A p \in Peers : \A x : x \in Elems(by_peer'[p]) <=>
             x \in Elems(by_peer[p]) \/ (x = h /\ p = PeerOf[h])
        /\ \A p \in Peers : \A x : x \in Elems(segment'[p]) =>
             x \in Elems(segment[p]) \/ (x = h /\ p = PeerOf[h])
        /\ \A p \in Peers : Elems(segment[p]) \subseteq Elems(segment'[p])
        /\ Durable => h \in Elems(segment'[PeerOf[h]])
    BY <1>2, <1>4, PushStored
  <2>4. ASSUME faults = 0 PROVE HintsOnce'
    <3>1. HintsOnce
      BY <2>4 DEF HintInv, HintOnce
    <3>2. \A p \in Peers : Uniq(by_peer[p]) /\ NoTwice(segment[p]) /\ ~Stored(h, p)
      BY <1>1, <3>1 DEF HintsOnce
    <3>3. \A p \in Peers : Uniq(by_peer'[p]) /\ NoTwice(segment'[p])
      BY <1>2, <1>4, <3>2, PushOnce
    <3>4. h \notin Taken
      BY <1>1, <3>1 DEF HintsOnce
    <3>5. \A p \in Peers, x \in Hints :
            Stored(x, p)' => PeerOf[x] = p /\ x \in accepted' /\ x \notin Taken'
      BY <1>3, <1>4, <2>3, <3>1, <3>4 DEF HintsOnce, Stored
    <3> QED BY <1>1, <1>3, <1>4, <3>1, <3>3, <3>5 DEF HintsOnce
  <2>5. HintKept'
    <3>1. ASSUME NEW x \in accepted', crashes = 0 PROVE Somewhere(x)'
      <4>1. CASE x = h
        BY <2>1, <2>3, <4>1 DEF Somewhere
      <4>2. CASE x # h
        <5>1. Somewhere(x)
          BY <1>4, <3>1, <4>2 DEF HintInv, HintKept
        <5> QED BY <1>1, <1>3, <2>3, <5>1 DEF Somewhere
      <4> QED BY <4>1, <4>2
    <3> QED BY <1>1, <3>1 DEF HintKept
  <2>6. HintMirror'
    <3>1. ASSUME up, Durable, NEW p \in Peers, Torn \notin Elems(segment'[p]) PROVE Mirrored(p)'
      <4>1. Torn \notin Elems(segment[p])
        BY <2>3, <3>1
      <4>2. Mirrored(p)
        BY <3>1, <4>1 DEF HintInv, HintMirror
      <4>3. faults = 0 => Filter(segment'[p], late) = Filter(by_peer'[p], late)
        BY <1>2, <1>4, <3>1, <4>2, PushMirror DEF Mirrored
      <4>4. Elems(by_peer'[p]) \subseteq Elems(segment'[p])
        BY <2>3, <3>1, <4>2 DEF Mirrored
      <4> QED BY <1>1, <2>1, <4>3, <4>4 DEF Mirrored
    <3> QED BY <1>1, <3>1 DEF HintMirror
  <2> QED BY <2>1, <2>2, <2>4, <2>5, <2>6 DEF HintInv, HintOnce
<1>5. CASE PushFails(h) /\ accepted' = accepted
  <2>1. /\ UNCHANGED by_peer /\ segment' \in [Peers -> Seq(Hints \cup {Torn})]
        /\ faults' \in Nat /\ (faults' = 0 => faults = 0 /\ segment' = segment)
        /\ ~Durable => segment' = segment
    BY <1>2, <1>5, PushFailsFacts
  <2>2. HintTypes'
    BY <1>1, <1>2, <1>5, <2>1 DEF HintTypes
  <2>3. HintOnce'
    BY <1>1, <1>3, <1>5, <2>1 DEF HintInv, HintOnce, HintsOnce, Stored
  <2>4. HintKept'
    BY <1>1, <1>3, <1>5, <2>1 DEF HintInv, HintKept, Somewhere
  <2>5. HintMirror'
    <3>1. ASSUME up, Durable, NEW p \in Peers, Torn \notin Elems(segment'[p]) PROVE Mirrored(p)'
      <4>1. segment'[p] = segment[p]
        BY <1>2, <1>5, <3>1, PushFailsStored
      <4>2. Mirrored(p)
        BY <3>1, <4>1 DEF HintInv, HintMirror
      <4> QED BY <1>1, <2>1, <4>1, <4>2 DEF Mirrored
    <3> QED BY <1>1, <3>1 DEF HintMirror
  <2> QED BY <2>2, <2>3, <2>4, <2>5 DEF HintInv
<1> QED BY <1>1, <1>4, <1>5

\* A refused hint goes back to the store with a new deadline, or is lost
\* (hint_drainer_task).
LEMMA ShipRefusedStep ==
    ASSUME HintInv, PeerOf \in [Hints -> Peers], Torn \notin Hints, ShipRefused
    PROVE  HintInv'
<1> DEFINE h == Head(batch)
<1>1. /\ batch # <<>> /\ batch' = Tail(batch) /\ late' = late \ {h}
      /\ UNCHANGED <<up, crashes, link, accepted, acked, failed, expired>>
      /\ \/ Push(h) /\ lost' = lost
         \/ PushFails(h) /\ lost' = lost \cup {h}
  BY DEF ShipRefused
<1>2. HintTypes /\ batch \in Seq(Hints)
  BY DEF HintInv, HintTypes
<1>3. /\ h \in Hints /\ Tail(batch) \in Seq(Hints) /\ Elems(batch) = {h} \cup Elems(Tail(batch))
      /\ Uniq(batch) => Uniq(Tail(batch)) /\ h \notin Elems(Tail(batch))
  BY <1>1, <1>2, ElemsTail
<1> HIDE DEF h
<1>4. Taken' \subseteq Taken /\ Taken \subseteq Taken' \cup {h} /\ h \in Taken
  BY <1>1, <1>3 DEF Taken
<1>5. faults = 0 => h \notin Taken' /\ h \in accepted
  BY <1>1, <1>3, <1>4 DEF HintInv, HintOnce, HintsOnce, Taken
<1>6. faults = 0 => /\ Uniq(batch') /\ Uniq(acked') /\ Taken' \subseteq accepted'
                    /\ Elems(batch') \cap link' = {} /\ Elems(batch') \cap Elems(acked') = {}
                    /\ link' \cap Elems(acked') = {}
  BY <1>1, <1>3, <1>4 DEF HintInv, HintOnce, HintsOnce
<1>7. ASSUME NEW p \in Peers, faults = 0, Filter(segment[p], late) = Filter(by_peer[p], late)
      PROVE  Filter(segment[p], late') = Filter(by_peer[p], late')
  <2>1. h \notin Elems(by_peer[p]) /\ h \notin Elems(segment[p])
    BY <1>3, <1>4, <1>7 DEF HintInv, HintOnce, HintsOnce, Stored
  <2>2. ASSUME NEW S, NEW q \in Seq(S), h \notin Elems(q) PROVE Filter(q, late) = Filter(q, late')
    <3>1. late \cap Elems(q) = late' \cap Elems(q)
      BY <1>1, <2>2
    <3>2. Filtered(q, late, late')
      BY FilterFacts
    <3> QED BY <3>1, <3>2 DEF Filtered
  <2>3. by_peer[p] \in Seq(Hints) /\ segment[p] \in Seq(Hints \cup {Torn})
    BY <1>2 DEF HintTypes
  <2> QED BY <1>7, <2>1, <2>2, <2>3
<1>8. CASE Push(h) /\ lost' = lost
  <2>1. /\ by_peer' \in [Peers -> Seq(Hints)] /\ segment' \in [Peers -> Seq(Hints \cup {Torn})]
        /\ faults' = faults /\ PeerOf[h] \in Peers /\ (~Durable => segment' = segment)
    BY <1>2, <1>3, <1>8, PushFacts
  <2>2. HintTypes'
    BY <1>1, <1>2, <1>3, <2>1 DEF HintTypes
  <2>3. /\ \A p \in Peers : \A x : x \in Elems(by_peer'[p]) <=>
             x \in Elems(by_peer[p]) \/ (x = h /\ p = PeerOf[h])
        /\ \A p \in Peers : \A x : x \in Elems(segment'[p]) =>
             x \in Elems(segment[p]) \/ (x = h /\ p = PeerOf[h])
        /\ \A p \in Peers : Elems(segment[p]) \subseteq Elems(segment'[p])
        /\ Durable => h \in Elems(segment'[PeerOf[h]])
    BY <1>2, <1>3, <1>8, PushStored
  <2>4. ASSUME faults = 0 PROVE HintsOnce'
    <3>1. HintsOnce
      BY <2>4 DEF HintInv, HintOnce
    <3>2. \A p \in Peers : Uniq(by_peer[p]) /\ NoTwice(segment[p]) /\ ~Stored(h, p)
      BY <1>3, <1>4, <3>1 DEF HintsOnce
    <3>3. \A p \in Peers : Uniq(by_peer'[p]) /\ NoTwice(segment'[p])
      BY <1>2, <1>3, <1>8, <3>2, PushOnce
    <3>4. \A p \in Peers, x \in Hints :
            Stored(x, p)' => PeerOf[x] = p /\ x \in accepted' /\ x \notin Taken'
      BY <1>1, <1>4, <1>5, <2>3, <2>4, <3>1 DEF HintsOnce, Stored
    <3> QED BY <1>6, <2>4, <3>3, <3>4 DEF HintsOnce
  <2>5. HintKept'
    <3>1. ASSUME NEW x \in accepted, crashes = 0 PROVE Somewhere(x)'
      <4>1. CASE x = h
        BY <2>1, <2>3, <4>1 DEF Somewhere
      <4>2. CASE x # h
        <5>1. Somewhere(x)
          BY <3>1 DEF HintInv, HintKept
        <5> QED BY <1>1, <1>4, <1>8, <2>3, <4>2, <5>1 DEF Somewhere
      <4> QED BY <4>1, <4>2
    <3> QED BY <1>1, <3>1 DEF HintKept
  <2>6. HintMirror'
    <3>1. ASSUME up, Durable, NEW p \in Peers, Torn \notin Elems(segment'[p]) PROVE Mirrored(p)'
      <4>1. Mirrored(p)
        BY <2>3, <3>1 DEF HintInv, HintMirror
      <4>2. ASSUME faults = 0 PROVE Filter(segment'[p], late') = Filter(by_peer'[p], late')
        <5>1. Filter(segment[p], late') = Filter(by_peer[p], late')
          BY <1>7, <4>1, <4>2 DEF Mirrored
        <5> QED BY <1>2, <1>3, <1>8, <3>1, <5>1, PushMirror
      <4>3. Elems(by_peer'[p]) \subseteq Elems(segment'[p])
        BY <2>3, <3>1, <4>1 DEF Mirrored
      <4> QED BY <2>1, <4>2, <4>3 DEF Mirrored
    <3> QED BY <1>1, <3>1 DEF HintMirror
  <2> QED BY <2>1, <2>2, <2>4, <2>5, <2>6 DEF HintInv, HintOnce
<1>9. CASE PushFails(h) /\ lost' = lost \cup {h}
  <2>1. /\ UNCHANGED by_peer /\ segment' \in [Peers -> Seq(Hints \cup {Torn})]
        /\ faults' \in Nat /\ (faults' = 0 => faults = 0 /\ segment' = segment)
        /\ ~Durable => segment' = segment
    BY <1>2, <1>3, <1>9, PushFailsFacts
  <2>2. HintTypes'
    BY <1>1, <1>2, <1>3, <2>1 DEF HintTypes
  <2>3. ASSUME faults' = 0 PROVE HintsOnce'
    <3>1. HintsOnce /\ faults = 0 /\ segment' = segment /\ by_peer' = by_peer
      BY <2>1, <2>3 DEF HintInv, HintOnce
    <3>2. \A p \in Peers, x \in Hints :
            Stored(x, p)' => PeerOf[x] = p /\ x \in accepted' /\ x \notin Taken'
      BY <1>1, <1>4, <3>1 DEF HintsOnce, Stored
    <3> QED BY <1>6, <3>1, <3>2 DEF HintsOnce
  <2>4. HintKept'
    BY <1>1, <1>4, <1>9, <2>1 DEF HintInv, HintKept, Somewhere
  <2>5. HintMirror'
    <3>1. ASSUME up, Durable, NEW p \in Peers, Torn \notin Elems(segment'[p]) PROVE Mirrored(p)'
      <4>1. segment'[p] = segment[p]
        BY <1>2, <1>3, <1>9, <3>1, PushFailsStored
      <4>2. Mirrored(p)
        BY <3>1, <4>1 DEF HintInv, HintMirror
      <4> QED BY <1>7, <2>1, <4>1, <4>2 DEF Mirrored
    <3> QED BY <1>1, <3>1 DEF HintMirror
  <2> QED BY <2>2, <2>3, <2>4, <2>5 DEF HintInv, HintOnce
<1> QED BY <1>1, <1>8, <1>9

\* A deadline passes.
LEMMA AgeStep ==
    ASSUME HintInv, NEW h, Age(h)
    PROVE  HintInv'
<1>1. /\ late' = late \cup {h}
      /\ UNCHANGED <<up, crashes, faults, by_peer, segment, batch, link, accepted, acked,
                     failed, expired, lost>>
  BY DEF Age, storeVars, drainer, hist
<1>2. HintTypes' /\ HintOnce' /\ HintKept'
  BY <1>1 DEF HintInv, HintTypes, HintOnce, HintsOnce, Stored, Taken, HintKept, Somewhere
<1>3. ASSUME up, Durable, NEW p \in Peers, Torn \notin Elems(segment[p]) PROVE Mirrored(p)'
  <2>1. Mirrored(p)
    BY <1>3 DEF HintInv, HintMirror
  <2>2. by_peer[p] \in Seq(Hints) /\ segment[p] \in Seq(Hints \cup {Torn})
    BY DEF HintInv, HintTypes
  <2>3. Filtered(by_peer[p], late, late') /\ Filtered(segment[p], late, late')
    BY <2>2, FilterFacts
  <2>4. late \subseteq late'
    BY <1>1
  <2>5. faults = 0 => Filter(segment[p], late') = Filter(by_peer[p], late')
    BY <2>1, <2>3, <2>4 DEF Filtered, Mirrored
  <2> QED BY <1>1, <2>1, <2>5 DEF Mirrored
<1> QED BY <1>1, <1>2, <1>3 DEF HintInv, HintMirror

\* A hint goes on the link, or is answered there.
LEMMA LinkStep ==
    ASSUME HintInv, ShipOk \/ \E h \in Hints : LinkAck(h) \/ LinkError(h)
    PROVE  HintInv'
<1>1. /\ UNCHANGED <<up, crashes, faults, by_peer, segment, late, accepted, expired, lost>>
  BY DEF ShipOk, LinkAck, LinkError, storeVars, drainer, hist
<1>2. /\ batch \in Seq(Hints) /\ acked \in Seq(Hints) /\ link \subseteq Hints
  BY DEF HintInv, HintTypes
<1>3. HintMirror'
  BY <1>1 DEF HintInv, HintMirror, Mirrored
<1>4. ASSUME batch' \in Seq(Hints), acked' \in Seq(Hints), link' \subseteq Hints, Taken' \subseteq Taken,
             Taken \subseteq Taken' \cup failed', failed \subseteq failed',
             HintsOnce => /\ Uniq(batch') /\ Uniq(acked')
                          /\ Elems(batch') \cap link' = {} /\ Elems(batch') \cap Elems(acked') = {}
                          /\ link' \cap Elems(acked') = {}
      PROVE  HintInv'
  <2>1. HintTypes'
    BY <1>1, <1>4 DEF HintInv, HintTypes
  <2>2. ASSUME HintsOnce PROVE HintsOnce'
    <3>1. \A p \in Peers, x \in Hints :
            Stored(x, p)' => PeerOf[x] = p /\ x \in accepted' /\ x \notin Taken'
      BY <1>1, <1>4, <2>2 DEF HintsOnce, Stored
    <3> QED BY <1>1, <1>4, <2>2, <3>1 DEF HintsOnce
  <2>3. HintKept'
    BY <1>1, <1>4 DEF HintInv, HintKept, Somewhere
  <2> QED BY <1>1, <1>3, <2>1, <2>2, <2>3 DEF HintInv, HintOnce
<1>5. CASE ShipOk
  <2> DEFINE h == Head(batch)
  <2>1. /\ batch # <<>> /\ link' = link \cup {h} /\ batch' = Tail(batch) /\ UNCHANGED <<acked, failed>>
    BY <1>5 DEF ShipOk, hist
  <2>2. /\ h \in Hints /\ Tail(batch) \in Seq(Hints) /\ Elems(batch) = {h} \cup Elems(Tail(batch))
        /\ Uniq(batch) => Uniq(Tail(batch)) /\ h \notin Elems(Tail(batch))
    BY <1>2, <2>1, ElemsTail
  <2> HIDE DEF h
  <2>3. Taken' = Taken
    BY <2>1, <2>2 DEF Taken
  <2>4. ASSUME HintsOnce PROVE /\ Uniq(batch') /\ Uniq(acked')
                               /\ Elems(batch') \cap link' = {} /\ Elems(batch') \cap Elems(acked') = {}
                               /\ link' \cap Elems(acked') = {}
    BY <2>1, <2>2, <2>4 DEF HintsOnce
  <2> QED BY <1>2, <1>4, <2>1, <2>2, <2>3, <2>4
<1>6. ASSUME NEW h \in Hints, LinkAck(h) PROVE HintInv'
  <2>1. h \in link /\ link' = link \ {h} /\ acked' = Append(acked, h) /\ UNCHANGED <<batch, failed>>
    BY <1>6 DEF LinkAck, drainer
  <2>2. /\ Elems(acked') = Elems(acked) \cup {h} /\ acked' \in Seq(Hints)
        /\ Uniq(acked) /\ h \notin Elems(acked) => Uniq(acked')
    BY <1>2, <2>1, ElemsAppend, AppendProperties
  <2>3. Taken' = Taken
    BY <2>1, <2>2 DEF Taken
  <2>4. ASSUME HintsOnce PROVE /\ Uniq(batch') /\ Uniq(acked')
                               /\ Elems(batch') \cap link' = {} /\ Elems(batch') \cap Elems(acked') = {}
                               /\ link' \cap Elems(acked') = {}
    BY <2>1, <2>2, <2>4 DEF HintsOnce
  <2> QED BY <1>2, <1>4, <2>1, <2>2, <2>3, <2>4
<1>7. ASSUME NEW h \in Hints, LinkError(h) PROVE HintInv'
  <2>1. h \in link /\ link' = link \ {h} /\ failed' = failed \cup {h} /\ UNCHANGED <<batch, acked>>
    BY <1>7 DEF LinkError, drainer
  <2>2. Taken' \subseteq Taken /\ Taken \subseteq Taken' \cup failed'
    BY <2>1 DEF Taken
  <2>3. ASSUME HintsOnce PROVE /\ Uniq(batch') /\ Uniq(acked')
                               /\ Elems(batch') \cap link' = {} /\ Elems(batch') \cap Elems(acked') = {}
                               /\ link' \cap Elems(acked') = {}
    BY <2>1, <2>3 DEF HintsOnce
  <2> QED BY <1>2, <1>4, <2>1, <2>2, <2>3
<1> QED BY <1>5, <1>6, <1>7

\* What the filter leaves of a queue.
LEMMA KeptFacts ==
    ASSUME HintTypes, NEW p \in Peers
    PROVE  /\ Filter(by_peer[p], late) \in Seq(Hints)
           /\ Elems(Filter(by_peer[p], late)) = Elems(by_peer[p]) \ late
           /\ Uniq(by_peer[p]) => Uniq(Filter(by_peer[p], late)) /\ NoTwice(Filter(by_peer[p], late))
<1>1. by_peer[p] \in Seq(Hints)
  BY DEF HintTypes
<1>2. Filter(by_peer[p], late) \in Seq(Hints) /\ Filtered(by_peer[p], late, late)
  BY <1>1, FilterFacts
<1> QED BY <1>2 DEF Filtered, Uniq, NoTwice

\* Hints past their deadline leave the queues, and the segments that held them
\* are rewritten (expire_now).
LEMMA TickStep ==
    ASSUME HintInv, Torn \notin Hints, Tick
    PROVE  HintInv'
<1> DEFINE kept == [p \in Peers |-> Filter(by_peer[p], late)]
           new == [p \in Peers |-> IF kept[p] # by_peer[p] THEN kept[p] ELSE segment[p]]
<1>1. /\ by_peer' = kept /\ expired' = expired \cup (Queued \cap late)
      /\ UNCHANGED <<up, crashes, late, batch, link, accepted, acked, failed, lost>>
      /\ Rewritten(new)
  <2>1. [p \in Peers |-> Live(by_peer[p])] = kept
    BY LiveFilter
  <2> QED BY <2>1 DEF Tick
<1>2. \/ Durable /\ segment' = new /\ faults' = faults
      \/ ~Durable /\ segment' = segment /\ faults' = faults
      \/ Durable /\ segment' = segment /\ faults' = faults + 1
  BY <1>1 DEF Rewritten, DiskFault
<1>3. HintTypes /\ faults \in Nat
  BY DEF HintInv, HintTypes
<1>4. \A p \in Peers : /\ kept[p] \in Seq(Hints) /\ Elems(kept[p]) = Elems(by_peer[p]) \ late
                       /\ Uniq(by_peer[p]) => Uniq(kept[p]) /\ NoTwice(kept[p])
  BY <1>3, KeptFacts
<1>5. \A p \in Peers : new[p] = kept[p] \/ (new[p] = segment[p] /\ kept[p] = by_peer[p])
  OBVIOUS
<1>6. new \in [Peers -> Seq(Hints \cup {Torn})] /\ kept \in [Peers -> Seq(Hints)]
  <2>1. \A p \in Peers : kept[p] \in Seq(Hints \cup {Torn})
    <3>1. Hints \subseteq Hints \cup {Torn}
      OBVIOUS
    <3> HIDE DEF kept
    <3> QED BY <1>4, <3>1, SeqMonotonic
  <2>2. \A p \in Peers : segment[p] \in Seq(Hints \cup {Torn})
    BY <1>3 DEF HintTypes
  <2>3. new = [p \in Peers |-> new[p]] /\ kept = [p \in Peers |-> kept[p]]
    OBVIOUS
  <2> HIDE DEF new, kept
  <2>4. \A p \in Peers : new[p] \in Seq(Hints \cup {Torn})
    BY <1>5, <2>1, <2>2
  <2> QED BY <1>4, <2>3, <2>4
<1>7. \A h : h \in Queued <=> \E p \in Peers : h \in Elems(by_peer[p])
  BY DEF Queued, Range, Elems
<1> HIDE DEF kept, new
<1>8. HintTypes'
  BY <1>1, <1>2, <1>3, <1>6 DEF HintTypes
<1>9. ASSUME faults' = 0 PROVE HintsOnce'
  <2>1. HintsOnce /\ (segment' = new \/ segment' = segment)
    BY <1>2, <1>3, <1>9 DEF HintInv, HintOnce
  <2>2. \A p \in Peers : Uniq(by_peer'[p]) /\ NoTwice(segment'[p])
    BY <1>1, <1>4, <1>5, <2>1 DEF HintsOnce
  <2>3. \A p \in Peers : \A x : Stored(x, p)' => Stored(x, p)
    BY <1>1, <1>4, <1>5, <2>1 DEF Stored
  <2>4. \A p \in Peers, x \in Hints :
          Stored(x, p)' => PeerOf[x] = p /\ x \in accepted' /\ x \notin Taken'
    BY <1>1, <2>1, <2>3 DEF HintsOnce, Taken
  <2> QED BY <1>1, <2>1, <2>2, <2>4 DEF HintsOnce, Taken
<1>10. HintKept'
  <2>1. ASSUME NEW x, Somewhere(x) PROVE Somewhere(x)'
    BY <1>1, <1>4, <1>7, <2>1 DEF Somewhere, Taken
  <2> QED BY <1>1, <2>1 DEF HintInv, HintKept
<1>11. HintMirror'
  <2>1. ASSUME up, Durable, NEW p \in Peers, Torn \notin Elems(segment'[p]) PROVE Mirrored(p)'
    <3>1. by_peer'[p] = kept[p] /\ late' = late
      BY <1>1
    <3>2. CASE segment'[p] = kept[p]
      BY <3>1, <3>2 DEF Mirrored
    <3>3. CASE segment'[p] = segment[p]
      <4>1. Mirrored(p)
        BY <2>1, <3>3 DEF HintInv, HintMirror
      <4>2. Elems(by_peer'[p]) \subseteq Elems(segment'[p])
        BY <1>4, <3>1, <3>3, <4>1 DEF Mirrored
      <4>3. ASSUME faults' = 0 PROVE Filter(segment'[p], late) = Filter(by_peer'[p], late)
        <5>1. segment' = new /\ faults = 0
          BY <1>2, <1>3, <2>1, <4>3
        <5>2. segment'[p] = kept[p] \/ kept[p] = by_peer[p]
          BY <1>5, <5>1
        <5> QED BY <3>1, <3>3, <4>1, <5>1, <5>2 DEF Mirrored
      <4> QED BY <3>1, <4>2, <4>3 DEF Mirrored
    <3> QED BY <1>2, <1>5, <2>1, <3>2, <3>3
  <2> QED BY <1>1, <2>1 DEF HintMirror
<1> QED BY <1>8, <1>9, <1>10, <1>11 DEF HintInv, HintOnce

\* A peer's queue is taken and its segment removed (take_for).
LEMMA TakeForStep ==
    ASSUME HintInv, Torn \notin Hints, NEW q \in Peers, TakeFor(q)
    PROVE  HintInv'
<1> DEFINE taken == Filter(by_peer[q], late)
           queues == [by_peer EXCEPT ![q] = <<>>]
           new == [segment EXCEPT ![q] = <<>>]
<1>1. /\ batch = <<>> /\ batch' = taken /\ by_peer' = queues
      /\ expired' = expired \cup (Elems(by_peer[q]) \cap late)
      /\ UNCHANGED <<up, crashes, late, link, accepted, acked, failed, lost>>
      /\ IF by_peer[q] = <<>> THEN UNCHANGED <<segment, faults>> ELSE Rewritten(new)
  <2>1. Live(by_peer[q]) = taken
    BY LiveFilter
  <2>2. Range(by_peer[q]) = Elems(by_peer[q])
    BY DEF Range, Elems
  <2> QED BY <2>1, <2>2 DEF TakeFor
<1>2. \/ by_peer[q] = <<>> /\ segment' = segment /\ faults' = faults
      \/ Durable /\ segment' = new /\ faults' = faults
      \/ ~Durable /\ segment' = segment /\ faults' = faults
      \/ Durable /\ segment' = segment /\ faults' = faults + 1
  BY <1>1 DEF Rewritten, DiskFault
<1>3. /\ HintTypes /\ faults \in Nat /\ by_peer \in [Peers -> Seq(Hints)]
      /\ segment \in [Peers -> Seq(Hints \cup {Torn})]
  BY DEF HintInv, HintTypes
<1>4. /\ taken \in Seq(Hints) /\ Elems(taken) = Elems(by_peer[q]) \ late
      /\ Uniq(by_peer[q]) => Uniq(taken)
  BY <1>3, KeptFacts
<1>5. /\ Elems(<<>>) = {} /\ Uniq(<<>>) /\ NoTwice(<<>>) /\ <<>> \in Seq(Hints)
      /\ <<>> \in Seq(Hints \cup {Torn})
  BY ElemsEmpty, EmptySeq DEF NoTwice
<1>6. /\ queues \in [Peers -> Seq(Hints)] /\ queues[q] = <<>>
      /\ \A p \in Peers : p # q => queues[p] = by_peer[p]
  BY <1>3, <1>5
<1>7. /\ new \in [Peers -> Seq(Hints \cup {Torn})] /\ new[q] = <<>>
      /\ \A p \in Peers : p # q => new[p] = segment[p]
  BY <1>3, <1>5
<1> HIDE DEF taken, queues, new
<1>8. HintTypes'
  <2>1. segment' \in [Peers -> Seq(Hints \cup {Torn})] /\ faults' \in Nat
        /\ (~Durable => segment' = segment)
    BY <1>2, <1>3, <1>7
  <2> QED BY <1>1, <1>3, <1>4, <1>6, <2>1 DEF HintTypes
<1>9. Elems(batch) = {} /\ Taken' = Elems(taken) \cup Taken
  BY <1>1, <1>5 DEF Taken
<1>10. ASSUME faults' = 0 PROVE HintsOnce'
  <2>1. HintsOnce /\ faults = 0
    BY <1>2, <1>3, <1>10 DEF HintInv, HintOnce
  <2>2. \A p \in Peers : segment'[p] = segment[p] \/ segment'[p] = <<>>
    BY <1>2, <1>3, <1>7, <1>10
  <2>3. \A p \in Peers : Uniq(by_peer'[p]) /\ NoTwice(segment'[p])
    BY <1>1, <1>5, <1>6, <2>1, <2>2 DEF HintsOnce
  <2>4. \A p \in Peers : \A x : Stored(x, p)' => Stored(x, p)
    BY <1>1, <1>5, <1>6, <2>2 DEF Stored
  <2>5. \A x \in Elems(taken) : x \in Hints /\ Stored(x, q)
    BY <1>3, <1>4, ElemsIn DEF Stored
  <2>6. ASSUME NEW p \in Peers, NEW x \in Elems(taken) PROVE ~Stored(x, p)'
    <3>1. CASE p # q
      BY <2>1, <2>4, <2>5, <3>1 DEF HintsOnce
    <3>2. CASE p = q
      <4>1. x \in Elems(by_peer[q]) /\ by_peer[q] # <<>>
        BY <1>4, <1>5
      <4>2. segment'[q] = <<>>
        BY <1>2, <1>3, <1>7, <1>10, <4>1 DEF HintTypes
      <4> QED BY <1>1, <1>5, <1>6, <3>2, <4>2 DEF Stored
    <3> QED BY <3>1, <3>2
  <2>7. \A p \in Peers, x \in Hints :
          Stored(x, p)' => PeerOf[x] = p /\ x \in accepted' /\ x \notin Taken'
    BY <1>1, <1>9, <2>1, <2>4, <2>6 DEF HintsOnce
  <2>8. \A x \in Elems(taken) : x \in accepted /\ x \notin Taken
    BY <2>1, <2>5 DEF HintsOnce
  <2>9. /\ Uniq(batch') /\ Uniq(acked') /\ Taken' \subseteq accepted'
        /\ Elems(batch') \cap link' = {} /\ Elems(batch') \cap Elems(acked') = {}
        /\ link' \cap Elems(acked') = {}
    BY <1>1, <1>4, <1>9, <2>1, <2>8 DEF HintsOnce, Taken
  <2> QED BY <2>3, <2>7, <2>9 DEF HintsOnce
<1>11. HintKept'
  <2>1. ASSUME NEW x, Somewhere(x) PROVE Somewhere(x)'
    BY <1>1, <1>4, <1>6, <1>9, <2>1 DEF Somewhere
  <2> QED BY <1>1, <2>1 DEF HintInv, HintKept
<1>12. HintMirror'
  <2>1. ASSUME up, Durable, NEW p \in Peers, Torn \notin Elems(segment'[p]) PROVE Mirrored(p)'
    <3>1. CASE p # q
      <4>1. segment'[p] = segment[p] /\ by_peer'[p] = by_peer[p]
        BY <1>1, <1>2, <1>6, <1>7, <3>1
      <4>2. Mirrored(p) /\ (faults' = 0 => faults = 0)
        BY <1>2, <1>3, <2>1, <4>1 DEF HintInv, HintMirror
      <4> QED BY <1>1, <4>1, <4>2 DEF Mirrored
    <3>2. CASE p = q
      <4>1. by_peer'[p] = <<>> /\ Elems(by_peer'[p]) = {}
        BY <1>1, <1>5, <1>6, <3>2
      <4>2. ASSUME faults' = 0 PROVE Filter(segment'[p], late') = Filter(by_peer'[p], late')
        <5>1. CASE segment'[p] = <<>>
          BY <4>1, <5>1
        <5>2. CASE by_peer[q] = <<>> /\ segment' = segment
          <6>1. Mirrored(p) /\ faults = 0
            BY <1>2, <1>3, <2>1, <4>2, <5>2 DEF HintInv, HintMirror
          <6> QED BY <1>1, <3>2, <4>1, <5>2, <6>1 DEF Mirrored
        <5> QED BY <1>2, <1>3, <1>7, <2>1, <3>2, <4>2, <5>1, <5>2
      <4> QED BY <4>1, <4>2 DEF Mirrored
    <3> QED BY <3>1, <3>2
  <2> QED BY <1>1, <2>1 DEF HintMirror
<1> QED BY <1>8, <1>10, <1>11, <1>12 DEF HintInv, HintOnce

\* The process dies: what is on disk is all that is left.
LEMMA CrashStep ==
    ASSUME HintInv, Torn \notin Hints, Crash
    PROVE  HintInv'
<1>1. /\ up' = FALSE /\ crashes' = crashes + 1 /\ by_peer' = [p \in Peers |-> <<>>]
      /\ batch' = <<>> /\ link' = {}
      /\ UNCHANGED <<faults, late, accepted, acked, failed, expired, lost>>
      /\ \/ segment' = segment
         \/ \E p \in Peers : Durable /\ segment' = [segment EXCEPT ![p] = Append(@, Torn)]
  BY DEF Crash, Empty, hist
<1>2. /\ HintTypes /\ crashes \in Nat /\ segment \in [Peers -> Seq(Hints \cup {Torn})]
  BY DEF HintInv, HintTypes
<1>3. Elems(<<>>) = {} /\ Uniq(<<>>) /\ <<>> \in Seq(Hints)
  BY ElemsEmpty, EmptySeq
<1>4. \A p \in Peers : /\ Append(segment[p], Torn) \in Seq(Hints \cup {Torn})
                       /\ Elems(Append(segment[p], Torn)) = Elems(segment[p]) \cup {Torn}
                       /\ NoTwice(segment[p]) => NoTwice(Append(segment[p], Torn))
  <2> DEFINE Recs == Hints \cup {Torn}
  <2>1. Torn \in Recs /\ \A p \in Peers : segment[p] \in Seq(Recs)
    BY <1>2
  <2>2. \A p \in Peers : /\ Elems(Append(segment[p], Torn)) = Elems(segment[p]) \cup {Torn}
                         /\ NoTwice(segment[p]) => NoTwice(Append(segment[p], Torn))
    BY <2>1, SegmentAppend
  <2> HIDE DEF Recs
  <2>3. \A p \in Peers : Append(segment[p], Torn) \in Seq(Recs)
    BY <2>1, AppendProperties
  <2> QED BY <2>2, <2>3 DEF Recs
<1>5. /\ segment' \in [Peers -> Seq(Hints \cup {Torn})] /\ (~Durable => segment' = segment)
      /\ \A p \in Peers : segment'[p] = segment[p] \/ segment'[p] = Append(segment[p], Torn)
  BY <1>1, <1>2, <1>4
<1>6. crashes' \in Nat /\ crashes' # 0
  BY <1>1, <1>2
<1>7. HintTypes'
  BY <1>1, <1>2, <1>3, <1>5, <1>6 DEF HintTypes
<1>8. \A p \in Peers : by_peer'[p] = <<>>
  BY <1>1
<1>9. ASSUME faults = 0 PROVE HintsOnce'
  <2>1. HintsOnce /\ Taken' \subseteq Taken
    BY <1>1, <1>3, <1>9 DEF HintInv, HintOnce, Taken
  <2>2. \A p \in Peers : Uniq(by_peer'[p]) /\ NoTwice(segment'[p])
    BY <1>3, <1>4, <1>5, <1>8, <2>1 DEF HintsOnce
  <2>3. ASSUME NEW p \in Peers, NEW x \in Hints, Stored(x, p)' PROVE Stored(x, p)
    <3>1. x \in Elems(segment'[p])
      BY <1>3, <1>8, <2>3 DEF Stored
    <3> QED BY <1>4, <1>5, <3>1 DEF Stored
  <2>4. \A p \in Peers, x \in Hints :
          Stored(x, p)' => PeerOf[x] = p /\ x \in accepted' /\ x \notin Taken'
    BY <1>1, <2>1, <2>3 DEF HintsOnce
  <2> QED BY <1>1, <1>3, <2>1, <2>2, <2>4 DEF HintsOnce
<1> QED BY <1>1, <1>6, <1>7, <1>9 DEF HintInv, HintOnce, HintKept, HintMirror

\* The segments are replayed (open).
LEMMA ReopenStep ==
    ASSUME HintInv, Torn \notin Hints, Restart
    PROVE  HintInv'
<1> DEFINE back == [p \in Peers |-> Filter(Intact(segment[p]), late)]
<1>1. /\ ~up /\ by_peer' = back
      /\ UNCHANGED <<crashes, faults, segment, late, batch, link, accepted, acked, failed, expired, lost>>
  <2>1. [p \in Peers |-> Live(Intact(segment[p]))] = back
    BY LiveFilter
  <2> QED BY <2>1 DEF Restart, drainer, hist
<1>2. HintTypes /\ crashes # 0 /\ \A p \in Peers : segment[p] \in Seq(Hints \cup {Torn})
  BY <1>1 DEF HintInv, HintTypes
<1>3. ASSUME NEW p \in Peers
      PROVE  /\ back[p] \in Seq(Hints) /\ Elems(back[p]) \subseteq Elems(segment[p])
             /\ NoTwice(segment[p]) => Uniq(back[p])
             /\ Torn \notin Elems(segment[p]) => Filter(segment[p], late) = Filter(back[p], late)
  <2> DEFINE s == Intact(segment[p])
  <2>1. /\ s \in Seq(Hints) /\ Elems(s) \subseteq Elems(segment[p])
        /\ NoTwice(segment[p]) => Uniq(s)
        /\ Torn \notin Elems(segment[p]) => s = segment[p]
    BY <1>2, IntactFacts
  <2>2. back[p] = Filter(s, late)
    OBVIOUS
  <2> HIDE DEF back, s
  <2>3. Filter(s, late) \in Seq(Hints) /\ Filtered(s, late, late)
    BY <2>1, FilterFacts
  <2> QED BY <2>1, <2>2, <2>3 DEF Filtered
<1>4. back \in [Peers -> Seq(Hints)]
  BY <1>3
<1> HIDE DEF back
<1>5. HintTypes'
  BY <1>1, <1>2, <1>4 DEF HintTypes
<1>6. UNCHANGED Taken
  BY <1>1 DEF Taken
<1>7. HintOnce'
  <2>1. ASSUME HintsOnce PROVE HintsOnce'
    <3>1. \A p \in Peers : \A x : Stored(x, p)' => Stored(x, p)
      BY <1>1, <1>3 DEF Stored
    <3>2. \A p \in Peers : Uniq(by_peer'[p]) /\ NoTwice(segment'[p])
      BY <1>1, <1>3, <2>1 DEF HintsOnce
    <3> QED BY <1>1, <1>6, <2>1, <3>1, <3>2 DEF HintsOnce
  <2> QED BY <1>1, <2>1 DEF HintInv, HintOnce
<1>8. HintMirror'
  BY <1>1, <1>3 DEF HintMirror, Mirrored
<1> QED BY <1>1, <1>2, <1>5, <1>7, <1>8 DEF HintInv, HintKept

\* Every step of the store, the drainer, the link and the machine keeps the
\* books (HintStore's actions).
LEMMA HintInvariant == HintSpec => []HintInv
<1>0. PeerOf \in [Hints -> Peers] /\ Torn \notin Hints
  BY HintsAssumption, PeerOfAssumption
<1>1. HintInit => HintInv
  <2> SUFFICES ASSUME HintInit PROVE HintInv
    OBVIOUS
  <2>1. /\ up = TRUE /\ faults = 0 /\ crashes = 0 /\ batch = <<>> /\ acked = <<>> /\ link = {}
        /\ accepted = {} /\ by_peer = [p \in Peers |-> <<>>] /\ segment = [p \in Peers |-> <<>>]
    BY DEF HintInit, Empty
  <2>2. /\ Elems(<<>>) = {} /\ Uniq(<<>>) /\ NoTwice(<<>>) /\ <<>> \in Seq(Hints)
        /\ <<>> \in Seq(Hints \cup {Torn})
    BY ElemsEmpty, EmptySeq DEF NoTwice
  <2>3. \A p \in Peers : by_peer[p] = <<>> /\ segment[p] = <<>>
    BY <2>1
  <2>4. HintTypes
    BY <2>1, <2>2 DEF HintTypes
  <2>5. HintOnce
    BY <2>1, <2>2, <2>3 DEF HintOnce, HintsOnce, Stored, Taken
  <2>6. HintKept
    BY <2>1 DEF HintKept
  <2>7. HintMirror
    BY <2>2, <2>3 DEF HintMirror, Mirrored
  <2> QED BY <2>4, <2>5, <2>6, <2>7 DEF HintInv
<1>2. HintInv /\ [HintNext]_hintVars => HintInv'
  <2> SUFFICES ASSUME HintInv, [HintNext]_hintVars PROVE HintInv'
    OBVIOUS
  <2>1. ASSUME NEW h \in Hints, Enqueue(h) PROVE HintInv'
    BY <1>0, <2>1, EnqueueStep
  <2>2. ASSUME NEW h \in Hints, Age(h) PROVE HintInv'
    BY <1>0, <2>2, AgeStep
  <2>3. ASSUME NEW h \in Hints, LinkAck(h) \/ LinkError(h) PROVE HintInv'
    BY <1>0, <2>3, LinkStep
  <2>4. CASE ShipOk
    BY <1>0, <2>4, LinkStep
  <2>5. ASSUME NEW p \in Peers, TakeFor(p) PROVE HintInv'
    BY <1>0, <2>5, TakeForStep
  <2>6. CASE Tick
    BY <1>0, <2>6, TickStep
  <2>7. CASE ShipRefused
    BY <1>0, <2>7, ShipRefusedStep
  <2>8. CASE Crash
    BY <1>0, <2>8, CrashStep
  <2>9. CASE Restart
    BY <1>0, <2>9, ReopenStep
  <2>10. UNCHANGED <<up, crashes, faults, by_peer, segment, late, batch, link, accepted, acked,
                     failed, expired, lost>> => HintInv'
    BY DEF HintInv, HintTypes, HintOnce, HintsOnce, Stored, Taken, HintKept, Somewhere, HintMirror, Mirrored
  <2>11. ASSUME NEW p \in Peers, Peer(p) PROVE HintInv'
    BY <2>10, <2>11 DEF Peer, storeVars, drainer, hist
  <2>12. CASE UNCHANGED hintVars
    BY <2>10, <2>12 DEF hintVars, storeVars, drainer, hist
  <2> QED BY <2>1, <2>2, <2>3, <2>4, <2>5, <2>6, <2>7, <2>8, <2>9, <2>11, <2>12 DEF HintNext
<1> QED BY <1>1, <1>2, PTL DEF HintSpec

\* No peer applies a hint twice, through any number of crashes and restarts,
\* while segment writes and removals succeed (take_for removes the segment before
\* a hint is shipped; enqueue writes it before it is queued).
THEOREM HintsAreAppliedOnce == HintSpec => []AppliedOnce
<1>1. HintInv => AppliedOnce
  BY DEF HintInv, HintOnce, HintsOnce, Uniq, AppliedOnce
<1> QED BY <1>1, HintInvariant, PTL

\* Until a crash no accepted hint is mislaid between dispatcher, store, drainer
\* and link (enqueue, take_for, expire_now, hint_drainer_task).
THEOREM HintsAreNotMislaid == HintSpec => []NoHintMislaid
<1>1. HintInv => NoHintMislaid
  <2>1. \A s : Range(s) = Elems(s)
    BY DEF Range, Elems
  <2>2. \A h : (\E p \in Peers : h \in Elems(by_peer[p])) <=> h \in Queued
    BY DEF Queued, Range, Elems
  <2> QED BY <2>1, <2>2 DEF HintInv, HintKept, Somewhere, Taken, NoHintMislaid
<1> QED BY <1>1, HintInvariant, PTL

\* At every moment, a restart would bring back the queue of a peer whose segment
\* has no torn record: all of it, and exactly it in order while disk operations
\* succeed (enqueue, take_for, expire_now, open).
LEMMA QueuesAreRecoverable == HintSpec => []QueueRecoverable
<1>1. HintInv => QueueRecoverable
  <2> SUFFICES ASSUME HintInv, up, Durable, NEW p \in Peers, Undamaged(p)
               PROVE  IF faults > 0
                      THEN Range(Live(by_peer[p])) \subseteq Range(Live(Intact(segment[p])))
                      ELSE Live(Intact(segment[p])) = Live(by_peer[p])
    BY DEF QueueRecoverable
  <2>1. /\ segment[p] \in Seq(Hints \cup {Torn}) /\ by_peer[p] \in Seq(Hints) /\ faults \in Nat
    BY DEF HintInv, HintTypes
  <2>2. Torn \notin Elems(segment[p])
    BY DEF Undamaged, Elems
  <2>3. Intact(segment[p]) = segment[p] /\ Mirrored(p)
    BY <2>1, <2>2, IntactFacts DEF HintInv, HintMirror
  <2>4. Live(by_peer[p]) = Filter(by_peer[p], late) /\ Live(segment[p]) = Filter(segment[p], late)
    BY LiveFilter
  <2>5. Filtered(by_peer[p], late, late) /\ Filtered(segment[p], late, late)
    BY <2>1, FilterFacts
  <2>6. Elems(Filter(by_peer[p], late)) \subseteq Elems(Filter(segment[p], late))
    BY <2>3, <2>5 DEF Filtered, Mirrored
  <2>7. \A s : Range(s) = Elems(s)
    BY DEF Range, Elems
  <2>8. CASE faults > 0
    BY <2>3, <2>4, <2>6, <2>7, <2>8
  <2>9. CASE ~ (faults > 0)
    <3>1. faults = 0
      BY <2>1, <2>9
    <3> QED BY <2>3, <2>4, <2>9, <3>1 DEF Mirrored
  <2> QED BY <2>8, <2>9
<1> QED BY <1>1, HintInvariant, PTL

-----------------------------------------------------------------------------
(* Sums over finite sets, for the hint store's byte count.                   *)

Pick(s) == CHOOSE x \in s : TRUE

\* t gives the sum of f over the sets in U.
Sums(t, f, U) ==
    \A s \in U : t[s] = IF s = {} THEN 0 ELSE f[Pick(s)] + t[s \ {Pick(s)}]

SumFcn(f, D) ==
    CHOOSE t : t = [s \in SUBSET D |-> IF s = {} THEN 0 ELSE f[Pick(s)] + t[s \ {Pick(s)}]]

Total(f) == SumFcn(f, DOMAIN f)[DOMAIN f]

\* The library's sum.
LEMMA LibrarySum == ASSUME NEW f PROVE SumFunction(f) = Total(f)
BY DEF SumFunction, SumFunctionOnSet, FoldFunctionOnSet, MapThenFoldSet,
       Total, SumFcn, Pick

\* Taking an element from a finite set.
LEMMA Smaller ==
    ASSUME NEW D, IsFiniteSet(D), NEW s \in SUBSET D
    PROVE  /\ Cardinality(s) \in Nat
           /\ Cardinality(s) = 0 <=> s = {}
           /\ s # {} => Pick(s) \in s
           /\ \A x \in s : s \ {x} \in SUBSET D /\ Cardinality(s \ {x}) = Cardinality(s) - 1
<1>1. IsFiniteSet(s)
  BY FS_Subset
<1> QED BY <1>1, FS_CardinalityType, FS_EmptySet, FS_RemoveElement DEF Pick

\* The sum of a function over the subsets of a finite set exists.
LEMMA SumExists ==
    ASSUME NEW D, IsFiniteSet(D), NEW f \in [D -> Nat]
    PROVE  SumFcn(f, D) \in [SUBSET D -> Nat] /\ Sums(SumFcn(f, D), f, SUBSET D)
<1> DEFINE U == SUBSET D
           Upto(n) == {s \in U : Cardinality(s) <= n}
           P(n) == \E t \in [U -> Nat] : Sums(t, f, Upto(n))
<1>0. \A s \in U : /\ Cardinality(s) \in Nat /\ (Cardinality(s) = 0 <=> s = {})
                   /\ s # {} => /\ Pick(s) \in s /\ Pick(s) \in D /\ s \ {Pick(s)} \in U
                                /\ Cardinality(s \ {Pick(s)}) = Cardinality(s) - 1
  BY Smaller
<1> HIDE DEF U
<1>1. P(0)
  <2> DEFINE t == [s \in U |-> 0]
  <2>1. ASSUME NEW s \in Upto(0) PROVE s = {} /\ t[s] = 0
    <3>1. s \in U /\ Cardinality(s) <= 0
      OBVIOUS
    <3>2. Cardinality(s) \in Nat
      BY <1>0, <3>1
    <3>3. Cardinality(s) = 0
      BY <3>1, <3>2
    <3> QED BY <1>0, <3>1, <3>3
  <2>2. t \in [U -> Nat]
    OBVIOUS
  <2> HIDE DEF t
  <2>3. Sums(t, f, Upto(0))
    BY <2>1 DEF Sums
  <2> QED BY <2>2, <2>3
<1>2. ASSUME NEW n \in Nat, P(n) PROVE P(n + 1)
  <2>1. PICK t \in [U -> Nat] : Sums(t, f, Upto(n))
    BY <1>2
  <2> DEFINE new(s) == f[Pick(s)] + t[s \ {Pick(s)}]
             u == [s \in U |-> IF Cardinality(s) = n + 1 THEN new(s) ELSE t[s]]
  <2>2. ASSUME NEW s \in U, Cardinality(s) = n + 1 PROVE new(s) \in Nat /\ s # {}
    <3>1. s # {}
      BY <1>0, <2>2
    <3>2. f[Pick(s)] \in Nat /\ t[s \ {Pick(s)}] \in Nat
      BY <1>0, <3>1
    <3> QED BY <3>1, <3>2
  <2>3. u \in [U -> Nat]
    <3> HIDE DEF new
    <3> QED BY <2>2
  <2>4. ASSUME NEW s \in Upto(n + 1)
        PROVE  u[s] = IF s = {} THEN 0 ELSE f[Pick(s)] + u[s \ {Pick(s)}]
    <3>0. s \in U /\ Cardinality(s) \in Nat /\ Cardinality(s) <= n + 1
      BY <1>0
    <3>1. ASSUME s # {} PROVE u[s \ {Pick(s)}] = t[s \ {Pick(s)}]
      <4>1. s \ {Pick(s)} \in U /\ Cardinality(s \ {Pick(s)}) # n + 1
        <5>1. Cardinality(s \ {Pick(s)}) = Cardinality(s) - 1 /\ s \ {Pick(s)} \in U
          BY <1>0, <3>0, <3>1
        <5> QED BY <3>0, <5>1
      <4> HIDE DEF new
      <4> QED BY <4>1
    <3>2. CASE Cardinality(s) = n + 1
      <4>1. u[s] = new(s) /\ s # {}
        BY <2>2, <3>0, <3>2
      <4> HIDE DEF u
      <4> QED BY <3>1, <4>1
    <3>3. CASE Cardinality(s) # n + 1
      <4>1. s \in Upto(n)
        BY <3>0, <3>3
      <4>2. u[s] = t[s]
        BY <3>0, <3>3
      <4>3. t[s] = IF s = {} THEN 0 ELSE f[Pick(s)] + t[s \ {Pick(s)}]
        BY <2>1, <4>1 DEF Sums
      <4> HIDE DEF u
      <4> QED BY <3>1, <4>2, <4>3
    <3> QED BY <3>2, <3>3
  <2>5. Sums(u, f, Upto(n + 1))
    <3> HIDE DEF u
    <3> QED BY <2>4 DEF Sums
  <2> QED BY <2>3, <2>5
<1> HIDE DEF P
<1> DEFINE Bad == {n \in Nat : ~P(n)}
<1>3. Bad = {}
  <2> SUFFICES ASSUME Bad # {} PROVE FALSE
    OBVIOUS
  <2>1. PICK n \in Bad : \A m \in Bad : n <= m
    BY Least
  <2>2. n \in Nat /\ n # 0
    BY <1>1, <2>1
  <2>3. n - 1 \in Nat /\ ~ (n <= n - 1) /\ (n - 1) + 1 = n
    BY <2>2
  <2>4. P(n - 1)
    BY <2>1, <2>3
  <2>5. P((n - 1) + 1)
    BY <1>2, <2>3, <2>4
  <2> QED BY <2>1, <2>3, <2>5
<1>4. PICK t \in [U -> Nat] : Sums(t, f, U)
  <2>1. Cardinality(D) \in Nat /\ \A s \in U : Cardinality(s) <= Cardinality(D)
    BY FS_CardinalityType, FS_Subset DEF U
  <2>2. Upto(Cardinality(D)) = U
    BY <2>1
  <2>3. P(Cardinality(D))
    BY <1>3, <2>1
  <2> QED BY <2>2, <2>3 DEF P
<1> DEFINE k == SumFcn(f, D)
<1>5. k = [s \in U |-> IF s = {} THEN 0 ELSE f[Pick(s)] + k[s \ {Pick(s)}]]
  <2>1. t = [s \in U |-> IF s = {} THEN 0 ELSE f[Pick(s)] + t[s \ {Pick(s)}]]
    BY <1>4 DEF Sums
  <2> QED BY <2>1 DEF SumFcn, U
<1> HIDE DEF k
<1>6. Sums(k, f, U)
  BY <1>5 DEF Sums
<1> DEFINE Off == {n \in Nat : \E s \in U : Cardinality(s) = n /\ k[s] # t[s]}
<1>7. Off = {}
  <2> SUFFICES ASSUME Off # {} PROVE FALSE
    OBVIOUS
  <2>1. PICK n \in Off : \A m \in Off : n <= m
    BY Least
  <2>2. PICK s \in U : Cardinality(s) = n /\ k[s] # t[s]
    BY <2>1
  <2>3. s # {}
    BY <1>4, <1>6, <2>2 DEF Sums
  <2> DEFINE r == s \ {Pick(s)}
  <2>4. r \in U /\ Cardinality(r) \in Nat /\ ~ (n <= Cardinality(r))
    BY <1>0, <2>2, <2>3
  <2>5. k[s] = f[Pick(s)] + k[r] /\ t[s] = f[Pick(s)] + t[r]
    BY <1>4, <1>6, <2>3 DEF Sums
  <2> HIDE DEF r
  <2>6. k[r] = t[r]
    BY <2>1, <2>4
  <2> QED BY <2>2, <2>5, <2>6
<1>8. \A s \in U : k[s] = t[s]
  BY <1>0, <1>7
<1>9. k \in [U -> Nat]
  BY <1>5, <1>8
<1> QED BY <1>6, <1>9 DEF k, U

\* A larger function has a larger sum, over any set both are defined on.
LEMMA SumMonotone ==
    ASSUME NEW D, IsFiniteSet(D), NEW f \in [D -> Nat], NEW E, IsFiniteSet(E), NEW g \in [E -> Nat]
    PROVE  \A s \in SUBSET D : s \subseteq E /\ (\A x \in s : f[x] <= g[x]) =>
             SumFcn(f, D)[s] <= SumFcn(g, E)[s]
<1> DEFINE t == SumFcn(f, D)
           u == SumFcn(g, E)
           Fits(s) == s \subseteq E /\ \A x \in s : f[x] <= g[x]
           Bad == {n \in Nat : \E s \in SUBSET D : Cardinality(s) = n /\ Fits(s) /\ ~ (t[s] <= u[s])}
<1>1. /\ t \in [SUBSET D -> Nat] /\ Sums(t, f, SUBSET D)
      /\ u \in [SUBSET E -> Nat] /\ Sums(u, g, SUBSET E)
  BY SumExists
<1> HIDE DEF t, u
<1>2. Bad = {}
  <2> SUFFICES ASSUME Bad # {} PROVE FALSE
    OBVIOUS
  <2>1. PICK n \in Bad : \A m \in Bad : n <= m
    BY Least
  <2>2. PICK s \in SUBSET D : Cardinality(s) = n /\ Fits(s) /\ ~ (t[s] <= u[s])
    BY <2>1
  <2>3. s \in SUBSET E
    BY <2>2
  <2>4. s # {}
    <3> SUFFICES ASSUME s = {} PROVE FALSE
      OBVIOUS
    <3>1. t[s] = 0 /\ u[s] = 0
      BY <1>1, <2>3 DEF Sums
    <3> QED BY <2>2, <3>1
  <2> DEFINE x == Pick(s)
             r == s \ {x}
  <2>5. /\ x \in s /\ r \in SUBSET D /\ Cardinality(s) \in Nat /\ Cardinality(r) = Cardinality(s) - 1
        /\ Cardinality(r) \in Nat
    BY <2>4, Smaller
  <2>6. t[s] = f[x] + t[r] /\ u[s] = g[x] + u[r]
    BY <1>1, <2>3, <2>4 DEF Sums
  <2> HIDE DEF x
  <2>7. Fits(r) /\ r \in SUBSET E /\ x \in D /\ x \in E /\ f[x] <= g[x]
    BY <2>2, <2>3, <2>5
  <2> HIDE DEF r, Fits
  <2>8. ~ (n <= Cardinality(r))
    BY <2>2, <2>5
  <2>9. t[r] <= u[r]
    BY <2>1, <2>5, <2>7, <2>8
  <2>10. t[r] \in Nat /\ u[r] \in Nat /\ f[x] \in Nat /\ g[x] \in Nat
    BY <1>1, <2>5, <2>7
  <2>11. f[x] + t[r] <= g[x] + u[r]
    BY <2>7, <2>9, <2>10
  <2> QED BY <2>2, <2>6, <2>11
<1>3. ASSUME NEW s \in SUBSET D, Fits(s) PROVE t[s] <= u[s]
  <2>1. Cardinality(s) \in Nat
    BY Smaller
  <2> QED BY <1>2, <1>3, <2>1
<1> QED BY <1>3 DEF t, u

\* The sum depends on the values only.
LEMMA SumSame ==
    ASSUME NEW D, IsFiniteSet(D), NEW f \in [D -> Nat], NEW E, IsFiniteSet(E), NEW g \in [E -> Nat],
           NEW s \in SUBSET D, s \subseteq E, \A x \in s : f[x] = g[x]
    PROVE  SumFcn(f, D)[s] = SumFcn(g, E)[s]
<1>1. \A x \in s : f[x] \in Nat /\ g[x] \in Nat
  OBVIOUS
<1>2. \A x \in s : f[x] <= g[x] /\ g[x] <= f[x]
  BY <1>1
<1>3. SumFcn(f, D)[s] <= SumFcn(g, E)[s]
  BY <1>2, SumMonotone
<1>4. SumFcn(g, E)[s] <= SumFcn(f, D)[s]
  <2>1. s \in SUBSET E /\ s \subseteq D
    OBVIOUS
  <2>2. \A r \in SUBSET E : r \subseteq D /\ (\A x \in r : g[x] <= f[x]) =>
          SumFcn(g, E)[r] <= SumFcn(f, D)[r]
    BY SumMonotone
  <2> QED BY <1>2, <2>1, <2>2
<1>5. SumFcn(f, D)[s] \in Nat /\ SumFcn(g, E)[s] \in Nat
  <2>1. SumFcn(f, D) \in [SUBSET D -> Nat] /\ SumFcn(g, E) \in [SUBSET E -> Nat]
    BY SumExists
  <2> QED BY <2>1
<1> QED BY <1>3, <1>4, <1>5

\* Any element may be taken from a sum first.
LEMMA SumTake ==
    ASSUME NEW D, IsFiniteSet(D), NEW f \in [D -> Nat]
    PROVE  \A s \in SUBSET D : \A x \in s : SumFcn(f, D)[s] = f[x] + SumFcn(f, D)[s \ {x}]
<1> DEFINE t == SumFcn(f, D)
           Bad == {n \in Nat : \E s \in SUBSET D : Cardinality(s) = n /\ \E x \in s : t[s] # f[x] + t[s \ {x}]}
<1>1. /\ t \in [SUBSET D -> Nat] /\ Sums(t, f, SUBSET D)
  BY SumExists
<1> HIDE DEF t
<1>2. Bad = {}
  <2> SUFFICES ASSUME Bad # {} PROVE FALSE
    OBVIOUS
  <2>1. PICK n \in Bad : \A m \in Bad : n <= m
    BY Least
  <2>0. PICK s \in SUBSET D : Cardinality(s) = n /\ \E x \in s : t[s] # f[x] + t[s \ {x}]
    BY <2>1
  <2>2. PICK x \in s : Cardinality(s) = n /\ t[s] # f[x] + t[s \ {x}]
    BY <2>0
  <2> DEFINE c == Pick(s)
             a == s \ {c}
             b == s \ {x}
             d == a \ {x}
  <2>3. t[s] = f[c] + t[a]
    BY <1>1, <2>2 DEF Sums
  <2>4. /\ c \in s /\ a \in SUBSET D /\ b \in SUBSET D /\ Cardinality(s) \in Nat
        /\ Cardinality(a) = Cardinality(s) - 1 /\ Cardinality(b) = Cardinality(s) - 1
    BY <2>2, Smaller
  <2> HIDE DEF c
  <2>5. c # x
    BY <2>2, <2>3
  <2>6. x \in a /\ c \in b /\ b \ {c} = d /\ d \in SUBSET D
    BY <2>2, <2>4, <2>5
  <2>7. Cardinality(a) \in Nat /\ Cardinality(b) \in Nat
    BY <2>4, Smaller
  <2> HIDE DEF a, b
  <2>8. ~ (n <= Cardinality(a)) /\ ~ (n <= Cardinality(b))
    BY <2>2, <2>4
  <2>9. t[a] = f[x] + t[d]
    BY <2>1, <2>4, <2>6, <2>7, <2>8
  <2>10. t[b] = f[c] + t[d]
    <3>1. t[b] = f[c] + t[b \ {c}]
      BY <2>1, <2>4, <2>6, <2>7, <2>8
    <3> QED BY <2>6, <3>1
  <2>11. f[c] \in Nat /\ f[x] \in Nat /\ t[d] \in Nat
    BY <1>1, <2>2, <2>4, <2>6
  <2>12. t[s] = f[x] + t[b]
    BY <2>3, <2>9, <2>10, <2>11
  <2> QED BY <2>2, <2>12 DEF b
<1>3. ASSUME NEW s \in SUBSET D, NEW x \in s PROVE t[s] = f[x] + t[s \ {x}]
  <2>1. Cardinality(s) \in Nat
    BY Smaller
  <2> QED BY <1>2, <2>1
<1> QED BY <1>3 DEF t

\* A smaller set has a smaller sum; over the empty set it is 0.
LEMMA SumSubset ==
    ASSUME NEW D, IsFiniteSet(D), NEW f \in [D -> Nat], NEW s \in SUBSET D
    PROVE  /\ SumFcn(f, D)[{}] = 0
           /\ \A r \in SUBSET D : s \subseteq r => SumFcn(f, D)[s] <= SumFcn(f, D)[r]
<1> DEFINE t == SumFcn(f, D)
           Bad == {n \in Nat : \E r \in SUBSET D : Cardinality(r) = n /\ s \subseteq r /\ ~ (t[s] <= t[r])}
<1>1. /\ t \in [SUBSET D -> Nat] /\ Sums(t, f, SUBSET D)
      /\ \A r \in SUBSET D : \A x \in r : t[r] = f[x] + t[r \ {x}]
  BY SumExists, SumTake
<1> HIDE DEF t
<1>2. Bad = {}
  <2> SUFFICES ASSUME Bad # {} PROVE FALSE
    OBVIOUS
  <2>1. PICK n \in Bad : \A m \in Bad : n <= m
    BY Least
  <2>2. PICK r \in SUBSET D : Cardinality(r) = n /\ s \subseteq r /\ ~ (t[s] <= t[r])
    BY <2>1
  <2>3. t[s] \in Nat
    BY <1>1
  <2>4. PICK x \in r : x \notin s
    BY <2>2, <2>3
  <2> DEFINE q == r \ {x}
  <2>5. /\ q \in SUBSET D /\ Cardinality(r) \in Nat /\ Cardinality(q) = Cardinality(r) - 1
        /\ Cardinality(q) \in Nat
    BY Smaller
  <2>6. t[r] = f[x] + t[q] /\ s \subseteq q
    BY <1>1, <2>2, <2>4
  <2> HIDE DEF q
  <2>7. ~ (n <= Cardinality(q))
    BY <2>2, <2>5
  <2>8. t[s] <= t[q]
    BY <2>1, <2>5, <2>6, <2>7
  <2>9. t[q] \in Nat /\ f[x] \in Nat
    BY <1>1, <2>5
  <2>10. t[s] <= f[x] + t[q]
    BY <2>3, <2>8, <2>9
  <2> QED BY <2>2, <2>6, <2>10
<1>3. ASSUME NEW r \in SUBSET D, s \subseteq r PROVE t[s] <= t[r]
  <2>1. Cardinality(r) \in Nat
    BY Smaller
  <2> QED BY <1>2, <1>3, <2>1
<1>4. t[{}] = 0
  BY <1>1 DEF Sums
<1> QED BY <1>3, <1>4 DEF t

\* The weight of a queue, and of all queues (weight, stats).
Bytes(q) == Total([i \in DOMAIN q |-> Weight[q[i]]])
AllBytes(queues) == Total([p \in Peers |-> Bytes(queues[p])])

LEMMA BytesDefs ==
    /\ \A q : QueueBytes(q) = Bytes(q)
    /\ \A queues : BytesOf(queues) = AllBytes(queues)
<1>1. ASSUME NEW q PROVE QueueBytes(q) = Bytes(q)
  BY LibrarySum DEF QueueBytes, Bytes
<1>2. ASSUME NEW queues PROVE BytesOf(queues) = AllBytes(queues)
  <2>1. [p \in Peers |-> QueueBytes(queues[p])] = [p \in Peers |-> Bytes(queues[p])]
    BY <1>1
  <2> QED BY <2>1, LibrarySum DEF BytesOf, AllBytes
<1> QED BY <1>1, <1>2

\* The weight of a queue grows by what is appended.
LEMMA BytesAppend ==
    ASSUME Weight \in [Hints -> Nat \ {0}], NEW q \in Seq(Hints), NEW e \in Hints
    PROVE  Bytes(q) \in Nat /\ Bytes(<<>>) = 0 /\ Bytes(Append(q, e)) = Bytes(q) + Weight[e]
<1> DEFINE r == Append(q, e)
           D == 1..Len(q)
           E == 1..(Len(q) + 1)
           f == [i \in D |-> Weight[q[i]]]
           g == [i \in E |-> Weight[r[i]]]
<1>1. /\ DOMAIN q = D /\ DOMAIN r = E /\ Len(q) \in Nat
      /\ \A i \in D : r[i] = q[i] /\ q[i] \in Hints
      /\ r[Len(q) + 1] = e
  BY AppendProperties, LenProperties, ElementOfSeq
<1>2. D \subseteq E /\ E \ {Len(q) + 1} = D /\ Len(q) + 1 \in E
  BY <1>1
<1>3. IsFiniteSet(D) /\ IsFiniteSet(E)
  <2>1. Len(q) \in Int /\ Len(q) + 1 \in Int /\ 1 \in Int
    BY <1>1
  <2> QED BY <2>1, FS_Interval
<1>4. f \in [D -> Nat]
  BY <1>1
<1>5. g \in [E -> Nat] /\ \A i \in D : f[i] = g[i]
  <2>1. \A i \in E : i # Len(q) + 1 => i \in D
    BY <1>1
  <2>2. \A i \in E : r[i] \in Hints
    <3> HIDE DEF r, D, E
    <3> QED BY <1>1, <2>1
  <2> HIDE DEF r, D, E
  <2> QED BY <1>1, <1>2, <2>2
<1>6. g[Len(q) + 1] = Weight[e]
  BY <1>1, <1>2
<1>7. Bytes(q) = SumFcn(f, D)[D] /\ Bytes(r) = SumFcn(g, E)[E]
  <2>1. DOMAIN f = D /\ DOMAIN g = E
    OBVIOUS
  <2> QED BY <1>1, <2>1 DEF Bytes, Total
<1> HIDE DEF r, D, E, f, g
<1>8. SumFcn(g, E)[E] = g[Len(q) + 1] + SumFcn(g, E)[D]
  <2>1. E \in SUBSET E
    OBVIOUS
  <2>2. SumFcn(g, E)[E] = g[Len(q) + 1] + SumFcn(g, E)[E \ {Len(q) + 1}]
    BY <1>2, <1>3, <1>5, <2>1, SumTake
  <2> QED BY <1>2, <2>2
<1>9. SumFcn(f, D)[D] = SumFcn(g, E)[D]
  <2>1. /\ IsFiniteSet(D) /\ f \in [D -> Nat] /\ IsFiniteSet(E) /\ g \in [E -> Nat]
        /\ D \in SUBSET D /\ D \subseteq E /\ \A x \in D : f[x] = g[x]
    BY <1>2, <1>3, <1>4, <1>5
  <2> QED BY ONLY <2>1, SumSame
<1>10. SumFcn(f, D)[D] \in Nat
  <2>1. D \in SUBSET D /\ SumFcn(f, D) \in [SUBSET D -> Nat]
    BY <1>3, <1>4, SumExists
  <2> QED BY <2>1
<1>11. Bytes(<<>>) = 0
  <2> DEFINE z == [i \in {} |-> Weight[(<<>>)[i]]]
  <2>1. DOMAIN <<>> = {} /\ DOMAIN z = {} /\ z \in [{} -> Nat] /\ {} \in SUBSET {} /\ IsFiniteSet({})
    BY FS_EmptySet
  <2>2. SumFcn(z, {})[{}] = 0
    <3> HIDE DEF z
    <3> QED BY <2>1, SumSubset
  <2>3. Bytes(<<>>) = Total(z)
    BY <2>1 DEF Bytes
  <2> HIDE DEF z
  <2> QED BY <2>1, <2>2, <2>3 DEF Total
<1>12. Weight[e] \in Nat
  OBVIOUS
<1>13. Bytes(r) = Bytes(q) + Weight[e]
  BY <1>6, <1>7, <1>8, <1>9, <1>10, <1>12
<1> QED BY <1>7, <1>10, <1>11, <1>13 DEF r

\* A queue that repeats nothing weighs what its elements weigh together, and
\* filtering makes it no heavier.
Weighed(q, L) ==
    /\ Bytes(q) \in Nat /\ Bytes(Filter(q, L)) <= Bytes(q)
    /\ Uniq(q) => Bytes(q) = SumFcn(Weight, Hints)[Elems(q)]

LEMMA BytesFacts ==
    ASSUME Weight \in [Hints -> Nat \ {0}], IsFiniteSet(Hints), NEW L
    PROVE  \A q \in Seq(Hints) : Weighed(q, L)
<1>0. Weight \in [Hints -> Nat]
  OBVIOUS
<1>1. ASSUME NEW q \in Seq(Hints), NEW e \in Hints, Weighed(q, L) PROVE Weighed(Append(q, e), L)
  <2> DEFINE r == Append(q, e)
             t == SumFcn(Weight, Hints)
  <2>1. /\ Bytes(r) = Bytes(q) + Weight[e] /\ Bytes(q) \in Nat /\ Weight[e] \in Nat
    BY BytesAppend
  <2>2. /\ e \in L => Filter(r, L) = Filter(q, L)
        /\ e \notin L => Filter(r, L) = Append(Filter(q, L), e)
        /\ Filter(q, L) \in Seq(Hints)
    BY FilterAppend
  <2>3. /\ Bytes(Filter(q, L)) \in Nat
        /\ Bytes(Append(Filter(q, L), e)) = Bytes(Filter(q, L)) + Weight[e]
    BY <2>2, BytesAppend
  <2>4. Bytes(Filter(q, L)) <= Bytes(q)
    BY <1>1 DEF Weighed
  <2>5. /\ DOMAIN q = 1..Len(q) /\ DOMAIN r = 1..(Len(q) + 1) /\ Len(q) \in Nat
        /\ \A i \in 1..Len(q) : r[i] = q[i]
        /\ r[Len(q) + 1] = e
    BY AppendProperties, LenProperties
  <2>6. Elems(r) = Elems(q) \cup {e} /\ Elems(q) \subseteq Hints
    BY ElemsAppend, ElemsIn
  <2> HIDE DEF r, t
  <2>7. Bytes(Filter(r, L)) <= Bytes(r) /\ Bytes(r) \in Nat
    <3>1. CASE e \in L
      BY <2>1, <2>2, <2>3, <2>4, <3>1
    <3>2. CASE e \notin L
      <4>1. Bytes(Filter(r, L)) = Bytes(Filter(q, L)) + Weight[e]
        BY <2>2, <2>3, <3>2
      <4> QED BY <2>1, <2>3, <2>4, <4>1
    <3> QED BY <3>1, <3>2
  <2>8. ASSUME Uniq(r) PROVE Bytes(r) = t[Elems(r)]
    <3>1. \A i, j \in 1..(Len(q) + 1) : r[i] = r[j] => i = j
      BY <2>5, <2>8 DEF Uniq
    <3>2. Uniq(q)
      BY <2>5, <3>1 DEF Uniq
    <3>3. e \notin Elems(q)
      <4> SUFFICES ASSUME NEW i \in 1..Len(q), q[i] = e PROVE FALSE
        BY <2>5 DEF Elems
      <4>1. i \in 1..(Len(q) + 1) /\ Len(q) + 1 \in 1..(Len(q) + 1) /\ i # Len(q) + 1
        BY <2>5
      <4> QED BY <2>5, <3>1, <4>1
    <3>4. Bytes(q) = t[Elems(q)]
      BY <1>1, <3>2 DEF Weighed, t
    <3>5. Elems(r) \in SUBSET Hints /\ e \in Elems(r) /\ Elems(r) \ {e} = Elems(q)
      BY <2>6, <3>3
    <3>6. t[Elems(r)] = Weight[e] + t[Elems(r) \ {e}]
      <4>1. \A s \in SUBSET Hints : \A x \in s : t[s] = Weight[x] + t[s \ {x}]
        BY <1>0, SumTake DEF t
      <4> QED BY <3>5, <4>1
    <3>7. t[Elems(r)] = Weight[e] + Bytes(q)
      BY <3>4, <3>5, <3>6
    <3> QED BY <2>1, <3>7
  <2> QED BY <2>7, <2>8 DEF Weighed, r, t
<1>2. ASSUME NEW q \in Seq(Hints), Len(q) = 0 PROVE Weighed(q, L)
  <2>1. q = <<>>
    BY <1>2, EmptySeq, LenProperties
  <2>2. Filter(<<>>, L) = <<>>
    <3>1. <<>> \in Seq({0}) /\ 0 \in {0}
      BY EmptySeq
    <3> QED BY <3>1, FilterAppend
  <2>3. Bytes(<<>>) = 0
    <3> DEFINE z == [i \in {} |-> Weight[(<<>>)[i]]]
    <3>1. DOMAIN <<>> = {} /\ DOMAIN z = {} /\ z \in [{} -> Nat] /\ {} \in SUBSET {} /\ IsFiniteSet({})
      BY FS_EmptySet
    <3>2. SumFcn(z, {})[{}] = 0
      <4> HIDE DEF z
      <4> QED BY <3>1, SumSubset
    <3>3. Bytes(<<>>) = Total(z)
      BY <3>1 DEF Bytes
    <3> HIDE DEF z
    <3> QED BY <3>1, <3>2, <3>3 DEF Total
  <2>4. SumFcn(Weight, Hints)[{}] = 0
    BY <1>0, SumSubset
  <2>5. Bytes(<<>>) = SumFcn(Weight, Hints)[Elems(<<>>)]
    BY <2>3, <2>4, ElemsEmpty
  <2>6. Bytes(<<>>) \in Nat /\ Bytes(Filter(<<>>, L)) <= Bytes(<<>>)
    BY <2>2, <2>3
  <2> QED BY <2>1, <2>5, <2>6 DEF Weighed
<1> DEFINE Bad == {n \in Nat : \E q \in Seq(Hints) : Len(q) = n /\ ~Weighed(q, L)}
<1>3. Bad = {}
  <2> SUFFICES ASSUME Bad # {} PROVE FALSE
    OBVIOUS
  <2>1. PICK n \in Bad : \A m \in Bad : n <= m
    BY Least
  <2>2. PICK q \in Seq(Hints) : Len(q) = n /\ ~Weighed(q, L)
    BY <2>1
  <2>3. Len(q) # 0 /\ Len(q) \in Nat
    BY <1>2, <2>2, LenProperties
  <2>4. PICK r \in Seq(Hints), e \in Hints : q = Append(r, e) /\ Len(r) = Len(q) - 1
    BY <2>3, LastAppended
  <2>5. Len(r) \in Nat /\ ~ (n <= Len(r))
    BY <2>2, <2>3, <2>4
  <2>6. Weighed(r, L)
    BY <2>1, <2>5
  <2> QED BY <1>1, <2>2, <2>4, <2>6
<1> QED BY <1>3, LenProperties

\* Of two queues without repeats, one that holds less weighs no more.
LEMMA BytesSub ==
    ASSUME Weight \in [Hints -> Nat \ {0}], IsFiniteSet(Hints), NEW q \in Seq(Hints), NEW r \in Seq(Hints),
           Uniq(q), Uniq(r), Elems(q) \subseteq Elems(r)
    PROVE  Bytes(q) <= Bytes(r)
<1>1. Weight \in [Hints -> Nat] /\ Elems(q) \in SUBSET Hints /\ Elems(r) \in SUBSET Hints
  BY ElemsIn
<1>2. Weighed(q, {}) /\ Weighed(r, {})
  BY BytesFacts
<1>3. SumFcn(Weight, Hints)[Elems(q)] <= SumFcn(Weight, Hints)[Elems(r)]
  BY <1>1, SumSubset
<1> QED BY <1>2, <1>3 DEF Weighed

\* The weight of all queues: no more if no queue weighs more; when one queue
\* changes, the difference is that queue's.
LEMMA AllBytesFacts ==
    ASSUME Weight \in [Hints -> Nat \ {0}], IsFiniteSet(Hints), IsFiniteSet(Peers),
           NEW a \in [Peers -> Seq(Hints)], NEW b \in [Peers -> Seq(Hints)]
    PROVE  /\ AllBytes(a) \in Nat /\ AllBytes(b) \in Nat
           /\ (\A p \in Peers : Bytes(a[p]) <= Bytes(b[p])) => AllBytes(a) <= AllBytes(b)
           /\ \A p \in Peers : /\ Bytes(a[p]) <= AllBytes(a)
                               /\ (\A o \in Peers : o # p => a[o] = b[o]) =>
                                    AllBytes(a) + Bytes(b[p]) = AllBytes(b) + Bytes(a[p])
<1> DEFINE f == [p \in Peers |-> Bytes(a[p])]
           g == [p \in Peers |-> Bytes(b[p])]
           t == SumFcn(f, Peers)
           u == SumFcn(g, Peers)
<1>1. \A p \in Peers : Bytes(a[p]) \in Nat /\ Bytes(b[p]) \in Nat
  BY BytesFacts DEF Weighed
<1>2. f \in [Peers -> Nat] /\ g \in [Peers -> Nat] /\ DOMAIN f = Peers /\ DOMAIN g = Peers
      /\ \A p \in Peers : f[p] = Bytes(a[p]) /\ g[p] = Bytes(b[p])
  BY <1>1
<1>3. AllBytes(a) = t[Peers] /\ AllBytes(b) = u[Peers]
  BY <1>2 DEF AllBytes, Total
<1> HIDE DEF f, g
<1>4. t \in [SUBSET Peers -> Nat] /\ u \in [SUBSET Peers -> Nat] /\ Peers \in SUBSET Peers
  BY <1>2, SumExists
<1>5. (\A p \in Peers : f[p] <= g[p]) => t[Peers] <= u[Peers]
  BY <1>2, <1>4, SumMonotone
<1>6. ASSUME NEW p \in Peers
      PROVE  t[Peers] = f[p] + t[Peers \ {p}] /\ u[Peers] = g[p] + u[Peers \ {p}]
  <2>0. f \in [Peers -> Nat] /\ g \in [Peers -> Nat]
    BY <1>2
  <2>1. \A s \in SUBSET Peers : \A x \in s : t[s] = f[x] + t[s \ {x}]
    BY <2>0, SumTake
  <2>2. \A s \in SUBSET Peers : \A x \in s : u[s] = g[x] + u[s \ {x}]
    BY <2>0, SumTake
  <2> HIDE DEF t, u
  <2> QED BY <1>4, <2>1, <2>2
<1>7. ASSUME NEW p \in Peers PROVE f[p] <= t[Peers]
  <2>1. t[Peers \ {p}] \in Nat /\ f[p] \in Nat
    BY <1>2, <1>4
  <2>2. t[Peers] = f[p] + t[Peers \ {p}]
    BY <1>6
  <2> HIDE DEF t
  <2> QED BY <2>1, <2>2
<1>8. ASSUME NEW p \in Peers, \A o \in Peers : o # p => a[o] = b[o]
      PROVE  t[Peers] + g[p] = u[Peers] + f[p]
  <2> DEFINE s == Peers \ {p}
  <2>1. /\ IsFiniteSet(Peers) /\ f \in [Peers -> Nat] /\ g \in [Peers -> Nat] /\ s \in SUBSET Peers
        /\ s \subseteq Peers /\ \A x \in s : f[x] = g[x]
    BY <1>2, <1>8
  <2> HIDE DEF s
  <2>2. t[s] = u[s]
    <3>1. \A r \in SUBSET Peers : r \subseteq Peers /\ (\A x \in r : f[x] <= g[x]) => t[r] <= u[r]
      BY <2>1, SumMonotone
    <3>2. \A r \in SUBSET Peers : r \subseteq Peers /\ (\A x \in r : g[x] <= f[x]) => u[r] <= t[r]
      BY <2>1, SumMonotone
    <3>3. \A x \in s : f[x] <= g[x] /\ g[x] <= f[x]
      BY <2>1
    <3> HIDE DEF t, u
    <3>4. t[s] <= u[s] /\ u[s] <= t[s] /\ t[s] \in Nat /\ u[s] \in Nat
      BY <1>4, <2>1, <3>1, <3>2, <3>3
    <3> QED BY <3>4
  <2>3. t[s] \in Nat /\ f[p] \in Nat /\ g[p] \in Nat
    BY <1>2, <1>4, <2>1
  <2>4. t[Peers] = f[p] + t[s] /\ u[Peers] = g[p] + u[s]
    BY <1>6 DEF s
  <2> HIDE DEF t, u
  <2> QED BY <2>2, <2>3, <2>4
<1> HIDE DEF t, u
<1> QED BY <1>2, <1>3, <1>4, <1>5, <1>7, <1>8

\* An empty queue weighs nothing.
LEMMA BytesEmpty ==
    ASSUME Weight \in [Hints -> Nat \ {0}], IsFiniteSet(Hints)
    PROVE  Bytes(<<>>) = 0
<1>1. Weighed(<<>>, {})
  BY EmptySeq, BytesFacts
<1>2. SumFcn(Weight, Hints)[{}] = 0 /\ Elems(<<>>) = {} /\ Uniq(<<>>)
  <2>1. Weight \in [Hints -> Nat] /\ {} \in SUBSET Hints
    OBVIOUS
  <2> QED BY <2>1, SumSubset, ElemsEmpty
<1> QED BY <1>1, <1>2 DEF Weighed

\* Nor do empty queues together.
LEMMA AllBytesEmpty ==
    ASSUME Weight \in [Hints -> Nat \ {0}], IsFiniteSet(Hints), IsFiniteSet(Peers)
    PROVE  AllBytes([p \in Peers |-> <<>>]) = 0
<1> DEFINE f == [p \in Peers |-> Bytes(<<>>)]
           t == SumFcn(f, Peers)
<1>1. Bytes(<<>>) = 0
  BY BytesEmpty
<1>2. f \in [Peers -> Nat] /\ DOMAIN f = Peers /\ \A p \in Peers : f[p] = 0
  BY <1>1
<1>3. AllBytes([p \in Peers |-> <<>>]) = t[Peers]
  <2>1. [p \in Peers |-> Bytes([o \in Peers |-> <<>>][p])] = f
    OBVIOUS
  <2> QED BY <1>2, <2>1 DEF AllBytes, Total
<1> HIDE DEF f
<1>4. t \in [SUBSET Peers -> Nat] /\ Sums(t, f, SUBSET Peers)
  BY <1>2, SumExists
<1> HIDE DEF t
<1> DEFINE Bad == {n \in Nat : \E s \in SUBSET Peers : Cardinality(s) = n /\ t[s] # 0}
<1>5. Bad = {}
  <2> SUFFICES ASSUME Bad # {} PROVE FALSE
    OBVIOUS
  <2>1. PICK n \in Bad : \A m \in Bad : n <= m
    BY Least
  <2>2. PICK s \in SUBSET Peers : Cardinality(s) = n /\ t[s] # 0
    BY <2>1
  <2>3. s # {}
    BY <1>4, <2>2 DEF Sums
  <2> DEFINE r == s \ {Pick(s)}
  <2>4. /\ Pick(s) \in s /\ r \in SUBSET Peers /\ Cardinality(s) \in Nat
        /\ Cardinality(r) = Cardinality(s) - 1 /\ Cardinality(r) \in Nat
    BY <2>3, Smaller
  <2>5. t[s] = f[Pick(s)] + t[r] /\ f[Pick(s)] = 0
    BY <1>2, <1>4, <2>3, <2>4 DEF Sums
  <2> HIDE DEF r
  <2>6. ~ (n <= Cardinality(r))
    BY <2>2, <2>4
  <2>7. t[r] = 0
    BY <2>1, <2>4, <2>6
  <2> QED BY <2>2, <2>5, <2>7
<1>6. Cardinality(Peers) \in Nat /\ Peers \in SUBSET Peers
  BY FS_CardinalityType
<1>7. t[Peers] = 0
  BY <1>5, <1>6
<1> QED BY <1>3, <1>7

-----------------------------------------------------------------------------
(* The hint store's byte count and its types.                                *)

\* What HintStore assumes of its constants, but for the mode.
StoreConstants ==
    /\ IsFiniteSet(Hints) /\ Torn \notin Hints /\ IsFiniteSet(Peers) /\ PeerOf \in [Hints -> Peers]
    /\ Weight \in [Hints -> Nat \ {0}] /\ MaxBytes \in Nat /\ MaxCrashes \in Nat /\ MaxFaults \in Nat

\* The queues a restart would bring back.
Replayed == [p \in Peers |-> Filter(Intact(segment[p]), late)]

\* While disk operations succeed, replay reads nothing that is neither queued nor
\* late.
Covered == \A p \in Peers : Elems(Intact(segment[p])) \subseteq Elems(by_peer[p]) \cup late

\* The count is what the queues weigh; while disk operations succeed it is within
\* the cap, and so is what a restart brings back.
ByteInv ==
    /\ bytes = AllBytes(by_peer)
    /\ (faults = 0 /\ MaxBytes > 0) => bytes <= MaxBytes
    /\ (faults = 0 /\ up) => Covered
    /\ (faults = 0 /\ ~up /\ MaxBytes > 0) => AllBytes(Replayed) <= MaxBytes

\* A push adds its hint's weight, within the cap (enqueue).
LEMMA PushBytes ==
    ASSUME HintTypes, ByteInv, StoreConstants, NEW h \in Hints, Push(h)
    PROVE  /\ bytes' = AllBytes(by_peer') /\ faults' = faults
           /\ MaxBytes > 0 => bytes' <= MaxBytes
           /\ \A p \in Peers : \A x : x \in Elems(Intact(segment'[p])) =>
                x \in Elems(Intact(segment[p])) \/ x \in Elems(by_peer'[p])
           /\ \A p \in Peers : Elems(by_peer[p]) \subseteq Elems(by_peer'[p])
<1> DEFINE q == PeerOf[h]
<1>1. /\ bytes' = bytes + Weight[h] /\ ~ (MaxBytes > 0 /\ bytes + Weight[h] > MaxBytes)
      /\ PeerOf \in [Hints -> Peers]
  BY DEF Push, OverCapacity, StoreConstants
<1>2. /\ by_peer' \in [Peers -> Seq(Hints)] /\ faults' = faults /\ q \in Peers
      /\ \A p \in Peers : p # q => by_peer'[p] = by_peer[p] /\ segment'[p] = segment[p]
      /\ by_peer'[q] = Append(by_peer[q], h)
      /\ Durable => segment'[q] = Append(segment[q], h)
      /\ ~Durable => segment' = segment
  BY <1>1, PushFacts
<1>3. /\ by_peer \in [Peers -> Seq(Hints)] /\ by_peer[q] \in Seq(Hints)
      /\ segment[q] \in Seq(Hints \cup {Torn}) /\ h \in Hints \cup {Torn}
  BY <1>2 DEF HintTypes
<1>4. /\ Weight[h] \in Nat /\ MaxBytes \in Nat
  BY DEF StoreConstants
<1>5. /\ Bytes(by_peer[q]) \in Nat /\ Bytes(Append(by_peer[q], h)) = Bytes(by_peer[q]) + Weight[h]
  BY <1>3, BytesAppend DEF StoreConstants
<1> HIDE DEF q
<1>6. /\ AllBytes(by_peer') \in Nat /\ AllBytes(by_peer) \in Nat
      /\ AllBytes(by_peer') + Bytes(by_peer[q]) = AllBytes(by_peer) + Bytes(by_peer'[q])
  <2> DEFINE a == by_peer'
             b == by_peer
  <2>1. /\ a \in [Peers -> Seq(Hints)] /\ b \in [Peers -> Seq(Hints)] /\ q \in Peers
        /\ \A o \in Peers : o # q => a[o] = b[o]
    BY <1>2, <1>3
  <2>2. Weight \in [Hints -> Nat \ {0}] /\ IsFiniteSet(Hints) /\ IsFiniteSet(Peers)
    BY DEF StoreConstants
  <2> HIDE DEF a, b
  <2>3. AllBytes(a) \in Nat /\ AllBytes(b) \in Nat /\ AllBytes(a) + Bytes(b[q]) = AllBytes(b) + Bytes(a[q])
    BY <2>1, <2>2, AllBytesFacts
  <2> QED BY <2>3 DEF a, b
<1>7. bytes = AllBytes(by_peer)
  BY DEF ByteInv
<1>8. bytes' = AllBytes(by_peer')
  <2> DEFINE x == AllBytes(by_peer')
             y == AllBytes(by_peer)
             z == Bytes(by_peer[q])
             w == Weight[h]
  <2>1. x + z = y + (z + w)
    BY <1>2, <1>5, <1>6
  <2>2. x \in Nat /\ y \in Nat /\ z \in Nat /\ w \in Nat /\ bytes' = y + w
    BY <1>1, <1>4, <1>5, <1>6, <1>7
  <2> HIDE DEF x, y, z, w
  <2>3. bytes' = x
    BY <2>1, <2>2
  <2> QED BY <2>3 DEF x
<1>9. MaxBytes > 0 => bytes' <= MaxBytes
  <2>1. bytes \in Nat
    BY <1>6, <1>7
  <2> QED BY <1>1, <1>4, <2>1
<1>10. ASSUME NEW p \in Peers, NEW x, x \in Elems(Intact(segment'[p]))
       PROVE  x \in Elems(Intact(segment[p])) \/ x \in Elems(by_peer'[p])
  <2>1. CASE segment'[p] = segment[p]
    BY <1>10, <2>1
  <2>2. CASE segment'[p] # segment[p]
    <3>1. p = q /\ segment'[p] = Append(segment[q], h)
      BY <1>2, <2>2
    <3>2. x \in Elems(Intact(segment[q])) \/ x = h
      BY <1>3, <1>10, <3>1, IntactAppend
    <3>3. h \in Elems(by_peer'[q])
      BY <1>2, <1>3, ElemsAppend
    <3> QED BY <3>1, <3>2, <3>3
  <2> QED BY <2>1, <2>2
<1>11. ASSUME NEW p \in Peers PROVE Elems(by_peer[p]) \subseteq Elems(by_peer'[p])
  <2>1. Elems(Append(by_peer[q], h)) = Elems(by_peer[q]) \cup {h}
    BY <1>3, ElemsAppend
  <2> QED BY <1>2, <2>1
<1> QED BY <1>2, <1>8, <1>9, <1>10, <1>11

\* A push that fails leaves the count and the queues alone (enqueue).
LEMMA PushFailsBytes ==
    ASSUME HintTypes, ByteInv, StoreConstants, NEW h \in Hints, PushFails(h)
    PROVE  UNCHANGED <<bytes, by_peer>> /\ (faults' = 0 => faults = 0 /\ segment' = segment)
<1>1. UNCHANGED bytes /\ PeerOf \in [Hints -> Peers]
  BY DEF PushFails, StoreConstants
<1> QED BY <1>1, PushFailsFacts

\* The dispatcher's enqueue keeps the count (enqueue).
LEMMA EnqueueBytes ==
    ASSUME HintInv, ByteInv, StoreConstants, NEW h \in Hints, Enqueue(h)
    PROVE  ByteInv'
<1>1. up /\ UNCHANGED <<up, late>> /\ (Push(h) \/ PushFails(h)) /\ HintTypes
  BY DEF Enqueue, HintInv
<1>2. CASE Push(h)
  <2>1. /\ bytes' = AllBytes(by_peer') /\ faults' = faults
        /\ MaxBytes > 0 => bytes' <= MaxBytes
        /\ \A p \in Peers : \A x : x \in Elems(Intact(segment'[p])) =>
             x \in Elems(Intact(segment[p])) \/ x \in Elems(by_peer'[p])
        /\ \A p \in Peers : Elems(by_peer[p]) \subseteq Elems(by_peer'[p])
    BY <1>1, <1>2, PushBytes
  <2>2. faults = 0 => Covered'
    BY <1>1, <2>1 DEF ByteInv, Covered
  <2> QED BY <1>1, <2>1, <2>2 DEF ByteInv
<1>3. CASE PushFails(h)
  <2>1. UNCHANGED <<bytes, by_peer>> /\ (faults' = 0 => faults = 0 /\ segment' = segment)
    BY <1>1, <1>3, PushFailsBytes
  <2>2. faults' = 0 => Covered'
    BY <1>1, <2>1 DEF ByteInv, Covered
  <2> QED BY <1>1, <2>1, <2>2 DEF ByteInv
<1> QED BY <1>1, <1>2, <1>3

\* A refused hint has no record while disk operations succeed, so its new
\* deadline brings nothing back (hint_drainer_task).
LEMMA ShipRefusedBytes ==
    ASSUME HintInv, ByteInv, StoreConstants, ShipRefused
    PROVE  ByteInv'
<1> DEFINE h == Head(batch)
<1>1. /\ up /\ up' = up /\ late' = late \ {h} /\ batch # <<>> /\ batch \in Seq(Hints) /\ HintTypes
      /\ Push(h) \/ PushFails(h)
  BY DEF ShipRefused, HintInv, HintTypes
<1>2. h \in Hints /\ h \in Elems(batch)
  <2>1. Len(batch) \in Nat /\ Len(batch) # 0 /\ DOMAIN batch = 1..Len(batch)
    BY <1>1, EmptySeq, LenProperties
  <2>2. 1 \in DOMAIN batch /\ h = batch[1]
    BY <1>1, <2>1
  <2> QED BY <1>1, <2>2, ElemsIn DEF Elems
<1> HIDE DEF h
<1>3. ASSUME faults = 0, NEW p \in Peers PROVE h \notin Elems(Intact(segment[p]))
  <2>1. ~ Stored(h, p)
    BY <1>2, <1>3 DEF HintInv, HintOnce, HintsOnce, Taken
  <2>2. segment[p] \in Seq(Hints \cup {Torn})
    BY <1>1 DEF HintTypes
  <2>3. Elems(Intact(segment[p])) \subseteq Elems(segment[p])
    BY <2>2, IntactFacts
  <2> QED BY <2>1, <2>3 DEF Stored
<1>4. CASE Push(h)
  <2>1. /\ bytes' = AllBytes(by_peer') /\ faults' = faults
        /\ MaxBytes > 0 => bytes' <= MaxBytes
        /\ \A p \in Peers : \A x : x \in Elems(Intact(segment'[p])) =>
             x \in Elems(Intact(segment[p])) \/ x \in Elems(by_peer'[p])
        /\ \A p \in Peers : Elems(by_peer[p]) \subseteq Elems(by_peer'[p])
    BY <1>1, <1>2, <1>4, PushBytes
  <2>2. ASSUME faults = 0 PROVE Covered'
    <3>1. Covered
      BY <1>1, <2>2 DEF ByteInv
    <3> QED BY <1>1, <1>3, <2>1, <2>2, <3>1 DEF Covered
  <2> QED BY <1>1, <2>1, <2>2 DEF ByteInv
<1>5. CASE PushFails(h)
  <2>1. UNCHANGED <<bytes, by_peer>> /\ (faults' = 0 => faults = 0 /\ segment' = segment)
    BY <1>1, <1>2, <1>5, PushFailsBytes
  <2>2. ASSUME faults' = 0 PROVE Covered'
    <3>1. Covered /\ faults = 0
      BY <1>1, <2>1, <2>2 DEF ByteInv
    <3> QED BY <1>1, <1>3, <2>1, <2>2, <3>1 DEF Covered
  <2> QED BY <1>1, <2>1, <2>2 DEF ByteInv
<1> QED BY <1>1, <1>4, <1>5

\* Replay reads nothing of a segment that is not there.
LEMMA NothingIntact == Intact(<<>>) \in Seq(Hints) /\ Elems(Intact(<<>>)) = {}
<1>1. <<>> \in Seq(Hints \cup {Torn}) /\ Elems(<<>>) = {}
  BY EmptySeq, ElemsEmpty
<1> QED BY <1>1, IntactFacts

\* The queues that are left of some queues weigh no more (expire_now, open).
LEMMA FilteredBytes ==
    ASSUME StoreConstants, NEW a \in [Peers -> Seq(Hints)], NEW L
    PROVE  /\ [p \in Peers |-> Filter(a[p], L)] \in [Peers -> Seq(Hints)]
           /\ AllBytes([p \in Peers |-> Filter(a[p], L)]) <= AllBytes(a)
<1> DEFINE b == [p \in Peers |-> Filter(a[p], L)]
<1>1. Weight \in [Hints -> Nat \ {0}] /\ IsFiniteSet(Hints) /\ IsFiniteSet(Peers)
  BY DEF StoreConstants
<1>2. \A p \in Peers : Filter(a[p], L) \in Seq(Hints) /\ Bytes(Filter(a[p], L)) <= Bytes(a[p])
  BY <1>1, FilterFacts, BytesFacts DEF Weighed
<1>3. b \in [Peers -> Seq(Hints)] /\ \A p \in Peers : Bytes(b[p]) <= Bytes(a[p])
  BY <1>2
<1> HIDE DEF b
<1>4. AllBytes(b) <= AllBytes(a)
  BY <1>1, <1>3, AllBytesFacts
<1> QED BY <1>3, <1>4 DEF b

\* Expiry counts what is left, and rewrites every segment that had more
\* (expire_now).
LEMMA TickBytes ==
    ASSUME HintInv, ByteInv, StoreConstants, Tick
    PROVE  ByteInv'
<1> DEFINE kept == [p \in Peers |-> Filter(by_peer[p], late)]
           new == [p \in Peers |-> IF kept[p] # by_peer[p] THEN kept[p] ELSE segment[p]]
<1>1. /\ up /\ by_peer' = kept /\ bytes' = AllBytes(kept) /\ UNCHANGED <<up, late>>
      /\ Rewritten(new)
  <2>1. [p \in Peers |-> Live(by_peer[p])] = kept
    BY LiveFilter
  <2>2. BytesOf(kept) = AllBytes(kept)
    BY BytesDefs
  <2> HIDE DEF kept
  <2> QED BY <2>1, <2>2 DEF Tick
<1>2. \/ Durable /\ segment' = new /\ faults' = faults
      \/ ~Durable /\ segment' = segment /\ faults' = faults
      \/ Durable /\ segment' = segment /\ faults' = faults + 1
  BY <1>1 DEF Rewritten, DiskFault
<1>3. /\ HintTypes /\ faults \in Nat /\ by_peer \in [Peers -> Seq(Hints)]
      /\ ~Durable => \A p \in Peers : segment[p] = <<>>
  BY DEF HintInv, HintTypes
<1>4. kept \in [Peers -> Seq(Hints)] /\ AllBytes(kept) <= AllBytes(by_peer)
  BY <1>3, FilteredBytes
<1>5. \A p \in Peers : new[p] = kept[p] \/ (new[p] = segment[p] /\ kept[p] = by_peer[p])
  OBVIOUS
<1> HIDE DEF kept, new
<1>6. AllBytes(kept) \in Nat /\ AllBytes(by_peer) \in Nat /\ MaxBytes \in Nat
  BY <1>3, <1>4, AllBytesFacts DEF StoreConstants
<1>7. faults' = 0 => faults = 0
  BY <1>2, <1>3
<1>8. (faults' = 0 /\ MaxBytes > 0) => bytes' <= MaxBytes
  <2>1. (faults' = 0 /\ MaxBytes > 0) => AllBytes(by_peer) <= MaxBytes
    BY <1>7 DEF ByteInv
  <2> QED BY <1>1, <1>4, <1>6, <2>1
<1>9. ASSUME faults' = 0 PROVE Covered'
  <2>1. Covered
    BY <1>1, <1>7, <1>9 DEF ByteInv
  <2>2. ASSUME NEW p \in Peers PROVE Elems(Intact(segment'[p])) \subseteq Elems(by_peer'[p]) \cup late
    <3>1. CASE ~Durable
      <4>1. segment'[p] = <<>>
        BY <1>2, <1>3, <3>1
      <4> QED BY <4>1, NothingIntact
    <3>2. CASE Durable /\ new[p] = kept[p]
      <4>1. segment'[p] = kept[p] /\ kept[p] \in Seq(Hints \cup {Torn})
        <5>1. segment' = new
          BY <1>2, <1>3, <1>7, <1>9, <3>2
        <5>2. Seq(Hints) \subseteq Seq(Hints \cup {Torn})
          BY SeqMonotonic
        <5> QED BY <1>4, <3>2, <5>1, <5>2
      <4>2. Elems(Intact(kept[p])) \subseteq Elems(kept[p])
        BY <4>1, IntactFacts
      <4> QED BY <1>1, <4>1, <4>2
    <3>3. CASE Durable /\ new[p] = segment[p] /\ kept[p] = by_peer[p]
      <4>1. segment'[p] = segment[p] /\ by_peer'[p] = by_peer[p]
        BY <1>1, <1>2, <3>3
      <4> QED BY <2>1, <4>1 DEF Covered
    <3> QED BY <1>5, <3>1, <3>2, <3>3
  <2> QED BY <1>1, <2>2 DEF Covered
<1> QED BY <1>1, <1>8, <1>9 DEF ByteInv

\* Taking a queue gives back its weight, what was late in it included (take_for).
LEMMA TakeForBytes ==
    ASSUME HintInv, ByteInv, StoreConstants, NEW q \in Peers, TakeFor(q)
    PROVE  ByteInv'
<1> DEFINE queues == [by_peer EXCEPT ![q] = <<>>]
           new == [segment EXCEPT ![q] = <<>>]
<1>1. /\ up /\ by_peer' = queues /\ bytes' = bytes - Bytes(by_peer[q]) /\ UNCHANGED <<up, late>>
      /\ IF by_peer[q] = <<>> THEN segment' = segment /\ faults' = faults ELSE Rewritten(new)
  BY BytesDefs DEF TakeFor
<1>2. /\ by_peer[q] = <<>> => segment' = segment /\ faults' = faults
      /\ by_peer[q] # <<>> => \/ Durable /\ segment' = new /\ faults' = faults
                              \/ ~Durable /\ segment' = segment /\ faults' = faults
                              \/ Durable /\ segment' = segment /\ faults' = faults + 1
  BY <1>1 DEF Rewritten, DiskFault
<1>3. /\ HintTypes /\ faults \in Nat /\ by_peer \in [Peers -> Seq(Hints)]
      /\ segment \in [Peers -> Seq(Hints \cup {Torn})] /\ by_peer[q] \in Seq(Hints)
      /\ ~Durable => \A p \in Peers : segment[p] = <<>>
  BY DEF HintInv, HintTypes
<1>4. /\ queues \in [Peers -> Seq(Hints)] /\ queues[q] = <<>>
      /\ \A p \in Peers : p # q => queues[p] = by_peer[p] /\ new[p] = segment[p]
      /\ new[q] = <<>>
  <2>1. <<>> \in Seq(Hints)
    BY EmptySeq
  <2> QED BY <1>3, <2>1
<1> HIDE DEF queues, new
<1>5. Weight \in [Hints -> Nat \ {0}] /\ IsFiniteSet(Hints) /\ IsFiniteSet(Peers) /\ MaxBytes \in Nat
  BY DEF StoreConstants
<1>6. /\ AllBytes(queues) \in Nat /\ AllBytes(by_peer) \in Nat
      /\ AllBytes(queues) + Bytes(by_peer[q]) = AllBytes(by_peer) + Bytes(queues[q])
  <2>1. \A o \in Peers : o # q => queues[o] = by_peer[o]
    BY <1>4
  <2> QED BY <1>3, <1>4, <1>5, <2>1, AllBytesFacts
<1>7. Bytes(<<>>) = 0 /\ Bytes(by_peer[q]) \in Nat
  <2>1. Weighed(by_peer[q], {})
    BY <1>3, <1>5, BytesFacts
  <2>2. Bytes(<<>>) = 0
    BY <1>5, BytesEmpty
  <2> QED BY <2>1, <2>2 DEF Weighed
<1>8. bytes' = AllBytes(queues) /\ AllBytes(queues) <= AllBytes(by_peer)
  <2> DEFINE x == AllBytes(queues)
             y == AllBytes(by_peer)
             z == Bytes(by_peer[q])
  <2>1. x \in Nat /\ y \in Nat /\ z \in Nat /\ x + z = y + 0 /\ bytes' = y - z
    BY <1>1, <1>4, <1>6, <1>7 DEF ByteInv
  <2> HIDE DEF x, y, z
  <2>2. bytes' = x /\ x <= y
    BY <2>1
  <2> QED BY <2>2 DEF x, y
<1>9. faults' = 0 => faults = 0
  BY <1>2, <1>3
<1>10. (faults' = 0 /\ MaxBytes > 0) => bytes' <= MaxBytes
  <2>1. (faults' = 0 /\ MaxBytes > 0) => AllBytes(by_peer) <= MaxBytes
    BY <1>9 DEF ByteInv
  <2> QED BY <1>5, <1>6, <1>8, <2>1
<1>11. ASSUME faults' = 0 PROVE Covered'
  <2>1. Covered
    BY <1>1, <1>9, <1>11 DEF ByteInv
  <2>2. ASSUME NEW p \in Peers PROVE Elems(Intact(segment'[p])) \subseteq Elems(by_peer'[p]) \cup late
    <3>1. CASE p # q
      <4>1. segment'[p] = segment[p] /\ by_peer'[p] = by_peer[p]
        BY <1>1, <1>2, <1>4, <3>1
      <4> QED BY <2>1, <4>1 DEF Covered
    <3>2. CASE p = q /\ by_peer[q] = <<>>
      <4>1. segment'[p] = segment[p] /\ by_peer'[p] = by_peer[p]
        BY <1>1, <1>2, <1>4, <3>2
      <4> QED BY <2>1, <4>1 DEF Covered
    <3>3. CASE p = q /\ by_peer[q] # <<>>
      <4>1. segment'[p] = <<>>
        BY <1>2, <1>3, <1>4, <1>9, <1>11, <3>3
      <4> QED BY <4>1, NothingIntact
    <3> QED BY <3>1, <3>2, <3>3
  <2> QED BY <1>1, <2>2 DEF Covered
<1> QED BY <1>1, <1>8, <1>10, <1>11 DEF ByteInv

\* What replay brings back: what is intact and not late, nothing twice that the
\* segment does not have twice (open).
ReplayedOnce ==
    /\ Replayed \in [Peers -> Seq(Hints)]
    /\ \A p \in Peers : /\ Elems(Replayed[p]) = Elems(Intact(segment[p])) \ late
                        /\ NoTwice(segment[p]) => Uniq(Replayed[p])

LEMMA ReplayedFacts == HintTypes => ReplayedOnce
<1> SUFFICES ASSUME HintTypes PROVE ReplayedOnce
  OBVIOUS
<1>1. ASSUME NEW p \in Peers
      PROVE  /\ Intact(segment[p]) \in Seq(Hints)
             /\ Filter(Intact(segment[p]), late) \in Seq(Hints)
             /\ Elems(Filter(Intact(segment[p]), late)) = Elems(Intact(segment[p])) \ late
             /\ NoTwice(segment[p]) => Uniq(Filter(Intact(segment[p]), late))
  <2> DEFINE s == Intact(segment[p])
  <2>1. segment[p] \in Seq(Hints \cup {Torn})
    BY DEF HintTypes
  <2>2. s \in Seq(Hints) /\ (NoTwice(segment[p]) => Uniq(s))
    BY <2>1, IntactFacts
  <2> HIDE DEF s
  <2>3. Filter(s, late) \in Seq(Hints) /\ Filtered(s, late, late)
    BY <2>2, FilterFacts
  <2>4. /\ s \in Seq(Hints) /\ Filter(s, late) \in Seq(Hints) /\ Elems(Filter(s, late)) = Elems(s) \ late
        /\ NoTwice(segment[p]) => Uniq(Filter(s, late))
    BY <2>2, <2>3 DEF Filtered
  <2> QED BY <2>4 DEF s
<1>2. \A p \in Peers : Replayed[p] = Filter(Intact(segment[p]), late)
  BY DEF Replayed
<1>3. Replayed \in [Peers -> Seq(Hints)]
  BY <1>1 DEF Replayed
<1> QED BY <1>1, <1>2, <1>3 DEF ReplayedOnce

\* What a crash leaves on disk weighs no more than what was queued: everything
\* replay would read was queued, once (enqueue, take_for, expire_now).
LEMMA CrashBytes ==
    ASSUME HintInv, HintInv', ByteInv, StoreConstants, Crash
    PROVE  ByteInv'
<1>1. /\ up /\ ~up' /\ by_peer' = [p \in Peers |-> <<>>] /\ bytes' = 0 /\ UNCHANGED <<faults, late>>
      /\ \/ segment' = segment
         \/ \E p \in Peers : Durable /\ segment' = [segment EXCEPT ![p] = Append(@, Torn)]
  BY DEF Crash, Empty
<1>2. /\ Weight \in [Hints -> Nat \ {0}] /\ IsFiniteSet(Hints) /\ IsFiniteSet(Peers) /\ MaxBytes \in Nat
      /\ HintTypes /\ HintTypes' /\ by_peer \in [Peers -> Seq(Hints)]
      /\ segment \in [Peers -> Seq(Hints \cup {Torn})]
  BY DEF StoreConstants, HintInv, HintTypes
<1>3. bytes' = AllBytes(by_peer')
  BY <1>1, <1>2, AllBytesEmpty
<1>4. \A p \in Peers : segment'[p] = segment[p] \/ segment'[p] = Append(segment[p], Torn)
  BY <1>1, <1>2
<1>5. ASSUME NEW p \in Peers
      PROVE  Elems(Intact(segment'[p])) \subseteq Elems(Intact(segment[p]))
  <2>1. segment[p] \in Seq(Hints \cup {Torn}) /\ Torn \in Hints \cup {Torn}
    BY <1>2
  <2>2. Elems(Intact(Append(segment[p], Torn))) \subseteq Elems(Intact(segment[p]))
    BY <2>1, IntactAppend
  <2> QED BY <1>4, <2>2
<1>6. ASSUME faults = 0, MaxBytes > 0 PROVE AllBytes(Replayed') <= MaxBytes
  <2> DEFINE a == Replayed'
             b == by_peer
  <2>1. Covered /\ HintsOnce /\ HintsOnce' /\ AllBytes(b) <= MaxBytes
    BY <1>1, <1>6 DEF ByteInv, HintInv, HintOnce
  <2>2. /\ a \in [Peers -> Seq(Hints)] /\ b \in [Peers -> Seq(Hints)]
        /\ \A p \in Peers : /\ Elems(a[p]) = Elems(Intact(segment'[p])) \ late
                            /\ NoTwice(segment'[p]) => Uniq(a[p])
    <3>1. ReplayedOnce'
      <4>1. HintTypes' => ReplayedOnce'
        BY ReplayedFacts, PTL
      <4> QED BY <1>2, <4>1
    <3> QED BY <1>1, <1>2, <3>1 DEF ReplayedOnce
  <2>3. ASSUME NEW p \in Peers PROVE Uniq(a[p]) /\ Uniq(b[p]) /\ Elems(a[p]) \subseteq Elems(b[p])
    <3>1. Uniq(b[p]) /\ NoTwice(segment'[p])
      BY <2>1 DEF HintsOnce
    <3>2. Elems(Intact(segment'[p])) \subseteq Elems(b[p]) \cup late
      BY <1>5, <2>1 DEF Covered
    <3>3. Elems(a[p]) = Elems(Intact(segment'[p])) \ late /\ Uniq(a[p])
      <4> HIDE DEF a
      <4> QED BY <2>2, <3>1
    <3> HIDE DEF a, b
    <3> QED BY <3>1, <3>2, <3>3
  <2> HIDE DEF a, b
  <2>4. \A p \in Peers : Bytes(a[p]) <= Bytes(b[p])
    BY <1>2, <2>2, <2>3, BytesSub
  <2>5. AllBytes(a) \in Nat /\ AllBytes(b) \in Nat /\ AllBytes(a) <= AllBytes(b)
    BY <1>2, <2>2, <2>4, AllBytesFacts
  <2>6. AllBytes(a) <= MaxBytes
    BY <1>2, <2>1, <2>5
  <2> QED BY <2>6 DEF a
<1> QED BY <1>1, <1>2, <1>3, <1>6 DEF ByteInv

\* A restart counts what it brings back (open).
LEMMA ReopenBytes ==
    ASSUME HintInv, ByteInv, StoreConstants, Restart
    PROVE  ByteInv'
<1>1. /\ ~up /\ up' /\ by_peer' = Replayed /\ bytes' = AllBytes(Replayed)
      /\ UNCHANGED <<faults, segment, late>>
  <2>1. [p \in Peers |-> Live(Intact(segment[p]))] = Replayed
    BY LiveFilter DEF Replayed
  <2>2. BytesOf(Replayed) = AllBytes(Replayed)
    BY BytesDefs
  <2> QED BY <2>1, <2>2 DEF Restart
<1>2. ReplayedOnce
  BY ReplayedFacts DEF HintInv
<1>3. Covered'
  BY <1>1, <1>2 DEF Covered, ReplayedOnce
<1> QED BY <1>1, <1>3 DEF ByteInv

\* A deadline that passes leaves less to bring back (is_expired).
LEMMA AgeBytes ==
    ASSUME HintInv, ByteInv, StoreConstants, NEW h \in Hints, Age(h)
    PROVE  ByteInv'
<1>1. late' = late \cup {h} /\ UNCHANGED <<up, faults, by_peer, bytes, segment>>
  BY DEF Age, storeVars
<1>2. Covered => Covered'
  BY <1>1 DEF Covered
<1>3. AllBytes(Replayed') <= AllBytes(Replayed) /\ AllBytes(Replayed) \in Nat /\ AllBytes(Replayed') \in Nat
  <2> DEFINE a == Replayed
             b == [p \in Peers |-> Filter(a[p], late')]
  <2>1. a \in [Peers -> Seq(Hints)] /\ HintTypes
    BY ReplayedFacts DEF HintInv, ReplayedOnce
  <2>2. ASSUME NEW p \in Peers PROVE Filter(a[p], late') = Filter(Intact(segment[p]), late')
    <3> DEFINE s == Intact(segment[p])
    <3>1. segment[p] \in Seq(Hints \cup {Torn}) /\ late \subseteq late'
      BY <1>1, <2>1 DEF HintTypes
    <3>2. s \in Seq(Hints) /\ a[p] = Filter(s, late)
      BY <3>1, IntactFacts DEF Replayed
    <3> HIDE DEF s, a
    <3>3. Filtered(s, late, late')
      BY <3>2, FilterFacts
    <3>4. Filter(a[p], late') = Filter(s, late')
      BY <3>1, <3>2, <3>3 DEF Filtered
    <3> QED BY <3>4 DEF s
  <2>3. Replayed' = b
    BY <1>1, <2>2 DEF Replayed
  <2>4. b \in [Peers -> Seq(Hints)] /\ AllBytes(b) <= AllBytes(a)
    <3> HIDE DEF a
    <3> QED BY <2>1, FilteredBytes
  <2> HIDE DEF a, b
  <2>5. AllBytes(a) \in Nat /\ AllBytes(b) \in Nat
    BY <2>1, <2>4, AllBytesFacts DEF StoreConstants
  <2> QED BY <2>3, <2>4, <2>5 DEF a
<1>4. MaxBytes \in Nat
  BY DEF StoreConstants
<1>5. AllBytes(Replayed) <= MaxBytes => AllBytes(Replayed') <= MaxBytes
  <2> DEFINE x == AllBytes(Replayed)
             y == AllBytes(Replayed')
  <2>1. x \in Nat /\ y \in Nat /\ y <= x
    BY <1>3
  <2> HIDE DEF x, y
  <2>2. x <= MaxBytes => y <= MaxBytes
    BY <1>4, <2>1
  <2> QED BY <2>2 DEF x, y
<1> QED BY <1>1, <1>2, <1>5 DEF ByteInv

\* The types that the other invariants do not need.
HintRest ==
    /\ up \in BOOLEAN /\ crashes \in 0..MaxCrashes /\ faults \in 0..MaxFaults
    /\ late \subseteq Hints /\ normal \subseteq Peers /\ live \subseteq Peers
    /\ failed \subseteq Hints /\ expired \subseteq Hints /\ lost \subseteq Hints

\* Every step keeps them (HintStore's actions).
LEMMA RestStep ==
    ASSUME HintInv, HintRest, StoreConstants, [HintNext]_hintVars
    PROVE  HintRest'
<1>1. /\ up \in BOOLEAN /\ crashes \in 0..MaxCrashes /\ faults \in 0..MaxFaults
      /\ late \subseteq Hints /\ normal \subseteq Peers /\ live \subseteq Peers
      /\ failed \subseteq Hints /\ expired \subseteq Hints /\ lost \subseteq Hints
      /\ MaxCrashes \in Nat /\ MaxFaults \in Nat
  BY DEF HintRest, StoreConstants
<1>2. /\ accepted \subseteq Hints /\ link \subseteq Hints /\ batch \in Seq(Hints)
      /\ \A p \in Peers : by_peer[p] \in Seq(Hints)
  BY DEF HintInv, HintTypes
<1>3. Queued \subseteq Hints /\ \A p \in Peers : Range(by_peer[p]) \subseteq Hints
  <2>1. \A p \in Peers : Elems(by_peer[p]) \subseteq Hints
    BY <1>2, ElemsIn
  <2>2. \A s : Range(s) = Elems(s)
    BY DEF Range, Elems
  <2> QED BY <2>1, <2>2 DEF Queued
<1>4. DiskFault \/ faults' = faults => faults' \in 0..MaxFaults
  BY <1>1 DEF DiskFault
<1>5. ASSUME NEW h, Push(h) \/ PushFails(h) PROVE faults' \in 0..MaxFaults
  BY <1>4, <1>5 DEF Push, PushFails
<1>6. ASSUME NEW s, Rewritten(s) PROVE faults' \in 0..MaxFaults
  BY <1>4, <1>6 DEF Rewritten
<1>7. ASSUME NEW h \in Hints, Enqueue(h) PROVE HintRest'
  <2>1. UNCHANGED <<up, crashes, late, normal, live, failed, expired, lost>>
        /\ (Push(h) \/ PushFails(h))
    BY <1>7 DEF Enqueue, drainer
  <2>2. faults' \in 0..MaxFaults
    BY <1>5, <2>1
  <2> QED BY <2>1, <2>2 DEF HintRest
<1>8. ASSUME NEW h \in Hints, Age(h) PROVE HintRest'
  BY <1>1, <1>8 DEF Age, storeVars, drainer, hist, HintRest
<1>9. ASSUME NEW h \in Hints, LinkAck(h) \/ LinkError(h) PROVE HintRest'
  BY <1>1, <1>9 DEF LinkAck, LinkError, storeVars, drainer, HintRest
<1>10. ASSUME NEW p \in Peers, Peer(p) PROVE HintRest'
  BY <1>1, <1>10 DEF Peer, storeVars, drainer, hist, HintRest
<1>11. ASSUME NEW p \in Peers, TakeFor(p) PROVE HintRest'
  <2>1. /\ UNCHANGED <<up, crashes, late, normal, failed, lost>> /\ live' = live \ {p}
        /\ expired' = expired \cup (Range(by_peer[p]) \cap late)
    BY <1>11 DEF TakeFor
  <2>2. faults' \in 0..MaxFaults
    <3>1. faults' = faults \/ Rewritten([segment EXCEPT ![p] = <<>>])
      BY <1>11 DEF TakeFor
    <3> QED BY <1>1, <1>6, <3>1
  <2> QED BY <1>1, <1>3, <2>1, <2>2 DEF HintRest
<1>12. CASE Tick
  <2>1. /\ UNCHANGED <<up, crashes, late, normal, failed, lost>> /\ live' = normal
        /\ expired' = expired \cup (Queued \cap late)
    BY <1>12 DEF Tick
  <2>2. \E s : Rewritten(s)
    BY <1>12 DEF Tick
  <2>3. faults' \in 0..MaxFaults
    BY <1>6, <2>2
  <2> QED BY <1>1, <1>3, <2>1, <2>3 DEF HintRest
<1>13. CASE ShipOk
  BY <1>1, <1>13 DEF ShipOk, storeVars, hist, HintRest
<1>14. CASE ShipRefused
  <2> DEFINE h == Head(batch)
  <2>1. /\ UNCHANGED <<up, crashes, normal, live, failed, expired>> /\ late' = late \ {h}
        /\ lost' = lost \/ lost' = lost \cup {h}
        /\ Push(h) \/ PushFails(h)
        /\ batch # <<>>
    BY <1>14 DEF ShipRefused
  <2>2. h \in Hints
    BY <1>2, <2>1, HeadTailProperties
  <2> HIDE DEF h
  <2>3. faults' \in 0..MaxFaults
    BY <1>5, <2>1
  <2> QED BY <1>1, <2>1, <2>2, <2>3 DEF HintRest
<1>15. CASE Crash
  <2>1. /\ up' = FALSE /\ crashes < MaxCrashes /\ crashes' = crashes + 1 /\ live' = {}
        /\ UNCHANGED <<faults, late, normal, failed, expired, lost>>
    BY <1>15 DEF Crash, hist
  <2>2. crashes' \in 0..MaxCrashes
    BY <1>1, <2>1
  <2> QED BY <1>1, <2>1, <2>2 DEF HintRest
<1>16. CASE Restart
  BY <1>1, <1>16 DEF Restart, drainer, hist, HintRest
<1>17. CASE UNCHANGED hintVars
  BY <1>17 DEF hintVars, storeVars, drainer, hist, HintRest
<1> QED BY <1>7, <1>8, <1>9, <1>10, <1>11, <1>12, <1>13, <1>14, <1>15, <1>16, <1>17 DEF HintNext

\* Memory, the byte count and the disk agree at every moment, through any number
\* of crashes and failed disk operations: the count is the weight of what is
\* queued, within the cap while disk operations succeed, and a restart would
\* bring the queues back (enqueue, take_for, expire_now, open).
THEOREM StoreIsConsistent == HintSpec => []StoreConsistent
<1>0. StoreConstants /\ PeerOf \in [Hints -> Peers] /\ Torn \notin Hints
  BY HintsAssumption, PeerOfAssumption, WeightAssumption, BoundsAssumption DEF StoreConstants
<1>1. HintInit => ByteInv /\ HintRest
  <2> SUFFICES ASSUME HintInit PROVE ByteInv /\ HintRest
    OBVIOUS
  <2>1. /\ up = TRUE /\ crashes = 0 /\ faults = 0 /\ bytes = 0 /\ late = {} /\ normal = Peers /\ live = {}
        /\ failed = {} /\ expired = {} /\ lost = {}
        /\ by_peer = [p \in Peers |-> <<>>] /\ segment = [p \in Peers |-> <<>>]
    BY DEF HintInit, Empty
  <2>2. AllBytes(by_peer) = 0
    BY <1>0, <2>1, AllBytesEmpty DEF StoreConstants
  <2>3. Covered
    BY <2>1, NothingIntact DEF Covered
  <2>4. HintRest
    BY <1>0, <2>1 DEF HintRest, StoreConstants
  <2> QED BY <1>0, <2>1, <2>2, <2>3, <2>4 DEF ByteInv, StoreConstants
<1>2. HintInv /\ HintInv' /\ ByteInv /\ HintRest /\ [HintNext]_hintVars => ByteInv' /\ HintRest'
  <2> SUFFICES ASSUME HintInv, HintInv', ByteInv, HintRest, [HintNext]_hintVars
               PROVE  ByteInv' /\ HintRest'
    OBVIOUS
  <2>1. HintRest'
    BY <1>0, RestStep
  <2> SUFFICES ByteInv'
    BY <2>1
  <2>2. ASSUME NEW h \in Hints, Enqueue(h) PROVE ByteInv'
    BY <1>0, <2>2, EnqueueBytes
  <2>3. ASSUME NEW h \in Hints, Age(h) PROVE ByteInv'
    BY <1>0, <2>3, AgeBytes
  <2>4. ASSUME NEW p \in Peers, TakeFor(p) PROVE ByteInv'
    BY <1>0, <2>4, TakeForBytes
  <2>5. CASE Tick
    BY <1>0, <2>5, TickBytes
  <2>6. CASE ShipRefused
    BY <1>0, <2>6, ShipRefusedBytes
  <2>7. CASE Crash
    BY <1>0, <2>7, CrashBytes
  <2>8. CASE Restart
    BY <1>0, <2>8, ReopenBytes
  <2>9. UNCHANGED <<up, faults, by_peer, bytes, segment, late>> => ByteInv'
    BY DEF ByteInv, Covered, Replayed
  <2>10. ASSUME NEW h \in Hints, LinkAck(h) \/ LinkError(h) PROVE ByteInv'
    BY <2>9, <2>10 DEF LinkAck, LinkError, storeVars
  <2>11. ASSUME NEW p \in Peers, Peer(p) PROVE ByteInv'
    BY <2>9, <2>11 DEF Peer, storeVars
  <2>12. CASE ShipOk
    BY <2>9, <2>12 DEF ShipOk, storeVars
  <2>13. CASE UNCHANGED hintVars
    BY <2>9, <2>13 DEF hintVars, storeVars
  <2> QED BY <2>2, <2>3, <2>4, <2>5, <2>6, <2>7, <2>8, <2>10, <2>11, <2>12, <2>13 DEF HintNext
<1>3. HintInv /\ ByteInv /\ HintRest => TypeOK /\ BytesAccounted
  <2> SUFFICES ASSUME HintInv, ByteInv, HintRest PROVE TypeOK /\ BytesAccounted
    OBVIOUS
  <2>1. by_peer \in [Peers -> Seq(Hints)]
    BY DEF HintInv, HintTypes
  <2>2. bytes \in Nat
    BY <1>0, <2>1, AllBytesFacts DEF ByteInv, StoreConstants
  <2>3. TypeOK
    BY <2>2 DEF HintInv, HintTypes, HintRest, TypeOK, Records
  <2>4. BytesOf(by_peer) = AllBytes(by_peer)
    BY BytesDefs
  <2> QED BY <2>3, <2>4 DEF ByteInv, BytesAccounted
<1>4. HintSpec => []HintInv /\ []QueueRecoverable
  BY <1>0, HintInvariant, QueuesAreRecoverable, PTL
<1> QED BY <1>1, <1>2, <1>3, <1>4, PTL DEF HintSpec, StoreConsistent

-----------------------------------------------------------------------------
(* One replicated Riak object.                                               *)

\* What holds at lo and passes from each number to the next holds up to n.
LEMMA UpTo ==
    ASSUME NEW lo \in Nat, NEW n \in Nat, NEW I, lo \in I,
           \A i \in (lo + 1)..n : i - 1 \in I => i \in I
    PROVE  lo..n \subseteq I
<1> DEFINE Bad == {i \in lo..n : i \notin I}
<1> SUFFICES ASSUME Bad # {} PROVE FALSE
  OBVIOUS
<1>1. Bad \subseteq Nat
  OBVIOUS
<1>2. PICK i \in Bad : \A j \in Bad : i <= j
  BY <1>1, Least
<1>3. i \in lo..n /\ i \notin I /\ i # lo
  BY <1>2
<1>4. i \in (lo + 1)..n /\ i - 1 \in lo..n /\ ~ (i <= i - 1)
  BY <1>3
<1>5. i - 1 \in I
  BY <1>2, <1>4
<1> QED BY <1>3, <1>4, <1>5

\* f starts with a and goes on by step.
Folds(f, a, step, lo, n) ==
    f[lo] = a /\ \A i \in (lo + 1)..n : f[i] = step[<<f[i - 1], i>>]

\* A function that is defined step by step from one value exists.
LEMMA FoldExists ==
    ASSUME NEW S, NEW lo \in Nat, NEW n \in Nat, lo <= n, NEW a \in S,
           NEW step \in [S \X ((lo + 1)..n) -> S]
    PROVE  \E f \in [lo..n -> S] : Folds(f, a, step, lo, n)
<1> DEFINE P(m) == \E f \in [lo..m -> S] : Folds(f, a, step, lo, m)
           I == {m \in lo..n : P(m)}
<1>1. P(lo)
  <2> DEFINE f == [i \in lo..lo |-> a]
  <2>1. f \in [lo..lo -> S] /\ Folds(f, a, step, lo, lo)
    BY DEF Folds
  <2> QED BY <2>1
<1>2. ASSUME NEW m \in (lo + 1)..n, P(m - 1) PROVE P(m)
  <2>1. PICK f \in [lo..(m - 1) -> S] : Folds(f, a, step, lo, m - 1)
    BY <1>2
  <2>2. m - 1 \in lo..(m - 1) /\ m \in lo..m /\ m # lo /\ lo \in lo..(m - 1) /\ m \in Nat
    OBVIOUS
  <2> DEFINE e == step[<<f[m - 1], m>>]
             g == [i \in lo..m |-> IF i = m THEN e ELSE f[i]]
  <2>3. e \in S
    BY <2>2
  <2> HIDE DEF e
  <2>4. g \in [lo..m -> S]
    <3>1. \A i \in lo..m : i # m => i \in lo..(m - 1)
      BY <2>2
    <3> QED BY <2>3, <3>1
  <2>5. g[lo] = a /\ g[m] = e /\ g[m - 1] = f[m - 1]
    BY <2>1, <2>2 DEF Folds
  <2>6. ASSUME NEW i \in (lo + 1)..m PROVE g[i] = step[<<g[i - 1], i>>]
    <3>1. CASE i = m
      BY <2>5, <3>1 DEF e
    <3>2. CASE i # m
      <4>1. i \in (lo + 1)..(m - 1) /\ i \in lo..m /\ i - 1 \in lo..m /\ i - 1 # m
        BY <2>2, <3>2
      <4>2. g[i] = f[i] /\ g[i - 1] = f[i - 1]
        BY <3>2, <4>1
      <4> HIDE DEF g
      <4> QED BY <2>1, <4>1, <4>2 DEF Folds
    <3> QED BY <3>1, <3>2
  <2>7. Folds(g, a, step, lo, m)
    <3> HIDE DEF g
    <3> QED BY <2>5, <2>6 DEF Folds
  <2> QED BY <2>4, <2>7
<1> HIDE DEF P
<1>3. lo \in I
  BY <1>1
<1>4. \A i \in (lo + 1)..n : i - 1 \in I => i \in I
  BY <1>2
<1> HIDE DEF I
<1>5. lo..n \subseteq I
  BY <1>3, <1>4, UpTo
<1>6. n \in I
  BY <1>5
<1> QED BY <1>6 DEF I, P

-----------------------------------------------------------------------------
(* The Riak object's version vectors and sibling sets.                       *)

Sib == [value : Puts, context : Context]

\* Dominance is a strict order on contexts.
LEMMA DominatesOrder ==
    ASSUME NEW a \in Context, NEW b \in Context, NEW c \in Context
    PROVE  /\ ~Dominates(a, a)
           /\ Dominates(a, b) /\ Dominates(b, c) => Dominates(a, c)
           /\ AtLeast(a, b) /\ AtLeast(b, a) => a = b
<1>1. ~Dominates(a, a)
  BY DEF Dominates
<1>2. ASSUME NEW x \in Context, NEW y \in Context, AtLeast(x, y), AtLeast(y, x) PROVE x = y
  <2>1. \A n \in Nodes : x[n] = y[n]
    BY <1>2 DEF AtLeast, Context
  <2> QED BY <2>1 DEF Context
<1>3. ASSUME Dominates(a, b), Dominates(b, c) PROVE Dominates(a, c)
  <2>1. AtLeast(a, b) /\ AtLeast(b, c) /\ a # b
    BY <1>3 DEF Dominates
  <2>2. AtLeast(a, c)
    BY <2>1 DEF AtLeast, Context
  <2>3. a # c
    BY <1>2, <2>1
  <2> QED BY <2>2, <2>3 DEF Dominates
<1> QED BY <1>1, <1>2, <1>3

\* Writing advances a context.
LEMMA AdvanceContext == \A a \in Context, n \in Nodes : Advance(a, n) \in Context
BY DEF Context, Advance

\* The empty context is a context.
LEMMA BottomContext == Bottom \in Context
BY DEF Bottom, Context

\* A bounded set of numbers has a maximum, and Max is it.
LEMMA MaxIsNat ==
    ASSUME NEW S, S \subseteq Nat, 0 \in S, NEW u \in Nat, \A y \in S : y <= u
    PROVE  Max(S) \in Nat
<1> DEFINE Bounds == {b \in Nat : \A y \in S : y <= b}
<1>1. PICK b \in Bounds : \A c \in Bounds : b <= c
  <2>1. Bounds \subseteq Nat /\ Bounds # {}
    OBVIOUS
  <2> QED BY <2>1, Least
<1>2. b \in S
  <2> SUFFICES ASSUME b \notin S PROVE FALSE
    OBVIOUS
  <2>1. b # 0 /\ b \in Nat /\ \A y \in S : y \in Nat /\ y <= b /\ y # b
    BY <1>1
  <2>2. b - 1 \in Nat /\ \A y \in S : y <= b - 1
    BY <2>1
  <2>3. b - 1 \in Bounds
    BY <2>2
  <2>4. b <= b - 1
    BY <1>1, <2>3
  <2> QED BY <2>1, <2>4
<1>3. \A y \in S : b >= y
  BY <1>1
<1>4. Max(S) \in S
  BY <1>2, <1>3 DEF Max
<1> QED BY <1>4

\* The numbers of a queue are bounded.
LEMMA QueueBounded ==
    ASSUME NEW f, NEW n \in Nat, \A i \in 1..n : f[i] \in Nat
    PROVE  \E u \in Nat : \A i \in 1..n : f[i] <= u
<1> DEFINE P(m) == \E u \in Nat : \A i \in 1..m : f[i] <= u
           I == {m \in 0..n : P(m)}
<1>1. 0 \in I
  <2>1. \A i \in 1..0 : f[i] <= 0
    OBVIOUS
  <2> QED BY <2>1
<1>2. ASSUME NEW m \in 1..n, m - 1 \in I PROVE m \in I
  <2>1. PICK u \in Nat : \A i \in 1..(m - 1) : f[i] <= u
    BY <1>2
  <2>2. f[m] \in Nat
    OBVIOUS
  <2>3. u + f[m] \in Nat
    BY <2>2
  <2>4. ASSUME NEW i \in 1..m PROVE f[i] <= u + f[m]
    <3>1. CASE i = m
      BY <2>2, <3>1
    <3>2. CASE i # m
      <4>1. i \in 1..(m - 1) /\ f[i] \in Nat
        BY <3>2
      <4>2. f[i] <= u
        BY <2>1, <4>1
      <4> QED BY <2>2, <4>1, <4>2
    <3> QED BY <3>1, <3>2
  <2>5. P(m)
    BY <2>3, <2>4
  <2> QED BY <2>5
<1> HIDE DEF I
<1>3. 0..n \subseteq I
  <2>1. \A i \in (0 + 1)..n : i - 1 \in I => i \in I
    BY <1>2
  <2> QED BY <1>1, <2>1, UpTo
<1>4. n \in I
  BY <1>3
<1> QED BY <1>4 DEF I

\* The join of a sibling set's contexts is a context (join_contexts).
LEMMA JoinIsContext == \A s \in Seq(Sib) : JoinContexts(s) \in Context
<1> TAKE s \in Seq(Sib)
<1>1. Len(s) \in Nat /\ DOMAIN s = 1..Len(s) /\ \A i \in 1..Len(s) : s[i] \in Sib
  BY LenProperties, ElementOfSeq
<1>2. ASSUME NEW n \in Nodes PROVE Max({0} \cup {x.context[n] : x \in Range(s)}) \in Nat
  <2> DEFINE f == [i \in 1..Len(s) |-> s[i].context[n]]
             S == {0} \cup {x.context[n] : x \in Range(s)}
  <2>1. \A x \in Sib : x.context[n] \in Nat
    BY DEF Sib, Context
  <2>2. \A i \in 1..Len(s) : f[i] \in Nat /\ f[i] = s[i].context[n]
    BY <1>1, <2>1
  <2> HIDE DEF f
  <2>3. PICK u \in Nat : \A i \in 1..Len(s) : f[i] <= u
    BY <1>1, <2>2, QueueBounded
  <2>4. \A y \in S : y = 0 \/ \E i \in 1..Len(s) : y = f[i]
    BY <1>1, <2>2 DEF Range
  <2>5. 0 \in S /\ S \subseteq Nat /\ \A y \in S : y <= u
    <3> HIDE DEF S
    <3>1. 0 \in S
      BY DEF S
    <3> QED BY <2>2, <2>3, <2>4, <3>1
  <2> HIDE DEF S
  <2>6. Max(S) \in Nat
    BY <2>3, <2>5, MaxIsNat
  <2> QED BY <2>6 DEF S
<1> QED BY <1>2 DEF JoinContexts, Context

\* No sibling was written after reading another.
Causal(s) == \A x, y \in Elems(s) : ~Dominates(x.context, y.context)
Fronts(S) == {s \in Seq(S) : Causal(s)}

\* The sibling sets the bucket may hold.
Held(keep, S) == {s \in Fronts(S) : ~keep => Len(s) <= 1}

CoversAll(s, t) == \A x \in Elems(t) : Covers(s, x)

\* The library's range of a queue is its elements.
LEMMA RangeElems == \A s : Range(s) = Elems(s)
BY DEF Range, Elems

\* Covering, in terms of the elements.
LEMMA CoversDef == \A s, x : Covers(s, x) <=> \E t \in Elems(s) : t = x \/ Dominates(t.context, x.context)
BY RangeElems DEF Covers

\* Who covers a set covers what the set covers.
LEMMA CoverTrans ==
    ASSUME NEW s \in Seq(Sib), NEW t \in Seq(Sib), NEW x \in Sib, CoversAll(s, t), Covers(t, x)
    PROVE  Covers(s, x)
<1>1. PICK u \in Elems(t) : u = x \/ Dominates(u.context, x.context)
  BY CoversDef
<1>2. Covers(s, u)
  BY <1>1 DEF CoversAll
<1>3. PICK v \in Elems(s) : v = u \/ Dominates(v.context, u.context)
  BY <1>2, CoversDef
<1>4. u \in Sib /\ v \in Sib
  BY ElemsIn
<1>5. u.context \in Context /\ v.context \in Context /\ x.context \in Context
  BY <1>4 DEF Sib
<1>6. v = x \/ Dominates(v.context, x.context)
  BY <1>1, <1>3, <1>5, DominatesOrder
<1> QED BY <1>3, <1>6, CoversDef

\* A set covers what it holds.
LEMMA CoversOwn == \A s : CoversAll(s, s)
BY CoversDef DEF CoversAll

\* One sibling, and none, is a frontier.
LEMMA OneFront ==
    ASSUME NEW S, S \subseteq Sib
    PROVE  /\ <<>> \in Fronts(S) /\ Len(<<>>) = 0
           /\ \A x \in S : /\ <<x>> \in Fronts(S) /\ Len(<<x>>) = 1 /\ <<x>> # <<>>
                           /\ Elems(<<x>>) = {x}
<1>1. <<>> \in Fronts(S)
  BY ElemsEmpty, EmptySeq DEF Fronts, Causal
<1>2. ASSUME NEW x \in S
      PROVE  <<x>> \in Fronts(S) /\ Len(<<x>>) = 1 /\ <<x>> # <<>> /\ Elems(<<x>>) = {x}
  <2>1. <<x>> \in Seq(S) /\ Len(<<x>>) = 1 /\ <<x>> # <<>> /\ Elems(<<x>>) = {x}
    BY DEF Elems
  <2>2. ~Dominates(x.context, x.context)
    BY DEF Dominates
  <2>3. Causal(<<x>>)
    BY <2>1, <2>2 DEF Causal
  <2> QED BY <2>1, <2>3 DEF Fronts
<1> QED BY <1>1, <1>2

\* A frontier of some siblings is one of more siblings.
LEMMA HeldGrows == \A keep, S, T : S \subseteq T => Held(keep, S) \subseteq Held(keep, T)
<1> SUFFICES ASSUME NEW S, NEW T, S \subseteq T PROVE Fronts(S) \subseteq Fronts(T)
  BY DEF Held
<1>1. \A s \in Seq(S) : s \in Seq(T)
  OBVIOUS
<1> QED BY <1>1 DEF Fronts

\* The first of two siblings or the second wins.
LEMMA WinnerIsOne == \A a, b : Winner(a, b) \in {a, b}
BY DEF Winner

\* Collapsing leaves one of the siblings (resolve_write).
LEMMA CollapseOne ==
    ASSUME NEW S, NEW s \in Seq(S), s # <<>>
    PROVE  \E x \in S : Collapse(s) = <<x>>
<1> DEFINE n == Len(s)
           F(f) == [i \in 1..n |-> IF i = 1 THEN s[1] ELSE Winner(f[i - 1], s[i])]
           step == [q \in S \X (2..n) |-> Winner(q[1], s[q[2]])]
           k == CHOOSE f : f = F(f)
<1>1. n \in Nat /\ 1 \in Nat /\ 1 <= n /\ \A i \in 1..n : s[i] \in S
  BY EmptySeq, LenProperties, ElementOfSeq
<1> HIDE DEF n
<1>2. \A x \in S, i \in 2..n : Winner(x, s[i]) \in S
  <2>1. \A i \in 2..n : s[i] \in S
    BY <1>1
  <2> QED BY <2>1, WinnerIsOne
<1>3. step \in [S \X (2..n) -> S] /\ \A x \in S, i \in 2..n : step[<<x, i>>] = Winner(x, s[i])
  BY <1>2
<1> HIDE DEF step
<1>4. PICK g \in [1..n -> S] : Folds(g, s[1], step, 1, n)
  <2>1. s[1] \in S /\ step \in [S \X ((1 + 1)..n) -> S]
    BY <1>1, <1>3
  <2> QED BY <1>1, <2>1, FoldExists
<1>5. g = F(g)
  <2>1. ASSUME NEW i \in 1..n PROVE g[i] = IF i = 1 THEN s[1] ELSE Winner(g[i - 1], s[i])
    <3>1. CASE i = 1
      BY <1>4, <3>1 DEF Folds
    <3>2. CASE i # 1
      <4>1. i \in (1 + 1)..n /\ i \in 2..n /\ i - 1 \in 1..n
        BY <1>1, <3>2
      <4>2. g[i] = step[<<g[i - 1], i>>] /\ g[i - 1] \in S
        BY <1>4, <4>1 DEF Folds
      <4> QED BY <1>3, <3>2, <4>1, <4>2
    <3> QED BY <3>1, <3>2
  <2> QED BY <2>1
<1>6. k = F(k)
  BY <1>5
<1> HIDE DEF k
<1> DEFINE I == {i \in 1..n : k[i] \in S}
<1>7. 1 \in I
  BY <1>1, <1>6
<1>8. \A i \in (1 + 1)..n : i - 1 \in I => i \in I
  <2> SUFFICES ASSUME NEW i \in 2..n, i - 1 \in I PROVE i \in I
    OBVIOUS
  <2>1. i \in 1..n /\ i # 1 /\ k[i - 1] \in S
    BY <1>1
  <2>2. k[i] = Winner(k[i - 1], s[i])
    BY <1>6, <2>1
  <2> QED BY <1>2, <2>1, <2>2
<1> HIDE DEF I
<1>9. 1..n \subseteq I
  BY <1>1, <1>7, <1>8, UpTo
<1>10. n \in 1..n
  BY <1>1
<1>11. k[n] \in S
  BY <1>9, <1>10 DEF I
<1>12. Collapse(s) = <<k[n]>>
  BY DEF Collapse, k, n
<1> QED BY <1>11, <1>12

\* The filter of a put is Without (resolve_write).
LEMMA WithoutFilter == \A q, L : Without(q, L) = Filter(q, L)
BY DEF Without, Filter, KeepFcn

\* Removing what dominates nothing of the rest, a write joins a frontier.
LEMMA JoinFront ==
    ASSUME NEW S, S \subseteq Sib, NEW s \in Fronts(S), NEW x \in S,
           \A y \in Elems(s) : ~Dominates(y.context, x.context)
    PROVE  LET r == Append(Without(s, {y \in Range(s) : Dominates(x.context, y.context)}), x)
           IN  r \in Fronts(S) /\ r # <<>> /\ CoversAll(r, s) /\ Covers(r, x)
<1> DEFINE L == {y \in Range(s) : Dominates(x.context, y.context)}
           k == Without(s, L)
           r == Append(k, x)
<1>1. s \in Seq(S) /\ Causal(s)
  BY DEF Fronts
<1>2. k \in Seq(S) /\ Elems(k) = Elems(s) \ L
  <2>1. k = Filter(s, L)
    BY WithoutFilter
  <2> HIDE DEF L, k
  <2> QED BY <1>1, <2>1, FilterFacts DEF Filtered
<1>3. r \in Seq(S) /\ Elems(r) = (Elems(s) \ L) \cup {x} /\ r # <<>>
  <2> HIDE DEF L, k
  <2>1. r \in Seq(S) /\ Elems(r) = Elems(k) \cup {x}
    BY <1>2, AppendProperties, ElemsAppend
  <2> HIDE DEF r
  <2>2. x \in Elems(r)
    BY <2>1
  <2>3. r # <<>>
    BY <2>2, ElemsEmpty
  <2> QED BY <1>2, <2>1, <2>3
<1> HIDE DEF r
<1>4. \A y \in Elems(s) : y \in L <=> Dominates(x.context, y.context)
  BY RangeElems
<1> HIDE DEF L
<1>5. ~Dominates(x.context, x.context)
  BY DEF Dominates
<1>6. Causal(r)
  BY <1>1, <1>3, <1>4, <1>5 DEF Causal
<1>7. ASSUME NEW y \in Elems(s) PROVE Covers(r, y)
  BY <1>3, <1>4, CoversDef
<1>8. Covers(r, x)
  BY <1>3, CoversDef
<1>9. r \in Fronts(S) /\ r # <<>> /\ CoversAll(r, s) /\ Covers(r, x)
  BY <1>3, <1>6, <1>7, <1>8 DEF Fronts, CoversAll
<1> QED BY <1>9 DEF r, k, L

\* What a bucket keeps of a frontier.
LEMMA CollapseUnlessFacts ==
    ASSUME NEW S, S \subseteq Sib, NEW s \in Fronts(S), NEW keep \in BOOLEAN
    PROVE  /\ CollapseUnless(keep, s) \in Fronts(S)
           /\ keep => CollapseUnless(keep, s) = s
           /\ ~keep => Len(CollapseUnless(keep, s)) <= 1
           /\ s # <<>> => CollapseUnless(keep, s) # <<>>
<1>1. s \in Seq(S) /\ Len(s) \in Nat
  BY LenProperties DEF Fronts
<1>2. CASE keep \/ Len(s) < 2
  <2>1. CollapseUnless(keep, s) = s
    BY <1>2 DEF CollapseUnless
  <2> QED BY <1>1, <1>2, <2>1
<1>3. CASE ~ (keep \/ Len(s) < 2)
  <2>1. CollapseUnless(keep, s) = Collapse(s)
    BY <1>3 DEF CollapseUnless
  <2>2. s # <<>>
    BY <1>1, <1>3, EmptySeq
  <2>3. PICK x \in S : Collapse(s) = <<x>>
    BY <1>1, <2>2, CollapseOne
  <2>4. <<x>> \in Fronts(S) /\ Len(<<x>>) = 1 /\ <<x>> # <<>>
    BY OneFront
  <2> HIDE DEF Fronts
  <2> QED BY <1>3, <2>1, <2>3, <2>4
<1> QED BY <1>2, <1>3

\* Resolving a write against a frontier gives a frontier that covers the write
\* and, where siblings are kept, all that was stored (resolve_write).
LEMMA ResolveFacts ==
    ASSUME NEW S, S \subseteq Sib, NEW s \in Fronts(S), NEW x \in S, NEW keep \in BOOLEAN
    PROVE  /\ ResolveWrite(s, x, keep) \in Fronts(S)
           /\ ResolveWrite(s, x, keep) # <<>>
           /\ keep => CoversAll(ResolveWrite(s, x, keep), s) /\ Covers(ResolveWrite(s, x, keep), x)
           /\ ~keep /\ Len(s) <= 1 => Len(ResolveWrite(s, x, keep)) <= 1
<1>1. CASE \E i \in DOMAIN s : Dominates(s[i].context, x.context)
  <2>1. ResolveWrite(s, x, keep) = s
    BY <1>1 DEF ResolveWrite
  <2>2. PICK y \in Elems(s) : Dominates(y.context, x.context)
    BY <1>1 DEF Elems
  <2>3. Covers(s, x)
    BY <2>2, CoversDef
  <2>4. s # <<>>
    BY <2>2, ElemsEmpty
  <2> QED BY <2>1, <2>3, <2>4, CoversOwn
<1>2. CASE ~ \E i \in DOMAIN s : Dominates(s[i].context, x.context)
  <2> DEFINE r == Append(Without(s, {y \in Range(s) : Dominates(x.context, y.context)}), x)
  <2>1. ResolveWrite(s, x, keep) = CollapseUnless(keep, r)
    BY <1>2 DEF ResolveWrite
  <2>2. \A y \in Elems(s) : ~Dominates(y.context, x.context)
    BY <1>2 DEF Elems
  <2>3. r \in Fronts(S) /\ r # <<>> /\ CoversAll(r, s) /\ Covers(r, x)
    BY <2>2, JoinFront
  <2> HIDE DEF r
  <2>4. /\ CollapseUnless(keep, r) \in Fronts(S)
        /\ keep => CollapseUnless(keep, r) = r
        /\ ~keep => Len(CollapseUnless(keep, r)) <= 1
        /\ CollapseUnless(keep, r) # <<>>
    BY <2>3, CollapseUnlessFacts
  <2> QED BY <2>1, <2>3, <2>4
<1> QED BY <1>1, <1>2

\* Merging two frontiers gives a frontier that, where siblings are kept, covers
\* both (merge_sibling_sets).
LEMMA MergeFacts ==
    ASSUME NEW S, S \subseteq Sib, NEW s \in Fronts(S), NEW t \in Fronts(S), NEW keep \in BOOLEAN
    PROVE  /\ MergeSets(s, t, keep) \in Fronts(S)
           /\ s # <<>> \/ t # <<>> => MergeSets(s, t, keep) # <<>>
           /\ keep => CoversAll(MergeSets(s, t, keep), s) /\ CoversAll(MergeSets(s, t, keep), t)
           /\ ~keep => Len(MergeSets(s, t, keep)) <= 1
<1> DEFINE n == Len(t)
           F(f) == [i \in 0..n |-> IF i = 0 THEN s ELSE ResolveWrite(f[i - 1], t[i], TRUE)]
           step == [q \in Fronts(S) \X (1..n) |-> ResolveWrite(q[1], t[q[2]], TRUE)]
           k == CHOOSE f : f = F(f)
<1>1. n \in Nat /\ 0 \in Nat /\ 0 <= n /\ t \in Seq(S) /\ DOMAIN t = 1..n /\ \A i \in 1..n : t[i] \in S
  BY LenProperties, ElementOfSeq DEF Fronts
<1>2. t = <<>> <=> n = 0
  BY <1>1, EmptySeq
<1> HIDE DEF n
<1>3. ASSUME NEW u \in Fronts(S), NEW i \in 1..n
      PROVE  /\ ResolveWrite(u, t[i], TRUE) \in Fronts(S) /\ ResolveWrite(u, t[i], TRUE) # <<>>
             /\ CoversAll(ResolveWrite(u, t[i], TRUE), u) /\ Covers(ResolveWrite(u, t[i], TRUE), t[i])
  BY <1>1, ResolveFacts
<1>4. /\ step \in [Fronts(S) \X (1..n) -> Fronts(S)]
      /\ \A u \in Fronts(S), i \in 1..n : step[<<u, i>>] = ResolveWrite(u, t[i], TRUE)
  <2> HIDE DEF Fronts
  <2> QED BY <1>3
<1> HIDE DEF step
<1>5. PICK g \in [0..n -> Fronts(S)] : Folds(g, s, step, 0, n)
  <2>1. step \in [Fronts(S) \X ((0 + 1)..n) -> Fronts(S)]
    BY <1>1, <1>4
  <2> QED BY <1>1, <2>1, FoldExists
<1>6. g = F(g)
  <2>1. ASSUME NEW i \in 0..n PROVE g[i] = IF i = 0 THEN s ELSE ResolveWrite(g[i - 1], t[i], TRUE)
    <3>1. CASE i = 0
      BY <1>5, <3>1 DEF Folds
    <3>2. CASE i # 0
      <4>1. i \in (0 + 1)..n /\ i \in 1..n /\ i - 1 \in 0..n
        BY <1>1, <3>2
      <4>2. g[i] = step[<<g[i - 1], i>>] /\ g[i - 1] \in Fronts(S)
        BY <1>5, <4>1 DEF Folds
      <4> QED BY <1>4, <3>2, <4>1, <4>2
    <3> QED BY <3>1, <3>2
  <2> QED BY <2>1
<1>7. k = F(k)
  BY <1>6
<1> HIDE DEF k
<1>8. k[0] = s /\ \A i \in 1..n : k[i] = ResolveWrite(k[i - 1], t[i], TRUE)
  <2>1. 0 \in 0..n /\ \A i \in 1..n : i \in 0..n /\ i # 0
    BY <1>1
  <2> QED BY <1>7, <2>1
<1> DEFINE Ok(i) == /\ k[i] \in Fronts(S) /\ CoversAll(k[i], s)
                    /\ \A j \in 1..i : Covers(k[i], t[j])
                    /\ s # <<>> \/ i # 0 => k[i] # <<>>
           I == {i \in 0..n : Ok(i)}
<1>9. 0 \in I
  BY <1>1, <1>8, CoversOwn
<1>10. \A i \in (0 + 1)..n : i - 1 \in I => i \in I
  <2> SUFFICES ASSUME NEW i \in 1..n, i - 1 \in I PROVE Ok(i)
    BY <1>1
  <2>1. Ok(i - 1)
    OBVIOUS
  <2>2. /\ k[i] \in Fronts(S) /\ k[i] # <<>> /\ CoversAll(k[i], k[i - 1]) /\ Covers(k[i], t[i])
    BY <1>3, <1>8, <2>1
  <2>3. k[i] \in Seq(Sib) /\ k[i - 1] \in Seq(Sib) /\ s \in Seq(Sib)
    BY <2>1, <2>2 DEF Fronts
  <2>4. CoversAll(k[i], s)
    <3> SUFFICES ASSUME NEW x \in Elems(s) PROVE Covers(k[i], x)
      BY DEF CoversAll
    <3>1. Covers(k[i - 1], x)
      BY <2>1 DEF CoversAll
    <3>2. x \in Sib
      BY <2>3, ElemsIn
    <3> QED BY <2>2, <2>3, <3>1, <3>2, CoverTrans
  <2>5. ASSUME NEW j \in 1..i PROVE Covers(k[i], t[j])
    <3>1. CASE j = i
      BY <2>2, <3>1
    <3>2. CASE j # i
      <4>1. j \in 1..(i - 1) /\ j \in 1..n
        BY <1>1, <3>2
      <4>2. Covers(k[i - 1], t[j]) /\ t[j] \in Sib
        BY <1>1, <2>1, <4>1
      <4> QED BY <2>2, <2>3, <4>2, CoverTrans
    <3> QED BY <3>1, <3>2
  <2> QED BY <2>2, <2>4, <2>5
<1> HIDE DEF I
<1>11. 0..n \subseteq I
  BY <1>1, <1>9, <1>10, UpTo
<1>12. Ok(n)
  <2>1. n \in 0..n
    BY <1>1
  <2> QED BY <1>11, <2>1 DEF I
<1>13. k[n] \in Fronts(S) /\ CoversAll(k[n], s) /\ CoversAll(k[n], t) /\ (s # <<>> \/ t # <<>> => k[n] # <<>>)
  <2>1. CoversAll(k[n], t)
    BY <1>1, <1>12 DEF CoversAll, Elems
  <2> QED BY <1>2, <1>12, <2>1
<1>14. MergeSets(s, t, keep) = CollapseUnless(keep, k[n])
  BY DEF MergeSets, k, n
<1>15. /\ CollapseUnless(keep, k[n]) \in Fronts(S)
       /\ keep => CollapseUnless(keep, k[n]) = k[n]
       /\ ~keep => Len(CollapseUnless(keep, k[n])) <= 1
       /\ k[n] # <<>> => CollapseUnless(keep, k[n]) # <<>>
  BY <1>13, CollapseUnlessFacts
<1> QED BY <1>13, <1>14, <1>15

\* The same of the sets the bucket may hold.
LEMMA HeldFacts ==
    ASSUME NEW S, S \subseteq Sib, mult \in BOOLEAN
    PROVE  /\ <<>> \in Held(mult, S)
           /\ \A s \in Held(mult, S), x \in S :
                /\ ResolveWrite(s, x, mult) \in Held(mult, S)
                /\ ResolveWrite(s, x, mult) # <<>>
                /\ mult => Covers(ResolveWrite(s, x, mult), x)
           /\ \A s, t \in Held(mult, S) :
                /\ MergeSets(s, t, mult) \in Held(mult, S)
                /\ s # <<>> \/ t # <<>> => MergeSets(s, t, mult) # <<>>
                /\ mult => /\ CoversAll(MergeSets(s, t, mult), s)
                           /\ CoversAll(MergeSets(s, t, mult), t)
<1>1. <<>> \in Held(mult, S)
  BY OneFront DEF Held
<1>2. ASSUME NEW s \in Held(mult, S), NEW x \in S
      PROVE  /\ ResolveWrite(s, x, mult) \in Held(mult, S) /\ ResolveWrite(s, x, mult) # <<>>
             /\ mult => Covers(ResolveWrite(s, x, mult), x)
  <2>1. s \in Fronts(S) /\ (~mult => Len(s) <= 1)
    BY DEF Held
  <2> QED BY <2>1, ResolveFacts DEF Held
<1>3. ASSUME NEW s \in Held(mult, S), NEW t \in Held(mult, S)
      PROVE  /\ MergeSets(s, t, mult) \in Held(mult, S)
             /\ s # <<>> \/ t # <<>> => MergeSets(s, t, mult) # <<>>
             /\ mult => CoversAll(MergeSets(s, t, mult), s) /\ CoversAll(MergeSets(s, t, mult), t)
  <2>1. s \in Fronts(S) /\ t \in Fronts(S)
    BY DEF Held
  <2> QED BY <2>1, MergeFacts DEF Held
<1> QED BY <1>1, <1>2, <1>3

-----------------------------------------------------------------------------
(* The Riak object: every sibling set is a frontier of what was written.     *)

\* The siblings of the puts that have begun, and the sets made of them.
Written == {Sibling(p) : p \in {q \in Puts : put[q].pc # "idle"}}
Legit == Held(mult, Written)

PutRecs(H) == [pc : {"idle", "resolve", "fan", "ok", "error"}, node : Nodes, context : Context,
               set : H, next : Nat \ {0}, acks : Nat, durable : Nat]
Replies(H) == [node : Nodes, set : H]
GetRecs(H) == [pc : {"idle", "fan", "ok", "error"}, node : Nodes, merged : H,
               replies : Seq(Replies(H)), responses : Nat, next : Nat \ {0}, must : SUBSET Puts,
               quiet : BOOLEAN, misread : BOOLEAN]
DelRecs == [pc : {"idle", "local", "done"}, node : Nodes]
OpRecs(H) == [op : {"RepairPut", "Del"}, set : H]

ObjTypes ==
    /\ mult \in BOOLEAN
    /\ store \in [Nodes -> Legit]
    /\ ops \in [Nodes \X Nodes -> Seq(OpRecs(Legit))]
    /\ put \in [Puts -> PutRecs(Legit)]
    /\ get \in [Gets -> GetRecs(Legit)]
    /\ del \in [Dels -> DelRecs]
    /\ known \subseteq Context
    /\ forgotten \subseteq Puts

\* Records over fewer sets are records over more.
LEMMA RecsGrow ==
    ASSUME NEW H, NEW K, H \subseteq K
    PROVE  /\ PutRecs(H) \subseteq PutRecs(K) /\ GetRecs(H) \subseteq GetRecs(K)
           /\ Seq(OpRecs(H)) \subseteq Seq(OpRecs(K))
<1>1. PutRecs(H) \subseteq PutRecs(K)
  BY DEF PutRecs
<1>2. Replies(H) \subseteq Replies(K) /\ OpRecs(H) \subseteq OpRecs(K)
  BY DEF Replies, OpRecs
<1>3. Seq(Replies(H)) \subseteq Seq(Replies(K)) /\ Seq(OpRecs(H)) \subseteq Seq(OpRecs(K))
  BY <1>2
<1>4. GetRecs(H) \subseteq GetRecs(K)
  BY <1>3 DEF GetRecs
<1> QED BY <1>1, <1>3, <1>4

\* The siblings written are siblings.
LEMMA WrittenSibs ==
    ASSUME ObjTypes
    PROVE  /\ Written \subseteq Sib
           /\ \A p \in Puts : put[p].pc # "idle" => Sibling(p) \in Written
           /\ \A p \in Puts : Sibling(p) \in Sib
<1>1. \A p \in Puts : put[p].context \in Context
  BY DEF ObjTypes, PutRecs
<1>2. \A p \in Puts : Sibling(p) \in Sib
  BY <1>1 DEF Sibling, Sib
<1> QED BY <1>2 DEF Written

\* What a put has written stays.
PutsStay ==
    /\ mult' = mult
    /\ \A p \in Puts : put[p].pc # "idle" => put'[p].pc # "idle" /\ put'[p].context = put[p].context

\* Then the sets that could be held still can be.
LEMMA WrittenStays ==
    ASSUME PutsStay
    PROVE  /\ Written \subseteq Written' /\ Legit \subseteq Legit'
           /\ \A p \in Puts : put[p].pc # "idle" => Sibling(p)' = Sibling(p)
<1>1. \A p \in Puts : put[p].pc # "idle" => Sibling(p)' = Sibling(p)
  BY DEF PutsStay, Sibling
<1>2. Written \subseteq Written'
  BY <1>1 DEF PutsStay, Written
<1>3. Legit' = Held(mult, Written')
  BY DEF PutsStay, Legit
<1>4. Legit \subseteq Legit'
  BY <1>2, <1>3, HeldGrows DEF Legit
<1> QED BY <1>1, <1>2, <1>4

\* A step that keeps the types of the siblings written so far keeps the types.
LEMMA TypesMove ==
    ASSUME ObjTypes, PutsStay,
           store' \in [Nodes -> Legit], ops' \in [Nodes \X Nodes -> Seq(OpRecs(Legit))],
           put' \in [Puts -> PutRecs(Legit)], get' \in [Gets -> GetRecs(Legit)],
           del' \in [Dels -> DelRecs], known' \subseteq Context, forgotten' \subseteq Puts
    PROVE  ObjTypes'
<1>1. Legit \subseteq Legit' /\ mult' = mult
  BY WrittenStays DEF PutsStay
<1> DEFINE H == Legit
           K == Legit'
<1>2. PutRecs(H) \subseteq PutRecs(K) /\ GetRecs(H) \subseteq GetRecs(K) /\ Seq(OpRecs(H)) \subseteq Seq(OpRecs(K))
  BY <1>1, RecsGrow
<1>3. /\ store' \in [Nodes -> K] /\ ops' \in [Nodes \X Nodes -> Seq(OpRecs(K))]
      /\ put' \in [Puts -> PutRecs(K)] /\ get' \in [Gets -> GetRecs(K)]
  <2>1. H \subseteq K
    BY <1>1
  <2> HIDE DEF K
  <2>2. store' \in [Nodes -> H] /\ ops' \in [Nodes \X Nodes -> Seq(OpRecs(H))]
        /\ put' \in [Puts -> PutRecs(H)] /\ get' \in [Gets -> GetRecs(H)]
    OBVIOUS
  <2> HIDE DEF H
  <2> QED BY <1>2, <2>1, <2>2
<1> QED BY <1>1, <1>3 DEF ObjTypes

\* The targets of a request are other nodes, each once (fan_write_replicas).
LEMMA RemoteFacts ==
    \A n \in Nodes : /\ Remote(n) \in Seq(Nodes) /\ Len(Remote(n)) \in Nat
                     /\ n \notin Elems(Remote(n)) /\ Uniq(Remote(n))
<1> TAKE n \in Nodes
<1>1. Replicas[n] \in Seq(Nodes) /\ Uniq(Replicas[n])
  BY Shape DEF IsInjective, Uniq
<1>2. Remote(n) = Filter(Replicas[n], {n})
  BY WithoutFilter DEF Remote
<1>3. Remote(n) \in Seq(Nodes) /\ Filtered(Replicas[n], {n}, {n})
  BY <1>1, <1>2, FilterFacts
<1> QED BY <1>1, <1>2, <1>3, LenProperties DEF Filtered

\* One target of a request.
LEMMA RemoteNode ==
    \A n \in Nodes : \A i \in Nat \ {0} : i <= Len(Remote(n)) =>
        Remote(n)[i] \in Nodes /\ Remote(n)[i] # n /\ Remote(n)[i] \in Elems(Remote(n))
<1> TAKE n \in Nodes
<1> TAKE i \in Nat \ {0}
<1> HAVE i <= Len(Remote(n))
<1>1. Remote(n) \in Seq(Nodes) /\ n \notin Elems(Remote(n)) /\ Len(Remote(n)) \in Nat
  BY RemoteFacts
<1>2. i \in 1..Len(Remote(n)) /\ DOMAIN Remote(n) = 1..Len(Remote(n))
  BY <1>1, LenProperties
<1> QED BY <1>1, <1>2, ElementOfSeq DEF Elems

\* The records every operation starts from are well typed.
LEMMA NoPutType == ObjTypes => NoPut \in PutRecs(Legit) /\ NoGet \in GetRecs(Legit) /\ <<>> \in Legit
<1> SUFFICES ASSUME ObjTypes PROVE NoPut \in PutRecs(Legit) /\ NoGet \in GetRecs(Legit) /\ <<>> \in Legit
  OBVIOUS
<1>1. <<>> \in Legit
  BY WrittenSibs, HeldFacts DEF ObjTypes, Legit
<1>2. (CHOOSE n \in Nodes : TRUE) \in Nodes
  BY Shape
<1>3. <<>> \in Seq(Replies(Legit))
  BY EmptySeq
<1> QED BY <1>1, <1>2, <1>3, BottomContext DEF NoPut, NoGet, PutRecs, GetRecs

\* Ending the quiet of gets keeps their types.
LEMMA DisturbedType == \A H : \A f \in [Gets -> GetRecs(H)] : Disturbed(f) \in [Gets -> GetRecs(H)]
<1> TAKE H
<1> TAKE f \in [Gets -> GetRecs(H)]
<1>1. \A t \in GetRecs(H) : [t EXCEPT !.quiet = FALSE] \in GetRecs(H)
  BY DEF GetRecs
<1> QED BY <1>1 DEF Disturbed

\* A put begins (handle_put).
LEMMA PutBeginTypes ==
    ASSUME ObjTypes, NEW p \in Puts, NEW n \in Nodes, NEW prior \in known, PutBegin(p, n, prior)
    PROVE  ObjTypes' /\ PutsStay
<1> DEFINE H == Legit
<1>1. /\ store \in [Nodes -> H] /\ ops \in [Nodes \X Nodes -> Seq(OpRecs(H))]
      /\ put \in [Puts -> PutRecs(H)] /\ get \in [Gets -> GetRecs(H)] /\ del \in [Dels -> DelRecs]
      /\ known \subseteq Context /\ forgotten \subseteq Puts
      /\ NoPut \in PutRecs(H) /\ <<>> \in H
  BY NoPutType DEF ObjTypes
<1>2. Advance(prior, n) \in Context
  BY <1>1, AdvanceContext
<1> HIDE DEF H
<1>3. PICK s \in H : put' = [put EXCEPT ![p] = [NoPut EXCEPT !.pc = "resolve", !.node = n,
                                                   !.context = Advance(prior, n), !.set = s]]
  <2>1. CASE put' = [put EXCEPT ![p] = [NoPut EXCEPT
                !.pc = "resolve", !.node = n, !.context = Advance(prior, n), !.set = store[n]]]
    BY <1>1, <2>1
  <2>2. CASE put' = [put EXCEPT ![p] = [NoPut EXCEPT
                !.pc = "resolve", !.node = n, !.context = Advance(prior, n)]]
    <3>1. [NoPut EXCEPT !.pc = "resolve", !.node = n, !.context = Advance(prior, n)]
            = [NoPut EXCEPT !.pc = "resolve", !.node = n, !.context = Advance(prior, n), !.set = <<>>]
      <4>1. NoPut.set = <<>>
        BY DEF NoPut
      <4> QED BY <1>1, <4>1 DEF PutRecs
    <3> QED BY <1>1, <2>2, <3>1
  <2> QED BY <2>1, <2>2 DEF PutBegin
<1>4. [NoPut EXCEPT !.pc = "resolve", !.node = n, !.context = Advance(prior, n), !.set = s] \in PutRecs(H)
  BY <1>1, <1>2 DEF PutRecs
<1>5. put' \in [Puts -> PutRecs(H)]
  BY <1>1, <1>3, <1>4
<1>6. /\ put[p].pc = "idle" /\ get' = Disturbed(get)
      /\ UNCHANGED <<mult, store, ops, del, known, forgotten>>
  BY DEF PutBegin
<1>7. PutsStay
  BY <1>1, <1>3, <1>6 DEF PutsStay
<1>8. get' \in [Gets -> GetRecs(H)]
  BY <1>1, <1>6, DisturbedType
<1> QED BY <1>1, <1>5, <1>6, <1>7, <1>8, TypesMove DEF H

\* Only puts are forgotten.
LEMMA TrackType == Track /\ forgotten \subseteq Puts => forgotten' \subseteq Puts
BY DEF Track

\* The resolved set is stored, or not (resolve_and_store_put).
LEMMA PutStoreTypes ==
    ASSUME ObjTypes, NEW p \in Puts, PutStore(p)
    PROVE  ObjTypes' /\ PutsStay
<1> DEFINE H == Legit
           n == put[p].node
           resolved == ResolveWrite(put[p].set, Sibling(p), mult)
<1>1. /\ store \in [Nodes -> H] /\ ops \in [Nodes \X Nodes -> Seq(OpRecs(H))]
      /\ put \in [Puts -> PutRecs(H)] /\ get \in [Gets -> GetRecs(H)] /\ del \in [Dels -> DelRecs]
      /\ known \subseteq Context /\ forgotten \subseteq Puts
      /\ put[p].pc = "resolve" /\ put[p].set \in H /\ n \in Nodes
  BY DEF ObjTypes, PutStore, PutRecs
<1>2. resolved \in H
  BY <1>1, WrittenSibs, HeldFacts DEF ObjTypes, Legit
<1> HIDE DEF H, resolved
<1>3. forgotten' \subseteq Puts /\ UNCHANGED <<mult, ops, get, del, known>>
  BY <1>1, TrackType DEF PutStore
<1>4. CASE /\ store' = [store EXCEPT ![n] = resolved]
           /\ put' = [put EXCEPT ![p] = [@ EXCEPT !.pc = "fan", !.set = resolved,
                            !.acks = 1, !.durable = IF n \in DurableNodes THEN 1 ELSE 0]]
  <2>1. store' \in [Nodes -> H]
    BY <1>1, <1>2, <1>4
  <2>2. put' \in [Puts -> PutRecs(H)]
    <3> DEFINE d == IF n \in DurableNodes THEN 1 ELSE 0
    <3>1. d \in Nat /\ put[p] \in PutRecs(H)
      BY <1>1
    <3>2. put' = [put EXCEPT ![p] = [put[p] EXCEPT !.pc = "fan", !.set = resolved, !.acks = 1, !.durable = d]]
      BY <1>4
    <3> HIDE DEF d
    <3>3. [put[p] EXCEPT !.pc = "fan", !.set = resolved, !.acks = 1, !.durable = d] \in PutRecs(H)
      BY <1>2, <3>1 DEF PutRecs
    <3> QED BY <1>1, <3>2, <3>3
  <2>3. PutsStay
    <3>1. \A q \in Puts : q # p => put'[q] = put[q]
      BY <1>1, <1>4
    <3>2. put'[p].pc = "fan" /\ put'[p].context = put[p].context
      BY <1>1, <1>4 DEF PutRecs
    <3> QED BY <1>3, <3>1, <3>2 DEF PutsStay
  <2> QED BY <1>1, <1>3, <2>1, <2>2, <2>3, TypesMove DEF H
<1>5. CASE put' = [put EXCEPT ![p].pc = "error"] /\ UNCHANGED store
  <2>1. put' \in [Puts -> PutRecs(H)]
    <3>1. put[p] \in PutRecs(H)
      BY <1>1
    <3>2. [put[p] EXCEPT !.pc = "error"] \in PutRecs(H)
      BY <3>1 DEF PutRecs
    <3> QED BY <1>1, <1>5, <3>2
  <2>2. PutsStay
    BY <1>1, <1>3, <1>5 DEF PutsStay, PutRecs
  <2> QED BY <1>1, <1>3, <1>5, <2>1, <2>2, TypesMove DEF H
<1> QED BY <1>4, <1>5 DEF PutStore, resolved

\* What one request of a put changes of it (fan_write_replicas).
LEMMA PutRequestPut ==
    ASSUME ObjTypes, NEW p \in Puts, PutRequest(p)
    PROVE  LET r == Remote(put[p].node)[put[p].next]
           IN  /\ put' \in [Puts -> PutRecs(Legit)] /\ \A q \in Puts : q # p => put'[q] = put[q]
               /\ put'[p].pc = "fan" /\ put'[p].node = put[p].node /\ put'[p].context = put[p].context
               /\ put'[p].set = put[p].set /\ put'[p].next = put[p].next + 1
               /\ \/ /\ store' = [store EXCEPT ![r] = put[p].set] /\ put'[p].acks = put[p].acks + 1
                     /\ put'[p].durable = IF r \in DurableNodes THEN put[p].durable + 1 ELSE put[p].durable
                  \/ put'[p].acks = put[p].acks /\ put'[p].durable = put[p].durable
<1> DEFINE H == Legit
           r == Remote(put[p].node)[put[p].next]
           i == put[p].next + 1
<1>1. put \in [Puts -> PutRecs(H)] /\ put[p] \in PutRecs(H) /\ put[p].pc = "fan"
  BY DEF ObjTypes, PutRequest
<1> HIDE DEF H
<1>2. i \in Nat \ {0} /\ put[p].acks \in Nat /\ put[p].durable \in Nat
  BY <1>1 DEF PutRecs
<1>3. CASE /\ store' = [store EXCEPT ![r] = put[p].set]
           /\ put' = [put EXCEPT ![p].next = @ + 1, ![p].acks = @ + 1,
                                ![p].durable = IF r \in DurableNodes THEN @ + 1 ELSE @]
  <2> DEFINE d == IF r \in DurableNodes THEN put[p].durable + 1 ELSE put[p].durable
             a == put[p].acks + 1
  <2>1. d \in Nat /\ a \in Nat
    BY <1>2
  <2>2. put' = [put EXCEPT ![p].next = i, ![p].acks = a, ![p].durable = d]
    <3> HIDE DEF r
    <3> QED BY <1>1, <1>3 DEF PutRecs
  <2> HIDE DEF d, a, i
  <2>3. put' = [put EXCEPT ![p] = [put[p] EXCEPT !.next = i, !.acks = a, !.durable = d]]
    BY <1>1, <2>2 DEF PutRecs
  <2>4. [put[p] EXCEPT !.next = i, !.acks = a, !.durable = d] \in PutRecs(H)
    BY <1>1, <1>2, <2>1 DEF PutRecs
  <2>5. put' \in [Puts -> PutRecs(H)] /\ \A q \in Puts : q # p => put'[q] = put[q]
    BY <1>1, <2>3, <2>4
  <2>6. /\ put'[p].pc = "fan" /\ put'[p].node = put[p].node /\ put'[p].context = put[p].context
        /\ put'[p].set = put[p].set /\ put'[p].next = i /\ put'[p].acks = a /\ put'[p].durable = d
    BY <1>1, <2>3 DEF PutRecs
  <2> QED BY <1>3, <2>5, <2>6 DEF H, d, a, i
<1>4. CASE put' = [put EXCEPT ![p].next = @ + 1]
  <2>1. put' = [put EXCEPT ![p] = [put[p] EXCEPT !.next = i]]
    BY <1>4
  <2> HIDE DEF i
  <2>2. [put[p] EXCEPT !.next = i] \in PutRecs(H)
    BY <1>1, <1>2 DEF PutRecs
  <2>3. put' \in [Puts -> PutRecs(H)] /\ \A q \in Puts : q # p => put'[q] = put[q]
    BY <1>1, <2>1, <2>2
  <2>4. /\ put'[p].pc = "fan" /\ put'[p].node = put[p].node /\ put'[p].context = put[p].context
        /\ put'[p].set = put[p].set /\ put'[p].next = i
        /\ put'[p].acks = put[p].acks /\ put'[p].durable = put[p].durable
    BY <1>1, <2>1 DEF PutRecs
  <2> QED BY <2>3, <2>4 DEF H, i
<1> QED BY <1>3, <1>4 DEF PutRequest

\* A replica stores the set, or is sent it, or neither (fan_write_replicas).
LEMMA PutRequestTypes ==
    ASSUME ObjTypes, NEW p \in Puts, PutRequest(p)
    PROVE  ObjTypes' /\ PutsStay
<1> DEFINE H == Legit
           n == put[p].node
           r == Remote(n)[put[p].next]
           set == put[p].set
<1>1. /\ store \in [Nodes -> H] /\ ops \in [Nodes \X Nodes -> Seq(OpRecs(H))]
      /\ put \in [Puts -> PutRecs(H)] /\ get \in [Gets -> GetRecs(H)] /\ del \in [Dels -> DelRecs]
      /\ known \subseteq Context /\ forgotten \subseteq Puts
      /\ put[p].pc = "fan" /\ set \in H /\ n \in Nodes /\ put[p].next \in Nat \ {0}
      /\ put[p].next <= Len(Remote(n))
  BY DEF ObjTypes, PutRequest, PutRecs
<1>2. r \in Nodes
  BY <1>1, RemoteNode
<1>3. RepairPut(set) \in OpRecs(H)
  BY <1>1 DEF RepairPut, OpRecs
<1> HIDE DEF H
<1>4. forgotten' \subseteq Puts /\ UNCHANGED <<mult, get, del, known>>
  BY <1>1, TrackType DEF PutRequest
<1>5. store' \in [Nodes -> H]
  <2>1. store' \in {[store EXCEPT ![r] = set], store}
    BY DEF PutRequest
  <2> HIDE DEF r, set
  <2> QED BY <1>1, <1>2, <2>1
<1>6. ops' \in [Nodes \X Nodes -> Seq(OpRecs(H))]
  <2>1. ops' = ops \/ ops' = [ops EXCEPT ![<<n, r>>] = Append(@, RepairPut(set))]
    BY DEF PutRequest
  <2>2. <<n, r>> \in Nodes \X Nodes
    BY <1>1, <1>2
  <2>3. Append(ops[<<n, r>>], RepairPut(set)) \in Seq(OpRecs(H))
    BY <1>1, <1>3, <2>2, AppendProperties
  <2> HIDE DEF n, r, set
  <2> QED BY <1>1, <2>1, <2>2, <2>3
<1>7. /\ put' \in [Puts -> PutRecs(H)] /\ \A q \in Puts : q # p => put'[q] = put[q]
      /\ put'[p].pc = "fan" /\ put'[p].context = put[p].context
  BY PutRequestPut DEF H
<1>8. PutsStay
  BY <1>4, <1>7 DEF PutsStay
<1> QED BY <1>1, <1>4, <1>5, <1>6, <1>7, <1>8, TypesMove DEF H

\* The quorum is checked (check_write_quorum).
LEMMA PutFinishTypes ==
    ASSUME ObjTypes, NEW p \in Puts, PutFinish(p)
    PROVE  ObjTypes' /\ PutsStay
<1> DEFINE H == Legit
<1>1. /\ store \in [Nodes -> H] /\ ops \in [Nodes \X Nodes -> Seq(OpRecs(H))]
      /\ put \in [Puts -> PutRecs(H)] /\ get \in [Gets -> GetRecs(H)] /\ del \in [Dels -> DelRecs]
      /\ known \subseteq Context /\ forgotten \subseteq Puts
      /\ put[p].pc = "fan" /\ put[p].context \in Context
  BY DEF ObjTypes, PutFinish, PutRecs
<1> HIDE DEF H
<1>2. /\ known' \subseteq Context /\ UNCHANGED <<mult, store, ops, get, del, forgotten>>
  BY <1>1 DEF PutFinish
<1>3. PICK c \in {"ok", "error"} : put' = [put EXCEPT ![p].pc = c]
  BY DEF PutFinish
<1>4. put' \in [Puts -> PutRecs(H)]
  <2>1. put[p] \in PutRecs(H)
    BY <1>1
  <2>2. [put[p] EXCEPT !.pc = c] \in PutRecs(H)
    BY <2>1 DEF PutRecs
  <2> QED BY <1>1, <1>3, <2>2
<1>5. PutsStay
  BY <1>1, <1>2, <1>3 DEF PutsStay, PutRecs
<1> QED BY <1>1, <1>2, <1>4, <1>5, TypesMove DEF H

\* A get reads its own store (handle_get).
LEMMA GetBeginTypes ==
    ASSUME ObjTypes, NEW g \in Gets, NEW n \in Nodes, GetBegin(g, n)
    PROVE  ObjTypes' /\ PutsStay
<1> DEFINE H == Legit
<1>1. /\ store \in [Nodes -> H] /\ ops \in [Nodes \X Nodes -> Seq(OpRecs(H))]
      /\ put \in [Puts -> PutRecs(H)] /\ get \in [Gets -> GetRecs(H)] /\ del \in [Dels -> DelRecs]
      /\ known \subseteq Context /\ forgotten \subseteq Puts
      /\ NoGet \in GetRecs(H) /\ Idle \in BOOLEAN /\ QuorumAcked \subseteq Puts
  BY NoPutType DEF ObjTypes, Idle, QuorumAcked
<1>2. UNCHANGED <<mult, store, ops, put, del, known, forgotten>>
  BY DEF GetBegin
<1> HIDE DEF H
<1>3. Disturbed(get) \in [Gets -> GetRecs(H)]
  BY <1>1, DisturbedType
<1>4. get' \in [Gets -> GetRecs(H)]
  <2>1. CASE get' = [Disturbed(get) EXCEPT ![g] = [NoGet EXCEPT
                !.pc = "fan", !.node = n, !.merged = store[n], !.responses = 1,
                !.must = QuorumAcked, !.quiet = Idle]]
    <3> DEFINE rec == [NoGet EXCEPT !.pc = "fan", !.node = n, !.merged = store[n], !.responses = 1,
                                    !.must = QuorumAcked, !.quiet = Idle]
    <3>1. rec \in GetRecs(H)
      BY <1>1 DEF GetRecs
    <3> HIDE DEF rec
    <3> QED BY <1>3, <2>1, <3>1 DEF rec
  <2>2. CASE get' = [Disturbed(get) EXCEPT ![g].pc = "error"]
    <3>1. [Disturbed(get)[g] EXCEPT !.pc = "error"] \in GetRecs(H)
      <4>1. Disturbed(get)[g] \in GetRecs(H)
        BY <1>3
      <4> QED BY <4>1 DEF GetRecs
    <3> QED BY <1>3, <2>2, <3>1
  <2> QED BY <2>1, <2>2 DEF GetBegin
<1>5. PutsStay
  BY <1>2 DEF PutsStay
<1> QED BY <1>1, <1>2, <1>4, <1>5, TypesMove DEF H

\* What a get holds after an answer.
Answer(t, keep, r, remote) ==
    [t EXCEPT !.next = t.next + 1, !.responses = t.responses + 1,
              !.merged = IF remote = <<>> THEN t.merged ELSE MergeSets(t.merged, remote, keep),
              !.replies = IF remote = <<>> THEN t.replies
                          ELSE Append(t.replies, [node |-> r, set |-> remote])]

\* The cases of one read (fan_read_replicas).
LEMMA GetRequestCases ==
    ASSUME NEW g, GetRequest(g)
    PROVE  LET n == get[g].node
               r == Remote(n)[get[g].next]
           IN  /\ get[g].pc = "fan" /\ get[g].next <= Len(Remote(n))
               /\ UNCHANGED <<mult, store, ops, put, del, known, forgotten>>
               /\ \/ get' = [get EXCEPT ![g] = Answer(get[g], mult, r, store[r])]
                  \/ get' = Disturbed([get EXCEPT ![g] = [Answer(get[g], mult, r, <<>>) EXCEPT !.misread = TRUE]])
                  \/ get' = [get EXCEPT ![g].next = @ + 1]
BY DEF GetRequest, Answer

\* The fields of a get u after the answer, of t before it.
Answered(u, t, keep, r, remote) ==
    /\ u.pc = t.pc /\ u.node = t.node /\ u.must = t.must /\ u.quiet = t.quiet
    /\ u.misread = t.misread /\ u.next = t.next + 1 /\ u.responses = t.responses + 1
    /\ remote = <<>> => u.merged = t.merged /\ u.replies = t.replies
    /\ remote # <<>> => /\ u.merged = MergeSets(t.merged, remote, keep)
                        /\ u.replies = Append(t.replies, [node |-> r, set |-> remote])

\* A get after an answer is a get, with these fields.
LEMMA AnswerFields ==
    ASSUME NEW H, NEW t \in GetRecs(H), NEW keep, NEW r \in Nodes, NEW remote \in H,
           MergeSets(t.merged, remote, keep) \in H
    PROVE  /\ Answer(t, keep, r, remote) \in GetRecs(H)
           /\ Answered(Answer(t, keep, r, remote), t, keep, r, remote)
<1> DEFINE m == IF remote = <<>> THEN t.merged ELSE MergeSets(t.merged, remote, keep)
           x == [node |-> r, set |-> remote]
           s == IF remote = <<>> THEN t.replies ELSE Append(t.replies, x)
           i == t.next + 1
           j == t.responses + 1
           u == Answer(t, keep, r, remote)
<1>1. m \in H /\ i \in Nat \ {0} /\ j \in Nat
  BY DEF GetRecs
<1>2. s \in Seq(Replies(H))
  <2>1. x \in Replies(H) /\ t.replies \in Seq(Replies(H))
    BY DEF Replies, GetRecs
  <2> HIDE DEF x
  <2> QED BY <2>1, AppendProperties
<1>3. u = [t EXCEPT !.next = i, !.responses = j, !.merged = m, !.replies = s]
  BY DEF Answer
<1>4. /\ remote = <<>> => m = t.merged /\ s = t.replies
      /\ remote # <<>> => m = MergeSets(t.merged, remote, keep) /\ s = Append(t.replies, x)
      /\ i = t.next + 1 /\ j = t.responses + 1
  OBVIOUS
<1> HIDE DEF m, s, i, j, u
<1>5. u \in GetRecs(H)
  BY <1>1, <1>2, <1>3 DEF GetRecs
<1>6. /\ u.pc = t.pc /\ u.node = t.node /\ u.must = t.must /\ u.quiet = t.quiet
      /\ u.misread = t.misread /\ u.next = i /\ u.responses = j /\ u.merged = m /\ u.replies = s
  BY <1>3 DEF GetRecs
<1>7. Answered(u, t, keep, r, remote)
  BY <1>4, <1>6 DEF Answered, x
<1> QED BY <1>5, <1>7 DEF u

\* A replica's set is merged (fan_read_replicas).
LEMMA GetRequestTypes ==
    ASSUME ObjTypes, NEW g \in Gets, GetRequest(g)
    PROVE  ObjTypes' /\ PutsStay
<1> DEFINE H == Legit
           n == get[g].node
           r == Remote(n)[get[g].next]
<1>1. /\ store \in [Nodes -> H] /\ ops \in [Nodes \X Nodes -> Seq(OpRecs(H))]
      /\ put \in [Puts -> PutRecs(H)] /\ get \in [Gets -> GetRecs(H)] /\ del \in [Dels -> DelRecs]
      /\ known \subseteq Context /\ forgotten \subseteq Puts
      /\ get[g] \in GetRecs(H) /\ get[g].merged \in H /\ n \in Nodes /\ get[g].next \in Nat \ {0}
  BY DEF ObjTypes, GetRecs
<1>2. /\ get[g].next <= Len(Remote(n)) /\ UNCHANGED <<mult, store, ops, put, del, known, forgotten>>
      /\ \/ get' = [get EXCEPT ![g] = Answer(get[g], mult, r, store[r])]
         \/ get' = Disturbed([get EXCEPT ![g] = [Answer(get[g], mult, r, <<>>) EXCEPT !.misread = TRUE]])
         \/ get' = [get EXCEPT ![g].next = @ + 1]
  BY GetRequestCases
<1>3. r \in Nodes
  BY <1>1, <1>2, RemoteNode
<1>4. \A s \in H : MergeSets(get[g].merged, s, mult) \in H
  BY <1>1, WrittenSibs, HeldFacts DEF ObjTypes, Legit
<1>5. <<>> \in H
  BY NoPutType
<1> HIDE DEF H, n, r
<1>6. \A s \in H : Answer(get[g], mult, r, s) \in GetRecs(H)
  BY <1>1, <1>3, <1>4, AnswerFields
<1>7. get' \in [Gets -> GetRecs(H)]
  <2>1. CASE get' = [get EXCEPT ![g] = Answer(get[g], mult, r, store[r])]
    <3>1. store[r] \in H
      BY <1>1, <1>3
    <3>2. Answer(get[g], mult, r, store[r]) \in GetRecs(H)
      BY <1>6, <3>1
    <3> QED BY <1>1, <2>1, <3>2
  <2>2. CASE get' = Disturbed([get EXCEPT ![g] = [Answer(get[g], mult, r, <<>>) EXCEPT !.misread = TRUE]])
    <3>1. Answer(get[g], mult, r, <<>>) \in GetRecs(H)
      BY <1>5, <1>6
    <3>2. [Answer(get[g], mult, r, <<>>) EXCEPT !.misread = TRUE] \in GetRecs(H)
      BY <3>1 DEF GetRecs
    <3>3. [get EXCEPT ![g] = [Answer(get[g], mult, r, <<>>) EXCEPT !.misread = TRUE]] \in [Gets -> GetRecs(H)]
      BY <1>1, <3>2
    <3> QED BY <2>2, <3>3, DisturbedType
  <2>3. CASE get' = [get EXCEPT ![g].next = @ + 1]
    <3> DEFINE i == get[g].next + 1
    <3>1. i \in Nat \ {0} /\ get' = [get EXCEPT ![g] = [get[g] EXCEPT !.next = i]]
      BY <1>1, <2>3
    <3> HIDE DEF i
    <3>2. [get[g] EXCEPT !.next = i] \in GetRecs(H)
      BY <1>1, <3>1 DEF GetRecs
    <3> QED BY <1>1, <3>1, <3>2
  <2> QED BY <1>2, <2>1, <2>2, <2>3
<1>8. PutsStay
  BY <1>2 DEF PutsStay
<1> QED BY <1>1, <1>2, <1>7, <1>8, TypesMove DEF H

\* A get ends: its merged set is stored and sent to those behind it (handle_get).
LEMMA GetFinishTypes ==
    ASSUME ObjTypes, NEW g \in Gets, GetFinish(g)
    PROVE  ObjTypes' /\ PutsStay
<1> DEFINE H == Legit
           n == get[g].node
           m == get[g].merged
<1>1. /\ store \in [Nodes -> H] /\ ops \in [Nodes \X Nodes -> Seq(OpRecs(H))]
      /\ put \in [Puts -> PutRecs(H)] /\ get \in [Gets -> GetRecs(H)] /\ del \in [Dels -> DelRecs]
      /\ known \subseteq Context /\ forgotten \subseteq Puts
      /\ get[g] \in GetRecs(H) /\ m \in H /\ n \in Nodes
  BY DEF ObjTypes, GetRecs
<1>2. forgotten' \subseteq Puts /\ UNCHANGED <<mult, put, del>>
  BY <1>1, TrackType DEF GetFinish
<1>3. RepairPut(m) \in OpRecs(H)
  BY <1>1 DEF RepairPut, OpRecs
<1>4. JoinContexts(m) \in Context
  <2>1. m \in Seq(Written) /\ Written \subseteq Sib
    BY <1>1, WrittenSibs DEF Legit, Held, Fronts
  <2>2. m \in Seq(Sib)
    BY <2>1
  <2> QED BY <2>2, JoinIsContext
<1> HIDE DEF H
<1>5. known' \subseteq Context
  <2>1. known' = known \/ known' = known \cup {JoinContexts(m)}
    BY DEF GetFinish
  <2> QED BY <1>1, <1>4, <2>1
<1>6. store' \in [Nodes -> H]
  <2>1. \/ store' = store
        \/ store' = [store EXCEPT ![n] = IF m = <<>> THEN @ ELSE m]
    BY DEF GetFinish
  <2> HIDE DEF m, n
  <2> QED BY <1>1, <2>1
<1>7. ops' \in [Nodes \X Nodes -> Seq(OpRecs(H))]
  <2> DEFINE Goes(l) == /\ l[1] = n /\ m # <<>>
                        /\ \E x \in {y \in Range(get[g].replies) : IsBehind(y.set, m)} : x.node = l[2]
  <2>1. ops' = [l \in DOMAIN ops |-> IF Goes(l) THEN Append(ops[l], RepairPut(m)) ELSE ops[l]]
    BY DEF GetFinish
  <2>2. \A l \in Nodes \X Nodes : Append(ops[l], RepairPut(m)) \in Seq(OpRecs(H)) /\ ops[l] \in Seq(OpRecs(H))
    BY <1>1, <1>3, AppendProperties
  <2> HIDE DEF Goes, m, n
  <2>3. DOMAIN ops = Nodes \X Nodes
    BY <1>1
  <2> QED BY <2>1, <2>2, <2>3
<1>8. get' \in [Gets -> GetRecs(H)]
  <2>1. PICK c \in {"ok", "error"}, b \in BOOLEAN :
              get' = [get EXCEPT ![g].pc = c, ![g].quiet = b]
    <3> DEFINE c == IF CheckReadQuorum(get[g].responses, n) THEN "ok" ELSE "error"
               b == get[g].quiet /\ errors' = errors
    <3>1. get' = [get EXCEPT ![g].pc = c, ![g].quiet = @ /\ errors' = errors]
      BY DEF GetFinish
    <3>2. get' = [get EXCEPT ![g].pc = c, ![g].quiet = b]
      <4> HIDE DEF c
      <4> QED BY <1>1, <3>1 DEF GetRecs
    <3>3. b \in BOOLEAN /\ c \in {"ok", "error"}
      OBVIOUS
    <3> HIDE DEF b, c
    <3> QED BY <3>2, <3>3
  <2>2. get' = [get EXCEPT ![g] = [get[g] EXCEPT !.pc = c, !.quiet = b]]
    BY <1>1, <2>1 DEF GetRecs
  <2>3. [get[g] EXCEPT !.pc = c, !.quiet = b] \in GetRecs(H)
    BY <1>1 DEF GetRecs
  <2> QED BY <1>1, <2>2, <2>3
<1>9. PutsStay
  BY <1>2 DEF PutsStay
<1> QED BY <1>1, <1>2, <1>5, <1>6, <1>7, <1>8, <1>9, TypesMove DEF H

\* Deletes are sent (handle_del).
LEMMA DelBeginTypes ==
    ASSUME ObjTypes, NEW d \in Dels, NEW n \in Nodes, DelBegin(d, n)
    PROVE  ObjTypes' /\ PutsStay
<1> DEFINE H == Legit
<1>1. /\ store \in [Nodes -> H] /\ ops \in [Nodes \X Nodes -> Seq(OpRecs(H))]
      /\ put \in [Puts -> PutRecs(H)] /\ get \in [Gets -> GetRecs(H)] /\ del \in [Dels -> DelRecs]
      /\ known \subseteq Context /\ forgotten \subseteq Puts /\ <<>> \in H
  BY NoPutType DEF ObjTypes
<1>2. UNCHANGED <<mult, store, put, known, forgotten>>
  BY DEF DelBegin
<1>3. DelOp \in OpRecs(H)
  BY <1>1 DEF DelOp, OpRecs
<1> HIDE DEF H
<1>4. del' \in [Dels -> DelRecs]
  BY <1>1 DEF DelBegin, DelRecs
<1>5. ops' \in [Nodes \X Nodes -> Seq(OpRecs(H))]
  <2> DEFINE Goes(l) == l[1] = n /\ l[2] \in Range(Replicas[n])
  <2>1. ops' = [l \in DOMAIN ops |-> IF Goes(l) THEN Append(ops[l], DelOp) ELSE ops[l]]
    BY DEF DelBegin
  <2>2. \A l \in Nodes \X Nodes : Append(ops[l], DelOp) \in Seq(OpRecs(H)) /\ ops[l] \in Seq(OpRecs(H))
    BY <1>1, <1>3, AppendProperties
  <2> HIDE DEF Goes
  <2>3. DOMAIN ops = Nodes \X Nodes
    BY <1>1
  <2> QED BY <2>1, <2>2, <2>3
<1>6. get' \in [Gets -> GetRecs(H)]
  BY <1>1, DisturbedType DEF DelBegin
<1>7. PutsStay
  BY <1>2 DEF PutsStay
<1> QED BY <1>1, <1>2, <1>4, <1>5, <1>6, <1>7, TypesMove DEF H

\* A coordinator deletes its own set.
LEMMA DelLocalTypes ==
    ASSUME ObjTypes, NEW d \in Dels, DelLocal(d)
    PROVE  ObjTypes' /\ PutsStay
<1> DEFINE H == Legit
<1>1. /\ store \in [Nodes -> H] /\ ops \in [Nodes \X Nodes -> Seq(OpRecs(H))]
      /\ put \in [Puts -> PutRecs(H)] /\ get \in [Gets -> GetRecs(H)] /\ del \in [Dels -> DelRecs]
      /\ known \subseteq Context /\ forgotten \subseteq Puts /\ <<>> \in H
  BY NoPutType DEF ObjTypes
<1>2. forgotten' \subseteq Puts /\ UNCHANGED <<mult, ops, put, get, known>>
  BY <1>1, TrackType DEF DelLocal
<1> HIDE DEF H
<1>3. del' \in [Dels -> DelRecs]
  BY <1>1 DEF DelLocal, DelRecs
<1>4. store' \in [Nodes -> H]
  BY <1>1 DEF DelLocal
<1>5. PutsStay
  BY <1>2 DEF PutsStay
<1> QED BY <1>1, <1>2, <1>3, <1>4, <1>5, TypesMove DEF H

\* An operation on a link arrives or is lost (ReplicaApplier::apply_op).
LEMMA LinkTypes ==
    ASSUME ObjTypes, NEW l \in Nodes \X Nodes, ApplyOp(l) \/ Drop(l)
    PROVE  ObjTypes' /\ PutsStay
<1> DEFINE H == Legit
<1>1. /\ store \in [Nodes -> H] /\ ops \in [Nodes \X Nodes -> Seq(OpRecs(H))]
      /\ put \in [Puts -> PutRecs(H)] /\ get \in [Gets -> GetRecs(H)] /\ del \in [Dels -> DelRecs]
      /\ known \subseteq Context /\ forgotten \subseteq Puts
  BY DEF ObjTypes
<1>2. /\ forgotten' \subseteq Puts /\ UNCHANGED <<mult, put, del, known>>
      /\ ops[l] # <<>> /\ ops' = [ops EXCEPT ![l] = Tail(@)]
  BY <1>1, TrackType DEF ApplyOp, Drop
<1>3. /\ Head(ops[l]) \in OpRecs(H) /\ Tail(ops[l]) \in Seq(OpRecs(H)) /\ ops[l] \in Seq(OpRecs(H))
  <2> HIDE DEF H
  <2>1. ops[l] \in Seq(OpRecs(H))
    BY <1>1
  <2> QED BY <1>2, <2>1, HeadTailProperties
<1>4. Head(ops[l]).set \in H
  BY <1>3 DEF OpRecs
<1> HIDE DEF H
<1>5. ops' \in [Nodes \X Nodes -> Seq(OpRecs(H))]
  BY <1>1, <1>2, <1>3
<1>6. store' \in [Nodes -> H]
  <2>1. store' = store \/ store' = [store EXCEPT ![l[2]] = Head(ops[l]).set]
    BY DEF ApplyOp, Drop
  <2> QED BY <1>1, <1>4, <2>1
<1>7. get' \in [Gets -> GetRecs(H)]
  <2>1. get' = get \/ get' = Disturbed(get)
    BY DEF ApplyOp, Drop
  <2> QED BY <1>1, <2>1, DisturbedType
<1>8. PutsStay
  BY <1>2 DEF PutsStay
<1> QED BY <1>1, <1>2, <1>5, <1>6, <1>7, <1>8, TypesMove DEF H

\* At the start nothing is written, stored or under way.
LEMMA ObjTypesInit == ObjectInit => ObjTypes
<1> SUFFICES ASSUME ObjectInit PROVE ObjTypes
  OBVIOUS
<1> DEFINE H == Legit
<1>1. mult \in BOOLEAN /\ Written = {} /\ Written \subseteq Sib
  BY Shape DEF ObjectInit, NoPut, Written
<1>2. <<>> \in H
  BY <1>1, HeldFacts DEF Legit
<1>3. (CHOOSE n \in Nodes : TRUE) \in Nodes
  BY Shape
<1>4. <<>> \in Seq(Replies(H)) /\ <<>> \in Seq(OpRecs(H))
  BY EmptySeq
<1> HIDE DEF H
<1>5. NoPut \in PutRecs(H) /\ NoGet \in GetRecs(H)
  BY <1>2, <1>3, <1>4, BottomContext DEF NoPut, NoGet, PutRecs, GetRecs
<1>6. /\ store \in [Nodes -> H] /\ ops \in [Nodes \X Nodes -> Seq(OpRecs(H))]
      /\ put \in [Puts -> PutRecs(H)] /\ get \in [Gets -> GetRecs(H)]
  BY <1>2, <1>4, <1>5 DEF ObjectInit
<1>7. del \in [Dels -> DelRecs] /\ known \subseteq Context /\ forgotten \subseteq Puts
  BY <1>3, BottomContext DEF ObjectInit, DelRecs
<1> QED BY <1>1, <1>6, <1>7 DEF H, ObjTypes

\* Every step keeps the types, and what has been written.
LEMMA ObjTypesNext == ObjTypes /\ [ObjectNext]_objectVars => ObjTypes' /\ PutsStay
<1> SUFFICES ASSUME ObjTypes, [ObjectNext]_objectVars PROVE ObjTypes' /\ PutsStay
  OBVIOUS
<1>1. ASSUME NEW p \in Puts, NEW n \in Nodes, NEW prior \in known, PutBegin(p, n, prior)
      PROVE  ObjTypes' /\ PutsStay
  BY <1>1, PutBeginTypes
<1>2. ASSUME NEW p \in Puts, PutStore(p) \/ PutRequest(p) \/ PutFinish(p) PROVE ObjTypes' /\ PutsStay
  BY <1>2, PutStoreTypes, PutRequestTypes, PutFinishTypes
<1>3. ASSUME NEW g \in Gets, NEW n \in Nodes, GetBegin(g, n) PROVE ObjTypes' /\ PutsStay
  BY <1>3, GetBeginTypes
<1>4. ASSUME NEW g \in Gets, GetRequest(g) \/ GetFinish(g) PROVE ObjTypes' /\ PutsStay
  BY <1>4, GetRequestTypes, GetFinishTypes
<1>5. ASSUME NEW d \in Dels, NEW n \in Nodes, DelBegin(d, n) PROVE ObjTypes' /\ PutsStay
  BY <1>5, DelBeginTypes
<1>6. ASSUME NEW d \in Dels, DelLocal(d) PROVE ObjTypes' /\ PutsStay
  BY <1>6, DelLocalTypes
<1>7. ASSUME NEW l \in Nodes \X Nodes, ApplyOp(l) \/ Drop(l) PROVE ObjTypes' /\ PutsStay
  BY <1>7, LinkTypes
<1>8. CASE UNCHANGED objectVars
  <2>1. UNCHANGED <<mult, store, ops, put, get, del, known, forgotten>>
    BY <1>8 DEF objectVars
  <2>2. PutsStay
    BY <2>1 DEF PutsStay
  <2> QED BY <2>1, <2>2, TypesMove DEF ObjTypes
<1> QED BY <1>1, <1>2, <1>3, <1>4, <1>5, <1>6, <1>7, <1>8 DEF ObjectNext

\* Every set is, always, one the bucket may hold.
LEMMA ObjTypesAlways == ObjectSpec => []ObjTypes
BY ObjTypesInit, ObjTypesNext, PTL DEF ObjectSpec

\* A set the bucket may hold is a frontier.
LEMMA LegitFrontier ==
    ASSUME NEW s \in Legit
    PROVE  /\ \A x, y \in Range(s) : ~Dominates(x.context, y.context)
           /\ ~mult => Len(s) <= 1
BY RangeElems DEF Legit, Held, Fronts, Causal

\* Then every set is a frontier.
LEMMA TypesFrontier == ObjTypes => Frontier
<1> SUFFICES ASSUME ObjTypes, NEW s \in Sets PROVE s \in Legit
  BY LegitFrontier DEF Frontier
<1>1. CASE \E n \in Nodes : s = store[n]
  BY <1>1 DEF ObjTypes
<1>2. CASE \E g \in Gets : s = get[g].merged
  BY <1>2 DEF ObjTypes, GetRecs
<1>3. CASE \E l \in DOMAIN ops : \E i \in DOMAIN ops[l] : s = ops[l][i].set
  <2> DEFINE H == Legit
  <2>1. ops \in [Nodes \X Nodes -> Seq(OpRecs(H))]
    BY DEF ObjTypes
  <2> HIDE DEF H
  <2>2. PICK l \in Nodes \X Nodes : \E i \in DOMAIN ops[l] : s = ops[l][i].set
    BY <1>3, <2>1
  <2>3. ops[l] \in Seq(OpRecs(H))
    BY <2>1
  <2>4. PICK i \in 1..Len(ops[l]) : s = ops[l][i].set
    BY <2>2, <2>3, LenProperties
  <2>5. ops[l][i] \in OpRecs(H)
    BY <2>3, ElementOfSeq
  <2>6. s \in H
    BY <2>4, <2>5 DEF OpRecs
  <2> QED BY <2>6 DEF H
<1> QED BY <1>1, <1>2, <1>3 DEF Sets

\* Every sibling set stored, on its way or answered is a causal frontier, and of
\* one value in a bucket without allow_mult (resolve_write, merge_sibling_sets).
THEOREM SetsAreFrontiers == ObjectSpec => []Frontier
BY ObjTypesAlways, TypesFrontier, PTL

-----------------------------------------------------------------------------
(* The Riak object: what a write quorum acknowledged stays covered.          *)

NoDels == \A d \in Dels : del[d].pc = "idle"

\* No store stops covering a put that is not forgotten.
Remembers ==
    /\ forgotten \subseteq forgotten'
    /\ \A p \in Puts \ forgotten' : put[p].pc # "idle" =>
           \A r \in Nodes : Covers(store[r], Sibling(p)) => Covers(store'[r], Sibling(p))

\* Without deletes no store is emptied.
NotEmptied ==
    NoDels' => NoDels /\ \A r \in Nodes : store[r] # <<>> => store'[r] # <<>>

\* Without deletes nothing empty is under way.
HoldsSome(q) == \A i \in DOMAIN q : q[i].set # <<>>
OpsHold == NoDels => \A l \in Nodes \X Nodes : HoldsSome(ops[l])

\* The nodes a put was sent to so far.
Reached(p) == {put[p].node} \cup {Remote(put[p].node)[i] : i \in 1..(put[p].next - 1)}

\* A are the nodes that acknowledged the put.
AckedBy(p, A) ==
    /\ Cardinality(A) = put[p].acks /\ Cardinality(A \cap DurableNodes) = put[p].durable
    /\ mult /\ p \notin forgotten => \A a \in A : Covers(store[a], Sibling(p))
    /\ NoDels => \A a \in A : store[a] # <<>>

Acked(p) ==
    /\ put[p].pc = "resolve" => put[p].next = 1
    /\ put[p].pc \in {"fan", "ok"} =>
        /\ put[p].next <= Len(Remote(put[p].node)) + 1
        /\ put[p].set # <<>> /\ (mult => Covers(put[p].set, Sibling(p)))
        /\ put[p].pc = "ok" => CheckWriteQuorum(put[p], put[p].node)
        /\ \E A \in SUBSET Reached(p) : AckedBy(p, A)

AckInv == ObjTypes /\ OpsHold /\ \A p \in Puts : Acked(p)

\* Track records what is forgotten.
LEMMA TrackRemembers == Track => Remembers
BY DEF Track, Remembers

\* Where no store changes nothing is forgotten.
LEMMA SameRemembers == UNCHANGED <<store, forgotten>> => Remembers
BY DEF Remembers

\* Every step records what it makes a store forget.
LEMMA NextRemembers == [ObjectNext]_objectVars => Remembers
<1> SUFFICES ASSUME [ObjectNext]_objectVars PROVE Track \/ UNCHANGED <<store, forgotten>>
  BY TrackRemembers, SameRemembers
<1>1. ASSUME NEW p \in Puts, NEW n \in Nodes, NEW prior \in known, PutBegin(p, n, prior)
      PROVE  UNCHANGED <<store, forgotten>>
  BY <1>1 DEF PutBegin
<1>2. ASSUME NEW p \in Puts, PutStore(p) \/ PutRequest(p) PROVE Track
  BY <1>2 DEF PutStore, PutRequest
<1>3. ASSUME NEW p \in Puts, PutFinish(p) PROVE UNCHANGED <<store, forgotten>>
  BY <1>3 DEF PutFinish
<1>4. ASSUME NEW g \in Gets, NEW n \in Nodes, GetBegin(g, n) PROVE UNCHANGED <<store, forgotten>>
  BY <1>4 DEF GetBegin
<1>5. ASSUME NEW g \in Gets, GetRequest(g) PROVE UNCHANGED <<store, forgotten>>
  BY <1>5, GetRequestCases
<1>6. ASSUME NEW g \in Gets, GetFinish(g) PROVE Track
  BY <1>6 DEF GetFinish
<1>7. ASSUME NEW d \in Dels, NEW n \in Nodes, DelBegin(d, n) PROVE UNCHANGED <<store, forgotten>>
  BY <1>7 DEF DelBegin
<1>8. ASSUME NEW d \in Dels, DelLocal(d) PROVE Track
  BY <1>8 DEF DelLocal
<1>9. ASSUME NEW l \in Nodes \X Nodes, ApplyOp(l) \/ Drop(l) PROVE Track \/ UNCHANGED <<store, forgotten>>
  BY <1>9 DEF ApplyOp, Drop
<1>10. CASE UNCHANGED objectVars
  BY <1>10 DEF objectVars
<1> QED BY <1>1, <1>2, <1>3, <1>4, <1>5, <1>6, <1>7, <1>8, <1>9, <1>10 DEF ObjectNext

\* A put is sent to nodes.
LEMMA ReachedNodes ==
    ASSUME ObjTypes, NEW p \in Puts, put[p].next <= Len(Remote(put[p].node)) + 1
    PROVE  Reached(p) \subseteq Nodes
<1>1. put[p].node \in Nodes /\ put[p].next \in Nat \ {0} /\ Len(Remote(put[p].node)) \in Nat
  BY RemoteFacts DEF ObjTypes, PutRecs
<1>2. \A i \in 1..(put[p].next - 1) : i \in Nat \ {0} /\ i <= Len(Remote(put[p].node))
  BY <1>1
<1> QED BY <1>1, <1>2, RemoteNode DEF Reached

\* The acknowledgements of a put outlive a step.
LEMMA AckedByStays ==
    ASSUME NEW p \in Puts, NEW A \in SUBSET Nodes, AckedBy(p, A), put[p].pc # "idle",
           PutsStay, Remembers, NotEmptied
    PROVE  /\ mult' /\ p \notin forgotten' => \A a \in A : Covers(store'[a], Sibling(p)')
           /\ NoDels' => \A a \in A : store'[a] # <<>>
<1>1. Sibling(p)' = Sibling(p) /\ mult' = mult
  BY WrittenStays DEF PutsStay
<1>2. ASSUME mult', p \notin forgotten', NEW a \in A PROVE Covers(store'[a], Sibling(p)')
  <2>1. p \notin forgotten
    BY <1>2 DEF Remembers
  <2>2. Covers(store[a], Sibling(p))
    BY <1>1, <1>2, <2>1 DEF AckedBy
  <2> QED BY <1>1, <1>2, <2>2 DEF Remembers
<1>3. ASSUME NoDels', NEW a \in A PROVE store'[a] # <<>>
  BY <1>3 DEF NotEmptied, AckedBy
<1> QED BY <1>2, <1>3

\* A put that does not move keeps its acknowledgements.
LEMMA AckedStays ==
    ASSUME ObjTypes, NEW p \in Puts, Acked(p), put'[p] = put[p], PutsStay, Remembers, NotEmptied
    PROVE  Acked(p)'
<1> SUFFICES ASSUME put[p].pc \in {"fan", "ok"}
             PROVE  /\ put[p].next <= Len(Remote(put[p].node)) + 1
                    /\ put[p].set # <<>> /\ (mult' => Covers(put[p].set, Sibling(p)'))
                    /\ put[p].pc = "ok" => CheckWriteQuorum(put[p], put[p].node)
                    /\ \E A \in SUBSET Reached(p)' : AckedBy(p, A)'
  BY DEF Acked
<1>1. Sibling(p)' = Sibling(p) /\ mult' = mult
  BY WrittenStays DEF PutsStay
<1>2. Reached(p)' = Reached(p)
  BY DEF Reached
<1>3. PICK A \in SUBSET Reached(p) : AckedBy(p, A)
  BY DEF Acked
<1>4. A \subseteq Nodes
  BY ReachedNodes DEF Acked
<1>5. AckedBy(p, A)'
  BY <1>3, <1>4, AckedByStays DEF AckedBy
<1> QED BY <1>1, <1>2, <1>3, <1>5 DEF Acked

\* A queue of sets that are not empty, after an append and without its head.
LEMMA HoldsQueue ==
    ASSUME NEW T, NEW q \in Seq(T), HoldsSome(q)
    PROVE  /\ \A x \in T : x.set # <<>> => HoldsSome(Append(q, x))
           /\ q # <<>> => Head(q).set # <<>> /\ HoldsSome(Tail(q))
<1>1. ASSUME NEW x \in T, x.set # <<>> PROVE HoldsSome(Append(q, x))
  <2>1. /\ Len(q) \in Nat /\ DOMAIN q = 1..Len(q) /\ DOMAIN Append(q, x) = 1..(Len(q) + 1)
        /\ Append(q, x)[Len(q) + 1] = x /\ \A i \in 1..Len(q) : Append(q, x)[i] = q[i]
    BY AppendProperties, LenProperties
  <2> QED BY <1>1, <2>1 DEF HoldsSome
<1>2. ASSUME q # <<>> PROVE Head(q).set # <<>> /\ HoldsSome(Tail(q))
  <2>1. /\ Len(q) \in Nat \ {0} /\ DOMAIN q = 1..Len(q) /\ Head(q) = q[1]
        /\ DOMAIN Tail(q) = 1..(Len(q) - 1) /\ \A i \in 1..(Len(q) - 1) : Tail(q)[i] = q[i + 1]
    BY <1>2, HeadTailProperties, LenProperties, EmptySeq
  <2> QED BY <2>1 DEF HoldsSome
<1> QED BY <1>1, <1>2

\* A step that leaves stores, links and deletes alone empties nothing.
LEMMA NothingEmptied ==
    ASSUME OpsHold, UNCHANGED <<store, ops, del>>
    PROVE  NotEmptied /\ OpsHold'
<1>1. NoDels' <=> NoDels
  BY DEF NoDels
<1> QED BY <1>1 DEF NotEmptied, OpsHold

\* A store that takes what is not empty is not emptied.
LEMMA StoreEmptied ==
    ASSUME NEW n \in Nodes, NEW s, s # <<>>, store \in [Nodes -> Legit],
           store' = [store EXCEPT ![n] = s] \/ store' = store
    PROVE  \A r \in Nodes : store[r] # <<>> => store'[r] # <<>>
<1> DEFINE H == Legit
<1>1. store \in [Nodes -> H]
  OBVIOUS
<1> HIDE DEF H
<1> QED BY <1>1

\* Only deletes empty a store, and only they send what is empty.
LEMMA EmptiedNext == AckInv /\ [ObjectNext]_objectVars => NotEmptied /\ OpsHold'
<1> SUFFICES ASSUME AckInv, [ObjectNext]_objectVars PROVE NotEmptied /\ OpsHold'
  OBVIOUS
<1> DEFINE H == Legit
           Q == OpRecs(H)
<1>1. /\ store \in [Nodes -> H] /\ ops \in [Nodes \X Nodes -> Seq(Q)] /\ put \in [Puts -> PutRecs(H)]
      /\ get \in [Gets -> GetRecs(H)] /\ del \in [Dels -> DelRecs] /\ ObjTypes /\ OpsHold
      /\ \A p \in Puts : Acked(p)
  BY DEF AckInv, ObjTypes
<1>2. \A s \in H : RepairPut(s) \in Q /\ RepairPut(s).set = s
  BY DEF RepairPut, OpRecs
<1>3. \A n \in Nodes : \A s : s # <<>> /\ (store' = [store EXCEPT ![n] = s] \/ store' = store) =>
         \A r \in Nodes : store[r] # <<>> => store'[r] # <<>>
  BY <1>1, StoreEmptied
<1> HIDE DEF H, Q
<1>4. \A l \in Nodes \X Nodes : ops[l] \in Seq(Q)
  BY <1>1
<1>5. ASSUME NEW p \in Puts, NEW n \in Nodes, NEW prior \in known, PutBegin(p, n, prior)
      PROVE  NotEmptied /\ OpsHold'
  BY <1>1, <1>5, NothingEmptied DEF PutBegin
<1>6. ASSUME NEW p \in Puts, PutStore(p) PROVE NotEmptied /\ OpsHold'
  <2> DEFINE n == put[p].node
             s == ResolveWrite(put[p].set, Sibling(p), mult)
  <2>1. n \in Nodes /\ put[p].set \in H /\ Sibling(p) \in Written
    BY <1>1, <1>6, WrittenSibs DEF PutStore, PutRecs
  <2>2. s # <<>>
    BY <1>1, <2>1, WrittenSibs, HeldFacts DEF ObjTypes, Legit, H
  <2>3. (store' = [store EXCEPT ![n] = s] \/ store' = store) /\ UNCHANGED <<ops, del>>
    BY <1>6 DEF PutStore
  <2> HIDE DEF n, s
  <2>4. \A r \in Nodes : store[r] # <<>> => store'[r] # <<>>
    BY <1>3, <2>1, <2>2, <2>3
  <2>5. NoDels' <=> NoDels
    BY <2>3 DEF NoDels
  <2> QED BY <1>1, <2>3, <2>4, <2>5 DEF NotEmptied, OpsHold
<1>7. ASSUME NEW p \in Puts, PutRequest(p) PROVE NotEmptied /\ OpsHold'
  <2> DEFINE n == put[p].node
             r == Remote(n)[put[p].next]
             s == put[p].set
  <2>1. /\ n \in Nodes /\ s \in H /\ s # <<>> /\ put[p].next \in Nat \ {0} /\ put[p].next <= Len(Remote(n))
        /\ store' \in {[store EXCEPT ![r] = s], store} /\ UNCHANGED del
        /\ ops' = ops \/ ops' = [ops EXCEPT ![<<n, r>>] = Append(@, RepairPut(s))]
    BY <1>1, <1>7 DEF PutRequest, PutRecs, Acked
  <2>2. r \in Nodes
    BY <2>1, RemoteNode
  <2> HIDE DEF n, s, r
  <2>3. \A k \in Nodes : store[k] # <<>> => store'[k] # <<>>
    BY <1>3, <2>1, <2>2
  <2>4. NoDels' <=> NoDels
    BY <2>1 DEF NoDels
  <2>5. ASSUME NoDels, NEW l \in Nodes \X Nodes PROVE HoldsSome(ops'[l])
    <3>1. HoldsSome(ops[l]) /\ ops[l] \in Seq(Q)
      BY <1>1, <1>4, <2>5 DEF OpsHold
    <3>2. HoldsSome(Append(ops[l], RepairPut(s)))
      BY <1>2, <2>1, <3>1, HoldsQueue
    <3>3. ops'[l] = ops[l] \/ ops'[l] = Append(ops[l], RepairPut(s))
      BY <1>1, <2>1
    <3> QED BY <3>1, <3>2, <3>3
  <2> QED BY <2>3, <2>4, <2>5 DEF NotEmptied, OpsHold
<1>8. ASSUME NEW p \in Puts, PutFinish(p) PROVE NotEmptied /\ OpsHold'
  BY <1>1, <1>8, NothingEmptied DEF PutFinish
<1>9. ASSUME NEW g \in Gets, NEW n \in Nodes, GetBegin(g, n) PROVE NotEmptied /\ OpsHold'
  BY <1>1, <1>9, NothingEmptied DEF GetBegin
<1>10. ASSUME NEW g \in Gets, GetRequest(g) PROVE NotEmptied /\ OpsHold'
  BY <1>1, <1>10, NothingEmptied, GetRequestCases
<1>11. ASSUME NEW g \in Gets, GetFinish(g) PROVE NotEmptied /\ OpsHold'
  <2> DEFINE n == get[g].node
             m == get[g].merged
             Goes(l) == /\ l[1] = n /\ m # <<>>
                        /\ \E x \in {y \in Range(get[g].replies) : IsBehind(y.set, m)} : x.node = l[2]
  <2>1. /\ n \in Nodes /\ m \in H /\ UNCHANGED del
    BY <1>1, <1>11 DEF GetFinish, GetRecs
  <2>2. ops' = [l \in DOMAIN ops |-> IF Goes(l) THEN Append(ops[l], RepairPut(m)) ELSE ops[l]]
    BY <1>11 DEF GetFinish
  <2>3. \A l \in Nodes \X Nodes : ops'[l] = ops[l] \/ (m # <<>> /\ ops'[l] = Append(ops[l], RepairPut(m)))
    <3>1. \A l : Goes(l) => m # <<>>
      OBVIOUS
    <3>2. DOMAIN ops = Nodes \X Nodes
      BY <1>1
    <3> HIDE DEF Goes, m
    <3> TAKE l \in Nodes \X Nodes
    <3>3. ops'[l] = IF Goes(l) THEN Append(ops[l], RepairPut(m)) ELSE ops[l]
      BY <2>2, <3>2
    <3> QED BY <3>1, <3>3
  <2>4. store' = store \/ (m # <<>> /\ store' = [store EXCEPT ![n] = m])
    <3>1. store' = store \/ store' = [store EXCEPT ![n] = IF m = <<>> THEN @ ELSE m]
      BY <1>11 DEF GetFinish
    <3> HIDE DEF m, n
    <3>2. [store EXCEPT ![n] = store[n]] = store
      BY <1>1
    <3>3. CASE m = <<>>
      BY <3>1, <3>2, <3>3
    <3>4. CASE m # <<>>
      BY <3>1, <3>4
    <3> QED BY <3>3, <3>4
  <2> HIDE DEF m, n, Goes
  <2>5. \A k \in Nodes : store[k] # <<>> => store'[k] # <<>>
    BY <1>3, <2>1, <2>4
  <2>6. NoDels' <=> NoDels
    BY <2>1 DEF NoDels
  <2>7. ASSUME NoDels, NEW l \in Nodes \X Nodes PROVE HoldsSome(ops'[l])
    <3>1. HoldsSome(ops[l]) /\ ops[l] \in Seq(Q)
      BY <1>1, <1>4, <2>7 DEF OpsHold
    <3>2. m # <<>> => HoldsSome(Append(ops[l], RepairPut(m)))
      BY <1>2, <2>1, <3>1, HoldsQueue
    <3> QED BY <2>3, <3>1, <3>2
  <2> QED BY <2>5, <2>6, <2>7 DEF NotEmptied, OpsHold
<1>12. ASSUME NEW d \in Dels, (\E n \in Nodes : DelBegin(d, n)) \/ DelLocal(d) PROVE NotEmptied /\ OpsHold'
  <2>1. del'[d].pc # "idle"
    <3>1. ASSUME NEW n \in Nodes, DelBegin(d, n) PROVE del'[d].pc # "idle"
      BY <1>1, <3>1 DEF DelBegin
    <3>2. ASSUME DelLocal(d) PROVE del'[d].pc # "idle"
      BY <1>1, <3>2 DEF DelLocal, DelRecs
    <3> QED BY <1>12, <3>1, <3>2
  <2>2. ~NoDels'
    BY <2>1 DEF NoDels
  <2> QED BY <2>2 DEF NotEmptied, OpsHold
<1>13. ASSUME NEW l \in Nodes \X Nodes, ApplyOp(l) \/ Drop(l) PROVE NotEmptied /\ OpsHold'
  <2>1. /\ ops[l] # <<>> /\ ops' = [ops EXCEPT ![l] = Tail(@)] /\ UNCHANGED del
        /\ store' = store \/ store' = [store EXCEPT ![l[2]] = Head(ops[l]).set]
    BY <1>13 DEF ApplyOp, Drop
  <2>2. NoDels' <=> NoDels
    BY <2>1 DEF NoDels
  <2>3. ASSUME NoDels PROVE Head(ops[l]).set # <<>> /\ HoldsSome(Tail(ops[l]))
    BY <1>1, <1>4, <2>1, <2>3, HoldsQueue DEF OpsHold
  <2>4. ASSUME NoDels PROVE \A k \in Nodes : store[k] # <<>> => store'[k] # <<>>
    BY <1>3, <2>1, <2>3, <2>4
  <2>5. ASSUME NoDels, NEW k \in Nodes \X Nodes PROVE HoldsSome(ops'[k])
    BY <1>1, <2>1, <2>3, <2>5 DEF OpsHold
  <2> QED BY <2>2, <2>4, <2>5 DEF NotEmptied, OpsHold
<1>14. CASE UNCHANGED objectVars
  BY <1>1, <1>14, NothingEmptied DEF objectVars
<1> QED BY <1>5, <1>6, <1>7, <1>8, <1>9, <1>10, <1>11, <1>12, <1>13, <1>14 DEF ObjectNext

\* The node of a request was not reached before.
LEMMA ReachedNew ==
    ASSUME NEW p, put[p].node \in Nodes, put[p].next \in Nat \ {0}, put[p].next <= Len(Remote(put[p].node))
    PROVE  Remote(put[p].node)[put[p].next] \notin Reached(p)
<1> DEFINE n == put[p].node
           k == put[p].next
           s == Remote(n)
<1>1. s \in Seq(Nodes) /\ Len(s) \in Nat /\ n \notin Elems(s) /\ Uniq(s) /\ DOMAIN s = 1..Len(s)
  BY RemoteFacts, LenProperties
<1> HIDE DEF s
<1>2. k \in 1..Len(s) /\ s[k] # n
  BY <1>1, RemoteNode DEF s
<1>3. \A i \in 1..(k - 1) : i \in 1..Len(s) /\ i # k
  BY <1>2
<1>4. \A i \in 1..(k - 1) : s[i] # s[k]
  BY <1>1, <1>2, <1>3 DEF Uniq
<1> QED BY <1>2, <1>4 DEF Reached, s

\* One more node in a set, and its durable part.
LEMMA AckCount ==
    ASSUME NEW A \in SUBSET Nodes, NEW r \in Nodes \ A
    PROVE  /\ Cardinality(A) \in Nat /\ Cardinality(A \cup {r}) = Cardinality(A) + 1
           /\ Cardinality((A \cup {r}) \cap DurableNodes) =
                  IF r \in DurableNodes THEN Cardinality(A \cap DurableNodes) + 1
                                        ELSE Cardinality(A \cap DurableNodes)
<1>1. IsFiniteSet(A) /\ IsFiniteSet(A \cap DurableNodes)
  <2>1. A \cap DurableNodes \subseteq Nodes /\ IsFiniteSet(Nodes)
    BY Shape
  <2> QED BY <2>1, FS_Subset
<1>2. Cardinality(A) \in Nat /\ Cardinality(A \cup {r}) = Cardinality(A) + 1
  BY <1>1, FS_CardinalityType, FS_AddElement
<1>3. CASE r \in DurableNodes
  <2>1. (A \cup {r}) \cap DurableNodes = (A \cap DurableNodes) \cup {r} /\ r \notin A \cap DurableNodes
    BY <1>3
  <2>2. Cardinality((A \cap DurableNodes) \cup {r}) = Cardinality(A \cap DurableNodes) + 1
    BY <1>1, <2>1, FS_AddElement
  <2> QED BY <1>2, <1>3, <2>1, <2>2
<1>4. CASE r \notin DurableNodes
  <2>1. (A \cup {r}) \cap DurableNodes = A \cap DurableNodes
    BY <1>4
  <2> QED BY <1>2, <1>4, <2>1
<1> QED BY <1>3, <1>4

\* A put that begins has no acknowledgement yet.
LEMMA PutBeginAcked ==
    ASSUME AckInv, NEW p \in Puts, NEW n \in Nodes, NEW prior \in known, PutBegin(p, n, prior)
    PROVE  Acked(p)' /\ \A q \in Puts : q # p => put'[q] = put[q]
<1> DEFINE H == Legit
<1>1. put \in [Puts -> PutRecs(H)]
  BY DEF AckInv, ObjTypes
<1> HIDE DEF H
<1>2. put'[p].pc = "resolve" /\ put'[p].next = 1 /\ \A q \in Puts : q # p => put'[q] = put[q]
  BY <1>1 DEF PutBegin, NoPut
<1> QED BY <1>2 DEF Acked

\* The coordinator is the first to acknowledge (resolve_and_store_put).
LEMMA PutStoreAcked ==
    ASSUME AckInv, NEW p \in Puts, PutStore(p), PutsStay
    PROVE  Acked(p)' /\ \A q \in Puts : q # p => put'[q] = put[q]
<1> DEFINE H == Legit
           n == put[p].node
           s == ResolveWrite(put[p].set, Sibling(p), mult)
<1>1. /\ put \in [Puts -> PutRecs(H)] /\ store \in [Nodes -> H] /\ put[p].pc = "resolve" /\ put[p].next = 1
      /\ n \in Nodes /\ put[p].set \in H /\ Acked(p) /\ ObjTypes
  BY DEF AckInv, ObjTypes, PutRecs, PutStore, Acked
<1>2. s # <<>> /\ (mult => Covers(s, Sibling(p)))
  BY <1>1, WrittenSibs, HeldFacts DEF ObjTypes, Legit
<1>3. Sibling(p)' = Sibling(p) /\ mult' = mult
  BY <1>1, WrittenStays DEF PutsStay
<1> HIDE DEF H, s
<1>4. CASE /\ store' = [store EXCEPT ![n] = s]
           /\ put' = [put EXCEPT ![p] = [@ EXCEPT !.pc = "fan", !.set = s,
                            !.acks = 1, !.durable = IF n \in DurableNodes THEN 1 ELSE 0]]
  <2> DEFINE d == IF n \in DurableNodes THEN 1 ELSE 0
  <2>1. put' = [put EXCEPT ![p] = [put[p] EXCEPT !.pc = "fan", !.set = s, !.acks = 1, !.durable = d]]
    BY <1>4
  <2>2. Cardinality({n}) = 1 /\ Cardinality({n} \cap DurableNodes) = d
    <3>1. Cardinality({n}) = 1 /\ Cardinality({}) = 0
      BY FS_Singleton, FS_EmptySet
    <3>2. {n} \cap DurableNodes = IF n \in DurableNodes THEN {n} ELSE {}
      OBVIOUS
    <3> QED BY <3>1, <3>2
  <2> HIDE DEF d
  <2>3. /\ put'[p].pc = "fan" /\ put'[p].set = s /\ put'[p].acks = 1 /\ put'[p].durable = d
        /\ put'[p].node = n /\ put'[p].next = 1 /\ \A q \in Puts : q # p => put'[q] = put[q]
    BY <1>1, <2>1 DEF PutRecs
  <2>4. store'[n] = s
    BY <1>1, <1>4
  <2>5. PICK c \in Nodes : c = n
    BY <1>1
  <2>6. AckedBy(p, {c})' /\ {c} \in SUBSET Reached(p)'
    BY <1>2, <1>3, <2>2, <2>3, <2>4, <2>5 DEF AckedBy, Reached
  <2>7. Len(Remote(n)) \in Nat
    BY <1>1, RemoteFacts
  <2>8. put'[p].next <= Len(Remote(put'[p].node)) + 1
    <3>1. put'[p].next = 1 /\ put'[p].node = n
      BY <2>3
    <3>2. 1 <= Len(Remote(n)) + 1
      BY <2>7
    <3> QED BY <3>1, <3>2
  <2>9. Acked(p)'
    <3> HIDE DEF n
    <3>1. put'[p].set # <<>> /\ (mult' => Covers(put'[p].set, Sibling(p)'))
      BY <1>2, <1>3, <2>3
    <3> QED BY <2>3, <2>6, <2>8, <3>1 DEF Acked
  <2> QED BY <2>3, <2>9
<1>5. CASE put' = [put EXCEPT ![p].pc = "error"]
  <2>1. put'[p].pc = "error" /\ \A q \in Puts : q # p => put'[q] = put[q]
    BY <1>1, <1>5 DEF PutRecs
  <2> QED BY <2>1 DEF Acked
<1> QED BY <1>4, <1>5 DEF PutStore, s

\* A replica acknowledges, or does not (fan_write_replicas).
LEMMA PutRequestAcked ==
    ASSUME AckInv, NEW p \in Puts, PutRequest(p), PutsStay, Remembers, NotEmptied
    PROVE  Acked(p)' /\ \A q \in Puts : q # p => put'[q] = put[q]
<1> DEFINE n == put[p].node
           k == put[p].next
           r == Remote(n)[k]
           s == put[p].set
<1>1. /\ store \in [Nodes -> Legit] /\ put[p].pc = "fan" /\ n \in Nodes /\ k \in Nat \ {0} /\ k <= Len(Remote(n))
      /\ put[p].acks \in Nat /\ put[p].durable \in Nat /\ Acked(p) /\ ObjTypes
  BY DEF AckInv, ObjTypes, PutRecs, PutRequest
<1>2. s # <<>> /\ (mult => Covers(s, Sibling(p)))
  BY <1>1 DEF Acked
<1>3. Sibling(p)' = Sibling(p) /\ mult' = mult
  BY <1>1, WrittenStays DEF PutsStay
<1>4. r \in Nodes /\ r \notin Reached(p)
  BY <1>1, RemoteNode, ReachedNew
<1>5. PICK A \in SUBSET Reached(p) : AckedBy(p, A)
  BY <1>1 DEF Acked
<1>6. Len(Remote(n)) \in Nat
  BY <1>1, RemoteFacts
<1>7. A \subseteq Nodes
  BY <1>1, <1>6, ReachedNodes
<1>8. /\ \A q \in Puts : q # p => put'[q] = put[q]
      /\ put'[p].pc = "fan" /\ put'[p].node = n /\ put'[p].set = s /\ put'[p].next = k + 1
      /\ \/ /\ store' = [store EXCEPT ![r] = s] /\ put'[p].acks = put[p].acks + 1
            /\ put'[p].durable = IF r \in DurableNodes THEN put[p].durable + 1 ELSE put[p].durable
         \/ put'[p].acks = put[p].acks /\ put'[p].durable = put[p].durable
  BY <1>1, PutRequestPut
<1>9. Reached(p)' = Reached(p) \cup {r}
  <2>1. 1..((k + 1) - 1) = (1..(k - 1)) \cup {k}
    BY <1>1
  <2>2. Reached(p)' = {n} \cup {Remote(n)[i] : i \in 1..((k + 1) - 1)}
    BY <1>8 DEF Reached
  <2> QED BY <2>1, <2>2 DEF Reached
<1>10. /\ mult' /\ p \notin forgotten' => \A a \in A : Covers(store'[a], Sibling(p)')
       /\ NoDels' => \A a \in A : store'[a] # <<>>
  BY <1>1, <1>5, <1>7, AckedByStays
<1>11. \E B \in SUBSET Reached(p)' : AckedBy(p, B)'
  <2>1. CASE /\ store' = [store EXCEPT ![r] = s] /\ put'[p].acks = put[p].acks + 1
             /\ put'[p].durable = IF r \in DurableNodes THEN put[p].durable + 1 ELSE put[p].durable
    <3>1. r \notin A
      BY <1>4, <1>5
    <3>2. /\ Cardinality(A \cup {r}) = put[p].acks + 1
          /\ Cardinality((A \cup {r}) \cap DurableNodes) =
                  IF r \in DurableNodes THEN put[p].durable + 1 ELSE put[p].durable
      BY <1>4, <1>5, <1>7, <3>1, AckCount DEF AckedBy
    <3>3. store'[r] = s
      BY <1>1, <1>4, <2>1
    <3>4. PICK c \in Nodes : c = r
      BY <1>4
    <3>5. AckedBy(p, A \cup {c})'
      <4>1. mult' /\ p \notin forgotten' => \A a \in A \cup {c} : Covers(store'[a], Sibling(p)')
        BY <1>2, <1>3, <1>10, <3>3, <3>4
      <4>2. NoDels' => \A a \in A \cup {c} : store'[a] # <<>>
        BY <1>2, <1>10, <3>3, <3>4
      <4>3. Cardinality(A \cup {c}) = put'[p].acks /\ Cardinality((A \cup {c}) \cap DurableNodes) = put'[p].durable
        BY <2>1, <3>2, <3>4
      <4> QED BY <4>1, <4>2, <4>3 DEF AckedBy
    <3>6. A \cup {c} \in SUBSET Reached(p)'
      BY <1>5, <1>9, <3>4
    <3> QED BY <3>5, <3>6
  <2>2. CASE put'[p].acks = put[p].acks /\ put'[p].durable = put[p].durable
    <3>1. AckedBy(p, A)'
      BY <1>5, <1>10, <2>2 DEF AckedBy
    <3> QED BY <1>5, <1>9, <3>1
  <2> QED BY <1>8, <2>1, <2>2
<1>12. put'[p].next <= Len(Remote(put'[p].node)) + 1
  <2> HIDE DEF n, k
  <2> QED BY <1>1, <1>6, <1>8
<1>13. put'[p].set # <<>> /\ (mult' => Covers(put'[p].set, Sibling(p)'))
  BY <1>2, <1>3, <1>8
<1> QED BY <1>8, <1>11, <1>12, <1>13 DEF Acked

\* The quorum is checked on what was acknowledged (check_write_quorum).
LEMMA PutFinishAcked ==
    ASSUME AckInv, NEW p \in Puts, PutFinish(p), PutsStay, Remembers, NotEmptied
    PROVE  Acked(p)' /\ \A q \in Puts : q # p => put'[q] = put[q]
<1> DEFINE H == Legit
           n == put[p].node
           c == IF CheckWriteQuorum(put[p], n) THEN "ok" ELSE "error"
<1>1. put \in [Puts -> PutRecs(H)] /\ put[p].pc = "fan" /\ n \in Nodes /\ Acked(p) /\ ObjTypes
  BY DEF AckInv, ObjTypes, PutRecs, PutFinish
<1>2. put' = [put EXCEPT ![p].pc = c]
  BY DEF PutFinish
<1>3. c \in {"ok", "error"} /\ (c = "ok" <=> CheckWriteQuorum(put[p], n))
  OBVIOUS
<1> HIDE DEF H, c
<1>4. /\ put'[p].pc = c /\ put'[p].node = n /\ put'[p].set = put[p].set /\ put'[p].next = put[p].next
      /\ put'[p].acks = put[p].acks /\ put'[p].durable = put[p].durable
      /\ \A q \in Puts : q # p => put'[q] = put[q]
  BY <1>1, <1>2 DEF PutRecs
<1> SUFFICES ASSUME c = "ok" PROVE Acked(p)'
  BY <1>3, <1>4 DEF Acked
<1>5. CheckWriteQuorum(put'[p], put'[p].node)
  BY <1>3, <1>4 DEF CheckWriteQuorum
<1>6. PICK A \in SUBSET Reached(p) : AckedBy(p, A)
  BY <1>1 DEF Acked
<1>7. A \subseteq Nodes
  BY <1>1, ReachedNodes DEF Acked
<1>8. AckedBy(p, A)'
  BY <1>1, <1>4, <1>6, <1>7, AckedByStays DEF AckedBy
<1>9. Reached(p)' = Reached(p)
  BY <1>4 DEF Reached
<1>10. Sibling(p)' = Sibling(p) /\ mult' = mult
  BY <1>1, WrittenStays DEF PutsStay
<1>11. /\ put'[p].next <= Len(Remote(put'[p].node)) + 1
       /\ put'[p].set # <<>> /\ (mult' => Covers(put'[p].set, Sibling(p)'))
  BY <1>1, <1>4, <1>10 DEF Acked
<1> QED BY <1>4, <1>5, <1>6, <1>8, <1>9, <1>11 DEF Acked

\* At the start no put has an acknowledgement.
LEMMA AckInit == ObjectInit => AckInv
<1> SUFFICES ASSUME ObjectInit PROVE OpsHold /\ \A p \in Puts : Acked(p)
  BY ObjTypesInit DEF AckInv
<1>1. OpsHold
  BY DEF ObjectInit, OpsHold, HoldsSome
<1>2. \A p \in Puts : put[p].pc = "idle"
  BY DEF ObjectInit, NoPut
<1> QED BY <1>1, <1>2 DEF Acked

\* Every step keeps the acknowledgements of the puts.
LEMMA AckNext == AckInv /\ [ObjectNext]_objectVars => AckInv'
<1> SUFFICES ASSUME AckInv, [ObjectNext]_objectVars PROVE AckInv'
  OBVIOUS
<1>1. ObjTypes /\ ObjTypes' /\ PutsStay /\ Remembers /\ NotEmptied /\ OpsHold'
  BY ObjTypesNext, NextRemembers, EmptiedNext DEF AckInv
<1>2. ASSUME NEW q \in Puts, put'[q] = put[q] PROVE Acked(q)'
  BY <1>1, <1>2, AckedStays DEF AckInv
<1>3. ASSUME NEW p \in Puts, Acked(p)' /\ \A q \in Puts : q # p => put'[q] = put[q] PROVE AckInv'
  BY <1>1, <1>2, <1>3 DEF AckInv
<1>4. ASSUME put' = put PROVE AckInv'
  BY <1>1, <1>2, <1>4 DEF AckInv
<1>5. ASSUME NEW p \in Puts, NEW n \in Nodes, NEW prior \in known, PutBegin(p, n, prior) PROVE AckInv'
  BY <1>3, <1>5, PutBeginAcked
<1>6. ASSUME NEW p \in Puts, PutStore(p) PROVE AckInv'
  BY <1>1, <1>3, <1>6, PutStoreAcked
<1>7. ASSUME NEW p \in Puts, PutRequest(p) PROVE AckInv'
  BY <1>1, <1>3, <1>7, PutRequestAcked
<1>8. ASSUME NEW p \in Puts, PutFinish(p) PROVE AckInv'
  BY <1>1, <1>3, <1>8, PutFinishAcked
<1>9. ASSUME NEW g \in Gets, NEW n \in Nodes, GetBegin(g, n) PROVE put' = put
  BY <1>9 DEF GetBegin
<1>10. ASSUME NEW g \in Gets, GetRequest(g) \/ GetFinish(g) PROVE put' = put
  BY <1>10, GetRequestCases DEF GetFinish
<1>11. ASSUME NEW d \in Dels, (\E n \in Nodes : DelBegin(d, n)) \/ DelLocal(d) PROVE put' = put
  BY <1>11 DEF DelBegin, DelLocal
<1>12. ASSUME NEW l \in Nodes \X Nodes, ApplyOp(l) \/ Drop(l) PROVE put' = put
  BY <1>12 DEF ApplyOp, Drop
<1>13. CASE UNCHANGED objectVars
  BY <1>4, <1>13 DEF objectVars
<1> QED BY <1>4, <1>5, <1>6, <1>7, <1>8, <1>9, <1>10, <1>11, <1>12, <1>13 DEF ObjectNext

\* The acknowledgements of a put are, always, nodes that keep it.
LEMMA AckAlways == ObjectSpec => []AckInv
BY AckInit, AckNext, PTL DEF ObjectSpec

\* The target of a fan-out is a number.
LEMMA TargetNat == \A n \in Nodes : Target(n) \in Nat
<1> TAKE n \in Nodes
<1>1. Replicas[n] \in Seq(Nodes)
  BY Shape
<1> QED BY <1>1, LenProperties DEF Target

\* Who answered and was not forgotten is covered by a quorum.
LEMMA AckQuorum == AckInv => QuorumCovered
<1> SUFFICES ASSUME AckInv, NEW p \in Puts \ forgotten, mult, put[p].pc = "ok", put[p].acks > 1
             PROVE  LET n == put[p].node
                        covering == {r \in Nodes : Covers(store[r], Sibling(p))}
                    IN  /\ Cardinality(covering) >= Min2(W, Target(n))
                        /\ Cardinality(covering \cap DurableNodes) >= Min2(DW, Target(n))
  BY DEF QuorumCovered
<1> DEFINE n == put[p].node
           C == {r \in Nodes : Covers(store[r], Sibling(p))}
<1>1. ObjTypes /\ Acked(p) /\ n \in Nodes /\ put[p].acks \in Nat /\ put[p].durable \in Nat
  BY DEF AckInv, ObjTypes, PutRecs
<1>2. PICK A \in SUBSET Reached(p) : AckedBy(p, A)
  BY <1>1 DEF Acked
<1>3. A \subseteq Nodes
  BY <1>1, ReachedNodes DEF Acked
<1>4. A \subseteq C
  BY <1>2, <1>3 DEF AckedBy
<1>5. put[p].acks >= Min2(W, Target(n)) /\ put[p].durable >= Min2(DW, Target(n))
  BY <1>1 DEF Acked, CheckWriteQuorum
<1> HIDE DEF n
<1>6. IsFiniteSet(C) /\ IsFiniteSet(C \cap DurableNodes)
  <2>1. C \subseteq Nodes /\ C \cap DurableNodes \subseteq Nodes /\ IsFiniteSet(Nodes)
    BY Shape
  <2> HIDE DEF C
  <2> QED BY <2>1, FS_Subset
<1> HIDE DEF C
<1>7. Cardinality(A) <= Cardinality(C) /\ Cardinality(C) \in Nat
  BY <1>4, <1>6, FS_Subset, FS_CardinalityType
<1>8. /\ Cardinality(A \cap DurableNodes) <= Cardinality(C \cap DurableNodes)
      /\ Cardinality(C \cap DurableNodes) \in Nat
  <2>1. A \cap DurableNodes \in SUBSET (C \cap DurableNodes)
    BY <1>4
  <2> QED BY <1>6, <2>1, FS_Subset, FS_CardinalityType
<1>9. Cardinality(A) = put[p].acks /\ Cardinality(A \cap DurableNodes) = put[p].durable
  BY <1>2 DEF AckedBy
<1>10. Min2(W, Target(n)) \in Nat /\ Min2(DW, Target(n)) \in Nat
  BY <1>1, TargetNat, Shape DEF Min2, n
<1>11. Cardinality(C) >= Min2(W, Target(n)) /\ Cardinality(C \cap DurableNodes) >= Min2(DW, Target(n))
  BY <1>1, <1>5, <1>7, <1>8, <1>9, <1>10
<1> QED BY <1>11 DEF n, C

\* A put that is answered and that no store forgets stays covered by W nodes, DW
\* of them durable, in a bucket that keeps siblings (check_write_quorum).
THEOREM QuorumsStayCovered == ObjectSpec => []QuorumCovered
BY AckAlways, AckQuorum, PTL

-----------------------------------------------------------------------------
(* The Riak object: a read quorum meets every write quorum.                  *)

\* The nodes a get has asked so far.
Asked(g) == {get[g].node} \cup {Remote(get[g].node)[i] : i \in 1..(get[g].next - 1)}

\* W nodes that B leaves out cover the put, or hold something.
CoveredOff(p, B) == \E A \in SUBSET (Nodes \ B) : Cardinality(A) >= W /\ \A a \in A : Covers(store[a], Sibling(p))
FilledOff(B) == \E A \in SUBSET (Nodes \ B) : Cardinality(A) >= W /\ \A a \in A : store[a] # <<>>

\* B are the nodes that answered the get.
ReadBy(g, B) ==
    /\ Cardinality(B) = get[g].responses
    /\ mult => \A p \in get[g].must \ forgotten : Covers(get[g].merged, Sibling(p)) \/ CoveredOff(p, B)
    /\ get[g].must # {} /\ NoDels => get[g].merged # <<>> \/ FilledOff(B)

ReadSafe(g) ==
    get[g].pc \in {"fan", "ok"} /\ ~get[g].misread =>
        /\ \A p \in get[g].must : put[p].pc # "idle"
        /\ get[g].next <= Len(Remote(get[g].node)) + 1
        /\ get[g].pc = "ok" => CheckReadQuorum(get[g].responses, get[g].node)
        /\ \E B \in SUBSET Asked(g) : ReadBy(g, B)

ReadInv == AckInv /\ \A g \in Gets : ReadSafe(g)

\* A get asks nodes, none of them twice.
LEMMA AskedNodes ==
    ASSUME ObjTypes, NEW g \in Gets
    PROVE  /\ get[g].next <= Len(Remote(get[g].node)) + 1 => Asked(g) \subseteq Nodes
           /\ get[g].next <= Len(Remote(get[g].node)) =>
                Remote(get[g].node)[get[g].next] \in Nodes \ Asked(g)
<1> DEFINE n == get[g].node
           k == get[g].next
           s == Remote(n)
<1>1. n \in Nodes /\ k \in Nat \ {0}
  BY DEF ObjTypes, GetRecs
<1>2. s \in Seq(Nodes) /\ Len(s) \in Nat /\ n \notin Elems(s) /\ Uniq(s) /\ DOMAIN s = 1..Len(s)
  BY <1>1, RemoteFacts, LenProperties
<1>3. \A i \in 1..Len(s) : s[i] \in Nodes /\ s[i] # n
  BY <1>2, ElementOfSeq DEF Elems
<1>4. Asked(g) = {n} \cup {s[i] : i \in 1..(k - 1)}
  BY DEF Asked
<1> HIDE DEF n, k, s
<1>5. k <= Len(s) + 1 => 1..(k - 1) \subseteq 1..Len(s)
  BY <1>1, <1>2
<1>6. k <= Len(s) + 1 => Asked(g) \subseteq Nodes
  BY <1>1, <1>3, <1>4, <1>5
<1>7. ASSUME k <= Len(s) PROVE s[k] \in Nodes \ Asked(g)
  <2>1. k \in 1..Len(s) /\ \A i \in 1..(k - 1) : i \in 1..Len(s) /\ i # k
    BY <1>1, <1>2, <1>7
  <2>2. \A i \in 1..(k - 1) : s[i] # s[k]
    BY <1>2, <2>1 DEF Uniq
  <2> QED BY <1>3, <1>4, <2>1, <2>2
<1> QED BY <1>6, <1>7 DEF n, k, s

\* A step of others leaves what a get knows.
LEMMA OffStays ==
    ASSUME PutsStay, Remembers, NotEmptied, NEW B
    PROVE  /\ \A p \in Puts \ forgotten' : put[p].pc # "idle" /\ CoveredOff(p, B) => CoveredOff(p, B)'
           /\ NoDels' /\ FilledOff(B) => FilledOff(B)'
<1>1. ASSUME NEW p \in Puts \ forgotten', put[p].pc # "idle", CoveredOff(p, B) PROVE CoveredOff(p, B)'
  <2>1. PICK A \in SUBSET (Nodes \ B) : Cardinality(A) >= W /\ \A a \in A : Covers(store[a], Sibling(p))
    BY <1>1 DEF CoveredOff
  <2>2. Sibling(p)' = Sibling(p)
    BY <1>1, WrittenStays
  <2>3. \A a \in A : Covers(store'[a], Sibling(p)')
    BY <1>1, <2>1, <2>2 DEF Remembers
  <2> QED BY <2>1, <2>3 DEF CoveredOff
<1>2. ASSUME NoDels', FilledOff(B) PROVE FilledOff(B)'
  <2>1. PICK A \in SUBSET (Nodes \ B) : Cardinality(A) >= W /\ \A a \in A : store[a] # <<>>
    BY <1>2 DEF FilledOff
  <2>2. \A a \in A : store'[a] # <<>>
    BY <1>2, <2>1 DEF NotEmptied
  <2> QED BY <2>1, <2>2 DEF FilledOff
<1> QED BY <1>1, <1>2

SameFields(g) ==
    /\ get'[g].node = get[g].node /\ get'[g].merged = get[g].merged /\ get'[g].next = get[g].next
    /\ get'[g].responses = get[g].responses /\ get'[g].must = get[g].must
    /\ get'[g].misread = get[g].misread

\* What the nodes that answered leave open stays so while others act.
LEMMA ReadByStays ==
    ASSUME ObjTypes, PutsStay, Remembers, NotEmptied, NEW g \in Gets, NEW B, ReadBy(g, B),
           \A p \in get[g].must : put[p].pc # "idle",
           get'[g].merged = get[g].merged, get'[g].must = get[g].must, get'[g].responses = get[g].responses
    PROVE  ReadBy(g, B)'
<1>1. get[g].must \subseteq Puts
  BY DEF ObjTypes, GetRecs
<1>2. ASSUME mult', NEW p \in get'[g].must \ forgotten'
      PROVE  Covers(get'[g].merged, Sibling(p)') \/ CoveredOff(p, B)'
  <2>1. p \in Puts \ forgotten' /\ p \notin forgotten /\ put[p].pc # "idle" /\ mult
    BY <1>1, <1>2 DEF Remembers, PutsStay
  <2>2. Sibling(p)' = Sibling(p)
    BY <2>1, WrittenStays
  <2>3. Covers(get[g].merged, Sibling(p)) \/ CoveredOff(p, B)
    BY <1>2, <2>1 DEF ReadBy
  <2> QED BY <2>1, <2>2, <2>3, OffStays
<1>3. ASSUME get'[g].must # {}, NoDels' PROVE get'[g].merged # <<>> \/ FilledOff(B)'
  <2>1. NoDels
    BY <1>3 DEF NotEmptied
  <2> QED BY <1>3, <2>1, OffStays DEF ReadBy
<1> QED BY <1>2, <1>3 DEF ReadBy

\* A get that does not move, or that ends, stays safe.
LEMMA ReadStays ==
    ASSUME ObjTypes, PutsStay, Remembers, NotEmptied, NEW g \in Gets, ReadSafe(g), SameFields(g),
           \/ get'[g].pc = get[g].pc
           \/ get[g].pc = "fan" /\ (get'[g].pc = "ok" => CheckReadQuorum(get[g].responses, get[g].node))
    PROVE  ReadSafe(g)'
<1> SUFFICES ASSUME get'[g].pc \in {"fan", "ok"}, ~get'[g].misread
             PROVE  /\ \A p \in get'[g].must : put'[p].pc # "idle"
                    /\ get'[g].next <= Len(Remote(get'[g].node)) + 1
                    /\ get'[g].pc = "ok" => CheckReadQuorum(get'[g].responses, get'[g].node)
                    /\ \E B \in SUBSET Asked(g)' : ReadBy(g, B)'
  BY DEF ReadSafe
<1>1. get[g].must \subseteq Puts
  BY DEF ObjTypes, GetRecs
<1>2. get[g].pc \in {"fan", "ok"} /\ ~get[g].misread
  BY DEF SameFields
<1>3. PICK B \in SUBSET Asked(g) : ReadBy(g, B)
  BY <1>2 DEF ReadSafe
<1>4. \A p \in get[g].must : put[p].pc # "idle"
  BY <1>2 DEF ReadSafe
<1>5. ReadBy(g, B)'
  BY <1>3, <1>4, ReadByStays DEF SameFields
<1>6. Asked(g)' = Asked(g)
  BY DEF Asked, SameFields
<1>7. \A p \in get'[g].must : put'[p].pc # "idle"
  BY <1>1, <1>4 DEF PutsStay, SameFields
<1>8. /\ get'[g].next <= Len(Remote(get'[g].node)) + 1
      /\ get'[g].pc = "ok" => CheckReadQuorum(get'[g].responses, get'[g].node)
  BY <1>2 DEF ReadSafe, SameFields
<1> QED BY <1>3, <1>5, <1>6, <1>7, <1>8

\* The get u is t, without its quiet.
ButQuiet(u, t) ==
    /\ u.pc = t.pc /\ u.node = t.node /\ u.merged = t.merged /\ u.replies = t.replies
    /\ u.responses = t.responses /\ u.next = t.next /\ u.must = t.must /\ u.misread = t.misread
    /\ ~u.quiet

\* Ending the quiet of gets changes nothing else.
LEMMA DisturbedFields == \A H : \A f \in [Gets -> GetRecs(H)] : \A g \in Gets : ButQuiet(Disturbed(f)[g], f[g])
<1> TAKE H
<1> TAKE f \in [Gets -> GetRecs(H)]
<1> TAKE g \in Gets
<1>1. Disturbed(f)[g] = [f[g] EXCEPT !.quiet = FALSE] /\ f[g] \in GetRecs(H)
  BY DEF Disturbed
<1>2. \A t \in GetRecs(H) : ButQuiet([t EXCEPT !.quiet = FALSE], t)
  BY DEF GetRecs, ButQuiet
<1> QED BY <1>1, <1>2

\* A get that is disturbed loses its quiet only.
LEMMA DisturbedSame ==
    ASSUME NEW H, get \in [Gets -> GetRecs(H)], get' = Disturbed(get), NEW g \in Gets
    PROVE  SameFields(g) /\ get'[g].pc = get[g].pc
<1>1. ButQuiet(get'[g], get[g])
  BY DisturbedFields
<1> QED BY <1>1 DEF ButQuiet, SameFields

\* W nodes that cover the put, of which n's set is known.
LEMMA OffBegin ==
    ASSUME NEW A \in SUBSET Nodes, NEW n, Cardinality(A) >= W
    PROVE  /\ \A p : (\A a \in A : Covers(store[a], Sibling(p))) => Covers(store[n], Sibling(p)) \/ CoveredOff(p, {n})
           /\ (\A a \in A : store[a] # <<>>) => store[n] # <<>> \/ FilledOff({n})
<1>1. CASE n \in A
  BY <1>1
<1>2. CASE n \notin A
  <2>1. A \in SUBSET (Nodes \ {n})
    BY <1>2
  <2> QED BY <2>1 DEF CoveredOff, FilledOff
<1> QED BY <1>1, <1>2

\* A get begins with the coordinator's own set (handle_get).
LEMMA GetBeginSafe ==
    ASSUME ReadInv, NEW g \in Gets, NEW n \in Nodes, GetBegin(g, n), PutsStay
    PROVE  ReadSafe(g)' /\ \A h \in Gets : h # g => SameFields(h) /\ get'[h].pc = get[h].pc
<1> DEFINE H == Legit
<1>1. /\ get \in [Gets -> GetRecs(H)] /\ store \in [Nodes -> H] /\ ObjTypes /\ NoGet \in GetRecs(H)
      /\ UNCHANGED <<mult, store, put, del, forgotten>>
  BY NoPutType DEF ReadInv, AckInv, ObjTypes, GetBegin
<1>2. Disturbed(get) \in [Gets -> GetRecs(H)]
  BY <1>1, DisturbedType
<1>3. \A h \in Gets : h # g => get'[h] = Disturbed(get)[h]
  <2> HIDE DEF H
  <2> QED BY <1>2 DEF GetBegin
<1>4. \A h \in Gets : h # g => SameFields(h) /\ get'[h].pc = get[h].pc
  <2> HIDE DEF H
  <2> TAKE h \in Gets
  <2> HAVE h # g
  <2>1. /\ Disturbed(get)[h].pc = get[h].pc /\ Disturbed(get)[h].node = get[h].node
        /\ Disturbed(get)[h].merged = get[h].merged /\ Disturbed(get)[h].responses = get[h].responses
        /\ Disturbed(get)[h].next = get[h].next /\ Disturbed(get)[h].must = get[h].must
        /\ Disturbed(get)[h].misread = get[h].misread
    <3>1. ButQuiet(Disturbed(get)[h], get[h])
      BY <1>1, DisturbedFields
    <3> QED BY <3>1 DEF ButQuiet
  <2>2. get'[h] = Disturbed(get)[h]
    BY <1>3
  <2> QED BY <2>1, <2>2 DEF SameFields
<1>5. CASE get' = [Disturbed(get) EXCEPT ![g].pc = "error"]
  <2> HIDE DEF H
  <2>1. get'[g].pc = "error"
    BY <1>2, <1>5 DEF GetRecs
  <2> QED BY <1>4, <2>1 DEF ReadSafe
<1>6. CASE get' = [Disturbed(get) EXCEPT ![g] = [NoGet EXCEPT
                !.pc = "fan", !.node = n, !.merged = store[n], !.responses = 1,
                !.must = QuorumAcked, !.quiet = Idle]]
  <2> HIDE DEF H
  <2> DEFINE rec == [NoGet EXCEPT !.pc = "fan", !.node = n, !.merged = store[n], !.responses = 1,
                                    !.must = QuorumAcked, !.quiet = Idle]
  <2>1. rec.pc = "fan" /\ rec.node = n /\ rec.merged = store[n] /\ rec.responses = 1
        /\ rec.must = QuorumAcked /\ rec.next = 1
    BY DEF NoGet
  <2>2. get'[g] = rec
    <3> HIDE DEF rec
    <3> QED BY <1>2, <1>6 DEF rec
  <2> HIDE DEF rec
  <2>3. \A p \in QuorumAcked : /\ p \in Puts /\ put[p].pc = "ok" /\ Acked(p)
                               /\ \E A \in SUBSET Nodes : AckedBy(p, A) /\ Cardinality(A) >= W
    <3> TAKE p \in QuorumAcked
    <3>1. p \in Puts /\ put[p].pc = "ok" /\ put[p].acks >= W /\ Acked(p)
      BY DEF QuorumAcked, ReadInv, AckInv
    <3>2. PICK A \in SUBSET Reached(p) : AckedBy(p, A)
      BY <3>1 DEF Acked
    <3>3. A \subseteq Nodes
      BY <1>1, <3>1, ReachedNodes DEF Acked
    <3>4. Cardinality(A) >= W
      BY <3>1, <3>2 DEF AckedBy
    <3> QED BY <3>1, <3>2, <3>3, <3>4
  <2>4. \A p : Sibling(p)' = Sibling(p) /\ (CoveredOff(p, {n})' <=> CoveredOff(p, {n}))
    BY <1>1 DEF Sibling, CoveredOff
  <2>5. (NoDels' <=> NoDels) /\ (FilledOff({n})' <=> FilledOff({n}))
    BY <1>1 DEF NoDels, FilledOff
  <2>6. ASSUME mult', NEW p \in get'[g].must \ forgotten'
        PROVE  Covers(get'[g].merged, Sibling(p)') \/ CoveredOff(p, {n})'
    <3>1. p \in QuorumAcked /\ p \notin forgotten /\ mult
      BY <1>1, <2>1, <2>2, <2>6
    <3>2. PICK A \in SUBSET Nodes : AckedBy(p, A) /\ Cardinality(A) >= W
      BY <2>3, <3>1
    <3>3. \A a \in A : Covers(store[a], Sibling(p))
      BY <3>1, <3>2 DEF AckedBy
    <3>4. Covers(store[n], Sibling(p)) \/ CoveredOff(p, {n})
      BY <3>2, <3>3, OffBegin
    <3> QED BY <2>1, <2>2, <2>4, <3>4
  <2>7. ASSUME get'[g].must # {}, NoDels' PROVE get'[g].merged # <<>> \/ FilledOff({n})'
    <3>1. PICK p : p \in QuorumAcked
      BY <2>1, <2>2, <2>7
    <3>2. PICK A \in SUBSET Nodes : AckedBy(p, A) /\ Cardinality(A) >= W
      BY <2>3, <3>1
    <3>3. \A a \in A : store[a] # <<>>
      BY <2>5, <2>7, <3>2 DEF AckedBy
    <3>4. store[n] # <<>> \/ FilledOff({n})
      BY <3>2, <3>3, OffBegin
    <3> QED BY <2>1, <2>2, <2>5, <3>4
  <2>8. ReadBy(g, {n})'
    <3>1. Cardinality({n}) = get'[g].responses
      BY <2>1, <2>2, FS_Singleton
    <3> QED BY <2>6, <2>7, <3>1 DEF ReadBy
  <2>9. {n} \in SUBSET Asked(g)'
    BY <2>1, <2>2 DEF Asked
  <2>10. \A p \in get'[g].must : put'[p].pc # "idle"
    BY <1>1, <2>1, <2>2, <2>3
  <2>11. get'[g].next <= Len(Remote(get'[g].node)) + 1
    <3>1. Len(Remote(n)) \in Nat
      BY RemoteFacts
    <3>2. 1 <= Len(Remote(n)) + 1
      BY <3>1
    <3> QED BY <2>1, <2>2, <3>2
  <2>12. get'[g].pc # "ok"
    BY <2>1, <2>2
  <2> QED BY <1>4, <2>8, <2>9, <2>10, <2>11, <2>12 DEF ReadSafe
<1> QED BY <1>5, <1>6 DEF GetBegin

\* An answer settles what its node covered.
LEMMA OffAnswer ==
    ASSUME NEW B, NEW r
    PROVE  /\ \A p : CoveredOff(p, B) => Covers(store[r], Sibling(p)) \/ CoveredOff(p, B \cup {r})
           /\ FilledOff(B) => store[r] # <<>> \/ FilledOff(B \cup {r})
<1>1. ASSUME NEW p, CoveredOff(p, B) PROVE Covers(store[r], Sibling(p)) \/ CoveredOff(p, B \cup {r})
  <2>1. PICK A \in SUBSET (Nodes \ B) : Cardinality(A) >= W /\ \A a \in A : Covers(store[a], Sibling(p))
    BY <1>1 DEF CoveredOff
  <2>2. r \in A \/ A \in SUBSET (Nodes \ (B \cup {r}))
    OBVIOUS
  <2> QED BY <2>1, <2>2 DEF CoveredOff
<1>2. ASSUME FilledOff(B) PROVE store[r] # <<>> \/ FilledOff(B \cup {r})
  <2>1. PICK A \in SUBSET (Nodes \ B) : Cardinality(A) >= W /\ \A a \in A : store[a] # <<>>
    BY <1>2 DEF FilledOff
  <2>2. r \in A \/ A \in SUBSET (Nodes \ (B \cup {r}))
    OBVIOUS
  <2> QED BY <2>1, <2>2 DEF FilledOff
<1> QED BY <1>1, <1>2

\* What a merge covers (merge_sibling_sets).
LEMMA MergeCovers ==
    ASSUME ObjTypes, mult, NEW s \in Legit, NEW t \in Legit, NEW x \in Sib, Covers(s, x) \/ Covers(t, x)
    PROVE  Covers(MergeSets(s, t, mult), x)
<1>1. Written \subseteq Sib /\ s \in Fronts(Written) /\ t \in Fronts(Written)
  BY WrittenSibs DEF Legit, Held
<1>2. /\ MergeSets(s, t, mult) \in Fronts(Written)
      /\ CoversAll(MergeSets(s, t, mult), s) /\ CoversAll(MergeSets(s, t, mult), t)
  BY <1>1, MergeFacts DEF ObjTypes
<1>3. s \in Seq(Sib) /\ t \in Seq(Sib) /\ MergeSets(s, t, mult) \in Seq(Sib)
  <2>1. s \in Seq(Written) /\ t \in Seq(Written) /\ MergeSets(s, t, mult) \in Seq(Written)
    BY <1>1, <1>2 DEF Fronts
  <2>2. \A q : q \in Seq(Written) => q \in Seq(Sib)
    BY <1>1
  <2> QED BY <2>1, <2>2
<1> QED BY <1>2, <1>3, CoverTrans

\* A replica answers a get, or does not (fan_read_replicas).
LEMMA GetRequestSafe ==
    ASSUME ReadInv, NEW g \in Gets, GetRequest(g), PutsStay, Remembers, NotEmptied
    PROVE  /\ ReadSafe(g)'
           /\ \A h \in Gets : h # g => SameFields(h) /\ get'[h].pc = get[h].pc
<1> DEFINE H == Legit
           n == get[g].node
           k == get[g].next
           m == get[g].merged
           c == Remote(n)[k]
<1>1. /\ get \in [Gets -> GetRecs(H)] /\ store \in [Nodes -> H] /\ ObjTypes /\ ReadSafe(g)
      /\ get[g] \in GetRecs(H) /\ n \in Nodes /\ k \in Nat \ {0} /\ m \in H /\ get[g].responses \in Nat
      /\ get[g].must \subseteq Puts
  BY DEF ReadInv, AckInv, ObjTypes, GetRecs
<1>2. /\ get[g].pc = "fan" /\ k <= Len(Remote(n)) /\ UNCHANGED <<mult, store, put, del, forgotten>>
      /\ \/ get' = [get EXCEPT ![g] = Answer(get[g], mult, c, store[c])]
         \/ get' = Disturbed([get EXCEPT ![g] = [Answer(get[g], mult, c, <<>>) EXCEPT !.misread = TRUE]])
         \/ get' = [get EXCEPT ![g].next = @ + 1]
  BY GetRequestCases
<1>3. PICK r \in Nodes : r = c /\ r \notin Asked(g)
  BY <1>1, <1>2, AskedNodes
<1>4. \A s \in H : MergeSets(m, s, mult) \in H
  BY <1>1, WrittenSibs, HeldFacts DEF ObjTypes, Legit
<1>5. <<>> \in H
  BY <1>1, NoPutType
<1>6. Len(Remote(n)) \in Nat
  BY <1>1, RemoteFacts
<1>7. \A p : Sibling(p)' = Sibling(p) /\ \A B : CoveredOff(p, B)' <=> CoveredOff(p, B)
  BY <1>2 DEF Sibling, CoveredOff
<1>8. (NoDels' <=> NoDels) /\ \A B : FilledOff(B)' <=> FilledOff(B)
  BY <1>2 DEF NoDels, FilledOff
<1> HIDE DEF c
\* Not asked further, and asked once more.
<1>9. ASSUME get'[g].node = n, get'[g].next = k + 1
      PROVE  /\ Asked(g)' = Asked(g) \cup {r}
             /\ get'[g].next <= Len(Remote(get'[g].node)) + 1
  <2>1. 1..((k + 1) - 1) = (1..(k - 1)) \cup {k}
    BY <1>1
  <2>2. Asked(g)' = {n} \cup {Remote(n)[i] : i \in 1..((k + 1) - 1)}
    BY <1>9 DEF Asked
  <2>3. k + 1 <= Len(Remote(n)) + 1
    <3> HIDE DEF n, k
    <3> QED BY <1>1, <1>2, <1>6
  <2> QED BY <1>3, <1>9, <2>1, <2>2, <2>3 DEF Asked, c
<1>10. CASE get' = [get EXCEPT ![g] = Answer(get[g], mult, c, store[c])]
  <2> DEFINE s == store[r]
             u == Answer(get[g], mult, r, s)
  <2>1. s \in H /\ MergeSets(m, s, mult) \in H
    BY <1>1, <1>3, <1>4
  <2>2. /\ u.pc = get[g].pc /\ u.node = n /\ u.must = get[g].must /\ u.misread = get[g].misread
        /\ u.next = k + 1 /\ u.responses = get[g].responses + 1
        /\ s = <<>> => u.merged = m
        /\ s # <<>> => u.merged = MergeSets(m, s, mult)
    <3> HIDE DEF H, s
    <3>1. MergeSets(get[g].merged, s, mult) \in H
      BY <2>1
    <3>2. Answered(Answer(get[g], mult, r, s), get[g], mult, r, s)
      BY <1>1, <1>3, <2>1, <3>1, AnswerFields
    <3> QED BY <3>2 DEF Answered
  <2>3. get'[g] = u /\ \A h \in Gets : h # g => get'[h] = get[h]
    <3> HIDE DEF H, u
    <3> QED BY <1>1, <1>3, <1>10 DEF u
  <2>4. \A h \in Gets : h # g => SameFields(h) /\ get'[h].pc = get[h].pc
    BY <2>3 DEF SameFields
  <2> SUFFICES ASSUME ~u.misread PROVE ReadSafe(g)'
    BY <2>3, <2>4 DEF ReadSafe
  <2> HIDE DEF u
  <2>5. ~get[g].misread /\ (\A p \in get[g].must : put[p].pc # "idle") /\ \E B \in SUBSET Asked(g) : ReadBy(g, B)
    BY <1>1, <1>2, <2>2 DEF ReadSafe
  <2>6. PICK B \in SUBSET Asked(g) : ReadBy(g, B)
    BY <2>5
  <2>7. B \subseteq Nodes /\ r \notin B
    <3>1. Asked(g) \subseteq Nodes
      <4>1. get[g].next <= Len(Remote(get[g].node)) + 1
        BY <1>1, <1>2, <1>6
      <4> QED BY <1>1, <4>1, AskedNodes
    <3> QED BY <1>3, <2>6, <3>1
  <2>8. Cardinality(B \cup {r}) = get'[g].responses
    <3>1. Cardinality(B) = get[g].responses
      BY <2>6 DEF ReadBy
    <3>2. Cardinality(B \cup {r}) = Cardinality(B) + 1
      BY <1>3, <2>7, AckCount
    <3> QED BY <2>2, <2>3, <3>1, <3>2
  <2>9. \A x : ~Covers(<<>>, x)
    BY CoversDef, ElemsEmpty
  <2>10. ASSUME mult', NEW p \in get'[g].must \ forgotten'
         PROVE  Covers(get'[g].merged, Sibling(p)') \/ CoveredOff(p, B \cup {r})'
    <3>1. p \in get[g].must \ forgotten /\ mult /\ p \in Puts
      BY <1>1, <1>2, <2>2, <2>3, <2>10
    <3>2. Covers(m, Sibling(p)) \/ CoveredOff(p, B)
      BY <2>6, <3>1 DEF ReadBy
    <3>3. Covers(m, Sibling(p)) \/ Covers(s, Sibling(p)) \/ CoveredOff(p, B \cup {r})
      BY <3>2, OffAnswer
    <3>4. Sibling(p) \in Sib
      BY <1>1, <3>1, WrittenSibs
    <3>5. Covers(m, Sibling(p)) \/ Covers(s, Sibling(p)) => Covers(u.merged, Sibling(p))
      <4>1. CASE s = <<>>
        BY <2>2, <2>9, <4>1
      <4>2. CASE s # <<>>
        <5>1. Covers(m, Sibling(p)) \/ Covers(s, Sibling(p)) => Covers(MergeSets(m, s, mult), Sibling(p))
          BY <1>1, <2>1, <3>1, <3>4, MergeCovers
        <5> QED BY <2>2, <4>2, <5>1
      <4> QED BY <4>1, <4>2
    <3> QED BY <1>7, <2>3, <3>3, <3>5
  <2>11. ASSUME get'[g].must # {}, NoDels' PROVE get'[g].merged # <<>> \/ FilledOff(B \cup {r})'
    <3>1. m # <<>> \/ FilledOff(B)
      BY <1>8, <2>2, <2>3, <2>6, <2>11 DEF ReadBy
    <3>2. m # <<>> \/ s # <<>> \/ FilledOff(B \cup {r})
      BY <3>1, OffAnswer
    <3>3. s # <<>> => u.merged # <<>>
      <4>1. s # <<>> => MergeSets(m, s, mult) # <<>>
        BY <1>1, <2>1, WrittenSibs, HeldFacts DEF ObjTypes, Legit
      <4> QED BY <2>2, <4>1
    <3> QED BY <1>8, <2>2, <2>3, <3>2, <3>3
  <2>12. ReadBy(g, B \cup {r})'
    BY <2>8, <2>10, <2>11 DEF ReadBy
  <2>13. Asked(g)' = Asked(g) \cup {r} /\ get'[g].next <= Len(Remote(get'[g].node)) + 1
    BY <1>9, <2>2, <2>3
  <2>14. B \cup {r} \in SUBSET Asked(g)'
    BY <2>6, <2>13
  <2>15. (\A p \in get'[g].must : put'[p].pc # "idle") /\ get'[g].pc # "ok"
    BY <1>2, <2>2, <2>3, <2>5
  <2> QED BY <2>12, <2>13, <2>14, <2>15 DEF ReadSafe
<1>11. CASE get' = Disturbed([get EXCEPT ![g] = [Answer(get[g], mult, c, <<>>) EXCEPT !.misread = TRUE]])
  <2> DEFINE u == [Answer(get[g], mult, r, <<>>) EXCEPT !.misread = TRUE]
             f == [get EXCEPT ![g] = u]
  <2>1. Answer(get[g], mult, r, <<>>) \in GetRecs(H)
    <3> HIDE DEF H
    <3> QED BY <1>1, <1>4, <1>5, AnswerFields
  <2> HIDE DEF H
  <2>2. u \in GetRecs(H) /\ u.misread = TRUE
    BY <2>1 DEF GetRecs
  <2> HIDE DEF u
  <2>3. f \in [Gets -> GetRecs(H)] /\ f[g] = u /\ \A h \in Gets : h # g => f[h] = get[h]
    BY <1>1, <2>2
  <2>4. get' = Disturbed(f)
    BY <1>3, <1>11 DEF u
  <2> HIDE DEF f
  <2>5. \A h \in Gets : /\ get'[h].pc = f[h].pc /\ get'[h].node = f[h].node /\ get'[h].merged = f[h].merged
                        /\ get'[h].responses = f[h].responses /\ get'[h].next = f[h].next
                        /\ get'[h].must = f[h].must /\ get'[h].misread = f[h].misread
    <3> TAKE h \in Gets
    <3>1. /\ Disturbed(f)[h].pc = f[h].pc /\ Disturbed(f)[h].node = f[h].node
          /\ Disturbed(f)[h].merged = f[h].merged /\ Disturbed(f)[h].responses = f[h].responses
          /\ Disturbed(f)[h].next = f[h].next /\ Disturbed(f)[h].must = f[h].must
          /\ Disturbed(f)[h].misread = f[h].misread
      <4>1. ButQuiet(Disturbed(f)[h], f[h])
        BY <2>3, DisturbedFields
      <4> QED BY <4>1 DEF ButQuiet
    <3> QED BY <2>4, <3>1
  <2>6. \A h \in Gets : h # g => SameFields(h) /\ get'[h].pc = get[h].pc
    BY <2>3, <2>5 DEF SameFields
  <2>7. get'[g].misread
    BY <2>2, <2>3, <2>5
  <2> QED BY <2>6, <2>7 DEF ReadSafe
<1>12. CASE get' = [get EXCEPT ![g].next = @ + 1]
  <2> HIDE DEF H
  <2>1. /\ get'[g].pc = get[g].pc /\ get'[g].node = n /\ get'[g].merged = m
        /\ get'[g].responses = get[g].responses /\ get'[g].next = k + 1
        /\ get'[g].must = get[g].must /\ get'[g].misread = get[g].misread
        /\ \A h \in Gets : h # g => get'[h] = get[h]
    BY <1>1, <1>12 DEF GetRecs
  <2>2. \A h \in Gets : h # g => SameFields(h) /\ get'[h].pc = get[h].pc
    BY <2>1 DEF SameFields
  <2> SUFFICES ASSUME ~get[g].misread PROVE ReadSafe(g)'
    BY <2>1, <2>2 DEF ReadSafe
  <2>3. \A p \in get[g].must : put[p].pc # "idle"
    BY <1>1, <1>2 DEF ReadSafe
  <2>4. PICK B \in SUBSET Asked(g) : ReadBy(g, B)
    BY <1>1, <1>2 DEF ReadSafe
  <2>5. ReadBy(g, B)'
    BY <1>1, <2>1, <2>3, <2>4, ReadByStays
  <2>6. Asked(g)' = Asked(g) \cup {r} /\ get'[g].next <= Len(Remote(get'[g].node)) + 1
    BY <1>9, <2>1
  <2>7. (\A p \in get'[g].must : put'[p].pc # "idle") /\ get'[g].pc # "ok"
    BY <1>2, <2>1, <2>3
  <2> QED BY <2>4, <2>5, <2>6, <2>7 DEF ReadSafe
<1> QED BY <1>2, <1>10, <1>11, <1>12

\* What the end of a get changes of it (handle_get).
LEMMA GetFinishGet ==
    ASSUME ObjTypes, NEW g \in Gets, GetFinish(g)
    PROVE  /\ SameFields(g) /\ get'[g].replies = get[g].replies
           /\ get[g].pc = "fan" /\ get'[g].pc \in {"ok", "error"}
           /\ get'[g].pc = "ok" => CheckReadQuorum(get[g].responses, get[g].node)
           /\ get'[g].quiet => get[g].quiet /\ errors' = errors
           /\ \A h \in Gets : h # g => get'[h] = get[h]
<1> DEFINE H == Legit
           c == IF CheckReadQuorum(get[g].responses, get[g].node) THEN "ok" ELSE "error"
           b == get[g].quiet /\ errors' = errors
<1>1. get \in [Gets -> GetRecs(H)] /\ get[g] \in GetRecs(H) /\ get[g].pc = "fan"
  BY DEF ObjTypes, GetFinish
<1>2. c \in {"ok", "error"} /\ (c = "ok" => CheckReadQuorum(get[g].responses, get[g].node))
  OBVIOUS
<1>3. get' = [get EXCEPT ![g].pc = c, ![g].quiet = @ /\ errors' = errors]
  BY DEF GetFinish
<1> HIDE DEF H, c
<1>4. get' = [get EXCEPT ![g].pc = c, ![g].quiet = b]
  BY <1>1, <1>3 DEF GetRecs
<1>5. b => get[g].quiet /\ errors' = errors
  OBVIOUS
<1> HIDE DEF b
<1>6. get' = [get EXCEPT ![g] = [get[g] EXCEPT !.pc = c, !.quiet = b]]
  BY <1>1, <1>4 DEF GetRecs
<1>7. /\ get'[g].node = get[g].node /\ get'[g].merged = get[g].merged /\ get'[g].next = get[g].next
      /\ get'[g].responses = get[g].responses /\ get'[g].must = get[g].must
      /\ get'[g].misread = get[g].misread /\ get'[g].replies = get[g].replies
      /\ get'[g].pc = c /\ get'[g].quiet = b
  BY <1>1, <1>6 DEF GetRecs
<1>8. \A h \in Gets : h # g => get'[h] = get[h]
  BY <1>1, <1>6
<1> QED BY <1>1, <1>2, <1>5, <1>7, <1>8 DEF SameFields

\* At the start no get is under way.
LEMMA ReadInit == ObjectInit => ReadInv
<1> SUFFICES ASSUME ObjectInit PROVE \A g \in Gets : ReadSafe(g)
  BY AckInit DEF ReadInv
<1>1. \A g \in Gets : get[g].pc = "idle"
  BY DEF ObjectInit, NoGet
<1> QED BY <1>1 DEF ReadSafe

\* Every step keeps what the gets know.
LEMMA ReadNext == ReadInv /\ [ObjectNext]_objectVars => ReadInv'
<1> SUFFICES ASSUME ReadInv, [ObjectNext]_objectVars PROVE ReadInv'
  OBVIOUS
<1> DEFINE H == Legit
<1>1. /\ ObjTypes /\ PutsStay /\ Remembers /\ NotEmptied /\ AckInv' /\ get \in [Gets -> GetRecs(H)]
      /\ \A g \in Gets : ReadSafe(g)
  BY ObjTypesNext, NextRemembers, EmptiedNext, AckNext DEF ReadInv, AckInv, ObjTypes
<1> HIDE DEF H
<1>2. ASSUME NEW h \in Gets, SameFields(h), get'[h].pc = get[h].pc PROVE ReadSafe(h)'
  BY <1>1, <1>2, ReadStays
<1>3. ASSUME NEW g \in Gets, ReadSafe(g)', \A h \in Gets : h # g => SameFields(h) /\ get'[h].pc = get[h].pc
      PROVE  ReadInv'
  BY <1>1, <1>2, <1>3 DEF ReadInv
<1>4. ASSUME get' = get PROVE ReadInv'
  <2>1. \A h \in Gets : SameFields(h) /\ get'[h].pc = get[h].pc
    BY <1>4 DEF SameFields
  <2> QED BY <1>1, <1>2, <2>1 DEF ReadInv
<1>5. ASSUME get' = Disturbed(get) PROVE ReadInv'
  <2>1. \A h \in Gets : SameFields(h) /\ get'[h].pc = get[h].pc
    BY <1>1, <1>5, DisturbedSame
  <2> QED BY <1>1, <1>2, <2>1 DEF ReadInv
<1>6. ASSUME NEW p \in Puts, NEW n \in Nodes, NEW prior \in known, PutBegin(p, n, prior) PROVE ReadInv'
  BY <1>5, <1>6 DEF PutBegin
<1>7. ASSUME NEW p \in Puts, PutStore(p) \/ PutRequest(p) \/ PutFinish(p) PROVE ReadInv'
  BY <1>4, <1>7 DEF PutStore, PutRequest, PutFinish
<1>8. ASSUME NEW g \in Gets, NEW n \in Nodes, GetBegin(g, n) PROVE ReadInv'
  BY <1>1, <1>3, <1>8, GetBeginSafe
<1>9. ASSUME NEW g \in Gets, GetRequest(g) PROVE ReadInv'
  BY <1>1, <1>3, <1>9, GetRequestSafe
<1>10. ASSUME NEW g \in Gets, GetFinish(g) PROVE ReadInv'
  <2>1. /\ SameFields(g) /\ get[g].pc = "fan"
        /\ get'[g].pc = "ok" => CheckReadQuorum(get[g].responses, get[g].node)
        /\ \A h \in Gets : h # g => get'[h] = get[h]
    BY <1>1, <1>10, GetFinishGet
  <2>2. ReadSafe(g)'
    BY <1>1, <2>1, ReadStays
  <2>3. \A h \in Gets : h # g => SameFields(h) /\ get'[h].pc = get[h].pc
    BY <2>1 DEF SameFields
  <2> QED BY <1>3, <2>2, <2>3
<1>11. ASSUME NEW d \in Dels, NEW n \in Nodes, DelBegin(d, n) PROVE ReadInv'
  BY <1>5, <1>11 DEF DelBegin
<1>12. ASSUME NEW d \in Dels, DelLocal(d) PROVE ReadInv'
  BY <1>4, <1>12 DEF DelLocal
<1>13. ASSUME NEW l \in Nodes \X Nodes, ApplyOp(l) \/ Drop(l) PROVE ReadInv'
  BY <1>4, <1>5, <1>13 DEF ApplyOp, Drop
<1>14. CASE UNCHANGED objectVars
  BY <1>4, <1>14 DEF objectVars
<1> QED BY <1>6, <1>7, <1>8, <1>9, <1>10, <1>11, <1>12, <1>13, <1>14 DEF ObjectNext

\* A get has, always, seen what W of the nodes it has not heard do not hold.
LEMMA ReadAlways == ObjectSpec => []ReadInv
BY ReadInit, ReadNext, PTL DEF ObjectSpec

\* R and W nodes of one bucket have a node in common.
QuorumsMeet == \A n \in Nodes : W + Min2(R, Target(n)) > Cardinality(Nodes)

\* A read quorum leaves no W nodes out.
LEMMA MeetOff ==
    ASSUME QuorumsMeet, ObjTypes, NEW g \in Gets, ReadSafe(g), get[g].pc = "ok", get[g].responses > 1, ~get[g].misread
    PROVE  \E B : ReadBy(g, B) /\ ~FilledOff(B) /\ \A p : ~CoveredOff(p, B)
<1> DEFINE n == get[g].node
<1>1. n \in Nodes /\ get[g].responses \in Nat
  BY DEF ObjTypes, GetRecs
<1>2. CheckReadQuorum(get[g].responses, n) /\ Asked(g) \subseteq Nodes
  BY AskedNodes DEF ReadSafe
<1>3. PICK B \in SUBSET Asked(g) : ReadBy(g, B)
  BY DEF ReadSafe
<1>4. B \subseteq Nodes /\ Cardinality(B) = get[g].responses
  BY <1>2, <1>3 DEF ReadBy
<1>5. Cardinality(B) >= Min2(R, Target(n))
  BY <1>1, <1>2, <1>4 DEF CheckReadQuorum
<1>6. ASSUME NEW A \in SUBSET (Nodes \ B), Cardinality(A) >= W PROVE FALSE
  <2>1. W + Min2(R, Target(n)) > Cardinality(Nodes)
    BY <1>1 DEF QuorumsMeet
  <2>2. Min2(R, Target(n)) \in Nat /\ W \in Nat
    BY <1>1, TargetNat, Shape DEF Min2
  <2>3. IsFiniteSet(Nodes) /\ A \subseteq Nodes
    BY Shape
  <2>4. Cardinality(A) \in Nat /\ Cardinality(B) \in Nat /\ Cardinality(Nodes) \in Nat
    BY <1>4, <2>3, FS_Subset, FS_CardinalityType
  <2> HIDE DEF n
  <2>5. Cardinality(A) + Cardinality(B) > Cardinality(Nodes)
    BY <1>5, <1>6, <2>1, <2>2, <2>4
  <2>6. A \cap B # {}
    BY <1>4, <2>3, <2>5, FS_MajoritiesIntersect
  <2> QED BY <2>6
<1> QED BY <1>3, <1>6 DEF FilledOff, CoveredOff

\* So a read that met its quorum has seen every put of a write quorum.
LEMMA ReadQuorum == QuorumsMeet /\ ReadInv => ReadYourQuorum
<1> SUFFICES ASSUME QuorumsMeet, ReadInv, NEW g \in Gets,
                    get[g].pc = "ok", get[g].responses > 1, ~get[g].misread
             PROVE  /\ mult => \A p \in get[g].must \ forgotten : Covers(get[g].merged, Sibling(p))
                    /\ get[g].must # {} /\ NoDels => get[g].merged # <<>>
  BY DEF ReadYourQuorum, NoDels
<1>1. PICK B : ReadBy(g, B) /\ ~FilledOff(B) /\ \A p : ~CoveredOff(p, B)
  BY MeetOff DEF ReadInv, AckInv
<1> QED BY <1>1 DEF ReadBy

\* Where read and write quorums meet, a read that met its quorum returns every
\* put a write quorum had acknowledged before, or one that saw it, unless some
\* replica forgot it; and without deletes it finds the key (check_read_quorum).
THEOREM ReadsSeeQuorums ==
    ASSUME \A n \in Nodes : W + Min2(R, Target(n)) > Cardinality(Nodes)
    PROVE  ObjectSpec => []ReadYourQuorum
<1>1. QuorumsMeet
  BY DEF QuorumsMeet
<1>2. ReadInv => ReadYourQuorum
  BY <1>1, ReadQuorum
<1> QED BY <1>2, ReadAlways, PTL

-----------------------------------------------------------------------------
(* The Riak object: read repair converges.                                   *)

\* The replies a get keeps hold something, are other nodes', and the merged set
\* covers them.
RepliesOk(t, keep) ==
    \A x \in Elems(t.replies) :
        /\ x.set # <<>> /\ t.merged # <<>> /\ x.node # t.node
        /\ keep => CoversAll(t.merged, x.set)

\* The replies of a get depend on three of its fields.
LEMMA RepliesSame ==
    ASSUME NEW t, NEW u, NEW keep, RepliesOk(t, keep),
           u.replies = t.replies, u.merged = t.merged, u.node = t.node
    PROVE  RepliesOk(u, keep)
BY DEF RepliesOk

\* Covering is transitive between the sets of a bucket.
LEMMA CoversAllTrans ==
    ASSUME ObjTypes, NEW s \in Legit, NEW t \in Legit, NEW u \in Legit, CoversAll(s, t), CoversAll(t, u)
    PROVE  CoversAll(s, u)
<1>1. Written \subseteq Sib
  BY WrittenSibs
<1>2. s \in Seq(Written) /\ t \in Seq(Written) /\ u \in Seq(Written)
  BY DEF Legit, Held, Fronts
<1>3. s \in Seq(Sib) /\ t \in Seq(Sib) /\ u \in Seq(Sib)
  <2>1. \A q : q \in Seq(Written) => q \in Seq(Sib)
    BY <1>1
  <2> QED BY <1>2, <2>1
<1>4. \A x \in Elems(u) : x \in Sib
  BY <1>3, ElemsIn
<1> QED BY <1>3, <1>4, CoverTrans DEF CoversAll

\* An answer is covered, and so are the earlier ones.
LEMMA RepliesAnswer ==
    ASSUME ObjTypes, NEW t \in GetRecs(Legit), NEW r \in Nodes, r # t.node, NEW s \in Legit,
           RepliesOk(t, mult), NEW u, Answered(u, t, mult, r, s)
    PROVE  RepliesOk(u, mult)
<1> DEFINE H == Legit
           m == t.merged
<1>1. m \in H /\ t.replies \in Seq(Replies(H))
  BY DEF GetRecs
<1>2. CASE s = <<>>
  <2>1. u.replies = t.replies /\ u.merged = t.merged /\ u.node = t.node
    BY <1>2 DEF Answered
  <2> QED BY <2>1, RepliesSame
<1>3. CASE s # <<>>
  <2> DEFINE x == [node |-> r, set |-> s]
             w == MergeSets(m, s, mult)
  <2>1. u.replies = Append(t.replies, x) /\ u.merged = w /\ u.node = t.node
    BY <1>3 DEF Answered
  <2>2. x \in Replies(H) /\ x.set = s /\ x.node = r
    BY DEF Replies
  <2>3. w \in H /\ w # <<>> /\ (mult => CoversAll(w, m) /\ CoversAll(w, s))
    BY <1>1, <1>3, WrittenSibs, HeldFacts DEF ObjTypes, Legit
  <2> HIDE DEF x, w
  <2>4. Elems(u.replies) = Elems(t.replies) \cup {x}
    BY <1>1, <2>1, <2>2, ElemsAppend
  <2>5. ASSUME NEW y \in Elems(t.replies), mult PROVE CoversAll(w, y.set)
    <3>1. y.set \in H
      BY <1>1, ElemsIn DEF Replies
    <3>2. CoversAll(m, y.set)
      BY <2>5 DEF RepliesOk
    <3> QED BY <1>1, <2>3, <2>5, <3>1, <3>2, CoversAllTrans
  <2>6. \A y \in Elems(t.replies) : y.set # <<>> /\ y.node # t.node
    BY DEF RepliesOk
  <2>7. ASSUME NEW y \in Elems(u.replies)
        PROVE  y.set # <<>> /\ u.merged # <<>> /\ y.node # u.node /\ (mult => CoversAll(u.merged, y.set))
    BY <1>3, <2>1, <2>2, <2>3, <2>4, <2>5, <2>6, <2>7
  <2> QED BY <2>7 DEF RepliesOk
<1> QED BY <1>2, <1>3

\* A step leaves the replies of a get, and its merged set, or adds an answer.
LEMMA RepliesNext ==
    ASSUME ObjTypes, [ObjectNext]_objectVars, \A g \in Gets : RepliesOk(get[g], mult)
    PROVE  \A g \in Gets : RepliesOk(get'[g], mult')
<1> DEFINE H == Legit
<1>1. /\ get \in [Gets -> GetRecs(H)] /\ mult' = mult /\ store \in [Nodes -> H] /\ <<>> \in H
  BY ObjTypesNext, NoPutType DEF ObjTypes, PutsStay
<1> DEFINE Same(h) == get'[h].replies = get[h].replies /\ get'[h].merged = get[h].merged /\ get'[h].node = get[h].node
<1>2. ASSUME NEW h \in Gets, Same(h) PROVE RepliesOk(get'[h], mult)
  BY <1>2, RepliesSame
<1>3. SUFFICES \A h \in Gets : RepliesOk(get'[h], mult)
  BY <1>1
<1>4. CASE get' = get
  BY <1>2, <1>4
<1>5. CASE get' = Disturbed(get)
  <2> HIDE DEF H
  <2>1. \A h \in Gets : Same(h)
    <3> TAKE h \in Gets
    <3>1. /\ Disturbed(get)[h].replies = get[h].replies /\ Disturbed(get)[h].merged = get[h].merged
          /\ Disturbed(get)[h].node = get[h].node
      <4>1. ButQuiet(Disturbed(get)[h], get[h])
        BY <1>1, DisturbedFields
      <4> QED BY <4>1 DEF ButQuiet
    <3> QED BY <1>5, <3>1
  <2> QED BY <1>2, <2>1
<1>6. ASSUME NEW g \in Gets, NEW n \in Nodes, GetBegin(g, n) PROVE \A h \in Gets : RepliesOk(get'[h], mult)
  <2>1. Disturbed(get) \in [Gets -> GetRecs(H)]
    BY <1>1, DisturbedType
  <2> HIDE DEF H
  <2>2. \A h \in Gets : h # g => get'[h] = Disturbed(get)[h]
    BY <1>6, <2>1 DEF GetBegin
  <2>3. \A h \in Gets : /\ Disturbed(get)[h].replies = get[h].replies
                        /\ Disturbed(get)[h].merged = get[h].merged /\ Disturbed(get)[h].node = get[h].node
    <3> TAKE h \in Gets
    <3>1. ButQuiet(Disturbed(get)[h], get[h])
      BY <1>1, DisturbedFields
    <3> QED BY <3>1 DEF ButQuiet
  <2>4. \A h \in Gets : h # g => RepliesOk(get'[h], mult)
    BY <1>2, <2>2, <2>3
  <2>5. get'[g].replies = <<>> \/ Same(g)
    <3>1. CASE get' = [Disturbed(get) EXCEPT ![g].pc = "error"]
      <4>1. get'[g] = [Disturbed(get)[g] EXCEPT !.pc = "error"] /\ Disturbed(get)[g] \in GetRecs(H)
        BY <2>1, <3>1
      <4>2. /\ get'[g].replies = Disturbed(get)[g].replies /\ get'[g].merged = Disturbed(get)[g].merged
            /\ get'[g].node = Disturbed(get)[g].node
        BY <4>1 DEF GetRecs
      <4> QED BY <2>3, <4>2
    <3>2. CASE get' = [Disturbed(get) EXCEPT ![g] = [NoGet EXCEPT
                !.pc = "fan", !.node = n, !.merged = store[n], !.responses = 1,
                !.must = QuorumAcked, !.quiet = Idle]]
      <4>1. get'[g] = [NoGet EXCEPT !.pc = "fan", !.node = n, !.merged = store[n], !.responses = 1,
                                    !.must = QuorumAcked, !.quiet = Idle]
        BY <2>1, <3>2
      <4> QED BY <4>1 DEF NoGet
    <3> QED BY <1>6, <3>1, <3>2 DEF GetBegin
  <2>6. RepliesOk(get'[g], mult)
    BY <1>2, <2>5, ElemsEmpty DEF RepliesOk
  <2> QED BY <2>4, <2>6
<1>7. ASSUME NEW g \in Gets, GetRequest(g) PROVE \A h \in Gets : RepliesOk(get'[h], mult)
  <2> DEFINE n == get[g].node
             r == Remote(n)[get[g].next]
  <2>1. get[g] \in GetRecs(H) /\ n \in Nodes /\ get[g].next \in Nat \ {0} /\ get[g].merged \in H
    BY <1>1 DEF GetRecs
  <2>2. /\ get[g].next <= Len(Remote(n))
        /\ \/ get' = [get EXCEPT ![g] = Answer(get[g], mult, r, store[r])]
           \/ get' = Disturbed([get EXCEPT ![g] = [Answer(get[g], mult, r, <<>>) EXCEPT !.misread = TRUE]])
           \/ get' = [get EXCEPT ![g].next = @ + 1]
    BY <1>7, GetRequestCases
  <2>3. r \in Nodes /\ r # n
    BY <2>1, <2>2, RemoteNode
  <2>4. \A s \in H : MergeSets(get[g].merged, s, mult) \in H
    BY <2>1, WrittenSibs, HeldFacts DEF ObjTypes, Legit
  <2> HIDE DEF r
  <2>5. \A s \in H : /\ Answer(get[g], mult, r, s) \in GetRecs(H)
                     /\ Answered(Answer(get[g], mult, r, s), get[g], mult, r, s)
    <3> HIDE DEF H, n
    <3> QED BY <2>1, <2>3, <2>4, AnswerFields
  <2>6. \A s \in H : RepliesOk(Answer(get[g], mult, r, s), mult)
    BY <2>1, <2>3, <2>5, RepliesAnswer
  <2> HIDE DEF H, n
  <2>7. CASE get' = [get EXCEPT ![g] = Answer(get[g], mult, r, store[r])]
    <3>1. get'[g] = Answer(get[g], mult, r, store[r]) /\ \A h \in Gets : h # g => get'[h] = get[h]
      BY <1>1, <2>7
    <3>2. store[r] \in H
      BY <1>1, <2>3
    <3>3. RepliesOk(get'[g], mult)
      BY <2>6, <3>1, <3>2
    <3> QED BY <3>1, <3>3
  <2>8. CASE get' = Disturbed([get EXCEPT ![g] = [Answer(get[g], mult, r, <<>>) EXCEPT !.misread = TRUE]])
    <3> DEFINE a == Answer(get[g], mult, r, <<>>)
               u == [a EXCEPT !.misread = TRUE]
               f == [get EXCEPT ![g] = u]
    <3>1. a \in GetRecs(H) /\ RepliesOk(a, mult)
      BY <1>1, <2>5, <2>6
    <3> HIDE DEF a
    <3>2. u \in GetRecs(H) /\ u.replies = a.replies /\ u.merged = a.merged /\ u.node = a.node
      BY <3>1 DEF GetRecs
    <3> HIDE DEF u
    <3>3. RepliesOk(u, mult)
      BY <3>1, <3>2, RepliesSame
    <3>4. f \in [Gets -> GetRecs(H)] /\ f[g] = u /\ \A h \in Gets : h # g => f[h] = get[h]
      BY <1>1, <3>2
    <3>5. get' = Disturbed(f)
      BY <2>8 DEF u, a
    <3> HIDE DEF f
    <3>6. \A h \in Gets : RepliesOk(f[h], mult)
      BY <3>3, <3>4
    <3> TAKE h \in Gets
    <3>7. /\ Disturbed(f)[h].replies = f[h].replies /\ Disturbed(f)[h].merged = f[h].merged
          /\ Disturbed(f)[h].node = f[h].node
      <4>1. ButQuiet(Disturbed(f)[h], f[h])
        BY <3>4, DisturbedFields
      <4> QED BY <4>1 DEF ButQuiet
    <3> QED BY <3>5, <3>6, <3>7, RepliesSame
  <2>9. CASE get' = [get EXCEPT ![g].next = @ + 1]
    <3>1. \A h \in Gets : Same(h)
      BY <1>1, <2>9 DEF GetRecs
    <3> QED BY <1>2, <3>1
  <2> QED BY <2>2, <2>7, <2>8, <2>9
<1>8. ASSUME NEW g \in Gets, GetFinish(g) PROVE \A h \in Gets : RepliesOk(get'[h], mult)
  <2>1. \A h \in Gets : Same(h)
    BY <1>8, GetFinishGet DEF SameFields
  <2> QED BY <1>2, <2>1
<1> HIDE DEF H, Same
<1>9. ASSUME NEW p \in Puts, NEW n \in Nodes, NEW prior \in known, PutBegin(p, n, prior) PROVE get' = Disturbed(get)
  BY <1>9 DEF PutBegin
<1>10. ASSUME NEW p \in Puts, PutStore(p) \/ PutRequest(p) \/ PutFinish(p) PROVE get' = get
  BY <1>10 DEF PutStore, PutRequest, PutFinish
<1>11. ASSUME NEW d \in Dels, NEW n \in Nodes, DelBegin(d, n) PROVE get' = Disturbed(get)
  BY <1>11 DEF DelBegin
<1>12. ASSUME NEW d \in Dels, DelLocal(d) PROVE get' = get
  BY <1>12 DEF DelLocal
<1>13. ASSUME NEW l \in Nodes \X Nodes, ApplyOp(l) \/ Drop(l) PROVE get' = get \/ get' = Disturbed(get)
  BY <1>13 DEF ApplyOp, Drop
<1>14. CASE UNCHANGED objectVars
  BY <1>4, <1>14 DEF objectVars
<1> QED BY <1>4, <1>5, <1>6, <1>7, <1>8, <1>9, <1>10, <1>11, <1>12, <1>13, <1>14 DEF ObjectNext

\* Nothing but the get h, if anything, is running.
Alone(h) ==
    /\ \A p \in Puts : put[p].pc \in {"idle", "ok", "error"}
    /\ \A g \in Gets : g = h \/ get[g].pc \in {"idle", "ok", "error"}
    /\ \A d \in Dels : del[d].pc \in {"idle", "done"}

\* While an undisturbed get asks, the stores are as it found them.
Asking(g) ==
    /\ \A l \in Nodes \X Nodes : ops[l] = <<>>
    /\ \A x \in Elems(get[g].replies) : store[x.node] = x.set
    /\ get[g].merged = <<>> => store[get[g].node] = <<>>

\* After it, only its repairs are under way, to those that do not hold it yet.
Repairing(g) ==
    /\ \A l \in Nodes \X Nodes : ops[l] = <<>> \/ ops[l] = <<RepairPut(get[g].merged)>>
    /\ \A r \in {get[g].node} \cup {x.node : x \in Elems(get[g].replies)} :
           Elems(store[r]) = Elems(get[g].merged) \/ ops[<<get[g].node, r>>] # <<>>

QuietOk(g) ==
    get[g].quiet => /\ get[g].pc # "idle" /\ Alone(g)
                    /\ get[g].pc = "fan" => Asking(g)
                    /\ get[g].pc # "fan" => Repairing(g)

RepairInv ==
    /\ ObjTypes /\ errors \in Nat
    /\ \A g \in Gets : RepliesOk(get[g], mult)
    /\ \A g \in Gets : QuietOk(g)

\* A get that is no longer quiet promises nothing.
LEMMA NotQuiet == \A g : ~get'[g].quiet => QuietOk(g)'
BY DEF QuietOk

\* No get is quiet once all are disturbed.
LEMMA DisturbedQuiet == ObjTypes => \A g \in Gets : ~Disturbed(get)[g].quiet
<1> SUFFICES ASSUME ObjTypes, NEW g \in Gets PROVE ~Disturbed(get)[g].quiet
  OBVIOUS
<1> DEFINE H == Legit
<1>1. get \in [Gets -> GetRecs(H)]
  BY DEF ObjTypes
<1> HIDE DEF H
<1>2. ButQuiet(Disturbed(get)[g], get[g])
  BY <1>1, DisturbedFields
<1> QED BY <1>2 DEF ButQuiet

\* One value, one sibling.
LEMMA WrittenOnce == \A x, y \in Written : x.value = y.value => x = y
BY DEF Written, Sibling

\* A reply that is not behind the merged set holds the same siblings
\* (sibling_set_is_behind).
LEMMA NotBehindSame ==
    ASSUME ObjTypes, NEW m \in Legit, NEW s \in Legit, m # <<>>, ~IsBehind(s, m),
           mult => CoversAll(m, s)
    PROVE  Elems(s) = Elems(m)
<1>1. m \in Seq(Written) /\ s \in Seq(Written) /\ Causal(s) /\ (~mult => Len(s) <= 1)
  BY DEF Legit, Held, Fronts
<1>2. Elems(m) \subseteq Written /\ Elems(s) \subseteq Written
  BY <1>1, ElemsIn
<1>3. \A x \in Elems(m) : \E y \in Elems(s) : y.value = x.value
  BY RangeElems DEF IsBehind
<1>4. Elems(m) \subseteq Elems(s)
  BY <1>2, <1>3, WrittenOnce
<1>5. ASSUME NEW y \in Elems(s) PROVE y \in Elems(m)
  <2>1. CASE mult
    <3>1. PICK t \in Elems(m) : t = y \/ Dominates(t.context, y.context)
      BY <1>5, <2>1, CoversDef DEF CoversAll
    <3>2. t \in Elems(s)
      BY <1>4, <3>1
    <3>3. ~Dominates(t.context, y.context)
      BY <1>1, <1>5, <3>2 DEF Causal
    <3> QED BY <3>1, <3>3
  <2>2. CASE ~mult
    <3>1. Len(s) \in Nat /\ DOMAIN s = 1..Len(s) /\ Len(s) <= 1
      BY <1>1, <2>2, LenProperties
    <3>2. \A a, b \in Elems(s) : a = b
      <4>1. \A i, j \in DOMAIN s : i = j
        BY <3>1
      <4> QED BY <4>1 DEF Elems
    <3>3. PICK x : x \in Elems(m)
      <4>1. Len(m) \in Nat \ {0} /\ DOMAIN m = 1..Len(m)
        BY <1>1, EmptySeq, LenProperties
      <4>2. 1 \in DOMAIN m
        BY <4>1
      <4> QED BY <4>2 DEF Elems
    <3> QED BY <1>4, <1>5, <3>2, <3>3
  <2> QED BY <2>1, <2>2 DEF ObjTypes
<1> QED BY <1>4, <1>5

\* A get begins in quiet.
LEMMA GetBeginQuiet ==
    ASSUME RepairInv, NEW g \in Gets, NEW n \in Nodes, GetBegin(g, n)
    PROVE  \A h \in Gets : QuietOk(h)'
<1> DEFINE H == Legit
<1>1. /\ get \in [Gets -> GetRecs(H)] /\ Disturbed(get) \in [Gets -> GetRecs(H)]
      /\ ops \in [Nodes \X Nodes -> Seq(OpRecs(H))] /\ UNCHANGED <<store, ops, put, del>>
  BY DisturbedType DEF RepairInv, ObjTypes, GetBegin
<1> HIDE DEF H
<1>2. \A h \in Gets : h # g => get'[h] = Disturbed(get)[h]
  BY <1>1 DEF GetBegin
<1>3. \A h \in Gets : ~Disturbed(get)[h].quiet
  BY DisturbedQuiet DEF RepairInv
<1>4. \A h \in Gets : h # g => QuietOk(h)'
  BY <1>2, <1>3, NotQuiet
<1>5. CASE get' = [Disturbed(get) EXCEPT ![g].pc = "error"]
  <2>1. get'[g] = [Disturbed(get)[g] EXCEPT !.pc = "error"] /\ Disturbed(get)[g] \in GetRecs(H)
    BY <1>1, <1>5
  <2>2. get'[g].quiet = Disturbed(get)[g].quiet
    BY <2>1 DEF GetRecs
  <2>3. ~get'[g].quiet
    BY <1>3, <2>2
  <2> QED BY <1>4, <2>3, NotQuiet
<1>6. CASE get' = [Disturbed(get) EXCEPT ![g] = [NoGet EXCEPT
                !.pc = "fan", !.node = n, !.merged = store[n], !.responses = 1,
                !.must = QuorumAcked, !.quiet = Idle]]
  <2>1. get'[g] = [NoGet EXCEPT !.pc = "fan", !.node = n, !.merged = store[n], !.responses = 1,
                                !.must = QuorumAcked, !.quiet = Idle]
    BY <1>1, <1>6
  <2>2. /\ get'[g].pc = "fan" /\ get'[g].node = n /\ get'[g].merged = store[n] /\ get'[g].replies = <<>>
        /\ get'[g].quiet = Idle
    BY <2>1 DEF NoGet
  <2>3. SUFFICES ASSUME Idle PROVE Alone(g)' /\ Asking(g)'
    BY <1>4, <2>2 DEF QuietOk
  <2>4. \A h \in Gets : h # g => get'[h].pc = get[h].pc
    <3> TAKE h \in Gets
    <3>1. Disturbed(get)[h].pc = get[h].pc
      <4>1. ButQuiet(Disturbed(get)[h], get[h])
        BY <1>1, DisturbedFields
      <4> QED BY <4>1 DEF ButQuiet
    <3> QED BY <1>2, <3>1
  <2>5. Alone(g)'
    <3>1. /\ \A p \in Puts : put'[p].pc \in {"idle", "ok", "error"}
          /\ \A h \in Gets : get[h].pc \in {"idle", "ok", "error"}
          /\ \A d \in Dels : del'[d].pc \in {"idle", "done"}
      BY <1>1, <2>3 DEF Idle
    <3>2. \A h \in Gets : h = g \/ get'[h].pc \in {"idle", "ok", "error"}
      BY <2>4, <3>1
    <3> QED BY <3>1, <3>2 DEF Alone
  <2>6. Asking(g)'
    <3>1. \A l \in Nodes \X Nodes : ops'[l] = <<>>
      <4>1. DOMAIN ops = Nodes \X Nodes
        BY <1>1
      <4> QED BY <1>1, <2>3, <4>1 DEF Idle
    <3>2. Elems(get'[g].replies) = {}
      BY <2>2, ElemsEmpty
    <3>3. store'[get'[g].node] = get'[g].merged
      BY <1>1, <2>2
    <3> QED BY <3>1, <3>2, <3>3 DEF Asking
  <2> QED BY <2>5, <2>6
<1> QED BY <1>5, <1>6 DEF GetBegin

\* While a get is quiet only it acts.
LEMMA QuietAlone ==
    ASSUME RepairInv, NEW g \in Gets, get[g].pc = "fan"
    PROVE  \A h \in Gets : get[h].quiet => h = g
<1> SUFFICES ASSUME NEW h \in Gets, get[h].quiet, h # g PROVE FALSE
  OBVIOUS
<1>1. Alone(h)
  BY DEF RepairInv, QuietOk
<1>2. get[g].pc \in {"idle", "ok", "error"}
  BY <1>1 DEF Alone
<1> QED BY <1>2

\* A step of the get g, which is under way, concerns no other quiet get.
LEMMA OthersQuiet ==
    ASSUME RepairInv, NEW g \in Gets, get[g].pc = "fan", \A h \in Gets : h # g => get'[h].quiet = get[h].quiet
    PROVE  \A h \in Gets : h # g => QuietOk(h)'
<1>1. \A h \in Gets : h # g => ~get'[h].quiet
  BY QuietAlone
<1> QED BY <1>1, NotQuiet

\* A quiet get asks on.
LEMMA GetRequestQuiet ==
    ASSUME RepairInv, NEW g \in Gets, GetRequest(g)
    PROVE  \A h \in Gets : QuietOk(h)'
<1> DEFINE H == Legit
           n == get[g].node
           c == Remote(n)[get[g].next]
<1>1. /\ get \in [Gets -> GetRecs(H)] /\ store \in [Nodes -> H] /\ ObjTypes /\ <<>> \in H /\ QuietOk(g)
      /\ get[g] \in GetRecs(H) /\ n \in Nodes /\ get[g].next \in Nat \ {0} /\ get[g].merged \in H
  BY NoPutType DEF RepairInv, ObjTypes, GetRecs
<1>2. /\ get[g].pc = "fan" /\ get[g].next <= Len(Remote(n)) /\ UNCHANGED <<mult, store, ops, put, del>>
      /\ \/ get' = [get EXCEPT ![g] = Answer(get[g], mult, c, store[c])]
         \/ get' = Disturbed([get EXCEPT ![g] = [Answer(get[g], mult, c, <<>>) EXCEPT !.misread = TRUE]])
         \/ get' = [get EXCEPT ![g].next = @ + 1]
  BY GetRequestCases
<1>3. PICK r \in Nodes : r = c
  BY <1>1, <1>2, RemoteNode
<1>4. \A s \in H : MergeSets(get[g].merged, s, mult) \in H /\ (s # <<>> => MergeSets(get[g].merged, s, mult) # <<>>)
  BY <1>1, WrittenSibs, HeldFacts DEF ObjTypes, Legit
<1> HIDE DEF H, c, n
<1>5. \A s \in H : /\ Answer(get[g], mult, r, s) \in GetRecs(H)
                   /\ Answered(Answer(get[g], mult, r, s), get[g], mult, r, s)
  BY <1>1, <1>3, <1>4, AnswerFields
\* Others stay as they are, and so does this get but for its replies.
<1>6. ASSUME \A h \in Gets : h # g => get'[h] = get[h],
             get'[g].pc = get[g].pc, get'[g].node = get[g].node, get'[g].quiet = get[g].quiet,
             \A x \in Elems(get'[g].replies) : x \in Elems(get[g].replies) \/ store[x.node] = x.set,
             get'[g].merged = <<>> => get[g].merged = <<>>
      PROVE  \A h \in Gets : QuietOk(h)'
  <2>1. \A h \in Gets : h # g => QuietOk(h)'
    BY <1>2, <1>6, OthersQuiet
  <2>2. SUFFICES ASSUME get[g].quiet PROVE Alone(g)' /\ Asking(g)'
    BY <1>2, <1>6, <2>1 DEF QuietOk
  <2>3. Alone(g) /\ Asking(g)
    BY <1>1, <1>2, <2>2 DEF QuietOk
  <2>4. Alone(g)'
    BY <1>2, <1>6, <2>3 DEF Alone
  <2>5. Asking(g)'
    BY <1>2, <1>6, <2>3 DEF Asking
  <2> QED BY <2>4, <2>5
<1>7. CASE get' = [get EXCEPT ![g] = Answer(get[g], mult, c, store[c])]
  <2> DEFINE s == store[r]
             u == Answer(get[g], mult, r, s)
  <2>1. s \in H /\ u \in GetRecs(H) /\ Answered(u, get[g], mult, r, s)
    BY <1>1, <1>3, <1>5
  <2>2. get'[g] = u /\ \A h \in Gets : h # g => get'[h] = get[h]
    <3> HIDE DEF u
    <3> QED BY <1>1, <1>3, <1>7 DEF u
  <2> HIDE DEF u
  <2>3. u.pc = get[g].pc /\ u.node = get[g].node /\ u.quiet = get[g].quiet
    BY <2>1 DEF Answered
  <2>4. u.merged = <<>> => get[g].merged = <<>>
    <3>1. s # <<>> => MergeSets(get[g].merged, s, mult) # <<>>
      BY <1>4, <2>1
    <3> HIDE DEF s
    <3> QED BY <2>1, <3>1 DEF Answered
  <2>5. \A x \in Elems(u.replies) : x \in Elems(get[g].replies) \/ store[x.node] = x.set
    <3>1. CASE s = <<>>
      BY <2>1, <3>1 DEF Answered
    <3>2. CASE s # <<>>
      <4> DEFINE x == [node |-> r, set |-> s]
      <4>1. u.replies = Append(get[g].replies, x)
        BY <2>1, <3>2 DEF Answered
      <4>2. x \in Replies(H) /\ store[x.node] = x.set
        BY <2>1 DEF Replies
      <4>3. get[g].replies \in Seq(Replies(H))
        BY <1>1 DEF GetRecs
      <4> HIDE DEF x
      <4>4. Elems(u.replies) = Elems(get[g].replies) \cup {x}
        BY <4>1, <4>2, <4>3, ElemsAppend
      <4> QED BY <4>2, <4>4
    <3> QED BY <3>1, <3>2
  <2> QED BY <1>6, <2>2, <2>3, <2>4, <2>5
<1>8. CASE get' = Disturbed([get EXCEPT ![g] = [Answer(get[g], mult, c, <<>>) EXCEPT !.misread = TRUE]])
  <2> DEFINE a == Answer(get[g], mult, r, <<>>)
             u == [a EXCEPT !.misread = TRUE]
             f == [get EXCEPT ![g] = u]
  <2>1. a \in GetRecs(H)
    BY <1>1, <1>5
  <2> HIDE DEF a
  <2>2. u \in GetRecs(H)
    BY <2>1 DEF GetRecs
  <2> HIDE DEF u
  <2>3. f \in [Gets -> GetRecs(H)]
    BY <1>1, <2>2
  <2>4. get' = Disturbed(f)
    BY <1>3, <1>8 DEF u, a
  <2> HIDE DEF f
  <2>5. \A h \in Gets : ~get'[h].quiet
    <3> TAKE h \in Gets
    <3>1. ButQuiet(Disturbed(f)[h], f[h])
      BY <2>3, DisturbedFields
    <3> QED BY <2>4, <3>1 DEF ButQuiet
  <2> QED BY <2>5, NotQuiet
<1>9. CASE get' = [get EXCEPT ![g].next = @ + 1]
  <2>1. /\ \A h \in Gets : h # g => get'[h] = get[h]
        /\ get'[g].pc = get[g].pc /\ get'[g].node = get[g].node /\ get'[g].quiet = get[g].quiet
        /\ get'[g].replies = get[g].replies /\ get'[g].merged = get[g].merged
    BY <1>1, <1>9 DEF GetRecs
  <2> QED BY <1>6, <2>1
<1> QED BY <1>2, <1>7, <1>8, <1>9

\* A quiet get ends, and sends its repairs (read_repair_behind).
LEMMA GetFinishQuiet ==
    ASSUME RepairInv, NEW g \in Gets, GetFinish(g)
    PROVE  \A h \in Gets : QuietOk(h)'
<1> DEFINE H == Legit
           n == get[g].node
           m == get[g].merged
           Goes(l) == /\ l[1] = n /\ m # <<>>
                      /\ \E x \in {y \in Range(get[g].replies) : IsBehind(y.set, m)} : x.node = l[2]
<1>1. /\ get \in [Gets -> GetRecs(H)] /\ store \in [Nodes -> H] /\ ObjTypes /\ QuietOk(g) /\ errors \in Nat
      /\ ops \in [Nodes \X Nodes -> Seq(OpRecs(H))] /\ get[g] \in GetRecs(H) /\ n \in Nodes /\ m \in H
      /\ get[g].replies \in Seq(Replies(H)) /\ RepliesOk(get[g], mult)
  BY DEF RepairInv, ObjTypes, GetRecs
<1>2. /\ SameFields(g) /\ get'[g].replies = get[g].replies /\ get[g].pc = "fan"
      /\ get'[g].pc \in {"ok", "error"} /\ (get'[g].quiet => get[g].quiet /\ errors' = errors)
      /\ \A h \in Gets : h # g => get'[h] = get[h]
  BY <1>1, GetFinishGet
<1>3. UNCHANGED <<put, del>>
  BY DEF GetFinish
<1>4. \A h \in Gets : h # g => QuietOk(h)'
  BY <1>2, OthersQuiet
<1>5. SUFFICES ASSUME get[g].quiet, errors' = errors PROVE Alone(g)' /\ Repairing(g)'
  BY <1>2, <1>4 DEF QuietOk
<1>6. Alone(g) /\ Asking(g)
  BY <1>1, <1>2, <1>5 DEF QuietOk
<1>7. Alone(g)'
  BY <1>2, <1>3, <1>6 DEF Alone
<1>8. store' = [store EXCEPT ![n] = m]
  <2>1. store' = [store EXCEPT ![n] = IF m = <<>> THEN @ ELSE m]
    BY <1>1, <1>5 DEF GetFinish, Fault
  <2>2. m = <<>> => store[n] = m
    BY <1>6 DEF Asking
  <2> HIDE DEF m, n
  <2>3. (IF m = <<>> THEN store[n] ELSE m) = m
    BY <2>2
  <2> QED BY <2>1, <2>3
<1>9. ops' = [l \in DOMAIN ops |-> IF Goes(l) THEN Append(ops[l], RepairPut(m)) ELSE ops[l]]
  BY DEF GetFinish
<1>10. \A l \in Nodes \X Nodes : (Goes(l) => ops'[l] = <<RepairPut(m)>>) /\ (~Goes(l) => ops'[l] = <<>>)
  <2>1. Append(<<>>, RepairPut(m)) = <<RepairPut(m)>>
    OBVIOUS
  <2>2. DOMAIN ops = Nodes \X Nodes /\ \A l \in Nodes \X Nodes : ops[l] = <<>>
    BY <1>1, <1>6 DEF Asking
  <2> HIDE DEF Goes, H, m
  <2> QED BY <1>9, <2>1, <2>2
<1>11. get'[g].merged = m /\ get'[g].node = n /\ get'[g].replies = get[g].replies
  BY <1>2 DEF SameFields
<1>12. \A l \in Nodes \X Nodes : ops'[l] = <<>> \/ ops'[l] = <<RepairPut(get'[g].merged)>>
  <2> HIDE DEF Goes, m
  <2> QED BY <1>10, <1>11
<1>13. Elems(store'[n]) = Elems(m)
  <2> HIDE DEF H, n, m
  <2> QED BY <1>1, <1>8
<1>14. ASSUME NEW x \in Elems(get[g].replies)
       PROVE  Elems(store'[x.node]) = Elems(m) \/ ops'[<<n, x.node>>] # <<>>
  <2>1. x.node \in Nodes /\ x.set \in H
    <3>1. x \in Replies(H)
      BY <1>1, ElemsIn
    <3> HIDE DEF H
    <3> QED BY <3>1 DEF Replies
  <2>2. x.node # n /\ m # <<>> /\ (mult => CoversAll(m, x.set))
    BY <1>1 DEF RepliesOk
  <2>3. store'[x.node] = x.set
    <3>1. store[x.node] = x.set
      BY <1>6 DEF Asking
    <3> HIDE DEF H, m, n
    <3> QED BY <1>1, <1>8, <2>1, <2>2, <3>1
  <2>4. CASE IsBehind(x.set, m)
    <3>1. Goes(<<n, x.node>>)
      BY <2>2, <2>4, RangeElems
    <3>2. <<n, x.node>> \in Nodes \X Nodes
      BY <1>1, <2>1
    <3> HIDE DEF Goes, m, n
    <3>3. ops'[<<n, x.node>>] = <<RepairPut(m)>>
      BY <1>10, <3>1, <3>2
    <3>4. <<RepairPut(m)>> # <<>>
      OBVIOUS
    <3> QED BY <3>3, <3>4
  <2>5. CASE ~IsBehind(x.set, m)
    <3>1. Elems(x.set) = Elems(m)
      BY <1>1, <2>1, <2>2, <2>5, NotBehindSame
    <3> QED BY <2>3, <3>1
  <2> QED BY <2>4, <2>5
<1>15. Repairing(g)'
  <2> HIDE DEF H, m, n, Goes
  <2> QED BY <1>11, <1>12, <1>13, <1>14 DEF Repairing
<1> QED BY <1>7, <1>15

\* A repair arrives.
LEMMA ApplyOpQuiet ==
    ASSUME RepairInv, NEW l \in Nodes \X Nodes, ApplyOp(l)
    PROVE  \A h \in Gets : QuietOk(h)'
<1> SUFFICES ASSUME NEW g \in Gets, get[g].quiet PROVE QuietOk(g)'
  <2>1. get' = get
    BY DEF ApplyOp
  <2> QED BY <2>1, NotQuiet
<1> DEFINE H == Legit
           m == get[g].merged
<1>1. /\ store \in [Nodes -> H] /\ ops \in [Nodes \X Nodes -> Seq(OpRecs(H))] /\ QuietOk(g)
      /\ get[g].node \in Nodes
  BY DEF RepairInv, ObjTypes, GetRecs
<1>2. /\ ops[l] # <<>> /\ ops' = [ops EXCEPT ![l] = Tail(@)]
      /\ store' = [store EXCEPT ![l[2]] = Head(ops[l]).set] /\ UNCHANGED <<put, get, del>>
  BY DEF ApplyOp
<1>3. get[g].pc # "fan" /\ get[g].pc # "idle" /\ Alone(g) /\ Repairing(g)
  <2>1. get[g].pc # "fan"
    BY <1>1, <1>2 DEF QuietOk, Asking
  <2> QED BY <1>1, <2>1 DEF QuietOk
<1>4. ops[l] = <<RepairPut(m)>>
  BY <1>2, <1>3 DEF Repairing
<1>5. Head(ops[l]).set = m /\ Tail(ops[l]) = <<>>
  <2>1. Head(<<RepairPut(m)>>) = RepairPut(m) /\ Tail(<<RepairPut(m)>>) = <<>>
    OBVIOUS
  <2> QED BY <1>4, <2>1 DEF RepairPut
<1> HIDE DEF H, m
<1>6. \A k \in Nodes \X Nodes : ops'[k] = IF k = l THEN <<>> ELSE ops[k]
  BY <1>1, <1>2, <1>5
<1>7. \A r \in Nodes : store'[r] = IF r = l[2] THEN m ELSE store[r]
  BY <1>1, <1>2, <1>5
<1>8. Alone(g)'
  BY <1>2, <1>3 DEF Alone
<1>9. Repairing(g)'
  <2>1. \A k \in Nodes \X Nodes : ops'[k] = <<>> \/ ops'[k] = <<RepairPut(m)>>
    BY <1>3, <1>6 DEF Repairing, m
  <2>2. ASSUME NEW r \in {get[g].node} \cup {x.node : x \in Elems(get[g].replies)}
        PROVE  Elems(store'[r]) = Elems(m) \/ ops'[<<get[g].node, r>>] # <<>>
    <3>1. r \in Nodes
      <4>1. get[g].replies \in Seq(Replies(H))
        BY DEF RepairInv, ObjTypes, GetRecs, H
      <4>2. \A x \in Elems(get[g].replies) : x \in Replies(H)
        BY <4>1, ElemsIn
      <4>3. \A x \in Replies(H) : x.node \in Nodes
        BY DEF Replies
      <4> QED BY <1>1, <4>2, <4>3
    <3>2. Elems(store[r]) = Elems(m) \/ ops[<<get[g].node, r>>] # <<>>
      BY <1>3 DEF Repairing, m
    <3>3. CASE r = l[2]
      BY <1>7, <3>1, <3>3
    <3>4. CASE r # l[2]
      <4>1. <<get[g].node, r>> \in Nodes \X Nodes /\ <<get[g].node, r>> # l
        BY <1>1, <3>1, <3>4
      <4>2. store'[r] = store[r] /\ ops'[<<get[g].node, r>>] = ops[<<get[g].node, r>>]
        BY <1>6, <1>7, <3>1, <3>4, <4>1
      <4> QED BY <3>2, <4>2
    <3> QED BY <3>3, <3>4
  <2>3. get' = get
    BY <1>2
  <2> QED BY <2>1, <2>2, <2>3 DEF Repairing, m
<1> QED BY <1>2, <1>3, <1>8, <1>9 DEF QuietOk

\* At the start no get is quiet.
LEMMA RepairInit == ObjectInit => RepairInv
<1> SUFFICES ASSUME ObjectInit PROVE RepairInv
  OBVIOUS
<1>1. ObjTypes /\ errors \in Nat
  BY ObjTypesInit DEF ObjectInit
<1>2. \A g \in Gets : get[g].replies = <<>> /\ ~get[g].quiet
  BY DEF ObjectInit, NoGet
<1> QED BY <1>1, <1>2, ElemsEmpty DEF RepairInv, RepliesOk, QuietOk

\* Errors are counted.
LEMMA ErrorsNext == errors \in Nat /\ [ObjectNext]_objectVars => errors' \in Nat
<1> SUFFICES ASSUME [ObjectNext]_objectVars PROVE errors' = errors \/ errors' = errors + 1
  OBVIOUS
<1>1. ASSUME NEW p \in Puts, NEW n \in Nodes, NEW prior \in known, PutBegin(p, n, prior)
      PROVE  errors' = errors \/ errors' = errors + 1
  BY <1>1 DEF PutBegin, Fault, NoFault
<1>2. ASSUME NEW p \in Puts, PutStore(p) \/ PutRequest(p) \/ PutFinish(p)
      PROVE  errors' = errors \/ errors' = errors + 1
  BY <1>2 DEF PutStore, PutRequest, PutFinish, Fault, NoFault
<1>3. ASSUME NEW g \in Gets, NEW n \in Nodes, GetBegin(g, n) PROVE errors' = errors \/ errors' = errors + 1
  BY <1>3 DEF GetBegin, Fault, NoFault
<1>4. ASSUME NEW g \in Gets, GetRequest(g) \/ GetFinish(g) PROVE errors' = errors \/ errors' = errors + 1
  BY <1>4 DEF GetRequest, GetFinish, Fault, NoFault
<1>5. ASSUME NEW d \in Dels, (\E n \in Nodes : DelBegin(d, n)) \/ DelLocal(d)
      PROVE  errors' = errors \/ errors' = errors + 1
  BY <1>5 DEF DelBegin, DelLocal, Fault, NoFault
<1>6. ASSUME NEW l \in Nodes \X Nodes, ApplyOp(l) \/ Drop(l) PROVE errors' = errors
  BY <1>6 DEF ApplyOp, Drop
<1>7. CASE UNCHANGED objectVars
  BY <1>7 DEF objectVars
<1> QED BY <1>1, <1>2, <1>3, <1>4, <1>5, <1>6, <1>7 DEF ObjectNext

\* While a put or a delete is under way no get is quiet.
LEMMA BusyQuiet ==
    ASSUME RepairInv, get' = get,
           (\E p \in Puts : put[p].pc \in {"resolve", "fan"}) \/ (\E d \in Dels : del[d].pc = "local")
    PROVE  \A g \in Gets : QuietOk(g)'
<1> SUFFICES ASSUME NEW g \in Gets, get[g].quiet PROVE FALSE
  BY NotQuiet
<1>1. Alone(g)
  BY DEF RepairInv, QuietOk
<1> QED BY <1>1 DEF Alone

\* Every step keeps what a quiet get may rely on.
LEMMA RepairNext == RepairInv /\ [ObjectNext]_objectVars => RepairInv'
<1> SUFFICES ASSUME RepairInv, [ObjectNext]_objectVars PROVE \A g \in Gets : QuietOk(g)'
  BY ObjTypesNext, ErrorsNext, RepliesNext DEF RepairInv
<1>1. ASSUME get' = Disturbed(get) PROVE \A g \in Gets : QuietOk(g)'
  BY <1>1, DisturbedQuiet, NotQuiet DEF RepairInv
<1>2. ASSUME NEW p \in Puts, NEW n \in Nodes, NEW prior \in known, PutBegin(p, n, prior)
      PROVE  \A g \in Gets : QuietOk(g)'
  BY <1>1, <1>2 DEF PutBegin
<1>3. ASSUME NEW p \in Puts, PutStore(p) \/ PutRequest(p) \/ PutFinish(p) PROVE \A g \in Gets : QuietOk(g)'
  <2>1. put[p].pc \in {"resolve", "fan"} /\ get' = get
    BY <1>3 DEF PutStore, PutRequest, PutFinish
  <2> QED BY <2>1, BusyQuiet
<1>4. ASSUME NEW g \in Gets, NEW n \in Nodes, GetBegin(g, n) PROVE \A h \in Gets : QuietOk(h)'
  BY <1>4, GetBeginQuiet
<1>5. ASSUME NEW g \in Gets, GetRequest(g) \/ GetFinish(g) PROVE \A h \in Gets : QuietOk(h)'
  BY <1>5, GetRequestQuiet, GetFinishQuiet
<1>6. ASSUME NEW d \in Dels, NEW n \in Nodes, DelBegin(d, n) PROVE \A g \in Gets : QuietOk(g)'
  BY <1>1, <1>6 DEF DelBegin
<1>7. ASSUME NEW d \in Dels, DelLocal(d) PROVE \A g \in Gets : QuietOk(g)'
  <2>1. del[d].pc = "local" /\ get' = get
    BY <1>7 DEF DelLocal
  <2> QED BY <2>1, BusyQuiet
<1>8. ASSUME NEW l \in Nodes \X Nodes, ApplyOp(l) PROVE \A g \in Gets : QuietOk(g)'
  BY <1>8, ApplyOpQuiet
<1>9. ASSUME NEW l \in Nodes \X Nodes, Drop(l) PROVE \A g \in Gets : QuietOk(g)'
  BY <1>1, <1>9 DEF Drop
<1>10. CASE UNCHANGED objectVars
  <2>1. UNCHANGED <<store, ops, put, get, del>>
    BY <1>10 DEF objectVars
  <2>2. \A g \in Gets : QuietOk(g)
    BY DEF RepairInv
  <2> QED BY <2>1, <2>2 DEF QuietOk, Alone, Asking, Repairing
<1> QED BY <1>2, <1>3, <1>4, <1>5, <1>6, <1>7, <1>8, <1>9, <1>10 DEF ObjectNext

\* A quiet get is, always, alone with the stores it found and its repairs.
LEMMA RepairAlways == ObjectSpec => []RepairInv
BY RepairInit, RepairNext, PTL DEF ObjectSpec

\* When its repairs have arrived every replica it heard holds what it merged.
LEMMA RepairSettles == RepairInv => RepairConverges
<1> SUFFICES ASSUME RepairInv, NEW g \in Gets, get[g].pc \in {"ok", "error"}, get[g].quiet,
                    \A l \in DOMAIN ops : ops[l] = <<>>, NEW r \in Repaired(g)
             PROVE  Range(store[r]) = Range(get[g].merged)
  BY DEF RepairConverges, SettledOn
<1> DEFINE H == Legit
<1>1. /\ ops \in [Nodes \X Nodes -> Seq(OpRecs(H))] /\ get[g].node \in Nodes /\ Repairing(g)
      /\ get[g].replies \in Seq(Replies(H))
  BY DEF RepairInv, ObjTypes, GetRecs, QuietOk
<1> HIDE DEF H
<1>2. r \in {get[g].node} \cup {x.node : x \in Elems(get[g].replies)}
  BY RangeElems DEF Repaired
<1>3. r \in Nodes
  <2>1. \A x \in Elems(get[g].replies) : x \in Replies(H)
    BY <1>1, ElemsIn
  <2>2. \A x \in Replies(H) : x.node \in Nodes
    BY DEF Replies
  <2> QED BY <1>1, <1>2, <2>1, <2>2
<1>4. ops[<<get[g].node, r>>] = <<>>
  BY <1>1, <1>3
<1>5. Elems(store[r]) = Elems(get[g].merged)
  BY <1>1, <1>2, <1>4 DEF Repairing
<1> QED BY <1>5, RangeElems

\* Read repair converges: once the repairs of an undisturbed get have arrived,
\* every replica that answered with a value, and the coordinator, holds exactly
\* the siblings it merged (read_repair_behind).
THEOREM RepairsConverge == ObjectSpec => []RepairConverges
BY RepairAlways, RepairSettles, PTL
=============================================================================
