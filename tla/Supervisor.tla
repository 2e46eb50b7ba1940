----------------------------- MODULE Supervisor -----------------------------
(* The supervision tree (dyn-sup/src/supervisor.rs): one supervisor task,   *)
(* the tasks of its children, the restart timers, and a caller that may ask *)
(* for shutdown at any moment.  All of them talk to the supervisor through  *)
(* one event channel, so every decision is made on what was true earlier.   *)
(*                                                                         *)
(* SimpleOneForOne restarts like OneForOne.  Backoff delays are left out: a *)
(* restart timer fires at any moment.                                       *)
EXTENDS Integers, Sequences

CONSTANTS
    N,             \* children, in registration order
    Strategies,
    Policies,
    MaxExits       \* bound: runs of a child that end by themselves

ASSUME SupervisorAssumption ==
    /\ N \in Nat
    /\ Strategies \subseteq {"OneForOne", "OneForAll", "RestForOne"}
    /\ Policies \subseteq {"Permanent", "Transient", "Temporary"}
    /\ MaxExits \in Nat

VARIABLES
    strategy, policy,   \* fixed when the supervisor is built
    phase,              \* "built", "running", or what run returned
    shutting_down,
    state,              \* ChildState of each child
    generation,
    abort,              \* generation of the task whose abort handle is held, or 0
    tasks,              \* [child, gen, aborted, body]: live tokio tasks
    timers,             \* [child, gen]: restart timers
    events,             \* the supervisor's channel
    watch, bridge,      \* the shutdown signal and the task that forwards it
    asked,              \* history: when a shutdown call returned Ok
    exits

Children == 1..N

config == <<strategy, policy>>
signal == <<watch, bridge, asked>>
child == <<state, generation, abort>>
supVars == <<config, phase, shutting_down, child, tasks, timers, events, signal, exits>>

States == {"Idle", "Running", "BackingOff", "Removed"}
Returned == {"AllChildrenStopped", "Shutdown"}

Event(kind, c, gen, exit) == [kind |-> kind, child |-> c, gen |-> gen, exit |-> exit]
NoChild == 0

Task(c, gen) == [child |-> c, gen |-> gen, aborted |-> FALSE, body |-> FALSE]

SupInit ==
    /\ strategy \in Strategies /\ policy \in [Children -> Policies]
    /\ phase = "built" /\ shutting_down = FALSE
    /\ state = [c \in Children |-> "Idle"]
    /\ generation = [c \in Children |-> 0]
    /\ abort = [c \in Children |-> 0]
    /\ tasks = {} /\ timers = {} /\ events = <<>>
    /\ watch = FALSE /\ bridge = "none" /\ asked = "no"
    /\ exits = 0

-----------------------------------------------------------------------------
(* The supervisor task                                                     *)

\* The tasks after the handles held for the children in S were aborted.  The
\* abort takes effect when the task next awaits.
Aborting(S) ==
    {IF t.child \in S /\ t.gen = abort[t.child] THEN [t EXCEPT !.aborted = TRUE] ELSE t : t \in tasks}

\* run: subscribe to the shutdown signal and spawn every child.
Run ==
    /\ phase = "built" /\ phase' = "running"
    /\ bridge' = "armed"
    /\ state' = [c \in Children |-> "Running"]
    /\ generation' = [c \in Children |-> 1] /\ abort' = [c \in Children |-> 1]
    /\ tasks' = {Task(c, 1) : c \in Children}
    /\ UNCHANGED <<config, shutting_down, timers, events, watch, asked, exits>>

AllTerminal == \A c \in Children : state[c] = "Removed"
Alive == {c \in Children : state[c] \in {"Running", "BackingOff"}}

\* The head of the loop: nothing is left to do.
Returns ==
    IF shutting_down THEN Alive = {} ELSE AllTerminal

Return ==
    /\ phase = "running" /\ Returns
    /\ phase' = IF shutting_down THEN "Shutdown" ELSE "AllChildrenStopped"
    /\ events' = <<>>
    /\ bridge' = "none"
    /\ UNCHANGED <<config, shutting_down, child, tasks, timers, watch, asked, exits>>

\* The next event is taken from the channel.
Next_event(kind) ==
    /\ phase = "running" /\ ~Returns
    /\ events # <<>> /\ Head(events).kind = kind
    /\ events' = Tail(events)

\* Mutant: the handles are dropped without aborting the tasks.
HandleShutdownDrops ==
    /\ Next_event("Shutdown")
    /\ shutting_down' = TRUE
    /\ abort' = [c \in Children |-> 0]
    /\ state' = [c \in Children |-> IF state[c] = "Running" THEN "Idle"
                                    ELSE IF state[c] = "BackingOff" THEN "Removed" ELSE state[c]]
    /\ UNCHANGED <<config, phase, generation, tasks, timers, signal, exits>>

\* handle_shutdown_event.  No child is Running or BackingOff after it, so the
\* loop ends at its head: it never waits for a child to drain, the drain timeout
\* never fires and no event is handled while shutting down.
HandleShutdown ==
    /\ Next_event("Shutdown")
    /\ shutting_down' = TRUE
    /\ tasks' = Aborting(Children)
    /\ abort' = [c \in Children |-> 0]
    /\ state' = [c \in Children |-> IF state[c] = "Running" THEN "Idle"
                                    ELSE IF state[c] = "BackingOff" THEN "Removed" ELSE state[c]]
    /\ UNCHANGED <<config, phase, generation, timers, signal, exits>>

\* Mutant: a normal exit ends a Permanent child.
RestartsAbnormal(c, exit) == policy[c] # "Temporary" /\ exit = "Err"

\* restart_self.
RestartsSelf(c, exit) ==
    \/ policy[c] = "Permanent"
    \/ policy[c] = "Transient" /\ exit = "Err"

\* The children cascade terminates besides the one that exited.
Siblings(c) ==
    CASE strategy = "OneForAll" -> Children \ {c}
      [] strategy = "RestForOne" -> {d \in Children : d > c}
      [] OTHER -> {}

\* The generation of a sibling that is terminated and respawned: each bumps it.
SiblingGeneration(d) == generation[d] + 2

\* cascade: siblings are aborted and those that are not Temporary spawned
\* again, whatever their state was; the child itself is respawned at once after
\* a normal exit, after a backoff otherwise.
Cascade(c, exit) ==
    LET siblings == Siblings(c)
        again == {d \in siblings : policy[d] # "Temporary"}
        self == RestartsSelf(c, exit)
        spawned == again \cup (IF self /\ exit = "Ok" THEN {c} ELSE {})
        bumped == siblings \cup (IF self THEN {c} ELSE {})
        gen == [d \in Children |-> IF d \in again THEN SiblingGeneration(d)
                                   ELSE IF d \in bumped THEN generation[d] + 1 ELSE generation[d]]
    IN  /\ generation' = gen
        /\ state' = [d \in Children |-> IF d \in spawned THEN "Running"
                                        ELSE IF d = c /\ self THEN "BackingOff"
                                        ELSE IF d \in siblings \cup {c} THEN "Removed" ELSE state[d]]
        /\ abort' = [d \in Children |-> IF d \in spawned THEN gen[d]
                                        ELSE IF d \in siblings \cup {c} THEN 0 ELSE abort[d]]
        /\ tasks' = Aborting(siblings) \cup {Task(d, gen[d]) : d \in spawned}
        /\ timers' = timers \cup
                (IF self /\ exit # "Ok" THEN {[child |-> c, gen |-> gen[c]]} ELSE {})

\* Mutant: an exit is believed whatever generation it is of.
HandleChildExitedAny ==
    /\ Next_event("ChildExited")
    /\ Cascade(Head(events).child, Head(events).exit)
    /\ UNCHANGED <<config, phase, shutting_down, signal, exits>>

\* handle_child_exited: the exit of an earlier generation is ignored.
HandleChildExited ==
    LET e == Head(events) IN
    /\ Next_event("ChildExited")
    /\ IF e.gen # generation[e.child] THEN UNCHANGED <<child, tasks, timers>>
       ELSE Cascade(e.child, e.exit)
    /\ UNCHANGED <<config, phase, shutting_down, signal, exits>>

\* handle_restart_ready: spawn_child, unless the child went on meanwhile.
HandleRestartReady ==
    LET e == Head(events)
        g == generation[e.child] + 1
    IN  /\ Next_event("RestartReady")
        /\ IF e.gen = generation[e.child] /\ state[e.child] = "BackingOff"
           THEN /\ generation' = [generation EXCEPT ![e.child] = g]
                /\ abort' = [abort EXCEPT ![e.child] = g]
                /\ state' = [state EXCEPT ![e.child] = "Running"]
                /\ tasks' = tasks \cup {Task(e.child, g)}
           ELSE UNCHANGED <<child, tasks>>
        /\ UNCHANGED <<config, phase, shutting_down, timers, signal, exits>>

-----------------------------------------------------------------------------
(* The children's tasks, the timers and the caller                         *)

\* An event reaches the supervisor if it is still there to receive it.
Sent(e) == events' = IF phase = "running" THEN Append(events, e) ELSE events

\* A run starts when the task gets the lock on its child (make_factory).
Enter(t) ==
    /\ t \in tasks /\ ~t.body
    /\ \A u \in tasks : u.child = t.child => ~u.body
    /\ tasks' = (tasks \ {t}) \cup {[t EXCEPT !.body = TRUE]}
    /\ UNCHANGED <<config, phase, shutting_down, child, timers, events, signal, exits>>

\* A run ends, and the task that joins it reports how.
Exit(t, exit) ==
    /\ t \in tasks /\ t.body /\ ~t.aborted /\ exits < MaxExits
    /\ exits' = exits + 1
    /\ tasks' = tasks \ {t}
    /\ Sent(Event("ChildExited", t.child, t.gen, exit))
    /\ UNCHANGED <<config, phase, shutting_down, child, timers, signal>>

\* An abort takes effect.
Cancelled(t) ==
    /\ t \in tasks /\ t.aborted
    /\ tasks' = tasks \ {t}
    /\ Sent(Event("ChildExited", t.child, t.gen, "Cancelled"))
    /\ UNCHANGED <<config, phase, shutting_down, child, timers, signal, exits>>

\* The backoff of schedule_restart is over.
Timer(r) ==
    /\ r \in timers /\ timers' = timers \ {r}
    /\ Sent(Event("RestartReady", r.child, r.gen, "none"))
    /\ UNCHANGED <<config, phase, shutting_down, child, tasks, signal, exits>>

\* SupervisorHandle::shutdown, which returns Ok.  The watch channel takes a
\* value only while somebody is subscribed, that is, once run has begun.
Shutdown ==
    /\ phase \in {"built", "running"} /\ asked = "no"
    /\ asked' = phase
    /\ watch' = (phase = "running")
    /\ UNCHANGED <<config, phase, shutting_down, child, tasks, timers, events, bridge, exits>>

\* The bridge forwards the signal.
Bridge ==
    /\ bridge = "armed" /\ watch
    /\ bridge' = "none"
    /\ Sent(Event("Shutdown", NoChild, 0, "none"))
    /\ UNCHANGED <<config, phase, shutting_down, child, tasks, timers, watch, asked, exits>>

-----------------------------------------------------------------------------

SupNext ==
    \/ Run \/ Return \/ HandleShutdown \/ HandleChildExited \/ HandleRestartReady
    \/ \E t \in tasks : Enter(t) \/ Cancelled(t) \/ (\E exit \in {"Ok", "Err"} : Exit(t, exit))
    \/ \E r \in timers : Timer(r)
    \/ Shutdown \/ Bridge

\* The runtime schedules every task that can go on, and timers fire.  Nobody has
\* to ask for shutdown and no run has to end by itself.
SupFairness ==
    /\ WF_supVars(Run) /\ WF_supVars(Return) /\ WF_supVars(Bridge)
    /\ WF_supVars(HandleShutdown \/ HandleChildExited \/ HandleRestartReady)
    /\ WF_supVars(\E t \in tasks : Cancelled(t))
    /\ WF_supVars(\E t \in tasks : Enter(t))
    /\ WF_supVars(\E r \in timers : Timer(r))

SupSpec == SupInit /\ [][SupNext]_supVars /\ SupFairness

-----------------------------------------------------------------------------
(* Properties                                                              *)

\* Every task that nobody told to stop is the current one of a child the
\* supervisor takes for running, so no child has two; and a child taken for
\* running has its task, or the exit of it is on the way.  Exits and timers that
\* were overtaken by a cascade or a restart would break either half
\* (spawn_child, terminate_others, terminate_after, generation).
TasksAccounted ==
    /\ \A t \in tasks : ~t.aborted =>
            phase = "running" /\ state[t.child] = "Running" /\ t.gen = generation[t.child]
    /\ phase = "running" => \A c \in Children : state[c] = "Running" =>
            \/ \E t \in tasks : t.child = c /\ t.gen = generation[c] /\ ~t.aborted
            \/ \E i \in DOMAIN events : /\ events[i].kind = "ChildExited" /\ events[i].child = c
                                        /\ events[i].gen = generation[c]

Working(c) == \E t \in tasks : t.child = c /\ t.body /\ ~t.aborted

\* A Permanent child is never given up: until the supervisor ends, it is at work
\* or will be, whatever became of it and of its siblings, a run that still holds
\* the child's lock while it is aborted included (handle_child_exited, cascade,
\* schedule_restart).
PermanentComesBack ==
    \A c \in Children :
        (phase = "running" /\ policy[c] = "Permanent") ~> (Working(c) \/ phase \in Returned)

\* A shutdown asked of a running supervisor makes run return, and every task end
\* (handle_shutdown_event).
ShutdownStops ==
    asked = "running" ~> (phase \in Returned /\ tasks = {})

-----------------------------------------------------------------------------
(* What the documentation says, where the code does otherwise              *)

\* supervisor.rs: "a shutdown request fired before the supervisor's bridge task
\* has subscribed is still observed".
ShutdownObserved == asked # "no" ~> phase \in Returned

\* supervisor.rs, of ChildState::Removed: "It will not run again."
RemovedStays == [][\A c \in Children : state[c] = "Removed" => state'[c] = "Removed"]_supVars
=============================================================================
