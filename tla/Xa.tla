--------------------------------- MODULE Xa ---------------------------------
(***************************************************************************)
(* Two-phase commit across nodes: CrossNodeCoordinator, its in-doubt log   *)
(* and recovery scan, the transport, and XaPeer with its resource managers *)
(* (dyniak/src/datastore/xa_net.rs).                                       *)
(*                                                                         *)
(* A transaction stands for its writes.  A branch is known to the resource *)
(* managers by the global transaction id and the environment only.         *)
(*                                                                         *)
(* A phase is one step when its answer comes back.  When it does not, the  *)
(* message may still be on an abandoned connection, which the peer serves  *)
(* with a task of its own: it is `late`, and arrives later or never.       *)
(***************************************************************************)
EXTENDS Integers, Sequences, FiniteSets, Functions, SequencesExt

CONSTANTS
    Txns,        \* the batches clients hand to execute
    Branches,    \* CrossNodeCoordinator.branches: environments, in order
    Remote,      \* the environments on peers; the others are local
    Votes,       \* what a resource manager's prepare may return
    MaxCrashes,  \* bound: restarts of the coordinator
    MaxFaults    \* bound: failed writes of the in-doubt log

Envs == Range(Branches)
Local == Envs \ Remote

ASSUME BranchesAssumption ==
    /\ Branches \in Seq(Envs) /\ IsInjective(Branches) /\ Remote \subseteq Envs
\* mark_write precedes xa_prepare, so "ReadOnly" is not expected.
ASSUME VotesAssumption == Votes \subseteq {"Ok", "ReadOnly", "Abort"}
ASSUME BoundsAssumption == MaxCrashes \in Nat /\ MaxFaults \in Nat

VARIABLES
    phase,       \* where execute is: "new", "preparing", "rollback", "committing", "done"
    gtid,        \* the id a transaction got, 0 before it got one
    active,      \* the branches its operations were routed to
    vote,        \* what prepare_all has gathered
    todo,        \* branches the rollback or commit loop has still to visit
    in_doubt,    \* execute's flag
    decision,    \* what execute decided after the votes (history)
    outcome,     \* what execute returned
    next_gtid,   \* CrossNodeCoordinator.next_gtid
    booting,     \* new_with_recovery has not returned
    scan,        \* records recover_in_doubt has still to visit
    log,         \* the records of the in-doubt log that load returns
    torn,        \* its last line ends early
    swallowed,   \* records made unreadable by a torn line before them (history)
    prepared,    \* branches prepared in their resource manager
    committed,   \* <<transaction, environment>> whose writes took effect
    late,        \* messages on abandoned connections
    crashes, faults

exec == <<phase, gtid, active, vote, todo, in_doubt, decision, outcome>>
coord == <<next_gtid, booting, scan>>
disk == <<log, torn, swallowed>>
rms == <<prepared, committed>>
bounds == <<crashes, faults>>
vars == <<exec, coord, disk, rms, late, bounds>>

Init ==
    /\ phase = [t \in Txns |-> "new"] /\ gtid = [t \in Txns |-> 0]
    /\ active = [t \in Txns |-> {}] /\ vote = [t \in Txns |-> [e \in Envs |-> "none"]]
    /\ todo = [t \in Txns |-> {}] /\ in_doubt = [t \in Txns |-> FALSE]
    /\ decision = [t \in Txns |-> "none"] /\ outcome = [t \in Txns |-> "none"]
    /\ next_gtid = 1 /\ booting = TRUE /\ scan = <<>>
    /\ log = <<>> /\ torn = FALSE /\ swallowed = {}
    /\ prepared = {} /\ committed = {} /\ late = {}
    /\ crashes = 0 /\ faults = 0

-----------------------------------------------------------------------------
(* A resource manager                                                      *)

Held(g, e) == {p \in prepared : p.gtid = g /\ p.env = e}

\* handle_prepare, local_prepare: xa_start refuses an id it knows; the engine
\* may refuse the work, or have none to make durable.  A failed step is rolled
\* back at once.  A resolution that comes in between makes the next step fail,
\* which is the same as coming after.
MayVote(g, e, v) == v \in Votes /\ (Held(g, e) # {} => v = "Abort")
Prepared(t, g, e, v) == IF v = "Ok" THEN {[txn |-> t, gtid |-> g, env |-> e]} ELSE {}

\* resolve: an unknown id counts as resolved.
Commit(g, e) ==
    /\ committed' = committed \cup {<<p.txn, e>> : p \in Held(g, e)}
    /\ prepared' = prepared \ Held(g, e)
Rollback(g, e) == prepared' = prepared \ Held(g, e) /\ UNCHANGED committed

PrepareMsg(t, e) == [kind |-> "prepare", txn |-> t, gtid |-> gtid[t], env |-> e]
ResolveMsg(kind, g, e) == [kind |-> kind, gtid |-> g, env |-> e]

\* A message on an abandoned connection is served; nobody reads the answer.
LateArrives(m, v) ==
    /\ m \in late /\ late' = late \ {m}
    /\ \/ /\ m.kind = "prepare" /\ MayVote(m.gtid, m.env, v)
          /\ prepared' = prepared \cup Prepared(m.txn, m.gtid, m.env, v) /\ UNCHANGED committed
       \/ m.kind = "commit" /\ v = "Ok" /\ Commit(m.gtid, m.env)
       \/ m.kind = "rollback" /\ v = "Ok" /\ Rollback(m.gtid, m.env)
    /\ UNCHANGED <<exec, coord, disk, bounds>>

-----------------------------------------------------------------------------
(* The in-doubt log                                                        *)

\* record.  Behind a torn line the new one continues it, and neither can be
\* read.
Record(g, e) ==
    LET r == [gtid |-> g, env |-> e]
    IN  /\ log' = IF torn THEN log ELSE Append(log, r)
        /\ swallowed' = IF torn THEN swallowed \cup {r} ELSE swallowed
        /\ torn' = FALSE

\* resolve: a tombstone retires the first record it matches.
Retire(g, e) ==
    /\ log' = IF torn THEN log ELSE RemoveFirst(log, [gtid |-> g, env |-> e])
    /\ torn' = FALSE /\ UNCHANGED swallowed

\* append fails: before it writes, part-way through write_all, or in sync_all
\* when the whole line is there.  (A line that lacks only its newline counts as
\* torn: the next append spoils it.)
AppendFails(whole) ==
    /\ faults < MaxFaults /\ faults' = faults + 1
    /\ UNCHANGED disk \/ (torn' = TRUE /\ UNCHANGED <<log, swallowed>>) \/ whole

-----------------------------------------------------------------------------
(* execute                                                                 *)

\* Partition the batch, take an id, prepare the local branches inline; the
\* remote prepares are then on their way together.
Begin(t, S, v) ==
    /\ phase[t] = "new" /\ ~booting
    /\ \A e \in S \cap Local : MayVote(next_gtid, e, v[e])
    /\ phase' = [phase EXCEPT ![t] = "preparing"]
    /\ gtid' = [gtid EXCEPT ![t] = next_gtid] /\ next_gtid' = next_gtid + 1
    /\ active' = [active EXCEPT ![t] = S]
    /\ vote' = [vote EXCEPT ![t] = [e \in Envs |-> IF e \in S \cap Local THEN v[e] ELSE "none"]]
    /\ prepared' = prepared \cup UNION {Prepared(t, next_gtid, e, v[e]) : e \in S \cap Local}
    /\ UNCHANGED <<todo, in_doubt, decision, outcome, booting, scan, disk, committed, late, bounds>>

Waiting(t) == {e \in active[t] : vote[t][e] = "none"}

\* The vote of a remote branch comes back.
PrepareOk(t, e, v) ==
    /\ phase[t] = "preparing" /\ e \in Waiting(t) /\ MayVote(gtid[t], e, v)
    /\ vote' = [vote EXCEPT ![t][e] = v]
    /\ prepared' = prepared \cup Prepared(t, gtid[t], e, v)
    /\ UNCHANGED <<phase, gtid, active, todo, in_doubt, decision, outcome, coord, disk, committed, late, bounds>>

\* A timeout or a transport error.
PrepareFails(t, e) ==
    /\ phase[t] = "preparing" /\ e \in Waiting(t)
    /\ vote' = [vote EXCEPT ![t][e] = "Err"]
    /\ late' = late \cup {PrepareMsg(t, e)}
    /\ UNCHANGED <<phase, gtid, active, todo, in_doubt, decision, outcome, coord, disk, rms, bounds>>

\* Mutant: a prepare that was not answered is no reason to abort.
AbortVotes(t) == \E e \in active[t] : vote[t][e] = "Abort"

Abort(t) == \E e \in active[t] : vote[t][e] \in {"Abort", "Err"}

\* Presumed abort on any Abort vote or error; `force` is batch.force_abort.
Decide(t, force) ==
    /\ phase[t] = "preparing" /\ Waiting(t) = {}
    /\ IF Abort(t) \/ force
       THEN /\ phase' = [phase EXCEPT ![t] = "rollback"]
            /\ todo' = [todo EXCEPT ![t] = active[t]]
            /\ decision' = [decision EXCEPT ![t] = "abort"]
       ELSE /\ phase' = [phase EXCEPT ![t] = "committing"]
            /\ todo' = [todo EXCEPT ![t] = {e \in active[t] : vote[t][e] = "Ok"}]
            /\ decision' = [decision EXCEPT ![t] = "commit"]
    /\ UNCHANGED <<gtid, active, vote, in_doubt, outcome, coord, disk, rms, late, bounds>>

\* The loops visit the branches in order: it is e's turn.
Turn(t, e) ==
    \E i \in DOMAIN Branches :
        Branches[i] = e /\ e \in todo[t] /\ \A j \in 1..(i-1) : Branches[j] \notin todo[t]
Advance(t, e) == Turn(t, e) /\ todo' = [todo EXCEPT ![t] = @ \ {e}]

\* rollback_all: every active branch once; the answer, and the error of a local
\* engine, is ignored.
RollbackNext(t, e) ==
    /\ phase[t] = "rollback" /\ Advance(t, e)
    /\ \/ Rollback(gtid[t], e) /\ UNCHANGED late
       \/ e \in Local /\ UNCHANGED <<rms, late>>
       \/ e \in Remote /\ late' = late \cup {ResolveMsg("rollback", gtid[t], e)} /\ UNCHANGED rms
    /\ UNCHANGED <<phase, gtid, active, vote, decision, in_doubt, outcome, coord, disk, bounds>>

\* commit_branch is answered.  A local commit of an unknown id is an error.
CommitOk(t, e) ==
    /\ phase[t] = "committing" /\ Advance(t, e)
    /\ e \in Local => Held(gtid[t], e) # {}
    /\ Commit(gtid[t], e)
    /\ UNCHANGED <<phase, gtid, active, vote, decision, in_doubt, outcome, coord, disk, late, bounds>>

\* An attempt is not answered and another follows.
CommitRetry(t, e) ==
    /\ phase[t] = "committing" /\ Turn(t, e) /\ e \in Remote
    /\ late' = late \cup {ResolveMsg("commit", gtid[t], e)}
    /\ UNCHANGED <<exec, coord, disk, rms, bounds>>

\* Mutant: a branch that cannot be committed is rolled back.
CommitGivesUpRollsBack(t, e) ==
    /\ phase[t] = "committing" /\ Advance(t, e)
    /\ Rollback(gtid[t], e)
    /\ in_doubt' = [in_doubt EXCEPT ![t] = TRUE]
    /\ UNCHANGED <<phase, gtid, active, vote, decision, outcome, coord, disk, late, bounds>>

\* Mutant: the caller is not told.
CommitGivesUpQuietly(t, e) ==
    /\ phase[t] = "committing" /\ Advance(t, e)
    /\ late' = IF e \in Remote THEN late \cup {ResolveMsg("commit", gtid[t], e)} ELSE late
    /\ Record(gtid[t], e)
    /\ UNCHANGED <<phase, gtid, active, vote, decision, in_doubt, outcome, coord, rms, bounds>>

\* The last attempt failed: the branch is recorded, the others still driven.
CommitGivesUp(t, e) ==
    /\ phase[t] = "committing" /\ Advance(t, e)
    /\ late' = IF e \in Remote THEN late \cup {ResolveMsg("commit", gtid[t], e)} ELSE late
    /\ Record(gtid[t], e)
    /\ in_doubt' = [in_doubt EXCEPT ![t] = TRUE]
    /\ UNCHANGED <<phase, gtid, active, vote, decision, outcome, coord, rms, bounds>>

\* execute's locals end with it.
Returns(t, o) ==
    /\ phase' = [phase EXCEPT ![t] = "done"] /\ outcome' = [outcome EXCEPT ![t] = o]
    /\ todo' = [todo EXCEPT ![t] = {}] /\ in_doubt' = [in_doubt EXCEPT ![t] = FALSE]

\* So did the write of the record: execute returns at once.
RecordFails(t, e) ==
    /\ phase[t] = "committing" /\ Turn(t, e)
    /\ AppendFails(Record(gtid[t], e))
    /\ late' = IF e \in Remote THEN late \cup {ResolveMsg("commit", gtid[t], e)} ELSE late
    /\ Returns(t, "log_failed")
    /\ UNCHANGED <<gtid, active, vote, decision, coord, rms, crashes>>

Return(t) ==
    /\ phase[t] \in {"rollback", "committing"} /\ todo[t] = {}
    /\ Returns(t, IF phase[t] = "rollback" THEN IF Abort(t) THEN "error" ELSE "aborted"
                  ELSE IF in_doubt[t] THEN "in_doubt" ELSE "committed")
    /\ UNCHANGED <<gtid, active, vote, decision, coord, disk, rms, late, bounds>>

-----------------------------------------------------------------------------
(* recover_in_doubt, and the restart that calls it                         *)

Current == Head(scan)

\* redrive_commit is answered: the record is retired, unless the tombstone
\* cannot be written.
RedriveOk ==
    /\ scan # <<>> /\ scan' = Tail(scan)
    /\ Commit(Current.gtid, Current.env)
    /\ \/ Retire(Current.gtid, Current.env) /\ UNCHANGED faults
       \/ AppendFails(Retire(Current.gtid, Current.env))
    /\ UNCHANGED <<exec, next_gtid, booting, late, crashes>>

\* An attempt is not answered and another follows.
RedriveRetry ==
    /\ scan # <<>> /\ Current.env \in Remote
    /\ late' = late \cup {ResolveMsg("commit", Current.gtid, Current.env)}
    /\ UNCHANGED <<exec, coord, disk, rms, bounds>>

\* Mutant: the record is retired all the same.
RedriveFailsRetires ==
    /\ scan # <<>> /\ scan' = Tail(scan)
    /\ late' = IF Current.env \in Remote
               THEN late \cup {ResolveMsg("commit", Current.gtid, Current.env)} ELSE late
    /\ Retire(Current.gtid, Current.env)
    /\ UNCHANGED <<exec, next_gtid, booting, rms, bounds>>

\* No attempt was answered, or the local engine failed: the record stays.
RedriveFails ==
    /\ scan # <<>> /\ scan' = Tail(scan)
    /\ late' = IF Current.env \in Remote
               THEN late \cup {ResolveMsg("commit", Current.gtid, Current.env)} ELSE late
    /\ UNCHANGED <<exec, next_gtid, booting, disk, rms, bounds>>

\* The scan is re-runnable.
Rescan ==
    /\ scan = <<>> /\ ~booting /\ log # <<>>
    /\ scan' = log
    /\ UNCHANGED <<exec, next_gtid, booting, disk, rms, late, bounds>>

Booted ==
    /\ booting /\ scan = <<>> /\ booting' = FALSE
    /\ UNCHANGED <<exec, next_gtid, scan, disk, rms, late, bounds>>

Running == {t \in Txns : phase[t] \in {"preparing", "rollback", "committing"}}

\* Messages whose answer execute awaits, and the coordinator with it.
Awaited(t) ==
    LET next(p) == {e \in Remote : phase[t] = p /\ Turn(t, e)}
    IN  {PrepareMsg(t, e) : e \in {f \in Remote : phase[t] = "preparing" /\ f \in Waiting(t)}} \cup
        {ResolveMsg("rollback", gtid[t], e) : e \in next("rollback")} \cup
        {ResolveMsg("commit", gtid[t], e) : e \in next("committing")}
Outstanding ==
    (UNION {Awaited(t) : t \in Txns}) \cup
    (IF scan # <<>> /\ Current.env \in Remote
     THEN {ResolveMsg("commit", Current.gtid, Current.env)} ELSE {})

\* The coordinator's process ends, one message at most on each connection
\* (round_trip's lock) and possibly in the middle of a write of the log, and
\* is started again with new_with_recovery.
Crash(sent, tears) ==
    /\ crashes < MaxCrashes /\ crashes' = crashes + 1
    /\ \A m, n \in sent : m.env = n.env => m = n
    /\ tears => scan # <<>> \/ \E t \in Txns : phase[t] = "committing"
    /\ late' = late \cup sent /\ torn' = (torn \/ tears)
    /\ phase' = [t \in Txns |-> IF t \in Running THEN "done" ELSE phase[t]]
    /\ outcome' = [t \in Txns |-> IF t \in Running THEN "crashed" ELSE outcome[t]]
    /\ todo' = [t \in Txns |-> {}] /\ in_doubt' = [t \in Txns |-> FALSE]
    /\ next_gtid' = 1 /\ booting' = TRUE /\ scan' = log
    /\ UNCHANGED <<gtid, active, vote, decision, log, swallowed, rms, faults>>

-----------------------------------------------------------------------------

Execute(t) ==
    \/ \E e \in Remote, v \in Votes : PrepareOk(t, e, v)
    \/ \E e \in Remote : PrepareFails(t, e)
    \/ \E force \in BOOLEAN : Decide(t, force)
    \/ \E e \in Envs : \/ RollbackNext(t, e) \/ CommitOk(t, e) \/ CommitRetry(t, e)
                      \/ CommitGivesUp(t, e) \/ RecordFails(t, e)
    \/ Return(t)

Next ==
    \/ \E t \in Txns : \E S \in (SUBSET Envs) \ {{}}, v \in [Local -> Votes] : Begin(t, S, v)
    \/ \E t \in Txns : Execute(t)
    \/ RedriveOk \/ RedriveRetry \/ RedriveFails \/ Rescan \/ Booted
    \/ \E m \in late, v \in Votes : LateArrives(m, v)
    \/ \E sent \in SUBSET Outstanding, tears \in BOOLEAN : Crash(sent, tears)

Spec == Init /\ [][Next]_vars

-----------------------------------------------------------------------------
(* Properties                                                              *)

Messages ==
    [kind : {"prepare"}, txn : Txns, gtid : Nat, env : Remote] \cup
    [kind : {"commit", "rollback"}, gtid : Nat, env : Remote]
Records == [gtid : Nat, env : Envs]

\* Types; only messages to remote branches are ever late (DnodeXaTransport).
TypeOK ==
    /\ phase \in [Txns -> {"new", "preparing", "rollback", "committing", "done"}]
    /\ gtid \in [Txns -> Nat] /\ active \in [Txns -> SUBSET Envs]
    /\ vote \in [Txns -> [Envs -> Votes \cup {"none", "Err"}]]
    /\ todo \in [Txns -> SUBSET Envs] /\ in_doubt \in [Txns -> BOOLEAN]
    /\ decision \in [Txns -> {"none", "commit", "abort"}]
    /\ outcome \in [Txns -> {"none", "error", "aborted", "in_doubt", "committed",
                             "log_failed", "crashed"}]
    /\ next_gtid \in Nat \ {0} /\ booting \in BOOLEAN
    /\ scan \in Seq(Records) /\ log \in Seq(Records) /\ torn \in BOOLEAN
    /\ swallowed \subseteq Records
    /\ prepared \subseteq [txn : Txns, gtid : Nat, env : Envs]
    /\ committed \subseteq Txns \X Envs
    /\ late \subseteq Messages
    /\ crashes \in 0..MaxCrashes /\ faults \in 0..MaxFaults

\* No id has been given to two transactions: true of one run of the process,
\* false once a restarted one hands out the ids from 1 again.
Fresh == \A t, u \in Txns : gtid[t] = gtid[u] /\ gtid[t] # 0 => t = u

Voted(t) == {e \in active[t] : vote[t][e] = "Ok"}
Recorded(t, e) == [gtid |-> gtid[t], env |-> e] \in Range(log)
Swallowed(t, e) == [gtid |-> gtid[t], env |-> e] \in swallowed
Safe(t, e) == <<t, e>> \in committed \/ \E p \in prepared : p.txn = t /\ p.env = e

\* A branch's writes take effect only if every branch has voted for the
\* transaction, whatever arrives late (execute, prepare_all).
CommitIsUnanimous ==
    Fresh => \A t \in Txns : (\E e \in Envs : <<t, e>> \in committed) =>
        active[t] # {} /\ \A e \in active[t] : vote[t][e] \in {"Ok", "ReadOnly"}

\* Once one branch is committed no other that voted Ok is ever undone: each is
\* committed or still prepared, through lost commits, restarts and scans.
ForwardOnly ==
    Fresh => \A t \in Txns : (\E e \in Envs : <<t, e>> \in committed) =>
        \A e \in Voted(t) : Safe(t, e)

\* What execute tells its caller: "committed" means every branch that voted Ok
\* is, an abort or error means none ever will be.
OutcomeIsTrue ==
    Fresh => \A t \in Txns :
        /\ outcome[t] = "committed" => \A e \in Voted(t) : <<t, e>> \in committed
        /\ outcome[t] \in {"aborted", "error"} => \A e \in Envs : <<t, e>> \notin committed

\* A transaction reported in doubt can be finished: each branch is committed,
\* or is prepared and has a record that the next scan finds, unless the record
\* followed a line that a failed append tore; and each failed append costs at
\* most one such record (append, record, resolve, load, recover_in_doubt).
InDoubtIsRecorded ==
    Fresh =>
        /\ \A t \in Txns : outcome[t] = "in_doubt" => \A e \in Voted(t) :
              <<t, e>> \in committed \/ (Safe(t, e) /\ (Recorded(t, e) \/ Swallowed(t, e)))
        /\ Cardinality(swallowed) <= faults

-----------------------------------------------------------------------------
(* What the documentation says, where the code does otherwise              *)

\* model-tests/src/xa.rs: "Decided to commit (every vote was Ok). This decision
\* is durable (the in-doubt log makes it survive a coordinator crash), so a cold
\* restart re-drives commits."
DecisionSurvivesCrash ==
    \A t \in Txns : outcome[t] = "crashed" /\ (\E e \in Envs : <<t, e>> \in committed) =>
        \A e \in Voted(t) : <<t, e>> \in committed \/ Recorded(t, e)
=============================================================================
