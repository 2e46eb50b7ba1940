-------------------------------- MODULE Ramp --------------------------------
(***************************************************************************)
(* RAMP-Fast transactions over one node's Noxu store (dyniak ramp.rs,      *)
(* ramp_store.rs), as the HTTP front end runs them: every request is a     *)
(* thread of its own that goes through ramp_write or read_rounds one store *)
(* operation at a time, without a lock, so writers and readers interleave  *)
(* between any two store operations.                                       *)
(*                                                                         *)
(* PREPARE writes a version of every key, COMMIT then moves every key's    *)
(* latest-visible pointer; moving it is a get and a put.  Any store        *)
(* operation may fail, which ends the request where it is.  The store      *)
(* survives a restart of the process, the timestamp counter does not.      *)
(* The order in which a request goes through its keys is left open.        *)
(***************************************************************************)
EXTENDS Naturals

CONSTANTS
    Keys,
    Txns,         \* write transactions
    WriteSet,     \* [Txns -> keys]: what each one writes
    Readers,      \* read transactions
    ReadSet,      \* [Readers -> keys]: what each one reads
    None,         \* no store operation under way
    MaxRestarts   \* bound on restarts of the process

ASSUME WriteSetAssumption == WriteSet \in [Txns -> (SUBSET Keys) \ {{}}]
ASSUME ReadSetAssumption == ReadSet \in [Readers -> SUBSET Keys]
ASSUME NoneAssumption == None \notin [key : Keys, ts : Nat]
ASSUME RestartsAssumption == MaxRestarts \in Nat

VARIABLES
    counter,      \* HTTP_COUNTER: the last timestamp minted by this process
    versions,     \* the store's versioned items
    pointer,      \* the store's latest-visible pointers, 0 where there is none
    restarts,
    pc,           \* a writer: "idle", "prepare", "commit", "done" or "failed"
    ts,           \* a writer's timestamp, 0 before it is minted
    todo,         \* the keys a writer's phase has not reached yet
    held,         \* a writer between the get and the put of commit_pointer
    rpc,          \* a reader: "round1", "round2", "done", "failed", "dangling"
    rtodo,        \* the keys round 1 has not read yet
    at,           \* a reader between latest_visible and get_version
    round1,       \* the items round 1 read
    missing,      \* what round 2 still has to fetch
    fetched,      \* the items round 2 fetched
    raced         \* keys whose pointer changed between a get and its put (history)

store == <<versions, pointer>>
writers == <<pc, ts, todo, held>>
readers == <<rpc, rtodo, at, round1, missing, fetched>>
vars == <<counter, restarts, store, writers, readers, raced>>

-----------------------------------------------------------------------------
(* Items and the round-2 decision                                          *)

\* A version's place in the store.
Places == [key : Keys, ts : Nat]

\* RampItem: what a transaction stored for one key; its value is the
\* transaction itself, its siblings the other keys of the batch.
Items == [key : Keys, ts : Nat, siblings : SUBSET Keys, value : Txns]

Item(t, k, n) == [key |-> k, ts |-> n, siblings |-> WriteSet[t] \ {k}, value |-> t]

\* get_version: the item at a place; there is one at most.
ItemsAt(items, p) == {i \in items : i.key = p.key /\ i.ts = p.ts}

\* The sibling writes a reader of these items has seen one half of only: it
\* has no version of the sibling, or an older one than the item's.
Required(items) ==
    {p \in [key : Keys, ts : {i.ts : i \in items}] :
        /\ \E i \in items : i.ts = p.ts /\ p.key \in i.siblings
        /\ 0 < p.ts
        /\ \A i \in items : i.key = p.key => i.ts < p.ts}

\* Mutant: the oldest sibling write asked for is fetched.
SelectOldest(items) ==
    {p \in Required(items) : \A q \in Required(items) : q.key = p.key => q.ts >= p.ts}

\* select: for each such sibling the highest timestamp asked for.
Select(items) ==
    {p \in Required(items) : \A q \in Required(items) : q.key = p.key => q.ts <= p.ts}

-----------------------------------------------------------------------------
(* Writers: ramp_write                                                     *)

Init ==
    /\ counter = 0 /\ versions = {} /\ pointer = [k \in Keys |-> 0] /\ restarts = 0
    /\ pc = [t \in Txns |-> "idle"] /\ ts = [t \in Txns |-> 0]
    /\ todo = [t \in Txns |-> {}] /\ held = [t \in Txns |-> None]
    /\ rpc = [r \in Readers |-> "round1"] /\ rtodo = ReadSet
    /\ at = [r \in Readers |-> None] /\ round1 = [r \in Readers |-> {}]
    /\ missing = [r \in Readers |-> {}] /\ fetched = [r \in Readers |-> {}]
    /\ raced = {}

\* next_http_ts, for the front end's coordinator id 0.
Mint(t) ==
    /\ pc[t] = "idle"
    /\ counter' = counter + 1
    /\ ts' = [ts EXCEPT ![t] = counter + 1]
    /\ pc' = [pc EXCEPT ![t] = "prepare"]
    /\ todo' = [todo EXCEPT ![t] = WriteSet[t]]
    /\ UNCHANGED <<restarts, store, held, readers, raced>>

\* Mutant: the commits start after the first version is written.
PrepareOneOnly(t, k) ==
    /\ pc[t] = "prepare" /\ k \in todo[t]
    /\ versions' = {i \in versions : ~(i.key = k /\ i.ts = ts[t])} \cup {Item(t, k, ts[t])}
    /\ pc' = [pc EXCEPT ![t] = "commit"] /\ todo' = [todo EXCEPT ![t] = WriteSet[t]]
    /\ UNCHANGED <<counter, restarts, pointer, ts, held, readers, raced>>

\* put_version: an item at the same place is overwritten.
Prepare(t, k) ==
    /\ pc[t] = "prepare" /\ k \in todo[t]
    /\ versions' = {i \in versions : ~(i.key = k /\ i.ts = ts[t])} \cup {Item(t, k, ts[t])}
    /\ IF todo[t] = {k}
       THEN pc' = [pc EXCEPT ![t] = "commit"] /\ todo' = [todo EXCEPT ![t] = WriteSet[t]]
       ELSE todo' = [todo EXCEPT ![t] = @ \ {k}] /\ UNCHANGED pc
    /\ UNCHANGED <<counter, restarts, pointer, ts, held, readers, raced>>

\* A key's commit_pointer is over; the last one ends the write.
Committed(t, k) ==
    /\ todo' = [todo EXCEPT ![t] = @ \ {k}]
    /\ pc' = [pc EXCEPT ![t] = IF todo[t] = {k} THEN "done" ELSE @]

\* Mutant: the pointer is moved wherever it is.
CommitGetAnyway(t, k) ==
    /\ pc[t] = "commit" /\ k \in todo[t] /\ held[t] = None
    /\ held' = [held EXCEPT ![t] = [key |-> k, ts |-> pointer[k]]]
    /\ UNCHANGED <<counter, restarts, store, pc, ts, todo, readers, raced>>

\* commit_pointer's get: a pointer that is already as far is left alone.
CommitGet(t, k) ==
    /\ pc[t] = "commit" /\ k \in todo[t] /\ held[t] = None
    /\ IF pointer[k] >= ts[t]
       THEN Committed(t, k) /\ UNCHANGED held
       ELSE held' = [held EXCEPT ![t] = [key |-> k, ts |-> pointer[k]]] /\ UNCHANGED <<pc, todo>>
    /\ UNCHANGED <<counter, restarts, store, ts, readers, raced>>

\* commit_pointer's put.
CommitPut(t, k) ==
    /\ pc[t] = "commit" /\ held[t] # None /\ held[t].key = k
    /\ pointer' = [pointer EXCEPT ![k] = ts[t]]
    /\ Committed(t, k)
    /\ held' = [held EXCEPT ![t] = None]
    /\ raced' = IF pointer[k] # held[t].ts THEN raced \cup {k} ELSE raced
    /\ UNCHANGED <<counter, restarts, versions, ts, readers>>

\* A store operation of a writer fails.
WriteFails(t) ==
    /\ pc[t] \in {"prepare", "commit"}
    /\ pc' = [pc EXCEPT ![t] = "failed"]
    /\ held' = [held EXCEPT ![t] = None]
    /\ UNCHANGED <<counter, restarts, store, ts, todo, readers, raced>>

-----------------------------------------------------------------------------
(* Readers: read_rounds                                                    *)

\* latest_visible: a key without a pointer is left out.
LatestVisible(r, k) ==
    /\ rpc[r] = "round1" /\ at[r] = None /\ k \in rtodo[r]
    /\ IF pointer[k] = 0
       THEN rtodo' = [rtodo EXCEPT ![r] = @ \ {k}] /\ UNCHANGED at
       ELSE at' = [at EXCEPT ![r] = [key |-> k, ts |-> pointer[k]]] /\ UNCHANGED rtodo
    /\ UNCHANGED <<counter, restarts, store, writers, rpc, round1, missing, fetched, raced>>

\* get_version, in round 1.
GetVersion(r) ==
    /\ rpc[r] = "round1" /\ at[r] # None
    /\ IF ItemsAt(versions, at[r]) = {}
       THEN rpc' = [rpc EXCEPT ![r] = "dangling"] /\ UNCHANGED <<round1, rtodo>>
       ELSE /\ round1' = [round1 EXCEPT ![r] = @ \cup ItemsAt(versions, at[r])]
            /\ rtodo' = [rtodo EXCEPT ![r] = @ \ {at[r].key}]
            /\ UNCHANGED rpc
    /\ at' = [at EXCEPT ![r] = None]
    /\ UNCHANGED <<counter, restarts, store, writers, missing, fetched, raced>>

\* The end of round 1: there is a second round only if something is missing.
DecideRound2(r) ==
    /\ rpc[r] = "round1" /\ at[r] = None /\ rtodo[r] = {}
    /\ missing' = [missing EXCEPT ![r] = Select(round1[r])]
    /\ rpc' = [rpc EXCEPT ![r] = IF Select(round1[r]) = {} THEN "done" ELSE "round2"]
    /\ UNCHANGED <<counter, restarts, store, writers, rtodo, at, round1, fetched, raced>>

\* get_version, in round 2.
Fetch(r, p) ==
    /\ rpc[r] = "round2" /\ p \in missing[r]
    /\ IF ItemsAt(versions, p) = {}
       THEN rpc' = [rpc EXCEPT ![r] = "dangling"] /\ UNCHANGED fetched
       ELSE /\ fetched' = [fetched EXCEPT ![r] = @ \cup ItemsAt(versions, p)]
            /\ rpc' = [rpc EXCEPT ![r] = IF missing[r] = {p} THEN "done" ELSE @]
    /\ missing' = [missing EXCEPT ![r] = @ \ {p}]
    /\ UNCHANGED <<counter, restarts, store, writers, rtodo, at, round1, raced>>

\* A store operation of a reader fails.
ReadFails(r) ==
    /\ rpc[r] \in {"round1", "round2"}
    /\ rpc' = [rpc EXCEPT ![r] = "failed"]
    /\ UNCHANGED <<counter, restarts, store, writers, rtodo, at, round1, missing, fetched, raced>>

-----------------------------------------------------------------------------

\* The process is restarted: its requests are gone, the store is not, and the
\* counter starts again.  A client whose read was cut off may ask again.
Cut(r) == rpc[r] \in {"round1", "round2"}

Restart ==
    /\ restarts < MaxRestarts
    /\ restarts' = restarts + 1
    /\ counter' = 0
    /\ pc' = [t \in Txns |-> IF pc[t] \in {"prepare", "commit"} THEN "failed" ELSE pc[t]]
    /\ held' = [t \in Txns |-> None]
    /\ rpc' = [r \in Readers |-> IF Cut(r) THEN "round1" ELSE rpc[r]]
    /\ rtodo' = [r \in Readers |-> IF Cut(r) THEN ReadSet[r] ELSE rtodo[r]]
    /\ at' = [r \in Readers |-> None]
    /\ round1' = [r \in Readers |-> IF Cut(r) THEN {} ELSE round1[r]]
    /\ missing' = [r \in Readers |-> IF Cut(r) THEN {} ELSE missing[r]]
    /\ fetched' = [r \in Readers |-> IF Cut(r) THEN {} ELSE fetched[r]]
    /\ UNCHANGED <<store, ts, todo, raced>>

Next ==
    \/ \E t \in Txns : \/ Mint(t) \/ WriteFails(t)
                       \/ \E k \in Keys : Prepare(t, k) \/ CommitGet(t, k) \/ CommitPut(t, k)
    \/ \E r \in Readers : \/ GetVersion(r) \/ DecideRound2(r) \/ ReadFails(r)
                          \/ \E k \in Keys : LatestVisible(r, k)
                          \/ \E p \in missing[r] : Fetch(r, p)
    \/ Restart

Spec == Init /\ [][Next]_vars

-----------------------------------------------------------------------------
(* Properties                                                              *)

\* Types of the variables.
TypeOK ==
    /\ counter \in Nat /\ restarts \in 0..MaxRestarts
    /\ versions \subseteq Items /\ pointer \in [Keys -> Nat]
    /\ pc \in [Txns -> {"idle", "prepare", "commit", "done", "failed"}]
    /\ ts \in [Txns -> Nat] /\ todo \in [Txns -> SUBSET Keys]
    /\ held \in [Txns -> Places \cup {None}]
    /\ rpc \in [Readers -> {"round1", "round2", "done", "failed", "dangling"}]
    /\ rtodo \in [Readers -> SUBSET Keys] /\ at \in [Readers -> Places \cup {None}]
    /\ round1 \in [Readers -> SUBSET Items] /\ fetched \in [Readers -> SUBSET Items]
    /\ missing \in [Readers -> SUBSET Places]
    /\ raced \subseteq Keys

\* No two transactions share a timestamp: next_http_ts gives that within one
\* life of the process.
Fresh == \A t, u \in Txns : ts[t] # 0 /\ ts[t] = ts[u] => t = u

\* The map read_rounds answers with: round 2 overrides round 1.
Snapshot(r) ==
    {i \in round1[r] : \A f \in fetched[r] : f.key # i.key} \cup fetched[r]

\* A finished read saw all of a transaction or nothing of it: whichever item it
\* answers with, every other key of that transaction is in the answer too, at
\* least as new.  It holds with writers between any two of their store
\* operations, writers that failed half way through either phase, and pointers
\* moved by racing commits (ramp_write, read_rounds, select).
ReadAtomic ==
    Fresh => \A r \in Readers : rpc[r] = "done" =>
        \A i \in Snapshot(r) : \A k \in i.siblings :
            \E j \in Snapshot(r) : j.key = k /\ j.ts >= i.ts

\* No read ends in DanglingVersion, "This must never happen" (RampError): what a
\* pointer names and what round 2 asks for has been prepared.
NoDangling == Fresh => \A r \in Readers : rpc[r] # "dangling"

\* An acknowledged write stays visible: the pointer of each of its keys names
\* its version or a later one, unless two commits of that key overlapped
\* between their get and put (commit_pointer).
AckedVisible ==
    Fresh => \A t \in Txns : pc[t] = "done" => \A k \in WriteSet[t] \ raced :
        /\ pointer[k] >= ts[t]
        /\ \E i \in versions : i.key = k /\ i.ts = pointer[k]

-----------------------------------------------------------------------------
(* What the documentation says, where the code does otherwise              *)

\* ramp_store.rs, of DanglingVersion: "This must never happen given the
\* two-phase ordering".  No read ends in it, restarts included.
NeverDangling == \A r \in Readers : rpc[r] # "dangling"

\* ramp_store.rs, of commit_pointer: "Never moves the pointer backwards".
PointerNeverBack == [][\A k \in Keys : pointer'[k] >= pointer[k]]_vars
=============================================================================
