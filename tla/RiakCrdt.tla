------------------------------ MODULE RiakCrdt ------------------------------
(* One key holding a convergent data type: counter, observed-remove set or     *)
(* enable-wins flag (datatypes/counter.rs, set.rs, flag.rs), updated, fetched  *)
(* and replicated through dyniak's data-type handlers (server.rs,              *)
(* crdt_store.rs, replica_apply.rs).                                           *)
(*                                                                             *)
(* An update applies to the coordinator's own store and ships the whole state  *)
(* to the other replicas, which merge it.  Each change of a store is a read    *)
(* and a later write with nothing held in between: the lock of CrdtStore       *)
(* belongs to one CrdtStore value, and a handler makes its own.                *)
EXTENDS Integers, Sequences, FiniteSets

CONSTANTS
    Nodes,     \* the replicas of the key; a node is its own actor
    Elements,  \* what a set holds; a flag is a set of one element
    Updates,   \* client updates
    OpOf,      \* per update, its operation
    Fetches,   \* client fetches
    AtNode,    \* per update or fetch, the node it is sent to
    Types,     \* the data types explored: "counter", "set"
    MaxDrops   \* bound: replica operations lost in one behaviour

CounterOps == [kind : {"inc", "dec"}]
SetOps == [kind : {"add", "remove"}, element : Elements]

ASSUME Shape ==
    /\ OpOf \in [Updates -> CounterOps \cup SetOps]
    /\ AtNode \in [Updates \cup Fetches -> Nodes]
    /\ Types \subseteq {"counter", "set"}
    /\ MaxDrops \in Nat

VARIABLES
    type,      \* the bucket type of the key
    store,     \* per node, the state it stores
    chan,      \* per link, the states under way
    merging,   \* per link, the state the receiver read before merging
    upd,       \* per update, where its handler is
    fetch,     \* per fetch, where its handler is
    drops,     \* operations lost so far
    accepted,  \* history: per column and node, the operations it accepted
    minted,    \* history: the tags of accepted adds
    observed,  \* history: the adds whose tags accepted removes had read
    raced      \* history: the nodes where a write replaced what its read had not seen

vars == <<type, store, chan, merging, upd, fetch, drops, accepted, minted, observed, raced>>

-----------------------------------------------------------------------------
(* The data types.  `pos` and `neg` are the columns of a PnCounter, `clock` the *)
(* actor_counters of an OrSet or EwFlag; a tag is an actor and its count.       *)

Columns == {"pos", "neg", "clock"}
Tag == Nodes \X Nat
State == [col : [Columns -> [Nodes -> Nat]],
          adds : [Elements -> SUBSET Tag], removes : [Elements -> SUBSET Tag]]

NoColumn == [n \in Nodes |-> 0]
Empty == [col |-> [c \in Columns |-> NoColumn],
          adds |-> [e \in Elements |-> {}], removes |-> [e \in Elements |-> {}]]

Larger(a, b) == IF a < b THEN b ELSE a

\* Mutant: contributions of the same actor are added up.
MergeSums(a, b) ==
    [col |-> [c \in Columns |-> [n \in Nodes |-> a.col[c][n] + b.col[c][n]]],
     adds |-> [e \in Elements |-> a.adds[e] \cup b.adds[e]],
     removes |-> [e \in Elements |-> a.removes[e] \cup b.removes[e]]]

\* Mutant: the incoming state replaces the stored one.
MergeReplaces(a, b) == b

\* PnCounter::merge, OrSet::merge and EwFlag::merge
Merge(a, b) ==
    [col |-> [c \in Columns |-> [n \in Nodes |-> Larger(a.col[c][n], b.col[c][n])]],
     adds |-> [e \in Elements |-> a.adds[e] \cup b.adds[e]],
     removes |-> [e \in Elements |-> a.removes[e] \cup b.removes[e]]]

\* The column an operation counts in.
ColumnOf(op) == CASE op.kind = "inc" -> "pos" [] op.kind = "dec" -> "neg" [] OTHER -> "clock"

Count(state, c, n) == [state EXCEPT !.col[c][n] = @ + 1]

NextTag(state, n) == <<n, state.col["clock"][n] + 1>>

\* Mutant: an add does not advance the actor's counter.
ApplyKeepsClock(state, op, n) ==
    CASE op.kind \in {"inc", "dec"} -> Count(state, ColumnOf(op), n)
      [] op.kind = "add" -> [state EXCEPT !.adds[op.element] = @ \cup {NextTag(state, n)}]
      [] op.kind = "remove" -> [state EXCEPT !.removes[op.element] = @ \cup state.adds[op.element]]

\* PnCounter::apply, OrSet::add and remove, EwFlag::enable and disable
Apply(state, op, n) ==
    CASE op.kind \in {"inc", "dec"} -> Count(state, ColumnOf(op), n)
      [] op.kind = "add" ->
            [Count(state, "clock", n) EXCEPT !.adds[op.element] = @ \cup {NextTag(state, n)}]
      [] op.kind = "remove" -> [state EXCEPT !.removes[op.element] = @ \cup state.adds[op.element]]

\* OrSet::value, EwFlag::value
Present(state, e) == state.adds[e] \ state.removes[e] /= {}

-----------------------------------------------------------------------------
Others(n) == Nodes \ {n}
Links == {link \in Nodes \X Nodes : link[1] /= link[2]}

\* A handler or receiver that has read nothing yet.
Unread == [pc |-> "idle", seen |-> Empty]

Init ==
    /\ type \in Types
    /\ store = [n \in Nodes |-> Empty]
    /\ chan = [link \in Links |-> <<>>]
    /\ merging = [link \in Links |-> Unread]
    /\ upd = [u \in Updates |-> Unread]
    /\ fetch = [f \in Fetches |-> [pc |-> "idle", seen |-> Empty, merged |-> Empty, asked |-> {}]]
    /\ drops = 0
    /\ accepted = [c \in Columns |-> NoColumn]
    /\ minted = {} /\ observed = {} /\ raced = {}

\* A write at n of what was computed from `seen`.
Write(n, seen, new) ==
    /\ store' = [store EXCEPT ![n] = new]
    /\ raced' = IF seen = store[n] THEN raced ELSE raced \cup {n}

-----------------------------------------------------------------------------
(* handle_dt_update: apply_borrowed_with_state, then the fan of the state. *)

OfType(op) == op.kind \in IF type = "counter" THEN {"inc", "dec"} ELSE {"add", "remove"}

UpdateRead(u) ==
    /\ upd[u].pc = "idle" /\ OfType(OpOf[u])
    /\ upd' = [upd EXCEPT ![u] = [pc |-> "read", seen |-> store[AtNode[u]]]]
    /\ UNCHANGED <<type, store, chan, merging, fetch, drops, accepted, minted, observed, raced>>

\* The state is stored, the update is answered, and the state goes out as it is.
UpdateWrite(u) ==
    LET n == AtNode[u]
        op == OpOf[u]
        seen == upd[u].seen
        new == Apply(seen, op, n)
    IN /\ upd[u].pc = "read"
       /\ Write(n, seen, new)
       /\ upd' = [upd EXCEPT ![u] = [pc |-> "done", seen |-> Empty]]
       /\ chan' = [link \in Links |->
                     IF link[1] = n THEN Append(chan[link], new) ELSE chan[link]]
       /\ accepted' = IF op.kind = "remove" THEN accepted
                      ELSE [accepted EXCEPT ![ColumnOf(op)][n] = @ + 1]
       /\ minted' = IF op.kind = "add"
                    THEN minted \cup {[update |-> u, tag |-> NextTag(seen, n)]} ELSE minted
       /\ observed' = IF op.kind = "remove"
                      THEN observed \cup {m.update : m \in {k \in minted : k.tag \in seen.adds[op.element]}}
                      ELSE observed
       /\ UNCHANGED <<type, merging, fetch, drops>>

\* The datastore refuses the read or the write: an error frame, nothing stored.
UpdateFail(u) ==
    /\ upd[u].pc = "read"
    /\ upd' = [upd EXCEPT ![u] = [pc |-> "failed", seen |-> Empty]]
    /\ UNCHANGED <<type, store, chan, merging, fetch, drops, accepted, minted, observed, raced>>

-----------------------------------------------------------------------------
(* The replica: apply_op of a DtUpdate, merge_state_borrowed. *)

MergeRead(link) ==
    /\ chan[link] /= <<>> /\ merging[link].pc = "idle"
    /\ merging' = [merging EXCEPT ![link] = [pc |-> "read", seen |-> store[link[2]]]]
    /\ UNCHANGED <<type, store, chan, upd, fetch, drops, accepted, minted, observed, raced>>

MergeWrite(link) ==
    /\ merging[link].pc = "read" /\ chan[link] /= <<>>
    /\ Write(link[2], merging[link].seen, Merge(merging[link].seen, Head(chan[link])))
    /\ merging' = [merging EXCEPT ![link] = Unread]
    /\ chan' = [chan EXCEPT ![link] = Tail(@)]
    /\ UNCHANGED <<type, upd, fetch, drops, accepted, minted, observed>>

\* A full channel, a broken connection or a failing datastore loses the state.
Drop(link) ==
    /\ chan[link] /= <<>> /\ drops < MaxDrops
    /\ chan' = [chan EXCEPT ![link] = Tail(@)]
    /\ merging' = [merging EXCEPT ![link] = Unread]
    /\ drops' = drops + 1
    /\ UNCHANGED <<type, store, upd, fetch, accepted, minted, observed, raced>>

-----------------------------------------------------------------------------
(* handle_dt_fetch: merge what the replicas answer, answer it, store it. *)

\* A local read that fails counts as an absent key.
FetchBegin(f) ==
    /\ fetch[f].pc = "idle"
    /\ \E local \in {store[AtNode[f]], Empty} :
          fetch' = [fetch EXCEPT ![f] = [fetch[f] EXCEPT !.pc = "ask", !.merged = local]]
    /\ UNCHANGED <<type, store, chan, merging, upd, drops, accepted, minted, observed, raced>>

\* One replica: its state, or no answer.
FetchAsk(f, r) ==
    /\ fetch[f].pc = "ask" /\ r \in Others(AtNode[f]) \ fetch[f].asked
    /\ \E merged \in {Merge(fetch[f].merged, store[r]), fetch[f].merged} :
          fetch' = [fetch EXCEPT ![f] =
             [fetch[f] EXCEPT !.asked = fetch[f].asked \cup {r}, !.merged = merged]]
    /\ UNCHANGED <<type, store, chan, merging, upd, drops, accepted, minted, observed, raced>>

\* merge_state_borrowed reads the store again.
FetchRepairRead(f) ==
    /\ fetch[f].pc = "ask" /\ fetch[f].asked = Others(AtNode[f])
    /\ fetch' = [fetch EXCEPT ![f] = [@ EXCEPT !.pc = "repair", !.seen = store[AtNode[f]]]]
    /\ UNCHANGED <<type, store, chan, merging, upd, drops, accepted, minted, observed, raced>>

FetchRepairWrite(f) ==
    /\ fetch[f].pc = "repair"
    /\ Write(AtNode[f], fetch[f].seen, Merge(fetch[f].seen, fetch[f].merged))
    /\ fetch' = [fetch EXCEPT ![f] = [@ EXCEPT !.pc = "done", !.seen = Empty]]
    /\ UNCHANGED <<type, chan, merging, upd, drops, accepted, minted, observed>>

\* The value is answered and not stored: there is none, or the datastore fails.
FetchUnrepaired(f) ==
    /\ \/ fetch[f].pc = "ask" /\ fetch[f].asked = Others(AtNode[f])
       \/ fetch[f].pc = "repair"
    /\ fetch' = [fetch EXCEPT ![f] = [@ EXCEPT !.pc = "done", !.seen = Empty]]
    /\ UNCHANGED <<type, store, chan, merging, upd, drops, accepted, minted, observed, raced>>

-----------------------------------------------------------------------------
Next ==
    \/ \E u \in Updates : UpdateRead(u) \/ UpdateWrite(u) \/ UpdateFail(u)
    \/ \E link \in Links : MergeRead(link) \/ MergeWrite(link) \/ Drop(link)
    \/ \E f \in Fetches : FetchBegin(f) \/ FetchRepairRead(f) \/ FetchRepairWrite(f) \/ FetchUnrepaired(f)
    \/ \E f \in Fetches, r \in Nodes : FetchAsk(f, r)

Spec == Init /\ [][Next]_vars

-----------------------------------------------------------------------------
(* Properties *)

\* The types of the variables.
TypeOK ==
    /\ type \in Types
    /\ store \in [Nodes -> State]
    /\ chan \in [Links -> Seq(State)]
    /\ merging \in [Links -> [pc : {"idle", "read"}, seen : State]]
    /\ upd \in [Updates -> [pc : {"idle", "read", "done", "failed"}, seen : State]]
    /\ fetch \in [Fetches -> [pc : {"idle", "ask", "repair", "done"}, seen : State,
                               merged : State, asked : SUBSET Nodes]]
    /\ drops \in Nat
    /\ accepted \in [Columns -> [Nodes -> Nat]]
    /\ minted \subseteq [update : Updates, tag : Tag]
    /\ observed \subseteq Updates
    /\ raced \subseteq Nodes

\* Every state there is: stored, read by a handler, merged for an answer, sent.
States ==
    {store[n] : n \in Nodes} \cup {upd[u].seen : u \in Updates}
    \cup {merging[link].seen : link \in Links}
    \cup {fetch[f].seen : f \in Fetches} \cup {fetch[f].merged : f \in Fetches}
    \cup UNION {{chan[link][i] : i \in DOMAIN chan[link]} : link \in Links}

\* What the nodes accepted bounds a state's columns and the numbers of its tags.
Bounded(s) ==
    /\ \A c \in Columns, n \in Nodes : s.col[c][n] <= accepted[c][n]
    /\ \A e \in Elements : \A t \in s.adds[e] \cup s.removes[e] :
            t[2] <= accepted["clock"][t[1]]

\* No operation counts twice: nowhere, stored, under way, read or merged, does an
\* actor's column exceed what that actor accepted, nor a tag's number; states
\* that arrive again, out of order or merged with stale ones never add up
\* (apply_borrowed_with_state, merge_state_borrowed).
NoDoubleCount == \A s \in States : Bounded(s)

\* A node keeps what it accepted: while no write at a node replaced a state its
\* read had not seen, the node's own columns hold every operation it answered,
\* and its adds have distinct tags, in its store, whatever it merges.
AcceptedKept ==
    \A n \in Nodes \ raced :
        /\ \A c \in Columns : store[n].col[c][n] = accepted[c][n]
        /\ \A m \in minted : AtNode[m.update] = n =>
              /\ m.tag \in store[n].adds[OpOf[m.update].element]
              /\ \A k \in minted : k.tag = m.tag => k = m

\* Add wins: an element added at such a node by an add no remove had read is
\* present there (OrSet::remove, EwFlag::disable tombstone what they observed).
AddWins ==
    \A m \in minted :
        (AtNode[m.update] \notin raced /\ m.update \notin observed) =>
            Present(store[AtNode[m.update]], OpOf[m.update].element)

Quiet ==
    /\ \A link \in Links : chan[link] = <<>>
    /\ \A u \in Updates : upd[u].pc /= "read"
    /\ \A f \in Fetches : fetch[f].pc \in {"idle", "done"}

\* Convergence: once everything sent was merged, and nothing was lost or raced,
\* every replica holds the same state, and with AcceptedKept every operation.
Converges ==
    (Quiet /\ drops = 0 /\ raced = {}) => \A n, m \in Nodes : store[n] = store[m]

\* The comment on merge_state_borrowed, "a rare read-then-write interleaving
\* self-corrects because merge is idempotent and commutative": once everything
\* sent was merged and nothing was lost, every operation counts somewhere.
SelfCorrects ==
    (Quiet /\ drops = 0) =>
        \A c \in Columns, n \in Nodes : \E m \in Nodes : store[m].col[c][n] = accepted[c][n]

=============================================================================
