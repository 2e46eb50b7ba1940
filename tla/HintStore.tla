------------------------------ MODULE HintStore ------------------------------
(***************************************************************************)
(* Hinted handoff's store and drainer: cluster/hints.rs (HintStore with    *)
(* its per-peer segments on disk) and dynomited/src/server.rs              *)
(* (hint_drainer_task).                                                    *)
(*                                                                         *)
(* Tasks that interleave: the dispatcher (Enqueue), the drainer (Tick,     *)
(* TakeFor, ShipOk, ShipRefused), the peer's link, which answers a shipped *)
(* hint as ReplyContract says, and the clock (Age).  The process may crash *)
(* between any two steps, and inside an append.  A hint is a model value;  *)
(* a segment is the sequence of records in its file, Torn standing for a   *)
(* partial one.                                                            *)
(***************************************************************************)
EXTENDS Integers, Sequences, FiniteSetsExt

CONSTANTS
    Hints,       \* hints the dispatcher may record, each once
    Peers,
    PeerOf,      \* [Hints -> Peers]: the intended replica
    Weight,      \* [Hints -> payload bytes]
    MaxBytes,    \* max_bytes; 0: no cap
    Durable,     \* opened with hint_dir
    MaxCrashes,  \* bound: process crashes
    MaxFaults,   \* bound: segment writes and removals that fail
    Torn         \* a partial record

ASSUME HintsAssumption == IsFiniteSet(Hints) /\ Torn \notin Hints
ASSUME PeerOfAssumption == IsFiniteSet(Peers) /\ PeerOf \in [Hints -> Peers]
ASSUME WeightAssumption == Weight \in [Hints -> Nat \ {0}]
ASSUME BoundsAssumption == MaxBytes \in Nat /\ MaxCrashes \in Nat /\ MaxFaults \in Nat
ASSUME ModeAssumption == Durable \in BOOLEAN

VARIABLES
    up,          \* the process runs
    crashes, faults,
    by_peer,     \* Inner.by_peer
    bytes,       \* Inner.bytes
    segment,     \* [Peers -> records on disk]
    late,        \* hints whose deadline has passed
    normal,      \* peers in PeerState::Normal
    live,        \* drainer: peers of its snapshot still to visit
    batch,       \* drainer: hints taken, not shipped yet
    link,        \* hints on the peer's link
    accepted,    \* hints enqueue returned Ok for (history)
    acked,       \* hints the peer acknowledged, in order (history)
    failed,      \* hints the link answered with an error (history)
    expired,     \* hints dropped at their deadline (history)
    lost         \* hints whose enqueue after a refused ship failed (history)

storeVars == <<by_peer, bytes, segment>>
drainer == <<live, batch>>
hist == <<accepted, acked, failed, expired, lost>>
hintVars == <<up, crashes, storeVars, faults, late, normal, drainer, link, hist>>

Empty == [p \in Peers |-> <<>>]

HintInit ==
    /\ up = TRUE /\ crashes = 0 /\ faults = 0 /\ by_peer = Empty /\ bytes = 0 /\ segment = Empty
    /\ late = {} /\ normal = Peers /\ live = {} /\ batch = <<>> /\ link = {}
    /\ accepted = {} /\ acked = <<>> /\ failed = {} /\ expired = {} /\ lost = {}

Queued == UNION {Range(by_peer[p]) : p \in Peers}

\* Over positions: a hint can be queued twice after a removal that failed.
QueueBytes(q) == SumFunction([i \in DOMAIN q |-> Weight[q[i]]])
BytesOf(queues) == SumFunction([p \in Peers |-> QueueBytes(queues[p])])

-----------------------------------------------------------------------------
(* HintStore                                                               *)

DiskFault == faults < MaxFaults /\ faults' = faults + 1

OverCapacity(h) == MaxBytes > 0 /\ bytes + Weight[h] > MaxBytes

\* enqueue of h that succeeds: appended on disk, then in memory.
Push(h) ==
    /\ ~OverCapacity(h)
    /\ segment' = IF Durable THEN [segment EXCEPT ![PeerOf[h]] = Append(@, h)] ELSE segment
    /\ by_peer' = [by_peer EXCEPT ![PeerOf[h]] = Append(@, h)]
    /\ bytes' = bytes + Weight[h]
    /\ UNCHANGED faults

\* enqueue of h that fails: no capacity, or an I/O error, which may leave part
\* of the record behind.
PushFails(h) ==
    /\ \/ OverCapacity(h) /\ UNCHANGED <<segment, faults>>
       \/ /\ ~OverCapacity(h) /\ Durable /\ DiskFault
          /\ \/ UNCHANGED segment
             \/ segment' = [segment EXCEPT ![PeerOf[h]] = Append(@, Torn)]
    /\ UNCHANGED <<by_peer, bytes>>

\* A segment removal or rewrite: done, or failed and only logged.
Rewritten(new) ==
    \/ segment' = (IF Durable THEN new ELSE segment) /\ UNCHANGED faults
    \/ Durable /\ DiskFault /\ UNCHANGED segment

\* The records before the first torn one (decode_records).
Intact(s) ==
    SubSeq(s, 1, CHOOSE n \in 0..Len(s) :
                    /\ \A i \in 1..n : s[i] # Torn
                    /\ n < Len(s) => s[n + 1] = Torn)

\* The hints of a queue that are not past their deadline, in order.
Live(q) ==
    LET kept[i \in 0..Len(q)] == IF i = 0 THEN <<>>
                                 ELSE IF q[i] \in late THEN kept[i - 1]
                                 ELSE Append(kept[i - 1], q[i])
    IN  kept[Len(q)]

\* The dispatcher records a hint for a write it could not send (hint_target).
Enqueue(h) ==
    /\ up /\ h \notin accepted
    /\ \/ Push(h) /\ accepted' = accepted \cup {h}
       \/ PushFails(h) /\ UNCHANGED accepted
    /\ UNCHANGED <<up, crashes, late, normal, drainer, link, acked, failed, expired, lost>>

\* A deadline passes.
Age(h) ==
    /\ h \in accepted \ late
    /\ late' = late \cup {h}
    /\ UNCHANGED <<up, crashes, faults, storeVars, normal, drainer, link, hist>>

-----------------------------------------------------------------------------
(* hint_drainer_task                                                       *)

\* Mutant: the snapshot takes the peers that are not Normal.
TickSnapshotsDown ==
    LET kept == [p \in Peers |-> Live(by_peer[p])] IN
    /\ up /\ live = {} /\ batch = <<>>
    /\ by_peer' = kept
    /\ bytes' = BytesOf(kept)
    /\ expired' = expired \cup (Queued \cap late)
    /\ Rewritten([p \in Peers |-> IF kept[p] # by_peer[p] THEN kept[p] ELSE segment[p]])
    /\ live' = Peers \ normal
    /\ UNCHANGED <<up, crashes, late, normal, batch, link, accepted, acked, failed, lost>>

\* A tick: expire_now, which rewrites the segments of the queues that lost an
\* entry, then the snapshot of Normal peers.
Tick ==
    LET kept == [p \in Peers |-> Live(by_peer[p])] IN
    /\ up /\ live = {} /\ batch = <<>>
    /\ by_peer' = kept
    /\ bytes' = BytesOf(kept)
    /\ expired' = expired \cup (Queued \cap late)
    /\ Rewritten([p \in Peers |-> IF kept[p] # by_peer[p] THEN kept[p] ELSE segment[p]])
    /\ live' = normal
    /\ UNCHANGED <<up, crashes, late, normal, batch, link, accepted, acked, failed, lost>>

\* Mutant: the bytes of hints past their deadline are not given back.
TakeForLeaksBytes(p) ==
    /\ up /\ p \in live /\ batch = <<>>
    /\ live' = live \ {p}
    /\ batch' = Live(by_peer[p])
    /\ by_peer' = [by_peer EXCEPT ![p] = <<>>]
    /\ bytes' = bytes - QueueBytes(Live(by_peer[p]))
    /\ expired' = expired \cup (Range(by_peer[p]) \cap late)
    /\ IF by_peer[p] = <<>> THEN UNCHANGED <<segment, faults>>
       ELSE Rewritten([segment EXCEPT ![p] = <<>>])
    /\ UNCHANGED <<up, crashes, late, normal, link, accepted, acked, failed, lost>>

\* Mutant: the segment stays.
TakeForKeepsSegment(p) ==
    /\ up /\ p \in live /\ batch = <<>>
    /\ live' = live \ {p}
    /\ batch' = Live(by_peer[p])
    /\ by_peer' = [by_peer EXCEPT ![p] = <<>>]
    /\ bytes' = bytes - QueueBytes(by_peer[p])
    /\ expired' = expired \cup (Range(by_peer[p]) \cap late)
    /\ UNCHANGED <<up, crashes, faults, segment, late, normal, link, accepted, acked, failed, lost>>

\* take_for: the queue leaves memory and its segment is removed.
TakeFor(p) ==
    /\ up /\ p \in live /\ batch = <<>>
    /\ live' = live \ {p}
    /\ batch' = Live(by_peer[p])
    /\ by_peer' = [by_peer EXCEPT ![p] = <<>>]
    /\ bytes' = bytes - QueueBytes(by_peer[p])
    /\ expired' = expired \cup (Range(by_peer[p]) \cap late)
    /\ IF by_peer[p] = <<>> THEN UNCHANGED <<segment, faults>>
       ELSE Rewritten([segment EXCEPT ![p] = <<>>])
    /\ UNCHANGED <<up, crashes, late, normal, link, accepted, acked, failed, lost>>

\* The peer's channel takes the hint.
ShipOk ==
    /\ up /\ batch # <<>>
    /\ link' = link \cup {Head(batch)}
    /\ batch' = Tail(batch)
    /\ UNCHANGED <<up, crashes, faults, storeVars, late, normal, live, hist>>

\* Mutant: a refused hint is not put back.
ShipRefusedForgets ==
    /\ up /\ batch # <<>>
    /\ batch' = Tail(batch)
    /\ UNCHANGED <<up, crashes, faults, storeVars, late, normal, live, link, hist>>

\* The channel is full or closed: the hint is enqueued again with its remaining
\* lifetime, one second if that has passed; if enqueue fails it is gone.  (A
\* record of it left by a failed removal is taken to have the new deadline.)
ShipRefused ==
    LET h == Head(batch) IN
    /\ up /\ batch # <<>>
    /\ batch' = Tail(batch)
    /\ \/ Push(h) /\ UNCHANGED lost
       \/ PushFails(h) /\ lost' = lost \cup {h}
    /\ late' = late \ {h}
    /\ UNCHANGED <<up, crashes, normal, live, link, accepted, acked, failed, expired>>

-----------------------------------------------------------------------------
(* The environment                                                         *)

\* Gossip changes a peer's state.
Peer(p) ==
    /\ normal' = IF p \in normal THEN normal \ {p} ELSE normal \cup {p}
    /\ UNCHANGED <<up, crashes, faults, storeVars, late, drainer, link, hist>>

\* The link answers; the drainer's responder discards the answer.
LinkAck(h) ==
    /\ h \in link
    /\ link' = link \ {h} /\ acked' = Append(acked, h)
    /\ UNCHANGED <<up, crashes, faults, storeVars, late, normal, drainer, accepted, failed, expired, lost>>

LinkError(h) ==
    /\ h \in link
    /\ link' = link \ {h} /\ failed' = failed \cup {h}
    /\ UNCHANGED <<up, crashes, faults, storeVars, late, normal, drainer, accepted, acked, expired, lost>>

\* The process dies, perhaps in the middle of an append.
Crash ==
    /\ up /\ crashes < MaxCrashes
    /\ up' = FALSE /\ crashes' = crashes + 1
    /\ by_peer' = Empty /\ bytes' = 0 /\ live' = {} /\ batch' = <<>> /\ link' = {}
    /\ \/ UNCHANGED segment
       \/ \E p \in Peers : Durable /\ segment' = [segment EXCEPT ![p] = Append(@, Torn)]
    /\ UNCHANGED <<faults, late, normal, hist>>

\* HintStore::open replays the segments and leaves them as they are.
Restart ==
    LET replayed == [p \in Peers |-> Live(Intact(segment[p]))] IN
    /\ ~up /\ up' = TRUE
    /\ by_peer' = replayed /\ bytes' = BytesOf(replayed)
    /\ UNCHANGED <<crashes, faults, segment, late, normal, drainer, link, hist>>

-----------------------------------------------------------------------------

HintNext ==
    \/ \E h \in Hints : Enqueue(h) \/ Age(h) \/ LinkAck(h) \/ LinkError(h)
    \/ \E p \in Peers : Peer(p) \/ TakeFor(p)
    \/ Tick \/ ShipOk \/ ShipRefused \/ Crash \/ Restart

\* The ticker fires, the drainer is scheduled, a crashed process is restarted,
\* and a channel that drains is not full every time.
HintFairness ==
    /\ WF_hintVars(Tick) /\ \A p \in Peers : WF_hintVars(TakeFor(p))
    /\ WF_hintVars(ShipOk \/ ShipRefused) /\ \A h \in Hints : SF_hintVars(ShipOk /\ Head(batch) = h)
    /\ WF_hintVars(Restart)

HintSpec == HintInit /\ [][HintNext]_hintVars /\ HintFairness

-----------------------------------------------------------------------------
(* Properties                                                              *)

Records == Hints \cup {Torn}

\* Types; the byte count never goes below zero (take_for, expire_now use
\* saturating subtraction, which would hide it).
TypeOK ==
    /\ up \in BOOLEAN /\ crashes \in 0..MaxCrashes /\ faults \in 0..MaxFaults
    /\ by_peer \in [Peers -> Seq(Hints)] /\ bytes \in Nat
    /\ segment \in [Peers -> Seq(Records)]
    /\ late \subseteq Hints /\ normal \subseteq Peers /\ live \subseteq Peers
    /\ batch \in Seq(Hints) /\ link \subseteq Hints
    /\ accepted \subseteq Hints /\ acked \in Seq(Hints)
    /\ failed \subseteq Hints /\ expired \subseteq Hints /\ lost \subseteq Hints

\* The byte count is the weight of what is queued, through enqueues, drains,
\* expiry, refused ships and replay, and stays within the cap unless a failed
\* removal made replay bring drained hints back: the capacity check decides
\* from the count alone (enqueue, take_for, expire_now, open).
BytesAccounted ==
    /\ bytes = BytesOf(by_peer)
    /\ MaxBytes > 0 /\ faults = 0 => bytes <= MaxBytes

Undamaged(p) == \A i \in DOMAIN segment[p] : segment[p][i] # Torn

\* A restart at this moment would bring back what is queued and not late, for
\* every peer whose segment has no torn record; exactly that, and in order,
\* when disk operations succeed (enqueue's write-through, take_for,
\* expire_now's rewrite).
QueueRecoverable ==
    (up /\ Durable) => \A p \in Peers : Undamaged(p) =>
        LET back == Live(Intact(segment[p]))
            now == Live(by_peer[p])
        IN  IF faults > 0 THEN Range(now) \subseteq Range(back) ELSE back = now

\* Memory, the byte count and the disk tell one story at every moment, a crash
\* or a failed segment write included (enqueue, take_for, expire_now, open).
StoreConsistent == TypeOK /\ BytesAccounted /\ QueueRecoverable

\* The peer applies no hint twice, crashes included, unless a removal failed: a
\* segment is removed before its hints are shipped (take_for).
AppliedOnce == faults = 0 => \A i, j \in DOMAIN acked : acked[i] = acked[j] => i = j

\* Until a crash, every accepted hint is queued, being shipped, answered by the
\* link, dropped at its deadline, or was refused by its own store on the way
\* back: the drainer and the dispatcher never lose one between them
\* (hint_drainer_task, take_for, enqueue).
NoHintMislaid ==
    crashes = 0 => accepted \subseteq Queued \cup Range(batch) \cup link
                         \cup Range(acked) \cup failed \cup expired \cup lost

\* No hint is kept for ever for a peer that came back for good, whatever was
\* refused, requeued, or replayed by a restart on the way: in the end it has left
\* the store for the link, or is dropped (hint_drainer_task).
HintsDrain ==
    \A h \in Hints : <>[](PeerOf[h] \in normal) => <>[](h \notin Queued)

-----------------------------------------------------------------------------
(* What the documentation says, where the code does otherwise              *)

\* docs/book/src/architecture/failure.md: "Hints survive a coordinator
\* restart".  A hint that was in the queue before a crash is there after the
\* restart, unless its deadline passed.
HintsSurviveRestart ==
    [][ (up /\ ~up') => Queued \ late \subseteq
            UNION {Range(Live(Intact(segment[p]))) : p \in Peers} ]_hintVars
=============================================================================
