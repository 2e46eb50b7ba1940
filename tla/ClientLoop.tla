----------------------------- MODULE ClientLoop -----------------------------
(***************************************************************************)
(* One client connection (net/client.rs): client_loop, drive_parser and    *)
(* release_in_order.  Requests are pipelined; the dispatcher answers each  *)
(* through the connection's bounded response channel in any order; replies *)
(* are written to the client in request order.                             *)
(*                                                                         *)
(* The loop is one task: while it parses a batch it does not read the      *)
(* response channel, although it pushes inline replies onto that same      *)
(* channel.  A request is its id; replies carry the id they answer.        *)
(***************************************************************************)
EXTENDS Integers, Sequences, Functions

CONSTANTS
    ChannelCap,  \* capacity of the response channel (64 in net/proxy.rs)
    MaxReqs,     \* bound: requests a client sends on one connection
    Outcomes     \* what dispatch may return for a request

ASSUME CapAssumption == ChannelCap \in Nat \ {0}
ASSUME MaxReqsAssumption == MaxReqs \in Nat
\* "hint" is Pending after hint_single_target_direct pushed +OK itself.
ASSUME OutcomesAssumption == Outcomes \subseteq {"pending", "hint", "inline", "drop", "quit"}

VARIABLES
    task,        \* "loop" (at select), "parsing", "blocked" or "done"
    buf,         \* complete requests in `accumulated`, not yet parsed
    next_id,     \* ClientHandler.next_msg_id
    eof,         \* conn.is_eof
    omsg_q,      \* ids of outstanding requests, in request order
    waiting,     \* ids the dispatcher still owes an envelope
    chan,        \* the response channel
    early,       \* ids of replies that completed before an earlier request
    written,     \* ids in the order their replies were written
    dropped,     \* ids dispatch dropped (history)
    unheard,     \* ids whose hint reply found the channel full (history)
    crowded      \* more than ChannelCap requests were outstanding at once (history)

clientVars == <<task, buf, next_id, eof, omsg_q, waiting, chan, early, written, dropped,
                unheard, crowded>>
fullness == <<unheard, crowded>>

ClientInit ==
    /\ task = "loop" /\ buf = 0 /\ next_id = 1 /\ eof = FALSE
    /\ omsg_q = <<>> /\ waiting = {} /\ chan = <<>> /\ early = {}
    /\ written = <<>> /\ dropped = {} /\ unheard = {} /\ crowded = FALSE

\* The check at the head of the loop.
LoopHead(at_eof, q) == IF at_eof /\ q = <<>> THEN "done" ELSE "loop"

-----------------------------------------------------------------------------

\* A read returns the bytes of n more requests.
Read(n) ==
    /\ task = "loop" /\ next_id + buf + n <= MaxReqs + 1
    /\ buf' = buf + n /\ task' = "parsing"
    /\ UNCHANGED <<next_id, eof, omsg_q, waiting, chan, early, written, dropped, fullness>>

\* The client closed its half: read returns 0.
ReadEof ==
    /\ task = "loop"
    /\ eof' = TRUE
    /\ task' = LoopHead(TRUE, omsg_q)
    /\ UNCHANGED <<buf, next_id, omsg_q, waiting, chan, early, written, dropped, fullness>>

Room == Len(chan) < ChannelCap

\* What became of request id on a full channel, with `queued` outstanding.
NoteFull(id, outcome, queued) ==
    /\ unheard' = IF outcome = "hint" /\ ~Room THEN unheard \cup {id} ELSE unheard
    /\ crowded' = (crowded \/ Len(queued) > ChannelCap)


\* drive_parser parses and dispatches the next request of the batch.  A dropped
\* request leaves the outstanding queue at once.  An inline reply, and QUIT's
\* +OK, is sent with send().await: with the channel full the task waits for
\* room, which only the task itself could make.  A hint's +OK is sent with
\* try_send, and lost on a full channel.
Parse(outcome) ==
    LET id == next_id
        queued == IF outcome = "drop" THEN omsg_q ELSE Append(omsg_q, id)
        blocks == outcome \in {"inline", "quit"} /\ ~Room
    IN  /\ task = "parsing" /\ outcome \in Outcomes
        /\ buf' = buf - 1
        /\ next_id' = next_id + 1
        /\ omsg_q' = queued
        /\ waiting' = IF outcome = "pending" THEN waiting \cup {id} ELSE waiting
        /\ chan' = IF outcome \in {"hint", "inline", "quit"} /\ Room
                   THEN Append(chan, id) ELSE chan
        /\ eof' = (eof \/ (outcome = "quit" /\ ~blocks))
        /\ task' = IF blocks THEN "blocked"
                   ELSE IF outcome = "quit" \/ buf = 1 THEN LoopHead(eof', queued)
                   ELSE "parsing"
        /\ dropped' = IF outcome = "drop" THEN dropped \cup {id} ELSE dropped
        /\ NoteFull(id, outcome, queued)
        /\ UNCHANGED <<early, written>>

\* A replica, the coalescer or the local datastore answers: send().await, so
\* only when there is room.
Deliver(id) ==
    /\ id \in waiting /\ Room /\ task # "done"
    /\ waiting' = waiting \ {id}
    /\ chan' = Append(chan, id)
    /\ UNCHANGED <<task, buf, next_id, eof, omsg_q, early, written, dropped, fullness>>

\* The longest prefix of the outstanding queue whose replies have completed.
ReadyPrefix(q, ready) ==
    CHOOSE n \in 0..Len(q) :
        /\ \A i \in 1..n : q[i] \in ready
        /\ n < Len(q) => q[n + 1] \notin ready

\* Mutant: replies are written as they come.
RecvUnordered ==
    LET id == Head(chan)
        rest == SelectSeq(omsg_q, LAMBDA m : m # id)
    IN  /\ task = "loop" /\ chan # <<>>
        /\ chan' = Tail(chan)
        /\ written' = Append(written, id)
        /\ omsg_q' = rest
        /\ task' = LoopHead(eof, rest)
        /\ UNCHANGED <<buf, next_id, eof, waiting, early, dropped, fullness>>

\* rx.recv, then release_in_order: replies at the head of the outstanding queue
\* are written, the others wait; a reply nobody is waiting for is written as it
\* is.
Recv ==
    LET id == Head(chan)
        ready == early \cup {id}
        n == ReadyPrefix(omsg_q, ready)
        rest == SubSeq(omsg_q, n + 1, Len(omsg_q))
        stray == id \notin Range(omsg_q)
    IN  /\ task = "loop" /\ chan # <<>>
        /\ chan' = Tail(chan)
        /\ written' = IF stray THEN Append(written, id) ELSE written \o SubSeq(omsg_q, 1, n)
        /\ omsg_q' = rest
        /\ early' = {e \in ready : e \in Range(rest)}
        /\ task' = LoopHead(eof, rest)
        /\ UNCHANGED <<buf, next_id, eof, waiting, dropped, fullness>>

\* A transport or parse error ends the loop.
Abort ==
    /\ task \in {"loop", "parsing"}
    /\ task' = "done"
    /\ UNCHANGED <<buf, next_id, eof, omsg_q, waiting, chan, early, written, dropped, fullness>>

\* The proxy accepts the next client.
Accept ==
    /\ task = "done"
    /\ task' = "loop" /\ buf' = 0 /\ next_id' = 1 /\ eof' = FALSE
    /\ omsg_q' = <<>> /\ waiting' = {} /\ chan' = <<>> /\ early' = {}
    /\ written' = <<>> /\ dropped' = {} /\ unheard' = {} /\ crowded' = FALSE

ClientNext ==
    \/ \E n \in 1..MaxReqs : Read(n)
    \/ \E outcome \in Outcomes : Parse(outcome)
    \/ \E id \in waiting : Deliver(id)
    \/ ReadEof \/ Recv \/ Abort \/ Accept

\* The task is scheduled, and what the dispatcher owes it delivers when there is
\* room (FanOut's ClientAnswered).  select! polls its branches in random order,
\* so the response channel is served even while reads keep succeeding.
ClientFairness ==
    /\ WF_clientVars(\E outcome \in Outcomes : Parse(outcome))
    /\ SF_clientVars(Recv)
    /\ \A id \in 1..MaxReqs : SF_clientVars(Deliver(id))

ClientSpec == ClientInit /\ [][ClientNext]_clientVars /\ ClientFairness

-----------------------------------------------------------------------------
(* Properties                                                              *)

Ids == 1..MaxReqs

\* The replies written and the requests still outstanding are, together, every
\* request not dropped, in request order: no reply is written out of turn,
\* twice or to nobody, however the dispatcher reorders them (release_in_order,
\* drop_outstanding).  Clients match replies to requests by position.
RepliesInRequestOrder ==
    LET all == written \o omsg_q IN
    /\ \A i, j \in DOMAIN all : i < j => all[i] < all[j]
    /\ Range(all) = (1..(next_id - 1)) \ dropped

\* The two ways a full response channel stalls a connection, both only once more
\* requests are outstanding than the channel holds: the task waits for itself in
\* send().await, or a request stands behind one whose hint reply was lost.
Stalled(id) ==
    crowded /\ (task = "blocked" \/ \E h \in unheard \cap Range(omsg_q) : h <= id)

\* Every outstanding request is answered, or its connection ends or is stalled by
\* a full channel.
EveryRequestAnswered ==
    \A id \in Ids :
        (id \in Range(omsg_q)) ~> (id \in Range(written) \/ task = "done" \/ Stalled(id))

\* A QUIT or a client's half-close ends the connection once what is owed has
\* been written; it lingers only when stalled by a full channel.
EofEndsConnection == eof ~> (task = "done" \/ \E id \in Ids : Stalled(id))


\* What that text says: the loop never waits for its own channel.  A pipeline
\* longer than the channel refutes it (README, disagreements).
NeverBlocks == task # "blocked"
=============================================================================
