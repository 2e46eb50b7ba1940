----------------------------- MODULE RiakObject -----------------------------
(* One key of a Riak bucket, replicated: the coordinated put, get and delete   *)
(* of dyniak's protocol-buffer server and the replica that applies their       *)
(* operations (server.rs, replica_apply.rs, vclock.rs).                        *)
(*                                                                             *)
(* A node's store holds a sibling set: values with the version vector they     *)
(* were written under.  A put resolves its value against the set its           *)
(* coordinator read, stores the result, and sends the whole set to the other   *)
(* replicas, which store it verbatim.  A get merges the replicas' sets, sends  *)
(* the merged set to those behind it and stores it locally.  `request` waits   *)
(* for an answer and may get none, delivered or not; `dispatch` is fire and    *)
(* forget, in order on one link, and may be lost.                              *)
EXTENDS Integers, Sequences, FiniteSets, FiniteSetsExt

CONSTANTS
    Nodes,       \* the nodes; a node is its own vector-clock actor
    Replicas,    \* per coordinator, RouteDecision::replica_list()
    DurableNodes, \* the nodes whose datastore acknowledges durably
    Puts,        \* puts; a put is named by the value it writes
    Gets, Dels,  \* coordinated reads and deletes
    W, PW, DW,   \* effective_w, effective_pw, effective_dw
    R, PR,       \* effective_r, effective_pr
    AllowMult,   \* the settings of allow_mult that are explored
    Coordinates, \* the nodes clients send each put, get and delete to
    MaxOps,      \* bound: operations in one behaviour
    MaxErrors,   \* bound: datastore errors in one behaviour
    MaxSilent    \* bound: requests that get no answer in one behaviour

ASSUME Shape ==
    /\ Puts \subseteq Nat /\ AllowMult \subseteq BOOLEAN /\ DurableNodes \subseteq Nodes
    /\ IsFiniteSet(Nodes) /\ Nodes # {} /\ Replicas \in [Nodes -> Seq(Nodes)]
    /\ \A n \in Nodes : IsInjective(Replicas[n])   \* plan_successors: distinct peers
    /\ Coordinates \in [Puts \cup Gets \cup Dels -> SUBSET Nodes]
    /\ {W, PW, DW, R, PR, MaxOps, MaxErrors, MaxSilent} \subseteq Nat

VARIABLES
    mult,    \* the bucket's allow_mult
    store,   \* per node, its sibling set
    ops,     \* per link, the replica operations under way
    put,     \* per put, where its handler is
    get,     \* per get, where its handler is
    del,     \* per delete, where its handler is
    known,   \* the contexts answers handed to clients
    errors,  \* datastore errors so far
    silent,  \* unanswered requests so far
    forgotten \* history: the puts some node covered and no longer does

objectVars == <<mult, store, ops, put, get, del, known, errors, silent, forgotten>>

-----------------------------------------------------------------------------
(* Version vectors (VClock) and sibling sets. *)

Context == [Nodes -> Nat]
Bottom == [n \in Nodes |-> 0]

AtLeast(a, b) == \A n \in Nodes : a[n] >= b[n]

\* partial_cmp is Some(Greater)
Dominates(a, b) == AtLeast(a, b) /\ a /= b

\* advance: the write coordinated by n
Advance(context, n) == [context EXCEPT ![n] = @ + 1]

\* join_contexts: the element-wise maximum
JoinContexts(siblings) ==
    [n \in Nodes |-> Max({0} \cup {s.context[n] : s \in Range(siblings)})]

\* The elements of s that are not in gone, in order.
Without(s, gone) ==
    LET kept[i \in 0..Len(s)] == IF i = 0 THEN <<>>
                                 ELSE IF s[i] \in gone THEN kept[i - 1]
                                 ELSE Append(kept[i - 1], s[i])
    IN  kept[Len(s)]

\* The winner of two siblings when the bucket keeps one: the later context, and
\* between concurrent ones the larger value; of equal contexts the first.
Winner(a, b) ==
    IF \/ Dominates(b.context, a.context)
       \/ ~AtLeast(a.context, b.context) /\ b.value > a.value
    THEN b ELSE a

Collapse(siblings) ==
    LET best[i \in 1..Len(siblings)] ==
            IF i = 1 THEN siblings[1] ELSE Winner(best[i - 1], siblings[i])
    IN  <<best[Len(siblings)]>>

CollapseUnless(keep, siblings) ==
    IF keep \/ Len(siblings) < 2 THEN siblings ELSE Collapse(siblings)

\* Mutant: what the new write supersedes is kept.
ResolveKeepsSuperseded(stored, new, keep) ==
    IF \E i \in DOMAIN stored : Dominates(stored[i].context, new.context)
    THEN stored
    ELSE CollapseUnless(keep, Append(stored, new))

\* resolve_write: a write behind a stored sibling changes nothing; otherwise it
\* joins those it does not dominate.
ResolveWrite(stored, new, keep) ==
    IF \E i \in DOMAIN stored : Dominates(stored[i].context, new.context)
    THEN stored
    ELSE CollapseUnless(keep,
             Append(Without(stored, {s \in Range(stored) : Dominates(new.context, s.context)}), new))

\* Mutant: the first set that is not empty is the answer.
MergeFirst(local, remote, keep) == IF local = <<>> THEN remote ELSE local

\* merge_sibling_sets
MergeSets(local, remote, keep) ==
    LET merged[i \in 0..Len(remote)] ==
            IF i = 0 THEN local ELSE ResolveWrite(merged[i - 1], remote[i], TRUE)
    IN  CollapseUnless(keep, merged[Len(remote)])

\* Mutant: only a set that holds nothing at all is behind.
BehindIfEmpty(remote, merged) == remote = <<>>

\* sibling_set_is_behind
IsBehind(remote, merged) ==
    \E m \in Range(merged) :
        \A r \in Range(remote) :
            ~(r.value = m.value /\ AtLeast(r.context, m.context))

-----------------------------------------------------------------------------
Sibling(p) == [value |-> p, context |-> put[p].context]

\* A set covers a write when it holds it or something written after reading it.
Covers(siblings, s) ==
    \E t \in Range(siblings) : t = s \/ Dominates(t.context, s.context)

NoPut == [pc |-> "idle", node |-> CHOOSE n \in Nodes : TRUE, context |-> Bottom,
          set |-> <<>>, next |-> 1, acks |-> 0, durable |-> 0]
NoGet == [pc |-> "idle", node |-> CHOOSE n \in Nodes : TRUE, merged |-> <<>>,
          replies |-> <<>>, responses |-> 0, next |-> 1, must |-> {}, quiet |-> FALSE,
          misread |-> FALSE]

RepairPut(siblings) == [op |-> "RepairPut", set |-> siblings]
DelOp == [op |-> "Del", set |-> <<>>]

ObjectInit ==
    /\ mult \in AllowMult
    /\ store = [n \in Nodes |-> <<>>]
    /\ ops = [link \in Nodes \X Nodes |-> <<>>]
    /\ put = [p \in Puts |-> NoPut]
    /\ get = [g \in Gets |-> NoGet]
    /\ del = [d \in Dels |-> [pc |-> "idle", node |-> CHOOSE n \in Nodes : TRUE]]
    /\ known = {Bottom}
    /\ errors = 0
    /\ silent = 0
    /\ forgotten = {}

Fault == errors < MaxErrors /\ errors' = errors + 1
NoFault == UNCHANGED errors
Silence == silent < MaxSilent /\ silent' = silent + 1

\* Another operation may begin at n.
MayBegin(op, n) ==
    /\ n \in Coordinates[op]
    /\ Cardinality({p \in Puts : put[p].pc /= "idle"} \cup {g \in Gets : get[g].pc /= "idle"}
                     \cup {d \in Dels : del[d].pc /= "idle"}) < MaxOps

\* Nothing else is running and nothing is under way.
Idle ==
    /\ \A p \in Puts : put[p].pc \in {"idle", "ok", "error"}
    /\ \A g \in Gets : get[g].pc \in {"idle", "ok", "error"}
    /\ \A d \in Dels : del[d].pc \in {"idle", "done"}
    /\ \A link \in DOMAIN ops : ops[link] = <<>>

\* History of a get: another operation, a loss or an error ends its quiet.
Disturbed(gets) == [g \in Gets |-> [gets[g] EXCEPT !.quiet = FALSE]]

Min2(a, b) == IF a < b THEN a ELSE b
Target(n) == IF Replicas[n] = <<>> THEN 1 ELSE Len(Replicas[n])

\* The targets request fans to: `if replica.peer_idx == local_peer_idx continue`.
Remote(n) == Without(Replicas[n], {n})

\* History: a put is forgotten once a store that covered it no longer does.
Track ==
    forgotten' = forgotten \cup {p \in Puts : put[p].pc /= "idle" /\
                         \E n \in Nodes : /\ Covers(store[n], Sibling(p))
                                          /\ ~Covers(store'[n], Sibling(p))}

-----------------------------------------------------------------------------
(* handle_put *)

\* The context is advanced from what the client read, and the stored set read;
\* a read error counts as an absent key.
PutBegin(p, n, prior) ==
    /\ put[p].pc = "idle" /\ MayBegin(p, n)
    /\ \/ NoFault /\ put' = [put EXCEPT ![p] = [NoPut EXCEPT
                !.pc = "resolve", !.node = n, !.context = Advance(prior, n), !.set = store[n]]]
       \/ Fault /\ put' = [put EXCEPT ![p] = [NoPut EXCEPT
                !.pc = "resolve", !.node = n, !.context = Advance(prior, n)]]
    /\ get' = Disturbed(get)
    /\ UNCHANGED <<mult, store, ops, del, known, silent, forgotten>>

\* resolve_and_store_put: the resolved set replaces the local one; when the
\* datastore refuses it the put ends with an error and is not fanned out.
PutStore(p) ==
    LET n == put[p].node
        resolved == ResolveWrite(put[p].set, Sibling(p), mult)
    IN /\ put[p].pc = "resolve"
       /\ \/ /\ NoFault
             /\ store' = [store EXCEPT ![n] = resolved]
             /\ put' = [put EXCEPT ![p] = [@ EXCEPT !.pc = "fan", !.set = resolved,
                            !.acks = 1, !.durable = IF n \in DurableNodes THEN 1 ELSE 0]]
          \/ /\ Fault
             /\ put' = [put EXCEPT ![p].pc = "error"]
             /\ UNCHANGED store
       /\ Track
       /\ UNCHANGED <<mult, ops, get, del, known, silent>>

\* fan_write_replicas, one replica.  An answer is an acknowledgement, or empty
\* when the replica could not store the set.  Without an answer, delivered or
\* not, the set is dispatched as well.
PutRequest(p) ==
    LET n == put[p].node
        r == Remote(n)[put[p].next]
        stored == [store EXCEPT ![r] = put[p].set]
    IN /\ put[p].pc = "fan" /\ put[p].next <= Len(Remote(n))
       /\ \/ /\ store' = stored
             /\ put' = [put EXCEPT ![p].next = @ + 1, ![p].acks = @ + 1,
                                ![p].durable = IF r \in DurableNodes THEN @ + 1 ELSE @]
             /\ NoFault /\ UNCHANGED <<ops, silent>>
          \/ /\ Fault
             /\ put' = [put EXCEPT ![p].next = @ + 1]
             /\ UNCHANGED <<store, ops, silent>>
          \/ /\ store' \in {stored, store}
             /\ put' = [put EXCEPT ![p].next = @ + 1]
             /\ ops' = [ops EXCEPT ![<<n, r>>] = Append(@, RepairPut(put[p].set))]
             /\ Silence /\ NoFault
       /\ Track
       /\ UNCHANGED <<mult, get, del, known>>

\* Mutant: the durable quorum counts every acknowledgement.
WriteQuorumAnyDurability(t, n) ==
    \/ t.acks = 1 /\ Remote(n) /= <<>>
    \/ /\ t.acks >= Min2(W, Target(n))
       /\ PW > 0 => t.acks >= Min2(PW, Target(n))
       /\ t.acks >= Min2(DW, Target(n))

\* check_write_quorum: not enforced when there were remote targets and none
\* acknowledged.  plan_replicas marks no target a fallback, so every
\* acknowledgement is a primary one.
CheckWriteQuorum(t, n) ==
    \/ t.acks = 1 /\ Remote(n) /= <<>>
    \/ /\ t.acks >= Min2(W, Target(n))
       /\ PW > 0 => t.acks >= Min2(PW, Target(n))
       /\ t.durable >= Min2(DW, Target(n))

PutFinish(p) ==
    LET n == put[p].node
        ok == CheckWriteQuorum(put[p], n)
    IN /\ put[p].pc = "fan" /\ put[p].next > Len(Remote(n))
       /\ put' = [put EXCEPT ![p].pc = IF ok THEN "ok" ELSE "error"]
       /\ known' = IF ok THEN known \cup {put[p].context} ELSE known
       /\ UNCHANGED <<mult, store, ops, get, del, errors, silent, forgotten>>

-----------------------------------------------------------------------------
(* handle_get *)

\* History: the puts a quorum had acknowledged when the get began.
QuorumAcked == {p \in Puts : put[p].pc = "ok" /\ put[p].acks >= W}

\* The local read; its error is the answer.
GetBegin(g, n) ==
    /\ get[g].pc = "idle" /\ MayBegin(g, n)
    /\ \/ /\ NoFault
          /\ get' = [Disturbed(get) EXCEPT ![g] = [NoGet EXCEPT
                !.pc = "fan", !.node = n, !.merged = store[n], !.responses = 1,
                !.must = QuorumAcked, !.quiet = Idle]]
       \/ Fault /\ get' = [Disturbed(get) EXCEPT ![g].pc = "error"]
    /\ UNCHANGED <<mult, store, ops, put, del, known, silent, forgotten>>

\* fan_read_replicas, one replica: its set, an empty reply (absent or a read
\* error), or no answer.  Only a reply that is not empty is merged and kept.
GetRequest(g) ==
    LET n == get[g].node
        r == Remote(n)[get[g].next]
        t == get[g]
        Answered(remote) == [t EXCEPT
            !.next = t.next + 1, !.responses = t.responses + 1,
            !.merged = IF remote = <<>> THEN t.merged ELSE MergeSets(t.merged, remote, mult),
            !.replies = IF remote = <<>> THEN t.replies
                        ELSE Append(t.replies, [node |-> r, set |-> remote])]
    IN /\ get[g].pc = "fan" /\ get[g].next <= Len(Remote(n))
       /\ \/ NoFault /\ get' = [get EXCEPT ![g] = Answered(store[r])] /\ UNCHANGED silent
          \/ Fault /\ get' = Disturbed([get EXCEPT ![g] =
                                            [Answered(<<>>) EXCEPT !.misread = TRUE]])
                   /\ UNCHANGED silent
          \/ NoFault /\ Silence /\ get' = [get EXCEPT ![g].next = @ + 1]
       /\ UNCHANGED <<mult, store, ops, put, del, known, forgotten>>

\* check_read_quorum: not enforced when only the local node answered.
CheckReadQuorum(responses, n) ==
    \/ responses = 1 /\ Target(n) > 1
    \/ /\ responses >= Min2(R, Target(n))
       /\ PR > 0 => responses >= Min2(PR, Target(n))

\* read_repair_behind, then the quorum and the answer: the merged set goes to
\* the replicas whose reply was behind it and into the local store, also when
\* the quorum is missed.
GetFinish(g) ==
    LET n == get[g].node
        merged == get[g].merged
        ok == CheckReadQuorum(get[g].responses, n)
        behind == {x \in Range(get[g].replies) : IsBehind(x.set, merged)}
    IN /\ get[g].pc = "fan" /\ get[g].next > Len(Remote(n))
       /\ ops' = [link \in DOMAIN ops |->
                     IF link[1] = n /\ merged /= <<>> /\ \E x \in behind : x.node = link[2]
                     THEN Append(ops[link], RepairPut(merged)) ELSE ops[link]]
       /\ \/ NoFault /\ store' = [store EXCEPT ![n] = IF merged = <<>> THEN @ ELSE merged]
          \/ merged /= <<>> /\ Fault /\ UNCHANGED store
       /\ get' = [get EXCEPT ![g].pc = IF ok THEN "ok" ELSE "error",
                             ![g].quiet = @ /\ errors' = errors]
       /\ known' = IF ok THEN known \cup {JoinContexts(merged)} ELSE known
       /\ Track
       /\ UNCHANGED <<mult, put, del, silent>>

-----------------------------------------------------------------------------
(* handle_del: dispatch to every replica, then the local delete. *)

DelBegin(d, n) ==
    /\ del[d].pc = "idle" /\ MayBegin(d, n)
    /\ del' = [del EXCEPT ![d] = [pc |-> "local", node |-> n]]
    /\ ops' = [link \in DOMAIN ops |->
                  IF link[1] = n /\ link[2] \in Range(Replicas[n])
                  THEN Append(ops[link], DelOp) ELSE ops[link]]
    /\ get' = Disturbed(get)
    /\ UNCHANGED <<mult, store, put, known, errors, silent, forgotten>>

DelLocal(d) ==
    /\ del[d].pc = "local"
    /\ \/ NoFault /\ store' = [store EXCEPT ![del[d].node] = <<>>]
       \/ Fault /\ UNCHANGED store
    /\ del' = [del EXCEPT ![d].pc = "done"]
    /\ Track
    /\ UNCHANGED <<mult, ops, put, get, known, silent>>

-----------------------------------------------------------------------------
(* ReplicaApplier::apply_op: a delete deletes; a repair is stored verbatim. *)

ApplyOp(link) ==
    /\ ops[link] /= <<>>
    /\ ops' = [ops EXCEPT ![link] = Tail(@)]
    /\ store' = [store EXCEPT ![link[2]] = Head(ops[link]).set]
    /\ Track
    /\ UNCHANGED <<mult, put, get, del, known, errors, silent>>

\* The operation is lost to a full or closed peer channel or a broken
\* connection, or the replica's datastore fails, which is logged and swallowed.
Drop(link) ==
    /\ ops[link] /= <<>>
    /\ ops' = [ops EXCEPT ![link] = Tail(@)]
    /\ get' = Disturbed(get)
    /\ UNCHANGED <<mult, store, put, del, known, errors, silent, forgotten>>

-----------------------------------------------------------------------------
ObjectNext ==
    \/ \E p \in Puts, n \in Nodes, prior \in known : PutBegin(p, n, prior)
    \/ \E p \in Puts : PutStore(p) \/ PutRequest(p) \/ PutFinish(p)
    \/ \E g \in Gets, n \in Nodes : GetBegin(g, n)
    \/ \E g \in Gets : GetRequest(g) \/ GetFinish(g)
    \/ \E d \in Dels, n \in Nodes : DelBegin(d, n)
    \/ \E d \in Dels : DelLocal(d)
    \/ \E link \in Nodes \X Nodes : ApplyOp(link) \/ Drop(link)

ObjectSpec == ObjectInit /\ [][ObjectNext]_objectVars

-----------------------------------------------------------------------------
(* Properties *)

Sets ==
    {store[n] : n \in Nodes} \cup {get[g].merged : g \in Gets} \cup
    UNION {{ops[link][i].set : i \in DOMAIN ops[link]} : link \in DOMAIN ops}

\* Every sibling set that is stored, under way or answered is a causal frontier:
\* none of its siblings was written after reading another, and a bucket without
\* allow_mult keeps one value (resolve_write, merge_sibling_sets), whatever
\* order stale reads, repairs and repeated deliveries come in.
Frontier ==
    \A s \in Sets :
        /\ \A x, y \in Range(s) : ~Dominates(x.context, y.context)
        /\ ~mult => Len(s) <= 1

\* A put answered after a replica acknowledged it was stored by W nodes, DW of
\* them durably, and as long as no verbatim copy, stale write or delete takes it
\* away again that many nodes keep it or a write that saw it (allow_mult).
QuorumCovered ==
    \A p \in Puts \ forgotten :
        LET n == put[p].node
            covering == {r \in Nodes : Covers(store[r], Sibling(p))}
        IN mult /\ put[p].pc = "ok" /\ put[p].acks > 1 =>
             /\ Cardinality(covering) >= Min2(W, Target(n))
             /\ Cardinality(covering \cap DurableNodes) >= Min2(DW, Target(n))

\* A read that met its quorum over replies that were really read, of a put a
\* write quorum had acknowledged before the read began, returns that put or one
\* that saw it, unless some replica forgot it meanwhile; and without deletes it
\* never reports the key as absent.
ReadYourQuorum ==
    \A g \in Gets :
        (get[g].pc = "ok" /\ get[g].responses > 1 /\ ~get[g].misread) =>
            /\ mult => \A p \in get[g].must \ forgotten : Covers(get[g].merged, Sibling(p))
            /\ (get[g].must /= {} /\ \A d \in Dels : del[d].pc = "idle") =>
                    get[g].merged /= <<>>

\* The replicas a get found to hold something.
Repaired(g) == {get[g].node} \cup {x.node : x \in Range(get[g].replies)}

\* What an undisturbed get leaves behind when its repairs have arrived.
SettledOn(g, nodes) ==
    (/\ get[g].pc \in {"ok", "error"} /\ get[g].quiet
     /\ \A link \in DOMAIN ops : ops[link] = <<>>) =>
        \A r \in nodes : Range(store[r]) = Range(get[g].merged)

\* Read repair converges: an undisturbed get whose repairs have arrived leaves
\* every replica that answered with a value, and the coordinator, holding
\* exactly the siblings it merged (read_repair_behind).
RepairConverges == \A g \in Gets : SettledOn(g, Repaired(g))

\* The comment on read_repair_behind, "push the converged sibling set to every
\* replica whose reply was strictly behind the merged frontier": the replicas
\* that answered not-found too.
RepairsEveryReply ==
    \A g \in Gets :
        get[g].responses = 1 + Len(Remote(get[g].node)) =>
            SettledOn(g, {get[g].node} \cup Range(Remote(get[g].node)))

\* The comment on merge_sibling_sets, "a read at any node returns the same
\* value(s) as a read at the most up-to-date replica": a sibling several replicas
\* hold is answered once.
EachSiblingOnce ==
    \A g \in Gets : \A i, j \in DOMAIN get[g].merged :
        get[g].merged[i] = get[g].merged[j] => i = j

\* The book on allow_mult, "two writes concurrent under the per-object causal
\* context are BOTH retained as siblings -- no concurrent write is lost": while
\* nothing was deleted and no datastore failed, an answered put stays covered
\* on some node.
NoConcurrentWriteLost ==
    (mult /\ errors = 0 /\ \A d \in Dels : del[d].pc = "idle") =>
        \A p \in Puts : put[p].pc = "ok" => \E n \in Nodes : Covers(store[n], Sibling(p))

=============================================================================
