------------------------------ MODULE Coalesce ------------------------------
(***************************************************************************)
(* The replica-reply tracker of proto/redis/coalesce.rs: given the targets *)
(* a request was fanned out to and the replies received so far, what is    *)
(* the outcome at each consistency level.  Pure operators, no state; the   *)
(* actor that feeds the tracker is in FanOut.                              *)
(*                                                                         *)
(* A reply's equivalence key is its error flag and its payload, so a reply *)
(* is represented by that key.  `divergent_targets` of a Ready outcome is  *)
(* left out: the only consumer, coalesce_actor, ignores it.                *)
(***************************************************************************)
EXTENDS Integers, FiniteSets

CONSTANTS
    Peers,       \* peer indices, naturals: the tracker breaks ties by index
    DcOf,        \* [Peers -> datacenter name]
    LocalDc,     \* this node's datacenter
    Payloads     \* reply bodies, naturals

ASSUME PeersAssumption == Peers \subseteq Nat /\ IsFiniteSet(Peers)
ASSUME PayloadsAssumption == Payloads \subseteq Nat /\ {0, 1} \subseteq Payloads

Levels == {"DC_ONE", "DC_QUORUM", "DC_SAFE_QUORUM", "DC_EACH_SAFE_QUORUM"}

Reply == [err : BOOLEAN, val : Payloads]

\* The replies received so far: a function from some of the peers to replies.
ReplyMap == UNION {[S -> Reply] : S \in SUBSET Peers}

Pending == [kind |-> "pending"]
Ready(winner) == [kind |-> "ready", winner |-> winner]
Failed == [kind |-> "error"]

-----------------------------------------------------------------------------

LocalTargets(targets) == {p \in targets : DcOf[p] = LocalDc}

\* The N the quorum is a majority of: the local-DC targets, or every target
\* when none is local.
LocalCount(targets) ==
    Cardinality(IF LocalTargets(targets) = {} THEN targets ELSE LocalTargets(targets))

Quorum(targets) == (LocalCount(targets) \div 2) + 1

\* The replies that vote: those of local-DC targets, or all when none is.
Voters(targets, received) ==
    {p \in DOMAIN received :
        LocalTargets(targets) = {} \/ p \in LocalTargets(targets)}

KeysOf(received, voters) == {received[p] : p \in voters}

VotesFor(received, voters, key) == {p \in voters : received[p] = key}

LowestIdx(S) == CHOOSE p \in S : \A q \in S : p <= q

\* plurality_key: most votes; on a tie, the key with the lowest voter index.
PluralityKey(received, voters) ==
    CHOOSE k \in KeysOf(received, voters) :
        \A j \in KeysOf(received, voters) \ {k} :
            LET nk == Cardinality(VotesFor(received, voters, k))
                nj == Cardinality(VotesFor(received, voters, j))
            IN  \/ nk > nj
                \/ /\ nk = nj
                   /\ LowestIdx(VotesFor(received, voters, k))
                        < LowestIdx(VotesFor(received, voters, j))

EvaluateDcOne(received, source) == Ready(received[source])

\* Mutant: as soon as a majority replied, the plurality wins.
EvaluateDcQuorumAnyMajority(targets, received) ==
    LET voters == Voters(targets, received)
    IN  IF Cardinality(voters) < Quorum(targets) THEN Pending
        ELSE Ready(PluralityKey(received, voters))

\* Mutant: no majority is an error even when every reply is in.
EvaluateDcQuorumNoPlurality(targets, received) ==
    LET voters == Voters(targets, received)
        winning == {k \in KeysOf(received, voters) :
                      Cardinality(VotesFor(received, voters, k)) >= Quorum(targets)}
    IN  IF winning # {} THEN Ready(CHOOSE k \in winning : TRUE)
        ELSE IF Cardinality(DOMAIN received) < LocalCount(targets) THEN Pending
        ELSE Failed

\* A key with a majority wins at once.  When as many replies as local targets
\* are in and no key has one, the plurality wins.
EvaluateDcQuorum(targets, received) ==
    LET voters == Voters(targets, received)
        winning == {k \in KeysOf(received, voters) :
                      Cardinality(VotesFor(received, voters, k)) >= Quorum(targets)}
    IN  IF winning # {} THEN Ready(CHOOSE k \in winning : TRUE)
        ELSE IF Cardinality(DOMAIN received) < LocalCount(targets) THEN Pending
        ELSE IF voters = {} THEN Failed
        ELSE Ready(PluralityKey(received, voters))

\* Every local reply must be in, and all must agree.
EvaluateDcSafeQuorum(targets, received) ==
    LET voters == Voters(targets, received)
        keys == KeysOf(received, voters)
    IN  IF Cardinality(voters) < LocalCount(targets) THEN Pending
        ELSE IF Cardinality(keys) = 1 THEN Ready(CHOOSE k \in keys : TRUE)
        ELSE Failed

DcTargets(targets, dc) == {p \in targets : DcOf[p] = dc}

\* Every datacenter must be complete and unanimous; divergence inside a
\* complete one is an error at once.  The local datacenter's reply answers;
\* datacenters may differ from each other.
EvaluateDcEachSafeQuorum(targets, received) ==
    LET dcs == {DcOf[p] : p \in targets}
        complete == {d \in dcs : DcTargets(targets, d) \subseteq DOMAIN received}
        split == {d \in complete :
                    Cardinality(KeysOf(received, DcTargets(targets, d))) # 1}
    IN  IF split # {} THEN Failed
        ELSE IF complete # dcs THEN Pending
        ELSE IF LocalDc \in dcs
             THEN Ready(received[CHOOSE p \in DcTargets(targets, LocalDc) : TRUE])
             ELSE Ready(received[LowestIdx(DOMAIN received)])

\* record_reply for a tracker that has not decided: the reply replaces an
\* earlier one of the same source.
RecordReply(received, source, rsp) ==
    [p \in DOMAIN received \cup {source} |-> IF p = source THEN rsp ELSE received[p]]

Evaluate(level, targets, received, source) ==
    CASE level = "DC_ONE"              -> EvaluateDcOne(received, source)
      [] level = "DC_QUORUM"           -> EvaluateDcQuorum(targets, received)
      [] level = "DC_SAFE_QUORUM"      -> EvaluateDcSafeQuorum(targets, received)
      [] level = "DC_EACH_SAFE_QUORUM" -> EvaluateDcEachSafeQuorum(targets, received)
=============================================================================
