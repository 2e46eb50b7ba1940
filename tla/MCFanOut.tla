------------------------------ MODULE MCFanOut ------------------------------
(***************************************************************************)
(* An instance of FanOut: three racks in the local datacenter dc1 (peer 0  *)
(* in this node's rack) and one rack in dc2, which only the requests to    *)
(* every node and those at DC_EACH_SAFE_QUORUM reach.                      *)
(***************************************************************************)
EXTENDS FanOut

MCPeers == 0..3
MCDcOf == [p \in MCPeers |-> IF p < 3 THEN "dc1" ELSE "dc2"]
MCRackOf == [p \in MCPeers |-> CASE p = 1 -> "r1" [] p = 2 -> "r2" [] OTHER -> "r0"]
MCRing == <<0, 1, 2, 3>>

MCVersions == 0..3
MCRemoved == {2}
MCContents == 0..1
MCNVals == {0, 2}

\* Handoff is never active for a read, so the flag is left out of those.
\* An in-process datastore matters to local plans only.
Distinct == {r \in Requests : /\ ~(r.is_read /\ r.handoff)
                              /\ r.hook => /\ r.level = "DC_ONE" /\ r.mine /\ r.routing # "all_nodes"
                                           /\ ~r.handoff /\ r.room /\ r.n_val = 0}
\* Requests sent as they are, and requests rewritten into repair scripts.
OneDc == {r \in Distinct : /\ r.routing # "all_nodes" /\ r.level # "DC_EACH_SAFE_QUORUM"
                           /\ r.script # "none" => r.n_val = 0 /\ r.room}
\* Requests that leave the datacenter: writes with handoff, and reads
\* of DC_EACH_SAFE_QUORUM.
AllDcs == {r \in Distinct : /\ r.routing = "all_nodes" \/ r.level = "DC_EACH_SAFE_QUORUM"
                            /\ r.routing # "key" => r.level = "DC_ONE"
                            /\ r.script = "none" /\ r.n_val = 0 /\ r.room /\ r.mine
                            /\ r.handoff \/ (r.is_read /\ r.routing = "key")}
MCWorkload == OneDc \cup AllDcs
=============================================================================
