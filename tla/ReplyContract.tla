---------------------------- MODULE ReplyContract ----------------------------
(***************************************************************************)
(* What the dispatcher relies on from the link to a replica, local         *)
(* (BackendLink) or remote (PeerLink): a request the link accepted is      *)
(* answered, once, with a reply or with an error, unless it ends among     *)
(* those no timer covers.  Whose reply it is, each link says for itself    *)
(* (NoCrossedReply).                                                       *)
(***************************************************************************)
CONSTANT Reqs       \* requests handed to the link

VARIABLES
    status,         \* [Reqs -> "new", "owed", "reply" or "error"]
    waits           \* requests the link may leave waiting: no deadline covers them

Init == status = [r \in Reqs |-> "new"]

\* The link takes the request, or turns it away at once.
Accept(r) == status[r] = "new" /\ status' = [status EXCEPT ![r] = "owed"]
TurnAway(r) == status[r] = "new" /\ status' = [status EXCEPT ![r] = "error"]

Answer(r) ==
    /\ status[r] = "owed"
    /\ \E a \in {"reply", "error"} : status' = [status EXCEPT ![r] = a]

Next == \E r \in Reqs : Accept(r) \/ TurnAway(r) \/ Answer(r)

\* A request is owed for ever only where no deadline covers it.
Live == \A r \in Reqs : <>[](status[r] = "owed") => <>[](r \in waits)

Spec == Init /\ [][Next]_status /\ Live
=============================================================================
