---------------------------- MODULE MCSupervisor ----------------------------
(* Two children of any policies under any strategy.                       *)
EXTENDS Supervisor

AllStrategies == {"OneForOne", "OneForAll", "RestForOne"}
AllPolicies == {"Permanent", "Transient", "Temporary"}
=============================================================================
