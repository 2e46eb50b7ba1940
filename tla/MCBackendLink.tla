---------------------------- MODULE MCBackendLink ----------------------------
(* Instances of BackendLink: requests 1..3, 0 standing for none.  Request 2 *)
(* is a repair script on Valkey; request 3 is noreply on memcache, so both  *)
(* others can be written behind it.                                         *)
(* Any of the requests may carry a deadline, the script included.          *)
EXTENDS BackendLink

Three == 1..3
OneRead == {1}
OneScript == {2}
OneSilent == {3}
AnyDates == SUBSET Three
AllStates == {"Normal", "Standby", "WritesOnly", "Resuming", "Joining"}
=============================================================================
