--------------------------- MODULE MCProxyService ---------------------------
(* The service, and the API with the ProtectWorkers.  The models share no  *)
(* state, so it is enough to explore each while the other is at rest.      *)
EXTENDS ProxyService, VpnSystem

MCInit == Init /\ SystemInit

MCNext ==
  \/ Next /\ SystemInit /\ UNCHANGED SystemVars
  \/ SystemNext /\ Init /\ UNCHANGED vars

MCSpec == MCInit /\ [][MCNext]_<<vars, SystemVars>> /\ Fairness /\ VpnFairness
=============================================================================
