--------------------------- MODULE MCProxyServer ----------------------------
(* A connection of the proxy server, and its certificate cache.  The models *)
(* share no state, so it is enough to explore each while the other is at   *)
(* rest.                                                                   *)
EXTENDS SocksPipeline, MCCertCache

FirstConn == CHOOSE c \in Given : TRUE

MCInit == Init /\ CertInit

MCNext ==
  \/ Next /\ CertInit /\ UNCHANGED certVars
  \/ CertNext /\ Init /\ conn = FirstConn /\ UNCHANGED vars

MCSpec == MCInit /\ [][MCNext]_<<vars, certVars>> /\ Fairness
=============================================================================
