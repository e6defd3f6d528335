---------------------------- MODULE MCTcpClient ----------------------------
(* A client of tun2socks, and the connection below its SOCKS client.  The  *)
(* models share no state, so it is enough to explore each while the other  *)
(* is at rest.                                                             *)
EXTENDS TcpClient, BConnection

MCGarbage == {-1, 0, 7}

MCInit == Init /\ ConInit

MCNext ==
  \/ Next /\ ConInit /\ UNCHANGED o
  \/ ConNext /\ Init /\ UNCHANGED vars

MCSpec == MCInit /\ [][MCNext]_<<vars, o>> /\ Fairness /\ ConFairness
=============================================================================
