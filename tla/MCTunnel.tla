------------------------------ MODULE MCTunnel ------------------------------
(* Tunnel with one command, as ProxyService uses the pool: started once,   *)
(* restarted by its guard any number of times, and killed once.            *)
EXTENDS Tunnel

CONSTANTS s1, k1

MCStarts == {s1}
MCKills == {k1}
MCSdkVersions == {23, 24}
=============================================================================
