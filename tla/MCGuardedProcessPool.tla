------------------------ MODULE MCGuardedProcessPool ------------------------
(* GuardedProcessPool with two commands and two calls of killAll().        *)
EXTENDS GuardedProcessPool

CONSTANTS s1, s2, k1, k2

MCStarts == {s1, s2}
MCKills == {k1, k2}
OneKill == {k1}
MCWithCallback == {s1}
=============================================================================
