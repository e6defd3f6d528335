---------------------------- MODULE MCCertCache ----------------------------
(* An instance of CertCache for TLC: a host with two spellings. *)
EXTENDS CertCache

MCKey(n) == IF n = "A.com" THEN "a.com" ELSE n
=============================================================================
