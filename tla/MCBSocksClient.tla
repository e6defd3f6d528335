-------------------------- MODULE MCBSocksClient --------------------------
(* An instance of BSocksClient for TLC: both values tun2socks gives        *)
(* auth_info, and lengths at and beyond the limits of RFC 1929.            *)
EXTENDS BSocksClient

MCAuthInfos == {{"none"}, {"none", "password"}}

MCNameLens == {0, 2}
=============================================================================
