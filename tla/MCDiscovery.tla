---------------------------- MODULE MCDiscovery ----------------------------
(* Discovery for TLC: a host with a hostname and an IP, and a container.     *)
EXTENDS Discovery, TLC
=============================================================================
