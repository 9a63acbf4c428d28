---------------------------- MODULE MCDiscovery ----------------------------
(* Small instances of Discovery for TLC: two units sharing one address.    *)
EXTENDS Discovery

CONSTANTS u1, u2
=============================================================================
