---------------------------- MODULE MCConnection ----------------------------
(* Instance of Connection for TLC. *)
EXTENDS Connection, TLC

CONSTANTS p1, i1

MCPaths == {p1}
MCDuckSuffix == {p1}
MCPids == {i1}
=============================================================================
