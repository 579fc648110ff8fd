---------------------------- MODULE MCDdsBridge ----------------------------
(***************************************************************************)
(* Two nodes whose bridges share a DDS domain.                             *)
(***************************************************************************)
EXTENDS DdsBridge, TLC

CONSTANTS n1, n2

NodeSymmetry == Permutations(Nodes)
=============================================================================
