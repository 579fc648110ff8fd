----------------------------- MODULE MCMeshTest -----------------------------
(***************************************************************************)
(* An instance of MeshTest for TLC: two clients of the first node may call *)
(* at the same time, for a test of two packets on the whole mesh or one of *)
(* a packet on their node; the second node runs what it hears of.          *)
(***************************************************************************)
EXTENDS MeshTest

CONSTANTS n1, n2, c1, c2, t1, t2

MCAsks ==
    [n \in Nodes |-> IF n = n1 THEN {<<2, TRUE>>, <<1, FALSE>>} ELSE {}]

FirstTwice == [n \in Nodes |-> IF n = n1 THEN 2 ELSE 0]
=============================================================================
