----------------------------- MODULE MCXbeeNode -----------------------------
(***************************************************************************)
(* Instances of XbeeNode for TLC: two ports to find, of which either, both *)
(* or none may be an XBee device.                                          *)
(***************************************************************************)
EXTENDS XbeeNode

CONSTANTS c1, c2, p1, p2, None

TwoPorts == <<p1, p2>>

AnyParam == {None, p1}

CallerSymmetry == Permutations(Callers)
=============================================================================
