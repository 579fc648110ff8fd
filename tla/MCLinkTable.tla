---------------------------- MODULE MCLinkTable ----------------------------
(***************************************************************************)
(* An instance of LinkTable for TLC: ten seconds are four units.           *)
(***************************************************************************)
EXTENDS LinkTable

CONSTANTS s1, s2

OneAheadOrBehind == {-1, 0, 1}
\* One sender is heard often, the other once, and has left then.
OftenAndOnce == [s \in Senders |-> IF s = s1 THEN 3 ELSE 1]
=============================================================================
