---------------------------- MODULE MCUhuraSwarm ----------------------------
(***************************************************************************)
(* Instances of UhuraSwarm for TLC.  The first node has the adapters a1    *)
(* and a3, the second a2; a3 is a zenoh adapter on a network of its own.   *)
(***************************************************************************)
EXTENDS UhuraSwarm, TLC

CONSTANTS n1, n2, a1, a2, a3

MCNodeOf == [a \in Adapters |-> IF a \in {a1, a3} THEN n1 ELSE n2]

MCTypeOf == [a \in Adapters |-> IF a \in {a3} THEN "zenoh" ELSE "nats"]

MCNetOf == [a \in Adapters |-> IF a \in {a3} THEN "radio" ELSE "lan"]

\* Bounds per node: what the first and the second may do.
Per(x, y) == [n \in Nodes |-> IF n = n1 THEN x ELSE y]
None == Per(0, 0)
FirstOnce == Per(1, 0)
SecondOnce == Per(0, 1)
FirstTwiceSecondOnce == Per(2, 1)

MCDirectAdapters == Adapters \ {a3}
=============================================================================
