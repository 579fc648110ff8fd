----------------------- MODULE MCAdapterRegistration -----------------------
(***************************************************************************)
(* Instances of AdapterRegistration for TLC: one node with two or three    *)
(* adapters, two of them of one type, or two nodes with an adapter each.   *)
(***************************************************************************)
EXTENDS AdapterRegistration, TLC

CONSTANTS a1, a2, a3, n1, n2

OneNode == [a \in Adapters |-> n1]

TwoNodes == a1 :> n1 @@ a2 :> n2

\* The third adapter is the zenoh one of the container, the others direct.
OneZenoh == [a \in Adapters |-> IF a = a3 THEN "zenoh" ELSE "nats"]

AllDirect == [a \in Adapters |-> "nats"]
=============================================================================
