--------------------------- MODULE SwarmBroadcast ---------------------------
(***************************************************************************)
(* What a swarm of Uhura nodes promises to the clients that publish on     *)
(* <core>.sendMessage.binary: best-effort broadcast.  A core hands a       *)
(* message to at most one of its adapters, and every other node gets it    *)
(* from there at most once, in the order in which that adapter was handed  *)
(* its messages.  Messages may be lost, and two adapters of a core are not *)
(* kept in order with each other.                                          *)
(***************************************************************************)
EXTENDS Naturals, Sequences, SequencesExt

CONSTANTS
    Nodes,  \* the cores, by their ID
    Nums,   \* the numbers a client gives its messages, as it publishes them
    Ids     \* the ids of a core's adapters

VARIABLES
    routed,    \* what each core has handed to its adapters, in order
    received   \* what each core has published on receivedMessage.binary

broadcastVars == <<routed, received>>

Init ==
    /\ routed = [n \in Nodes |-> <<>>]
    /\ received = [n \in Nodes |-> <<>>]

\* Core n takes a message its client published after those it has routed, and
\* gives it to an adapter.
Route(n) ==
    \E num \in Nums, id \in Ids :
        /\ \A old \in ToSet(routed[n]) : old.num < num
        /\ routed' = [routed EXCEPT ![n] =
                         Append(@, [num |-> num, adapterId |-> id])]
        /\ UNCHANGED received

\* Has n had this message, or one the same adapter was handed after it?
Overtaken(n, d) ==
    \E old \in ToSet(received[n]) :
        /\ old.sender = d.sender
        /\ old.adapterId = d.adapterId
        /\ old.num >= d.num

\* A message another core routed arrives at n.
Deliver(n) ==
    \E m \in Nodes \ {n} : \E r \in ToSet(routed[m]) :
        LET d == [sender |-> m, num |-> r.num, adapterId |-> r.adapterId] IN
        /\ ~Overtaken(n, d)
        /\ received' = [received EXCEPT ![n] = Append(@, d)]
        /\ UNCHANGED routed

Next == \E n \in Nodes : Route(n) \/ Deliver(n)

Spec == Init /\ [][Next]_broadcastVars
=============================================================================
