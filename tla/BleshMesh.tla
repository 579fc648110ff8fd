----------------------------- MODULE BleshMesh -----------------------------
(***************************************************************************)
(* The adapters that drive a radio themselves: the BLE mesh adapter        *)
(* (src/lib/adapters/blesh), its older form as a ROS node                  *)
(* (src/ros/adapters/blesh) and the IPseSh adapter                         *)
(* (src/lib/adapters/ipsesh).                                              *)
(*                                                                         *)
(* Each process broadcasts heartbeats and passes on what it hears.  One    *)
(* on the mesh that hears a drone's heartbeat also starts a link test, a   *)
(* timer that sends Count packets to the drone.  The heartbeats of the     *)
(* library ("HB:") and of the ROS node ("heartbit:") are not each other's. *)
(*                                                                         *)
(* A received message comes with a messageInfo, made by a package outside  *)
(* of the repository.  The code reads it as a text (split) in one place    *)
(* and as an object (sender, cadence) in another, so one of them raises:   *)
(* info says which.  What an exception does to the process is left open.   *)
(***************************************************************************)
EXTENDS Naturals, Sequences, SequencesExt, FiniteSetsExt

CONSTANTS
    Nodes,      \* the processes, one per radio address
    Adapter,      \* what a process is: "lib", "ros" or "ips"
    Drones,     \* the processes whose host name begins with "uav"
    RemoteHost, \* where a process sends its heartbeats: a node, or EVERYBODY
    EVERYBODY,  \* no remoteHost, or the broadcast address 0xFFFF
    NoAddress,  \* droneAddress before a drone has been heard
    Count,      \* the packets of a link test (500)
    MaxSends    \* bound: heartbeats and messages of all processes

ASSUME BleshAssumption ==
    /\ Adapter \in [Nodes -> {"lib", "ros", "ips"}]
    /\ Drones \subseteq Nodes
    /\ RemoteHost \in [Nodes -> Nodes \union {EVERYBODY}]
    /\ {EVERYBODY, NoAddress} \intersect Nodes = {}
    /\ Count \in Nat \ {0} /\ MaxSends \in Nat

VARIABLES
    info,          \* messageInfo is a "text" or an "object"
    process,       \* is a process up, or ended by an exception?
    droneAddress,  \* where the packets of the link test go
    testStarted,   \* a link test has been started
    count,         \* packets the timer of the link test has yet to send
    sent,          \* what each node has sent; to others it is on its way or lost
    frames,        \* how many frames the link table was given of each sender
    heard,         \* history: the messages handled, by sender and place in sent
    emitted,       \* history: those of them passed on to the application
    packets        \* history: where test packets went, after how many messages

vars == <<info, process, droneAddress, testStarted, count, sent, frames,
          heard, emitted, packets>>

\* A message is known by its sender and its place in what that node has sent.
Places == UNION {{n} \X DOMAIN sent[n] : n \in Nodes}

From(place) == place[1]

Kind(place) == sent[place[1]][place[2]].kind

-----------------------------------------------------------------------------
\* BLE and IP are two networks; an IP broadcast also reaches its own sender.
Reaches(place, n) ==
    /\ sent[place[1]][place[2]].to \in {n, EVERYBODY}
    /\ (Adapter[From(place)] = "ips") = (Adapter[n] = "ips")
    /\ From(place) = n => Adapter[n] = "ips"

Transmit(kind, n, to) ==
    sent' = [sent EXCEPT ![n] = Append(@, [kind |-> kind, to |-> to])]

\* Heartbeats and messages of applications.
Sends == Cardinality({place \in Places : Kind(place) # "test:"})

\* start has connected, subscribed to the radio and set the timer.  A process
\* that starts later differs only in what it misses, and any message may be.
Init ==
    /\ info \in {"text", "object"}
    /\ process = [n \in Nodes |-> "up"]
    /\ droneAddress = [n \in Nodes |-> NoAddress]
    /\ testStarted = [n \in Nodes |-> FALSE]
    /\ count = [n \in Nodes |-> 0]
    /\ sent = [n \in Nodes |-> <<>>]
    /\ frames = [n \in Nodes |-> [m \in Nodes |-> 0]]
    /\ heard = [n \in Nodes |-> <<>>]
    /\ emitted = [n \in Nodes |-> <<>>]
    /\ packets = [n \in Nodes |-> <<>>]

Sending(n, kind, to) ==
    /\ process[n] = "up"
    /\ Sends < MaxSends
    /\ Transmit(kind, n, to)
    /\ UNCHANGED <<info, process, droneAddress, testStarted, count, frames,
                   heard, emitted, packets>>

\* The library's timer: updateAll, whose result is dropped, and a heartbeat.
BleshBeat(n) == Adapter[n] = "lib" /\ Sending(n, "HB:", RemoteHost[n])

RosBeat(n) == Adapter[n] = "ros" /\ Sending(n, "heartbit:", EVERYBODY)

\* start is called without a remoteHost, so its heartbeats go to all.
IpsBeat(n) == Adapter[n] = "ips" /\ Sending(n, "im alive", EVERYBODY)

\* What an application wants sent, through an adapter or the ROS service.
sendMessage(n) == Sending(n, "data", EVERYBODY)

\* The timer of a link test.  It is never cleared, and idle once count is 0.
TestTimer(n) ==
    /\ process[n] = "up"
    /\ count[n] > 0
    /\ count' = [count EXCEPT ![n] = @ - 1]
    /\ packets' = [packets EXCEPT ![n] =
                      Append(@, [to |-> droneAddress[n], after |-> Len(heard[n])])]
    /\ Transmit("test:", n, droneAddress[n])
    /\ UNCHANGED <<info, process, droneAddress, testStarted, frames, heard,
                   emitted>>

-----------------------------------------------------------------------------
\* The message is a drone's heartbeat, in the form that process n knows.
FromDrone(n, message) ==
    /\ From(message) \in Drones
    /\ \/ Adapter[n] = "lib" /\ Kind(message) = "HB:"
       \/ Adapter[n] = "ros" /\ Kind(message) = "heartbit:"

\* messageInfo.split is not a function.
AddressRaises(n, message) == FromDrone(n, message) /\ info = "object"

\* Mutant: only the drone heard first is tested.
FirstAddress(n, message) ==
    IF FromDrone(n, message) /\ info = "text" /\ droneAddress[n] = NoAddress
    THEN From(message) ELSE droneAddress[n]

\* Where the packets of a test go from now on, of one already started too.
AddressAfter(n, message) ==
    IF FromDrone(n, message) /\ info = "text" THEN From(message)
    ELSE droneAddress[n]

\* Mutant: what is asked is the address known before the message.
StartsLater(n, address) == ~testStarted[n] /\ droneAddress[n] # NoAddress

\* Mutant: each message starts a test.
StartsAgain(n, address) == address # NoAddress

StartsTest(n, address) == ~testStarted[n] /\ address # NoAddress

\* The library gives a heartbeat to its link table.
AddsFrame(n, message) == Adapter[n] = "lib" /\ Kind(message) = "HB:"

\* In a class, strict code, a text takes no property "cadence".
FrameRaises(n, message) == AddsFrame(n, message) /\ info = "text"

\* Mutant: the message is emitted before the link table gets its frame.
EmitsFirst(n, message) == ~AddressRaises(n, message)

\* The end of the handler is reached.
Emits(n, message) == ~AddressRaises(n, message) /\ ~FrameRaises(n, message)

\* handleDataReceived of all three adapters.  Of an exception the process ends,
\* or, if the package that calls the handler catches it, goes on.
handleDataReceived(n) ==
    /\ process[n] = "up"
    /\ \E message \in Places \ ToSet(heard[n]) :
          LET address == AddressAfter(n, message)
              starts == ~AddressRaises(n, message) /\ StartsTest(n, address)
          IN /\ Reaches(message, n)
             /\ heard' = [heard EXCEPT ![n] = Append(@, message)]
             /\ droneAddress' = [droneAddress EXCEPT ![n] = address]
             /\ testStarted' = [testStarted EXCEPT ![n] = @ \/ starts]
             /\ count' = [count EXCEPT ![n] = IF starts THEN Count ELSE @]
             /\ frames' =
                   IF AddsFrame(n, message) /\ ~AddressRaises(n, message)
                                            /\ ~FrameRaises(n, message)
                   THEN [frames EXCEPT ![n][From(message)] = @ + 1] ELSE frames
             /\ emitted' = IF Emits(n, message)
                           THEN [emitted EXCEPT ![n] = Append(@, message)]
                           ELSE emitted
             /\ \/ UNCHANGED process
                \/ /\ AddressRaises(n, message) \/ FrameRaises(n, message)
                   /\ process' = [process EXCEPT ![n] = "ended"]
    /\ UNCHANGED <<info, sent, packets>>

Next ==
    \E n \in Nodes :
        \/ BleshBeat(n) \/ RosBeat(n) \/ IpsBeat(n) \/ sendMessage(n)
        \/ TestTimer(n) \/ handleDataReceived(n)

\* A timer that is set fires again and again.  The radio may lose
\* everything.
Fairness == \A n \in Nodes : WF_vars(TestTimer(n))

Spec == Init /\ [][Next]_vars /\ Fairness

-----------------------------------------------------------------------------
\* The messages among the first k that n has heard which announce a drone.
Announcements(n, k) == {i \in 1 .. k : FromDrone(n, heard[n][i])}

\* However many drones are heard, and however often, a process sends one test
\* of Count packets in its life, each to the drone heard last before it: the
\* test of one drone goes on with another, and neither gets all packets.  A
\* drone whose adapter is of the other kind is never tested.
TestPackets ==
    \A n \in Nodes :
        /\ Len(packets[n]) <= Count
        /\ \A j \in DOMAIN packets[n] :
              LET p == packets[n][j] IN
              /\ Announcements(n, p.after) # {}
              /\ p.to = From(heard[n][Max(Announcements(n, p.after))])
              /\ Adapter[p.to] = Adapter[n]

\* A heartbeat is counted in the link table exactly if the application hears
\* of it.  Drones are in nobody's table, whatever messageInfo is: it is read
\* as both, and their heartbeats always fail.
FramesMatchEmitted ==
    \A n \in Nodes, s \in Nodes :
        /\ frames[n][s] = IF Adapter[n] = "lib"
                          THEN Cardinality({m \in ToSet(emitted[n]) :
                                   From(m) = s /\ Kind(m) = "HB:"})
                          ELSE 0
        /\ s \in Drones => frames[n][s] = 0

\* A drone's heartbeat whose address can be read leads to a whole test, unless
\* an exception ends the process first: also if nothing is heard any more, and
\* also if the handler of that heartbeat raises.
TestCompletes ==
    []<>(\A n \in Nodes :
            (info = "text" /\ Announcements(n, Len(heard[n])) # {}) =>
                Len(packets[n]) = Count \/ process[n] = "ended")
=============================================================================
