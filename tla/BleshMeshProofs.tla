-------------------------- MODULE BleshMeshProofs --------------------------
(***************************************************************************)
(* Proofs about the adapters that drive a radio themselves (BleshMesh): a  *)
(* process sends one link test, each packet to the drone it heard last,    *)
(* and its link table has the heartbeats that its application hears of.    *)
(***************************************************************************)
EXTENDS BleshMesh, SequenceLemmas

-----------------------------------------------------------------------------
Kinds == {"HB:", "heartbit:", "im alive", "data", "test:"}

Message == [kind : Kinds, to : Nodes \union {EVERYBODY}]

Packet == [to : Nodes, after : Nat]

\* Every variable has its type.
MeshType ==
    /\ info \in {"text", "object"}
    /\ process \in [Nodes -> {"up", "ended"}]
    /\ droneAddress \in [Nodes -> Nodes \union {NoAddress}]
    /\ testStarted \in [Nodes -> BOOLEAN]
    /\ count \in [Nodes -> Nat]
    /\ sent \in [Nodes -> Seq(Message)]
    /\ frames \in [Nodes -> [Nodes -> Nat]]
    /\ heard \in [Nodes -> Seq(Nodes \X Nat)]
    /\ emitted \in [Nodes -> Seq(Nodes \X Nat)]
    /\ packets \in [Nodes -> Seq(Packet)]

\* What is heard has been sent, what is emitted has been heard, and a heartbeat
\* tells the adapter of its sender.
Genuine ==
    /\ \A n \in Nodes :
          /\ ToSet(heard[n]) \subseteq Places
          /\ ToSet(emitted[n]) \subseteq ToSet(heard[n])
    /\ \A place \in Places :
          /\ Kind(place) = "HB:" => Adapter[From(place)] = "lib"
          /\ Kind(place) = "heartbit:" => Adapter[From(place)] = "ros"

\* The drone announced last among the first k messages heard.
LastDrone(n, k) == From(heard[n][Max(Announcements(n, k))])

PacketRight(n, p) ==
    /\ p.after <= Len(heard[n])
    /\ Announcements(n, p.after) # {}
    /\ p.to = LastDrone(n, p.after)
    /\ Adapter[p.to] = Adapter[n]

\* TestPackets, made inductive: droneAddress is that of the last announcement,
\* and what the timer has yet to send and what it has sent make one test.
OneTest(n) ==
    /\ info = "text" /\ Announcements(n, Len(heard[n])) # {} =>
          droneAddress[n] = LastDrone(n, Len(heard[n]))
    /\ info = "object" \/ Announcements(n, Len(heard[n])) = {} =>
          droneAddress[n] = NoAddress
    /\ testStarted[n] => /\ droneAddress[n] # NoAddress
                         /\ count[n] + Len(packets[n]) = Count
    /\ ~testStarted[n] => count[n] = 0 /\ Len(packets[n]) = 0
    /\ \A j \in 1 .. Len(packets[n]) : PacketRight(n, packets[n][j])

\* The heartbeats of s that n has emitted.
Emitted(n, s) == {m \in ToSet(emitted[n]) : From(m) = s /\ Kind(m) = "HB:"}

\* The inductive invariant of the mesh.
MeshInv == Genuine /\ (\A n \in Nodes : OneTest(n)) /\ FramesMatchEmitted


-----------------------------------------------------------------------------
\* A message's place is its sender and a number of what that has sent.
LEMMA PlaceParts ==
  ASSUME MeshType
  PROVE  /\ \A n \in Nodes : \A i \in 1 .. Len(sent[n]) : <<n, i>> \in Places
         /\ \A place \in Places :
               /\ place[1] \in Nodes /\ place[2] \in Nat
               /\ place[2] \in 1 .. Len(sent[place[1]])
               /\ place = <<place[1], place[2]>>
<1>1. \A n \in Nodes : sent[n] \in Seq(Message)
  BY DEF MeshType
<1>2. \A n \in Nodes : DOMAIN sent[n] = 1 .. Len(sent[n])
  BY <1>1
<1> QED
  BY <1>1, <1>2 DEF Places

\* Old places stay places, of the same kinds.
Growing ==
    /\ Places \subseteq Places'
    /\ \A place \in Places : Kind(place)' = Kind(place)

\* What is sent goes to a new place; nothing that was sent changes.
LEMMA SentGrows ==
  ASSUME MeshType, NEW n \in Nodes, NEW message \in Message,
         sent' = [sent EXCEPT ![n] = Append(@, message)]
  PROVE  /\ sent' \in [Nodes -> Seq(Message)]
         /\ Growing
         /\ \A place \in Places' :
               \/ place \in Places
               \/ From(place) = n /\ Kind(place)' = message.kind
<1>1. /\ sent \in [Nodes -> Seq(Message)]
      /\ sent[n] \in Seq(Message) /\ Len(sent[n]) \in Nat
  BY DEF MeshType
<1>2. /\ sent' \in [Nodes -> Seq(Message)]
      /\ sent'[n] = Append(sent[n], message)
      /\ \A m \in Nodes \ {n} : sent'[m] = sent[m]
  BY <1>1
<1>3. /\ Len(sent'[n]) = Len(sent[n]) + 1
      /\ \A i \in 1 .. Len(sent[n]) : sent'[n][i] = sent[n][i]
      /\ sent'[n][Len(sent[n]) + 1] = message
  BY <1>1, <1>2
<1>4. \A m \in Nodes : /\ DOMAIN sent[m] = 1 .. Len(sent[m])
                       /\ DOMAIN sent'[m] = 1 .. Len(sent'[m])
  <2>1. \A m \in Nodes : sent[m] \in Seq(Message) /\ sent'[m] \in Seq(Message)
    BY <1>1, <1>2
  <2> QED
    BY <2>1
<1>5. ASSUME NEW m \in Nodes, NEW i \in 1 .. Len(sent[m])
      PROVE  i \in 1 .. Len(sent'[m]) /\ sent'[m][i] = sent[m][i]
  <2>1. CASE m = n
    BY <1>1, <1>3, <2>1
  <2>2. CASE m # n
    BY <1>2, <2>2
  <2> QED
    BY <2>1, <2>2
<1>6. Growing
  <2> SUFFICES ASSUME NEW place \in Places
               PROVE  place \in Places' /\ Kind(place)' = Kind(place)
    BY DEF Growing
  <2>1. /\ place[1] \in Nodes /\ place[2] \in 1 .. Len(sent[place[1]])
        /\ place = <<place[1], place[2]>>
    BY PlaceParts
  <2>2. /\ place[2] \in DOMAIN sent'[place[1]]
        /\ sent'[place[1]][place[2]] = sent[place[1]][place[2]]
    BY <1>4, <1>5, <2>1
  <2>3. place \in Places'
    BY <2>1, <2>2 DEF Places
  <2> QED
    BY <2>2, <2>3 DEF Kind
<1>7. ASSUME NEW place \in Places', place \notin Places
      PROVE  From(place) = n /\ Kind(place)' = message.kind
  <2>1. PICK m \in Nodes : place \in {m} \X DOMAIN sent'[m]
    BY DEF Places
  <2>2. /\ place[1] = m /\ place[2] \in 1 .. Len(sent'[m])
        /\ place = <<m, place[2]>>
    BY <1>4, <2>1
  <2>3. place[2] \notin 1 .. Len(sent[m])
    BY <1>7, <2>2, PlaceParts
  <2>4. m = n
    BY <1>2, <2>2, <2>3
  <2>5. place[2] = Len(sent[n]) + 1
    BY <1>1, <1>3, <2>2, <2>3, <2>4
  <2> QED
    BY <1>3, <2>2, <2>4, <2>5 DEF From, Kind
<1> QED
  BY <1>2, <1>6, <1>7

\* A set of places in a history that is not empty has a last one.
LEMMA MaxPlace ==
  ASSUME NEW b \in Nat, NEW T, T \subseteq 1 .. b, T # {}
  PROVE  Max(T) \in T /\ \A y \in T : Max(T) >= y
<1>1. T \subseteq 0 .. b
  OBVIOUS
<1>2. PICK x \in T : \A y \in T : y <= x
  BY <1>1, GreatestNatural
<1>3. \A y \in T : x >= y
  BY <1>2
<1> QED
  BY <1>3 DEF Max

\* What is true of the messages heard so far stays true of them.
LEMMA HeardKept ==
  ASSUME MeshType, Growing, NEW n \in Nodes, ToSet(heard[n]) \subseteq Places,
         \A i \in 1 .. Len(heard[n]) : heard'[n][i] = heard[n][i],
         NEW k \in Nat, k <= Len(heard[n])
  PROVE  /\ Announcements(n, k)' = Announcements(n, k)
         /\ Announcements(n, k) # {} => LastDrone(n, k)' = LastDrone(n, k)
<1>1. /\ heard[n] \in Seq(Nodes \X Nat) /\ Len(heard[n]) \in Nat
      /\ \A i \in 1 .. k : i \in 1 .. Len(heard[n])
  BY DEF MeshType
<1>2. \A i \in 1 .. k : heard[n][i] \in Places /\ heard'[n][i] = heard[n][i]
  BY <1>1, ToSetMember
<1>3. ASSUME NEW i \in 1 .. k
      PROVE  FromDrone(n, heard[n][i])' = FromDrone(n, heard[n][i])
  <2>1. Kind(heard[n][i])' = Kind(heard[n][i])
    BY <1>2 DEF Growing, Kind
  <2>2. From(heard[n][i])' = From(heard[n][i])
    BY <1>2 DEF From
  <2> QED
    BY <2>1, <2>2 DEF FromDrone
<1>4. Announcements(n, k)' = Announcements(n, k)
  BY <1>3 DEF Announcements
<1>5. ASSUME Announcements(n, k) # {}
      PROVE  LastDrone(n, k)' = LastDrone(n, k)
  <2>1. Announcements(n, k) \subseteq 1 .. k
    BY DEF Announcements
  <2>2. Max(Announcements(n, k)) \in 1 .. k
    BY <1>5, <2>1, MaxPlace
  <2> QED
    BY <1>2, <1>4, <2>2 DEF LastDrone, From
<1> QED
  BY <1>4, <1>5

\* A test packet went where it should, whatever is heard afterwards.
LEMMA PacketKept ==
  ASSUME MeshType, Growing, NEW n \in Nodes, ToSet(heard[n]) \subseteq Places,
         \A i \in 1 .. Len(heard[n]) : heard'[n][i] = heard[n][i],
         Len(heard'[n]) \in Nat, Len(heard[n]) <= Len(heard'[n]),
         NEW p \in Packet, PacketRight(n, p)
  PROVE  PacketRight(n, p)'
<1>1. p.after \in Nat /\ p.after <= Len(heard[n]) /\ Len(heard[n]) \in Nat
  BY DEF Packet, PacketRight, MeshType
<1>2. /\ Announcements(n, p.after)' = Announcements(n, p.after)
      /\ LastDrone(n, p.after)' = LastDrone(n, p.after)
  BY <1>1, HeardKept DEF PacketRight
<1>3. p.after <= Len(heard'[n])
  BY <1>1
<1> QED
  BY <1>2, <1>3 DEF PacketRight

\* The link test of a node that hears nothing and sends no packet goes on.
LEMMA OneTestKept ==
  ASSUME MeshType, Growing, NEW n \in Nodes, ToSet(heard[n]) \subseteq Places,
         OneTest(n), info' = info, heard'[n] = heard[n],
         droneAddress'[n] = droneAddress[n], testStarted'[n] = testStarted[n],
         count'[n] = count[n], packets'[n] = packets[n]
  PROVE  OneTest(n)'
<1>1. Len(heard[n]) \in Nat /\ packets[n] \in Seq(Packet)
  BY DEF MeshType
<1>2. /\ Announcements(n, Len(heard[n]))' = Announcements(n, Len(heard[n]))
      /\ Announcements(n, Len(heard[n])) # {} =>
            LastDrone(n, Len(heard[n]))' = LastDrone(n, Len(heard[n]))
  <2>1. PICK k \in Nat : k = Len(heard[n]) /\ k = Len(heard'[n])
    BY <1>1
  <2>2. /\ Announcements(n, k)' = Announcements(n, k)
        /\ Announcements(n, k) # {} => LastDrone(n, k)' = LastDrone(n, k)
    BY <1>1, <2>1, HeardKept
  <2>3. /\ Announcements(n, Len(heard[n]))' = Announcements(n, k)'
        /\ LastDrone(n, Len(heard[n]))' = LastDrone(n, k)'
    BY <2>1 DEF Announcements, LastDrone
  <2> QED
    BY <2>1, <2>2, <2>3
<1>3. \A j \in 1 .. Len(packets[n]) : PacketRight(n, packets[n][j])'
  <2> SUFFICES ASSUME NEW j \in 1 .. Len(packets[n])
               PROVE  PacketRight(n, packets[n][j])'
    OBVIOUS
  <2>1. packets[n][j] \in Packet /\ PacketRight(n, packets[n][j])
    BY <1>1 DEF OneTest
  <2> QED
    BY <1>1, <2>1, PacketKept
<1> QED
  BY <1>2, <1>3 DEF OneTest

FramesMatch(n, s) ==
    /\ frames[n][s] = IF Adapter[n] = "lib" THEN Cardinality(Emitted(n, s)) ELSE 0
    /\ s \in Drones => frames[n][s] = 0

\* FramesMatchEmitted says this of each two nodes.
LEMMA FramesMatchDef == FramesMatchEmitted <=> \A n, s \in Nodes : FramesMatch(n, s)
BY DEF FramesMatchEmitted, FramesMatch, Emitted

\* A node that emits nothing keeps what it counts.
LEMMA FramesKept ==
  ASSUME Growing, NEW n \in Nodes, NEW s \in Nodes, FramesMatch(n, s),
         ToSet(emitted[n]) \subseteq Places,
         emitted'[n] = emitted[n], frames'[n] = frames[n]
  PROVE  FramesMatch(n, s)'
<1>1. Emitted(n, s)' = Emitted(n, s)
  BY DEF Emitted, Growing, From
<1> QED
  BY <1>1 DEF FramesMatch

-----------------------------------------------------------------------------
\* Sending, by whatever timer or application, adds a message of a kind that the
\* node's adapter sends.
LEMMA GenuineSent ==
  ASSUME MeshType, Genuine, NEW n \in Nodes, NEW message \in Message,
         message.kind = "HB:" => Adapter[n] = "lib",
         message.kind = "heartbit:" => Adapter[n] = "ros",
         sent' = [sent EXCEPT ![n] = Append(@, message)],
         heard' = heard, emitted' = emitted
  PROVE  Genuine' /\ Growing /\ sent' \in [Nodes -> Seq(Message)]
<1>1. /\ sent' \in [Nodes -> Seq(Message)]
      /\ Growing
      /\ \A place \in Places' :
            \/ place \in Places
            \/ From(place) = n /\ Kind(place)' = message.kind
  BY SentGrows
<1>2. \A m \in Nodes : /\ ToSet(heard[m])' \subseteq Places'
                       /\ ToSet(emitted[m])' \subseteq ToSet(heard[m])'
  BY <1>1 DEF Genuine, Growing
<1>3. ASSUME NEW place \in Places'
      PROVE  /\ Kind(place)' = "HB:" => Adapter[From(place)] = "lib"
             /\ Kind(place)' = "heartbit:" => Adapter[From(place)] = "ros"
  <2>1. CASE place \in Places
    BY <1>1, <2>1 DEF Genuine, Growing
  <2>2. CASE From(place) = n /\ Kind(place)' = message.kind
    BY <2>2
  <2> QED
    BY <1>1, <2>1, <2>2
<1> QED
  BY <1>1, <1>2, <1>3 DEF Genuine, From

\* Heartbeats and messages of applications disturb no test and no table.
LEMMA SendingKeeps ==
  ASSUME MeshType, MeshInv, NEW n \in Nodes,
         NEW kind \in Kinds, NEW to \in Nodes \union {EVERYBODY},
         kind = "HB:" => Adapter[n] = "lib",
         kind = "heartbit:" => Adapter[n] = "ros",
         Sending(n, kind, to)
  PROVE  MeshType' /\ MeshInv'
<1> DEFINE message == [kind |-> kind, to |-> to]
<1>1. /\ sent' = [sent EXCEPT ![n] = Append(@, message)]
      /\ UNCHANGED <<info, process, droneAddress, testStarted, count, frames,
                     heard, emitted, packets>>
  BY DEF Sending, Transmit
<1>2. message \in Message /\ message.kind = kind
  BY DEF Message
<1> HIDE DEF message
<1>3. Genuine' /\ Growing /\ sent' \in [Nodes -> Seq(Message)]
  BY <1>1, <1>2, GenuineSent DEF MeshInv
<1>4. MeshType'
  BY <1>1, <1>3 DEF MeshType
<1>5. \A m \in Nodes : ToSet(heard[m]) \subseteq Places /\ ToSet(emitted[m]) \subseteq Places
  BY DEF MeshInv, Genuine
<1>6. \A m \in Nodes : OneTest(m)'
  BY <1>1, <1>3, <1>5, OneTestKept DEF MeshInv
<1>7. \A m, s \in Nodes : FramesMatch(m, s)'
  <2>1. \A m, s \in Nodes : FramesMatch(m, s)
    BY FramesMatchDef DEF MeshInv
  <2> QED
    BY <1>1, <1>3, <1>5, <2>1, FramesKept
<1>8. FramesMatchEmitted'
  BY <1>7 DEF FramesMatchEmitted, FramesMatch, Emitted
<1> QED
  BY <1>3, <1>4, <1>6, <1>8 DEF MeshInv

\* The timer of the link test sends one of the packets left, to the drone that
\* was announced last.
LEMMA TestTimerKeeps ==
  ASSUME MeshType, MeshInv, NEW n \in Nodes, TestTimer(n)
  PROVE  MeshType' /\ MeshInv'
<1> DEFINE message == [kind |-> "test:", to |-> droneAddress[n]]
           p == [to |-> droneAddress[n], after |-> Len(heard[n])]
<1>1. /\ count[n] > 0
      /\ count' = [count EXCEPT ![n] = @ - 1]
      /\ packets' = [packets EXCEPT ![n] = Append(@, p)]
      /\ sent' = [sent EXCEPT ![n] = Append(@, message)]
      /\ UNCHANGED <<info, process, droneAddress, testStarted, frames, heard, emitted>>
  BY DEF TestTimer, Transmit
<1>2. /\ count \in [Nodes -> Nat] /\ packets \in [Nodes -> Seq(Packet)]
      /\ testStarted[n] \in BOOLEAN /\ Len(heard[n]) \in Nat
      /\ droneAddress[n] \in Nodes \union {NoAddress}
      /\ info \in {"text", "object"}
  BY DEF MeshType
<1>3. OneTest(n) /\ Genuine
  BY DEF MeshInv
<1>4. /\ testStarted[n] /\ droneAddress[n] # NoAddress
      /\ count[n] + Len(packets[n]) = Count
  BY <1>1, <1>2, <1>3 DEF OneTest
<1>5. /\ info = "text" /\ Announcements(n, Len(heard[n])) # {}
      /\ droneAddress[n] = LastDrone(n, Len(heard[n])) /\ droneAddress[n] \in Nodes
  BY <1>2, <1>3, <1>4 DEF OneTest
<1>6. Adapter[droneAddress[n]] = Adapter[n]
  <2>1. /\ heard[n] \in Seq(Nodes \X Nat) /\ Len(heard[n]) \in Nat
        /\ Announcements(n, Len(heard[n])) \subseteq 1 .. Len(heard[n])
    BY DEF MeshType, Announcements
  <2>2. PICK i \in Announcements(n, Len(heard[n])) :
           droneAddress[n] = From(heard[n][i])
    BY <1>5, <2>1, MaxPlace DEF LastDrone
  <2>3. heard[n][i] \in Places
    BY <1>3, <2>1, <2>2, ToSetMember DEF Genuine
  <2>4. FromDrone(n, heard[n][i])
    BY <2>2 DEF Announcements
  <2> QED
    BY <1>3, <2>2, <2>3, <2>4 DEF Genuine, FromDrone
<1>7. /\ message \in Message /\ message.kind = "test:"
      /\ p \in Packet /\ p.to = droneAddress[n] /\ p.after = Len(heard[n])
  BY <1>2, <1>5 DEF Message, Kinds, Packet
<1> HIDE DEF message, p
<1>8. Genuine' /\ Growing /\ sent' \in [Nodes -> Seq(Message)]
  BY <1>1, <1>3, <1>7, GenuineSent
<1>9. MeshType'
  <2>1. count' \in [Nodes -> Nat] /\ packets' \in [Nodes -> Seq(Packet)]
    BY <1>1, <1>2, <1>7
  <2> QED
    BY <1>1, <1>8, <2>1 DEF MeshType
<1>10. \A m \in Nodes : ToSet(heard[m]) \subseteq Places /\ ToSet(emitted[m]) \subseteq Places
  BY <1>3 DEF Genuine
<1>11. \A m \in Nodes \ {n} : OneTest(m)'
  <2>1. \A m \in Nodes \ {n} : count'[m] = count[m] /\ packets'[m] = packets[m]
    BY <1>1, <1>2
  <2> QED
    BY <1>1, <1>8, <1>10, <2>1, OneTestKept DEF MeshInv
<1>12. OneTest(n)'
  <2>1. PICK k \in Nat : k = Len(heard[n]) /\ k = Len(heard'[n])
    BY <1>1, <1>2
  <2>10. /\ ToSet(heard[n]) \subseteq Places
         /\ \A i \in 1 .. Len(heard[n]) : heard'[n][i] = heard[n][i]
         /\ k <= Len(heard[n]) /\ Announcements(n, k) # {}
         /\ Len(heard'[n]) \in Nat /\ Len(heard[n]) <= Len(heard'[n])
    BY <1>1, <1>2, <1>5, <1>10, <2>1
  <2>2. /\ Announcements(n, k)' = Announcements(n, k)
        /\ LastDrone(n, k)' = LastDrone(n, k)
    BY <1>8, <2>10, HeardKept
  <2>3. /\ Announcements(n, Len(heard[n]))' = Announcements(n, k)'
        /\ LastDrone(n, Len(heard[n]))' = LastDrone(n, k)'
    BY <2>1 DEF Announcements, LastDrone
  <2>4. PacketRight(n, p)
    BY <1>2, <1>5, <1>6, <1>7 DEF PacketRight
  <2>5. \A q \in Packet : PacketRight(n, q) => PacketRight(n, q)'
    BY <1>8, <2>10, PacketKept
  <2>6. /\ packets[n] \in Seq(Packet) /\ Len(packets[n]) \in Nat
        /\ packets'[n] = Append(packets[n], p)
    BY <1>1, <1>2
  <2>7. /\ Len(packets'[n]) = Len(packets[n]) + 1
        /\ packets'[n][Len(packets[n]) + 1] = p
        /\ \A j \in 1 .. Len(packets[n]) :
              packets[n][j] \in Packet /\ packets'[n][j] = packets[n][j]
    BY <1>7, <2>6
  <2>8. ASSUME NEW j \in 1 .. Len(packets'[n])
        PROVE  PacketRight(n, packets[n][j])'
    <3>1. PICK q \in Packet : q = packets'[n][j] /\ PacketRight(n, q)
      <4>1. j \in 1 .. Len(packets[n]) \/ j = Len(packets[n]) + 1
        BY <2>6, <2>7
      <4> QED
        BY <1>3, <1>7, <2>4, <2>7, <4>1 DEF OneTest
    <3> QED
      BY <2>5, <3>1
  <2>9. count'[n] + Len(packets'[n]) = Count
    <3>1. count[n] \in Nat /\ count'[n] = count[n] - 1
      BY <1>1, <1>2
    <3> QED
      BY <1>4, <2>6, <2>7, <3>1
  <2> QED
    <3>1. /\ Announcements(n, Len(heard[n]))' # {} /\ info' = "text"
          /\ droneAddress'[n] = LastDrone(n, Len(heard[n]))'
      BY <1>1, <1>5, <2>1, <2>2, <2>3, <2>10
    <3>2. testStarted'[n] /\ droneAddress'[n] # NoAddress
      BY <1>1, <1>4
    <3> QED
      BY <2>8, <2>9, <3>1, <3>2 DEF OneTest
<1>13. \A m, s \in Nodes : FramesMatch(m, s)'
  <2>1. \A m, s \in Nodes : FramesMatch(m, s)
    BY FramesMatchDef DEF MeshInv
  <2> QED
    BY <1>1, <1>8, <1>10, <2>1, FramesKept
<1>14. FramesMatchEmitted'
  BY <1>13 DEF FramesMatchEmitted, FramesMatch, Emitted
<1> QED
  BY <1>8, <1>9, <1>11, <1>12, <1>14 DEF MeshInv

-----------------------------------------------------------------------------
\* What handleDataReceived does at n with a message it has not handled before.
Handles(n, message) ==
    LET address == AddressAfter(n, message)
        starts == ~AddressRaises(n, message) /\ StartsTest(n, address)
    IN /\ message \in Places /\ message \notin ToSet(heard[n])
       /\ heard' = [heard EXCEPT ![n] = Append(@, message)]
       /\ droneAddress' = [droneAddress EXCEPT ![n] = address]
       /\ testStarted' = [testStarted EXCEPT ![n] = @ \/ starts]
       /\ count' = [count EXCEPT ![n] = IF starts THEN Count ELSE @]
       /\ frames' =
             IF AddsFrame(n, message) /\ ~AddressRaises(n, message)
                                      /\ ~FrameRaises(n, message)
             THEN [frames EXCEPT ![n][From(message)] = @ + 1] ELSE frames
       /\ emitted' = IF Emits(n, message)
                     THEN [emitted EXCEPT ![n] = Append(@, message)]
                     ELSE emitted
       /\ process' \in [Nodes -> {"up", "ended"}]
       /\ UNCHANGED <<info, sent, packets>>

\* The handler does this with one message.
LEMMA HandlesOne ==
  ASSUME MeshType, NEW n \in Nodes, handleDataReceived(n)
  PROVE  \E message \in Places : Handles(n, message)
<1>1. process \in [Nodes -> {"up", "ended"}]
  BY DEF MeshType
<1> QED
  BY <1>1 DEF handleDataReceived, Handles

\* Handling a message sends nothing.
LEMMA NothingSent == ASSUME sent' = sent PROVE Growing /\ Places' = Places
BY DEF Growing, Places, Kind

\* A message handled keeps the types, and is genuine.
LEMMA HandlesGenuine ==
  ASSUME MeshType, Genuine, NEW n \in Nodes, NEW message \in Places, Handles(n, message)
  PROVE  MeshType' /\ Genuine'
<1>1. /\ heard \in [Nodes -> Seq(Nodes \X Nat)] /\ emitted \in [Nodes -> Seq(Nodes \X Nat)]
      /\ frames \in [Nodes -> [Nodes -> Nat]] /\ testStarted \in [Nodes -> BOOLEAN]
      /\ count \in [Nodes -> Nat] /\ droneAddress \in [Nodes -> Nodes \union {NoAddress}]
  BY DEF MeshType
<1>2. /\ message[1] \in Nodes /\ message[2] \in Nat /\ message = <<message[1], message[2]>>
      /\ From(message) \in Nodes
  BY PlaceParts DEF From
<1>3. message \in Nodes \X Nat
  BY <1>2
<1>4. /\ heard' = [heard EXCEPT ![n] = Append(@, message)]
      /\ emitted' = emitted \/ emitted' = [emitted EXCEPT ![n] = Append(@, message)]
      /\ sent' = sent
  BY DEF Handles
<1> DEFINE S == Nodes \X Nat
<1>14. heard \in [Nodes -> Seq(S)] /\ emitted \in [Nodes -> Seq(S)] /\ message \in S
  BY <1>1, <1>3
<1> HIDE DEF S
<1>15. heard' \in [Nodes -> Seq(S)] /\ emitted' \in [Nodes -> Seq(S)]
  <2>1. Append(heard[n], message) \in Seq(S) /\ Append(emitted[n], message) \in Seq(S)
    BY <1>14
  <2>2. heard' \in [Nodes -> Seq(S)]
    BY <1>4, <1>14, <2>1
  <2>3. CASE emitted' = emitted
    BY <1>14, <2>2, <2>3
  <2>4. CASE emitted' = [emitted EXCEPT ![n] = Append(@, message)]
    BY <1>14, <2>1, <2>2, <2>4
  <2> QED
    BY <1>4, <2>3, <2>4
<1>5. heard' \in [Nodes -> Seq(Nodes \X Nat)] /\ emitted' \in [Nodes -> Seq(Nodes \X Nat)]
  BY <1>15 DEF S
<1>6. droneAddress' \in [Nodes -> Nodes \union {NoAddress}]
  <2>1. AddressAfter(n, message) \in Nodes \union {NoAddress}
    BY <1>1, <1>2 DEF AddressAfter
  <2> QED
    BY <1>1, <2>1 DEF Handles
<1>7. testStarted' \in [Nodes -> BOOLEAN]
  BY <1>1 DEF Handles
<1>8. count' \in [Nodes -> Nat]
  BY <1>1, BleshAssumption DEF Handles
<1>9. frames' \in [Nodes -> [Nodes -> Nat]]
  <2>1. \/ frames' = frames
        \/ frames' = [frames EXCEPT ![n][From(message)] = @ + 1]
    BY DEF Handles
  <2>2. CASE frames' = frames
    BY <1>1, <2>2
  <2>3. CASE frames' = [frames EXCEPT ![n][From(message)] = @ + 1]
    <3>1. frames[n] \in [Nodes -> Nat]
      BY <1>1
    <3>3. \A g \in [Nodes -> Nat], x \in Nodes :
             [g EXCEPT ![x] = g[x] + 1] \in [Nodes -> Nat]
      OBVIOUS
    <3>2. [frames[n] EXCEPT ![From(message)] = @ + 1] \in [Nodes -> Nat]
      BY <1>2, <3>1, <3>3, Zenon
    <3> QED
      BY <1>1, <2>3, <3>2
  <2> QED
    BY <2>1, <2>2, <2>3
<1>10. MeshType'
  BY <1>5, <1>6, <1>7, <1>8, <1>9 DEF MeshType, Handles
<1>11. Growing /\ Places' = Places
  BY <1>4, NothingSent
<1>12. ASSUME NEW m \in Nodes
       PROVE  /\ ToSet(heard'[m]) \subseteq Places
              /\ ToSet(emitted'[m]) \subseteq ToSet(heard'[m])
  <2>1. /\ ToSet(heard[m]) \subseteq Places /\ ToSet(emitted[m]) \subseteq ToSet(heard[m])
    BY DEF Genuine
  <2>2. CASE m # n
    <3>1. heard'[m] = heard[m] /\ emitted'[m] = emitted[m]
      BY <1>1, <1>4, <2>2
    <3> QED
      BY <2>1, <3>1
  <2>3. CASE m = n
    <3>1. heard[n] \in Seq(S) /\ emitted[n] \in Seq(S)
      BY <1>14
    <3>2. /\ ToSet(Append(heard[n], message)) = ToSet(heard[n]) \union {message}
          /\ ToSet(Append(emitted[n], message)) = ToSet(emitted[n]) \union {message}
      BY <1>14, <3>1, ToSetAppend
    <3>3. /\ heard'[n] = Append(heard[n], message)
          /\ emitted'[n] = emitted[n] \/ emitted'[n] = Append(emitted[n], message)
      BY <1>1, <1>4
    <3> QED
      BY <2>1, <2>3, <3>2, <3>3
  <2> QED
    BY <2>2, <2>3
<1>13. Genuine'
  <2>1. \A m \in Nodes : /\ ToSet(heard[m])' \subseteq Places'
                         /\ ToSet(emitted[m])' \subseteq ToSet(heard[m])'
    BY <1>11, <1>12
  <2>2. \A place \in Places' :
           /\ Kind(place)' = "HB:" => Adapter[From(place)] = "lib"
           /\ Kind(place)' = "heartbit:" => Adapter[From(place)] = "ros"
    BY <1>11 DEF Genuine, Growing
  <2> QED
    BY <2>1, <2>2 DEF Genuine, From
<1> QED
  BY <1>10, <1>13

\* The announcements after a message are those before, and it if it is one.
LEMMA HandlesAnnouncement ==
  ASSUME MeshType, Genuine, NEW n \in Nodes, NEW message \in Places, Handles(n, message),
         NEW k \in Nat, k = Len(heard[n])
  PROVE  /\ Len(heard'[n]) = k + 1
         /\ \A i \in 1 .. k : heard'[n][i] = heard[n][i]
         /\ Announcements(n, k + 1)' = IF FromDrone(n, message)
                                       THEN Announcements(n, k) \union {k + 1}
                                       ELSE Announcements(n, k)
         /\ FromDrone(n, message) => LastDrone(n, k + 1)' = From(message)
         /\ ~FromDrone(n, message) /\ Announcements(n, k) # {} =>
               LastDrone(n, k + 1)' = LastDrone(n, k)
<1>1. /\ heard \in [Nodes -> Seq(Nodes \X Nat)] /\ heard[n] \in Seq(Nodes \X Nat)
      /\ message \in Nodes \X Nat
  <2>1. message[1] \in Nodes /\ message[2] \in Nat /\ message = <<message[1], message[2]>>
    BY PlaceParts
  <2> QED
    BY <2>1 DEF MeshType
<1>2. heard'[n] = Append(heard[n], message) /\ sent' = sent
  BY <1>1 DEF Handles
<1>3. /\ Len(heard'[n]) = k + 1 /\ heard'[n][k + 1] = message
      /\ \A i \in 1 .. k : heard'[n][i] = heard[n][i]
  BY <1>1, <1>2
<1>4. Growing /\ ToSet(heard[n]) \subseteq Places
  BY <1>2, NothingSent DEF Genuine
<1>5. Announcements(n, k)' = Announcements(n, k)
  BY <1>3, <1>4, HeardKept
<1>6. FromDrone(n, heard[n][k + 1])' = FromDrone(n, message)
  BY <1>2, <1>3 DEF FromDrone, From, Kind
<1>7. Announcements(n, k + 1)' = IF FromDrone(n, message)
                                 THEN Announcements(n, k) \union {k + 1}
                                 ELSE Announcements(n, k)
  <2>1. Announcements(n, k + 1)' =
           Announcements(n, k)' \union {i \in {k + 1} : FromDrone(n, heard[n][i])'}
    <3>1. 1 .. k + 1 = (1 .. k) \union {k + 1}
      OBVIOUS
    <3> QED
      BY <3>1 DEF Announcements
  <2> QED
    BY <1>5, <1>6, <2>1
<1>8. Announcements(n, k) \subseteq 1 .. k
  BY DEF Announcements
<1>9. ASSUME FromDrone(n, message)
      PROVE  LastDrone(n, k + 1)' = From(message)
  <2> DEFINE T == Announcements(n, k) \union {k + 1}
  <2>1. T \subseteq 1 .. k + 1 /\ k + 1 \in T
    BY <1>8
  <2>4. Announcements(n, k + 1)' = T
    BY <1>7, <1>9
  <2> HIDE DEF T
  <2>5. k + 1 \in Nat /\ T # {}
    BY <2>1
  <2>2. Max(T) \in T /\ Max(T) >= k + 1
    BY <2>1, <2>5, MaxPlace
  <2>6. Max(T) \in 1 .. k + 1
    BY <2>1, <2>2
  <2>3. Max(T) = k + 1
    BY <2>2, <2>6
  <2> QED
    BY <1>3, <2>3, <2>4 DEF LastDrone, From
<1>10. ASSUME ~FromDrone(n, message), Announcements(n, k) # {}
       PROVE  LastDrone(n, k + 1)' = LastDrone(n, k)
  <2>1. Announcements(n, k + 1)' = Announcements(n, k)
    BY <1>7, <1>10
  <2>2. Max(Announcements(n, k)) \in 1 .. k
    BY <1>8, <1>10, MaxPlace
  <2> QED
    BY <1>3, <2>1, <2>2 DEF LastDrone, From
<1> QED
  BY <1>3, <1>7, <1>9, <1>10

\* A message handled moves the test of its node to the drone it announces, and
\* starts it if it is the first.
LEMMA HandlesTest ==
  ASSUME MeshType, MeshInv, NEW n \in Nodes, NEW message \in Places, Handles(n, message)
  PROVE  OneTest(n)'
<1> DEFINE address == AddressAfter(n, message)
           starts == ~AddressRaises(n, message) /\ StartsTest(n, address)
<1>1. /\ droneAddress \in [Nodes -> Nodes \union {NoAddress}]
      /\ testStarted \in [Nodes -> BOOLEAN] /\ count \in [Nodes -> Nat]
      /\ info \in {"text", "object"} /\ packets[n] \in Seq(Packet)
      /\ Len(heard[n]) \in Nat /\ Len(packets[n]) \in Nat
  BY DEF MeshType
<1>2. /\ droneAddress'[n] = address
      /\ testStarted'[n] = (testStarted[n] \/ starts)
      /\ count'[n] = IF starts THEN Count ELSE count[n]
      /\ info' = info /\ packets' = packets /\ sent' = sent
  BY <1>1 DEF Handles
<1>3. /\ starts => ~testStarted[n] /\ address # NoAddress
      /\ ~starts /\ ~testStarted[n] => AddressRaises(n, message) \/ address = NoAddress
  BY DEF StartsTest
<1>4. From(message) \in Nodes /\ NoAddress \notin Nodes
  BY PlaceParts, BleshAssumption DEF From
<1>5. /\ FromDrone(n, message) /\ info = "text" => address = From(message)
      /\ ~(FromDrone(n, message) /\ info = "text") => address = droneAddress[n]
  BY DEF AddressAfter
<1> HIDE DEF address, starts
<1>6. Genuine /\ OneTest(n) /\ Growing /\ ToSet(heard[n]) \subseteq Places
  BY <1>2, NothingSent DEF MeshInv, Genuine
<1>7. PICK k \in Nat : k = Len(heard[n])
  BY <1>1
<1>8. /\ Len(heard'[n]) = k + 1
      /\ \A i \in 1 .. k : heard'[n][i] = heard[n][i]
      /\ Announcements(n, k + 1)' = IF FromDrone(n, message)
                                    THEN Announcements(n, k) \union {k + 1}
                                    ELSE Announcements(n, k)
      /\ FromDrone(n, message) => LastDrone(n, k + 1)' = From(message)
      /\ ~FromDrone(n, message) /\ Announcements(n, k) # {} =>
            LastDrone(n, k + 1)' = LastDrone(n, k)
  BY <1>6, <1>7, HandlesAnnouncement
<1>9. /\ Announcements(n, Len(heard[n]))' = Announcements(n, k + 1)'
      /\ LastDrone(n, Len(heard[n]))' = LastDrone(n, k + 1)'
  BY <1>8 DEF Announcements, LastDrone
<1>10. /\ info = "text" /\ Announcements(n, k) # {} => droneAddress[n] = LastDrone(n, k)
       /\ info = "object" \/ Announcements(n, k) = {} => droneAddress[n] = NoAddress
       /\ testStarted[n] => /\ droneAddress[n] # NoAddress
                            /\ count[n] + Len(packets[n]) = Count
       /\ ~testStarted[n] => count[n] = 0 /\ Len(packets[n]) = 0
       /\ \A j \in 1 .. Len(packets[n]) : PacketRight(n, packets[n][j])
  BY <1>6, <1>7 DEF OneTest
<1>11. info' = "text" /\ Announcements(n, Len(heard[n]))' # {} =>
          droneAddress'[n] = LastDrone(n, Len(heard[n]))'
  BY <1>2, <1>5, <1>8, <1>9, <1>10
<1>12. info' = "object" \/ Announcements(n, Len(heard[n]))' = {} =>
          droneAddress'[n] = NoAddress
  <2>1. FromDrone(n, message) => Announcements(n, k + 1)' # {}
    BY <1>8
  <2> QED
    BY <1>2, <1>5, <1>8, <1>9, <1>10, <2>1
<1>13. testStarted'[n] => /\ droneAddress'[n] # NoAddress
                           /\ count'[n] + Len(packets'[n]) = Count
  <2>1. CASE testStarted[n]
    <3>1. ~starts /\ count'[n] = count[n]
      BY <1>2, <1>3, <2>1
    <3>2. address # NoAddress
      BY <1>4, <1>5, <1>10, <2>1
    <3> QED
      BY <1>2, <1>10, <2>1, <3>1, <3>2
  <2>2. CASE ~testStarted[n] /\ starts
    <3>1. count'[n] = Count /\ Len(packets'[n]) = 0 /\ Count \in Nat
      BY <1>2, <1>10, <2>2, BleshAssumption
    <3>2. address # NoAddress
      BY <1>3, <2>2
    <3> QED
      BY <1>2, <3>1, <3>2
  <2>3. CASE ~testStarted[n] /\ ~starts
    BY <1>2, <2>3
  <2> QED
    BY <2>1, <2>2, <2>3
<1>14. ~testStarted'[n] => count'[n] = 0 /\ Len(packets'[n]) = 0
  BY <1>2, <1>10
<1>15. \A j \in 1 .. Len(packets'[n]) : PacketRight(n, packets[n][j])'
  <2>1. Len(heard'[n]) \in Nat /\ Len(heard[n]) <= Len(heard'[n])
    BY <1>7, <1>8
  <2>2. \A i \in 1 .. Len(heard[n]) : heard'[n][i] = heard[n][i]
    BY <1>7, <1>8
  <2>3. \A p \in Packet : PacketRight(n, p) => PacketRight(n, p)'
    BY <1>6, <2>1, <2>2, PacketKept
  <2> SUFFICES ASSUME NEW j \in 1 .. Len(packets'[n])
               PROVE  PacketRight(n, packets[n][j])'
    OBVIOUS
  <2>4. PICK p \in Packet : p = packets[n][j] /\ p = packets'[n][j] /\ PacketRight(n, p)
    <3>1. packets'[n] = packets[n] /\ j \in 1 .. Len(packets[n])
      BY <1>2
    <3>2. packets[n][j] \in Packet
      BY <1>1, <3>1
    <3> QED
      BY <1>10, <3>1, <3>2
  <2> QED
    BY <2>3, <2>4
<1> QED
  BY <1>11, <1>12, <1>13, <1>14, <1>15 DEF OneTest

\* A message handled is counted in its sender's entry if it is emitted and a
\* heartbeat for this adapter's table, and drones' never are.
LEMMA HandlesFrames ==
  ASSUME MeshType, MeshInv, NEW n \in Nodes, NEW message \in Places, Handles(n, message),
         NEW s \in Nodes
  PROVE  FramesMatch(n, s)'
<1>1. /\ frames \in [Nodes -> [Nodes -> Nat]] /\ info \in {"text", "object"}
      /\ Adapter[n] \in {"lib", "ros", "ips"}
  BY BleshAssumption DEF MeshType
<1> DEFINE S == Nodes \X Nat
<1>2. emitted \in [Nodes -> Seq(S)] /\ message \in S /\ From(message) \in Nodes
  <2>1. message[1] \in Nodes /\ message[2] \in Nat /\ message = <<message[1], message[2]>>
    BY PlaceParts
  <2> QED
    BY <2>1 DEF MeshType, From
<1> HIDE DEF S
<1>3. /\ FramesMatch(n, s) /\ sent' = sent /\ message \notin ToSet(emitted[n])
      /\ frames' = IF AddsFrame(n, message) /\ ~AddressRaises(n, message)
                                            /\ ~FrameRaises(n, message)
                   THEN [frames EXCEPT ![n][From(message)] = @ + 1] ELSE frames
      /\ emitted' = IF Emits(n, message)
                    THEN [emitted EXCEPT ![n] = Append(@, message)] ELSE emitted
  BY FramesMatchDef DEF MeshInv, Genuine, Handles
<1> DEFINE counts == From(message) = s /\ Kind(message) = "HB:" /\ Emits(n, message)
<1>4. IsFiniteSet(ToSet(emitted[n]))
  <2>1. emitted[n] \in Seq(S)
    BY <1>2
  <2> QED
    BY <2>1, ToSetFinite
<1>5. Emitted(n, s)' = IF counts THEN Emitted(n, s) \union {message} ELSE Emitted(n, s)
  <2>1. CASE Emits(n, message)
    <3>1. emitted'[n] = Append(emitted[n], message)
      BY <1>2, <1>3, <2>1
    <3>2. ToSet(emitted'[n]) = ToSet(emitted[n]) \union {message}
      BY <1>2, <3>1, ToSetAppend
    <3>3. Emitted(n, s)' =
             {m \in ToSet(emitted[n]) \union {message} : From(m) = s /\ Kind(m) = "HB:"}
      BY <1>3, <3>2 DEF Emitted, From, Kind
    <3> QED
      BY <2>1, <3>3 DEF Emitted
  <2>2. CASE ~Emits(n, message)
    BY <1>3, <2>2 DEF Emitted, From, Kind
  <2> QED
    BY <2>1, <2>2
<1>6. message \notin Emitted(n, s) /\ IsFiniteSet(Emitted(n, s))
  <2>1. Emitted(n, s) \subseteq ToSet(emitted[n])
    BY DEF Emitted
  <2> QED
    BY <1>3, <1>4, <2>1, FS_Subset
<1>7. /\ Cardinality(Emitted(n, s)) \in Nat
      /\ Cardinality(Emitted(n, s) \union {message}) = Cardinality(Emitted(n, s)) + 1
  BY <1>6, FS_AddElement, FS_CardinalityType
<1>8. Cardinality(Emitted(n, s)') =
         Cardinality(Emitted(n, s)) + (IF counts THEN 1 ELSE 0)
  BY <1>5, <1>7
<1>9. Adapter[n] = "lib" => (counts <=> /\ AddsFrame(n, message) /\ From(message) = s
                                        /\ ~AddressRaises(n, message)
                                        /\ ~FrameRaises(n, message))
  BY DEF AddsFrame, Emits
<1>10. frames'[n][s] = IF /\ AddsFrame(n, message) /\ From(message) = s
                          /\ ~AddressRaises(n, message) /\ ~FrameRaises(n, message)
                       THEN frames[n][s] + 1 ELSE frames[n][s]
  <2>1. CASE AddsFrame(n, message) /\ ~AddressRaises(n, message) /\ ~FrameRaises(n, message)
    <3>1. frames' = [frames EXCEPT ![n][From(message)] = @ + 1]
      BY <1>3, <2>1
    <3>2. frames'[n] = [frames[n] EXCEPT ![From(message)] = @ + 1]
      BY <1>1, <3>1
    <3>3. frames[n] \in [Nodes -> Nat]
      BY <1>1
    <3> QED
      BY <1>2, <2>1, <3>2, <3>3
  <2>2. CASE ~(AddsFrame(n, message) /\ ~AddressRaises(n, message) /\ ~FrameRaises(n, message))
    BY <1>3, <2>2
  <2> QED
    BY <2>1, <2>2
<1>11. s \in Drones /\ From(message) = s /\ AddsFrame(n, message) =>
          AddressRaises(n, message) \/ FrameRaises(n, message)
  BY <1>1 DEF AddsFrame, AddressRaises, FrameRaises, FromDrone
<1>12. Adapter[n] # "lib" => ~AddsFrame(n, message)
  BY DEF AddsFrame
<1> HIDE DEF counts
<1>13. frames'[n][s] = IF Adapter[n] = "lib" THEN Cardinality(Emitted(n, s)') ELSE 0
  <2>1. CASE Adapter[n] = "lib"
    BY <1>3, <1>7, <1>8, <1>9, <1>10, <2>1 DEF FramesMatch
  <2>2. CASE Adapter[n] # "lib"
    BY <1>3, <1>10, <1>12, <2>2 DEF FramesMatch
  <2> QED
    BY <2>1, <2>2
<1>14. s \in Drones => frames'[n][s] = 0
  BY <1>3, <1>10, <1>11 DEF FramesMatch
<1> QED
  BY <1>13, <1>14 DEF FramesMatch

\* handleDataReceived keeps the invariant of its node, and disturbs no other.
LEMMA HandleKeeps ==
  ASSUME MeshType, MeshInv, NEW n \in Nodes, handleDataReceived(n)
  PROVE  MeshType' /\ MeshInv'
<1>1. PICK message \in Places : Handles(n, message)
  BY HandlesOne
<1>2. MeshType' /\ Genuine'
  BY <1>1, HandlesGenuine DEF MeshInv
<1>3. OneTest(n)' /\ \A s \in Nodes : FramesMatch(n, s)'
  BY <1>1, HandlesTest, HandlesFrames
<1>4. \A m \in Nodes \ {n} :
         /\ heard'[m] = heard[m] /\ emitted'[m] = emitted[m]
         /\ droneAddress'[m] = droneAddress[m] /\ testStarted'[m] = testStarted[m]
         /\ count'[m] = count[m] /\ frames'[m] = frames[m]
  <2>1. /\ heard \in [Nodes -> Seq(Nodes \X Nat)] /\ emitted \in [Nodes -> Seq(Nodes \X Nat)]
        /\ frames \in [Nodes -> [Nodes -> Nat]] /\ testStarted \in [Nodes -> BOOLEAN]
        /\ count \in [Nodes -> Nat] /\ droneAddress \in [Nodes -> Nodes \union {NoAddress}]
    BY DEF MeshType
  <2> QED
    BY <1>1, <2>1 DEF Handles
<1>5. /\ Growing /\ info' = info /\ packets' = packets
      /\ \A m \in Nodes : ToSet(heard[m]) \subseteq Places /\ ToSet(emitted[m]) \subseteq Places
  BY <1>1, NothingSent DEF Handles, MeshInv, Genuine
<1>6. \A m \in Nodes \ {n} : OneTest(m)'
  BY <1>4, <1>5, OneTestKept DEF MeshInv
<1>7. \A m \in Nodes \ {n} : \A s \in Nodes : FramesMatch(m, s)'
  <2>1. \A m, s \in Nodes : FramesMatch(m, s)
    BY FramesMatchDef DEF MeshInv
  <2> QED
    BY <1>4, <1>5, <2>1, FramesKept
<1>8. FramesMatchEmitted'
  <2>1. \A m, s \in Nodes : FramesMatch(m, s)'
    BY <1>3, <1>7
  <2> QED
    BY <2>1 DEF FramesMatchEmitted, FramesMatch, Emitted
<1> QED
  BY <1>2, <1>3, <1>6, <1>8 DEF MeshInv

-----------------------------------------------------------------------------
\* Nothing has been sent, heard or started at first.
LEMMA MeshStarts == Init => MeshType /\ MeshInv
<1> SUFFICES ASSUME Init
             PROVE  MeshType /\ MeshInv
  OBVIOUS
<1>1. MeshType
  BY DEF Init, MeshType
<1>2. \A n \in Nodes : ToSet(heard[n]) = {} /\ ToSet(emitted[n]) = {}
  BY ToSetEmpty DEF Init
<1>3. Places = {}
  BY DEF Init, Places
<1>4. Genuine
  BY <1>2, <1>3 DEF Genuine
<1>5. ASSUME NEW n \in Nodes
      PROVE  OneTest(n)
  <2>1. /\ Len(heard[n]) = 0 /\ Len(packets[n]) = 0 /\ count[n] = 0
        /\ droneAddress[n] = NoAddress /\ testStarted[n] = FALSE
    BY DEF Init
  <2>2. Announcements(n, Len(heard[n])) = {}
    BY <2>1 DEF Announcements
  <2> QED
    BY <2>1, <2>2 DEF OneTest
<1>6. FramesMatchEmitted
  <2>1. \A n, s \in Nodes : Emitted(n, s) = {} /\ frames[n][s] = 0
    BY <1>2 DEF Emitted, Init
  <2>2. \A n, s \in Nodes : FramesMatch(n, s)
    BY <2>1, FS_EmptySet DEF FramesMatch
  <2> QED
    BY <2>2, FramesMatchDef
<1> QED
  BY <1>1, <1>4, <1>5, <1>6 DEF MeshInv

\* Every step of the mesh keeps its invariant.
LEMMA MeshSteps == MeshType /\ MeshInv /\ [Next]_vars => MeshType' /\ MeshInv'
<1> SUFFICES ASSUME MeshType, MeshInv, [Next]_vars
             PROVE  MeshType' /\ MeshInv'
  OBVIOUS
<1>1. ASSUME NEW n \in Nodes, BleshBeat(n)
      PROVE  MeshType' /\ MeshInv'
  <2>1. RemoteHost[n] \in Nodes \union {EVERYBODY}
    BY BleshAssumption
  <2> QED
    BY <1>1, <2>1, SendingKeeps DEF BleshBeat, Kinds
<1>2. ASSUME NEW n \in Nodes, RosBeat(n) \/ IpsBeat(n) \/ sendMessage(n)
      PROVE  MeshType' /\ MeshInv'
  BY <1>2, SendingKeeps DEF RosBeat, IpsBeat, sendMessage, Kinds
<1>3. CASE UNCHANGED vars
  <2>1. /\ info' = info /\ process' = process /\ droneAddress' = droneAddress
        /\ testStarted' = testStarted /\ count' = count /\ sent' = sent
        /\ frames' = frames /\ heard' = heard /\ emitted' = emitted
        /\ packets' = packets
    BY <1>3 DEF vars
  <2>2. MeshType'
    BY <2>1 DEF MeshType
  <2>3. Growing /\ Places' = Places
    BY <2>1, NothingSent
  <2>4. Genuine'
    BY <2>1, <2>3 DEF MeshInv, Genuine, Growing, From
  <2>5. \A n \in Nodes : OneTest(n)'
    BY <2>1, <2>3, OneTestKept DEF MeshInv, Genuine
  <2>6. FramesMatchEmitted'
    BY <2>1 DEF MeshInv, FramesMatchEmitted, Kind, From
  <2> QED
    BY <2>2, <2>4, <2>5, <2>6 DEF MeshInv
<1> QED
  BY <1>1, <1>2, <1>3, TestTimerKeeps, HandleKeeps DEF Next

\* The invariant of the mesh holds however many nodes hear and miss whatever.
THEOREM MeshCorrect == Spec => [](MeshType /\ MeshInv)
<1>1. Init => MeshType /\ MeshInv
  BY MeshStarts
<1>2. MeshType /\ MeshInv /\ [Next]_vars => (MeshType /\ MeshInv)'
  BY MeshSteps
<1> QED
  BY <1>1, <1>2, PTL DEF Spec

\* A process sends one link test in its life, each packet to the drone heard
\* last before it, which has an adapter of the same kind.
THEOREM TestPacketsCorrect == Spec => []TestPackets
<1>1. MeshType /\ MeshInv => TestPackets
  <2> SUFFICES ASSUME MeshType, MeshInv, NEW n \in Nodes
               PROVE  /\ Len(packets[n]) <= Count
                      /\ \A j \in DOMAIN packets[n] :
                            LET p == packets[n][j] IN
                            /\ Announcements(n, p.after) # {}
                            /\ p.to = From(heard[n][Max(Announcements(n, p.after))])
                            /\ Adapter[p.to] = Adapter[n]
    BY DEF TestPackets
  <2>1. /\ packets[n] \in Seq(Packet) /\ Len(packets[n]) \in Nat
        /\ DOMAIN packets[n] = 1 .. Len(packets[n])
        /\ count[n] \in Nat /\ testStarted[n] \in BOOLEAN /\ Count \in Nat
    BY BleshAssumption DEF MeshType
  <2>2. OneTest(n)
    BY DEF MeshInv
  <2>3. Len(packets[n]) <= Count
    BY <2>1, <2>2 DEF OneTest
  <2> QED
    BY <2>1, <2>2, <2>3 DEF OneTest, PacketRight, LastDrone
<1> QED
  BY <1>1, MeshCorrect, PTL

\* handleDataReceived counts a heartbeat in the link table exactly if it goes on
\* to emit the message, and never a drone's, whatever messageInfo is.
THEOREM FramesMatchEmittedCorrect == Spec => []FramesMatchEmitted
<1>1. MeshInv => FramesMatchEmitted
  BY DEF MeshInv
<1> QED
  BY <1>1, MeshCorrect, PTL
=============================================================================
