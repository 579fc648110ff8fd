------------------------------ MODULE XbeeNode ------------------------------
(***************************************************************************)
(* The XBee ROS node, src/ros/adapters/xbee/scripts/uhura.py: its set-up   *)
(* and its sending services.  (Its network test is in MeshTest, the bits   *)
(* of its messages are in XbeePayload.)                                    *)
(*                                                                         *)
(* rospy runs the handler of every service call in the thread of the       *)
(* connection it came on, and the handlers share the module's globals      *)
(* without a lock.  A step below goes from one access of a shared global   *)
(* to the next.  The radio and the serial ports are external: a port may   *)
(* not be an XBee device, and a transmission may fail.                     *)
(***************************************************************************)
EXTENDS Naturals, FiniteSets, Sequences, SequencesExt

CONSTANTS
    Callers,     \* the connections to the node's services, a thread each
    NoPort,      \* None
    PortParams,  \* what the parameter ~port may be: ports, or NoPort
    SerialPorts, \* toolManager.serial_ports(), a sequence
    IdModulus,   \* 65535 in the code
    MaxCalls     \* bound: service calls in all

ASSUME PortsAssumption ==
    /\ SerialPorts \in Seq(ToSet(SerialPorts))
    /\ NoPort \notin ToSet(SerialPorts)

ASSUME NumbersAssumption ==
    /\ IdModulus \in Nat \ {0}
    /\ MaxCalls \in Nat

VARIABLES
    run_type,            \* the parameter ~RUN_TYPE
    port,                \* the port in use
    device,              \* the XBeeDevice object in use: its number, or 0 (None)
    devices,             \* all objects made: is it open, how many callbacks has it
    setupDone,
    current_message_id,
    call,                \* what each caller's thread is doing
    air,                 \* history: the ids transmitted, failed attempts included
    replies,             \* history: what the calls were answered, in order
    calls,               \* service calls made so far
    overlapped           \* history: were two calls ever served at a time?

setupVars == <<run_type, port, device, devices, setupDone>>
vars == <<setupVars, current_message_id, call, air, replies, calls, overlapped>>

-----------------------------------------------------------------------------
\* Services that put a message id and their data into a payload, and those
\* that do not: positions go out as a str, and set-up sends nothing.
\* A stray command is one that does not come from the base station.
PayloadServices == {"string", "bits", "command"}
Services == PayloadServices \union {"position", "stray", "setup"}

simulated == run_type = "simulation"

Ports == ToSet(SerialPorts) \union PortParams

\* A thread's next step in its handler, and the handler's local variables: the
\* id in its payload, temp_id, the ports left to try, and, for the properties,
\* whether its payload went out.
Idle == [at |-> "idle", service |-> "setup", id |-> 0, temp_id |-> 0,
         left |-> <<>>, sent |-> FALSE]

Steps == {"idle", "check", "send", "read", "write",
          "setup", "unset", "search", "reopen", "open", "bind", "found", "listen"}

Init ==
    /\ run_type \in {"simulation", "real"}
    /\ port \in PortParams
    /\ device = 0
    /\ devices = <<>>
    /\ setupDone = FALSE
    /\ current_message_id = 0
    /\ call = [c \in Callers |-> Idle]
    /\ air = <<>>
    /\ replies = <<>>
    /\ calls = 0
    /\ overlapped = FALSE

\* The handler of c goes on to a step of its own.
Goto(c, step) ==
    /\ call' = [call EXCEPT ![c].at = step]
    /\ UNCHANGED replies

\* The handler of c returns, or raises (answer "error").
Reply(c, answer) ==
    /\ replies' = Append(replies, [service |-> call[c].service, answer |-> answer])
    /\ call' = [call EXCEPT ![c] = Idle]

\* A call comes in; if it has data to send, its payload is made with the id
\* current then.  In a simulation bits and commands are published to the other
\* nodes, and only counted.
Call(c, service) ==
    /\ call[c].at = "idle"
    /\ calls < MaxCalls
    /\ calls' = calls + 1
    /\ call' = [call EXCEPT ![c] =
          [Idle EXCEPT !.service = service,
                       !.id = current_message_id,
                       !.at = IF service = "setup" THEN "setup"
                              ELSE IF simulated /\ service \in {"bits", "command"}
                              THEN "read" ELSE "check"]]
    /\ overlapped' = (overlapped \/ \E d \in Callers : call[d].at # "idle")
    /\ UNCHANGED <<setupVars, current_message_id, air, replies>>

-----------------------------------------------------------------------------
\* The tests before anything is sent.  sendBroadCastData wants a set-up node;
\* a position is a str, neither a bytearray nor a Message, so nothing is sent,
\* and its handler answers True all the same; a stray command is refused.
CheckSetup(c) ==
    /\ call[c].at = "check"
    /\ \/ call[c].service = "position" /\ Reply(c, "True")
       \/ call[c].service = "stray" /\ Reply(c, "False")
       \/ call[c].service \in PayloadServices /\ ~setupDone /\ Reply(c, "False")
       \/ call[c].service \in PayloadServices /\ setupDone /\ Goto(c, "send")
    /\ UNCHANGED <<setupVars, current_message_id, air, calls, overlapped>>

\* device.send_data_broadcast: the payload goes out, or one of the exceptions
\* that are caught is raised.  A device that is not open raises another one.
Transmit(c) ==
    /\ call[c].at = "send"
    /\ \/ /\ devices[device].open
          /\ \E sent \in BOOLEAN :
                call' = [call EXCEPT ![c].at = "read", ![c].sent = sent]
          /\ air' = Append(air, call[c].id)
          /\ UNCHANGED replies
       \/ ~devices[device].open /\ Reply(c, "error") /\ UNCHANGED air
    /\ UNCHANGED <<setupVars, current_message_id, calls, overlapped>>

\* Mutant: a message that did not go out leaves its id to the next one.
CountIfSent(c) == current_message_id + IF call[c].sent THEN 1 ELSE 0

\* Mutant: the id is advanced twice, by the handler and by sendBroadCastData.
CountTwice(c) == current_message_id + 2

\* temp_id = current_message_id + 1
NextId(c) == current_message_id + 1

\* generate_next_message_id, its first line.
ReadId(c) ==
    /\ call[c].at = "read"
    /\ call' = [call EXCEPT ![c].at = "write", ![c].temp_id = NextId(c)]
    /\ UNCHANGED <<setupVars, current_message_id, air, replies, calls, overlapped>>

\* Mutant: ids use all 16 bits, one value too many for the modulus.
WrapLate(id) == id % (IdModulus + 1)

Wrapped(id) == id % IdModulus

\* Its second line, after which the call is answered True.
WriteId(c) ==
    /\ call[c].at = "write"
    /\ current_message_id' = Wrapped(call[c].temp_id)
    /\ Reply(c, "True")
    /\ UNCHANGED <<setupVars, air, calls, overlapped>>

-----------------------------------------------------------------------------
\* The start of setup: nothing to do in a simulation; else the port that is
\* known is opened anew.
StartSetup(c) ==
    /\ call[c].at = "setup"
    /\ \/ simulated /\ Reply(c, "True")
       \/ ~simulated /\ port # NoPort /\ Goto(c, "reopen")
       \/ ~simulated /\ port = NoPort /\ Goto(c, "unset")
    /\ UNCHANGED <<setupVars, current_message_id, air, calls, overlapped>>

\* The port is tested once more, and the serial ports are searched if there is
\* still none: another set-up may have bound one meanwhile, and then neither is
\* done.  (A set-up that has opened the known port does not come here: a port is
\* never unbound.)
SearchPorts(c) ==
    /\ call[c].at = "unset"
    /\ \/ port # NoPort /\ Goto(c, "found")
       \/ /\ port = NoPort
          /\ call' = [call EXCEPT ![c].at = "search", ![c].left = SerialPorts]
          /\ UNCHANGED replies
    /\ UNCHANGED <<setupVars, current_message_id, air, calls, overlapped>>

\* The attempt of c failed: at a known port that ends the set-up, in a search
\* the next port is tried.
Failed(c) ==
    IF call[c].left = <<>>
    THEN Reply(c, "False")
    ELSE /\ call' = [call EXCEPT ![c].at = "search", ![c].left = Tail(@)]
         /\ UNCHANGED replies

\* Activate the port and make an XBeeDevice for it, not open yet.
MakeDevice(c) ==
    /\ call[c].at = "reopen" \/ (call[c].at = "search" /\ call[c].left # <<>>)
    /\ \/ /\ devices' = Append(devices, [open |-> FALSE, callbacks |-> 0])
          /\ device' = Len(devices) + 1
          /\ Goto(c, "open")
       \/ Failed(c) /\ UNCHANGED <<device, devices>>
    /\ UNCHANGED <<run_type, port, setupDone, current_message_id, air, calls, overlapped>>

\* device.open(), of whatever object is in use by now: an open one raises.
OpenDevice(c) ==
    /\ call[c].at = "open"
    /\ \/ /\ ~devices[device].open
          /\ devices' = [devices EXCEPT ![device].open = TRUE]
          /\ Goto(c, IF call[c].left = <<>> THEN "found" ELSE "bind")
       \/ Failed(c) /\ UNCHANGED devices
    /\ UNCHANGED <<run_type, port, device, setupDone, current_message_id, air, calls, overlapped>>

\* The search has found its port and ends.
BindPort(c) ==
    /\ call[c].at = "bind"
    /\ port' = Head(call[c].left)
    /\ Goto(c, "found")
    /\ UNCHANGED <<run_type, device, devices, setupDone, current_message_id, air, calls, overlapped>>

\* The search has come to its end.
EndSearch(c) ==
    /\ call[c].at = "search"
    /\ call[c].left = <<>>
    /\ Goto(c, "found")
    /\ UNCHANGED <<setupVars, current_message_id, air, calls, overlapped>>

\* if port is None
HasPort(c) == port # NoPort

\* "Xbee Device Not Found", or setupDone = True.
FinishSetup(c) ==
    /\ call[c].at = "found"
    /\ \/ ~HasPort(c) /\ Reply(c, "False") /\ UNCHANGED setupDone
       \/ HasPort(c) /\ setupDone' = TRUE /\ Goto(c, "listen")
    /\ UNCHANGED <<run_type, port, device, devices, current_message_id, air, calls, overlapped>>

\* Mutant: the callback is added once, to the first device there is.
FirstDevice == 1

\* The global device, as start_receiving_data finds it.
ListeningDevice == device

\* start_receiving_data: device.add_data_received_callback.
Listen(c) ==
    /\ call[c].at = "listen"
    /\ devices' = [devices EXCEPT ![ListeningDevice].callbacks = @ + 1]
    /\ Reply(c, "True")
    /\ UNCHANGED <<run_type, port, device, setupDone, current_message_id, air, calls, overlapped>>

-----------------------------------------------------------------------------
Next ==
    \E c \in Callers :
        \/ \E service \in Services : Call(c, service)
        \/ CheckSetup(c) \/ Transmit(c) \/ ReadId(c) \/ WriteId(c)
        \/ StartSetup(c) \/ SearchPorts(c) \/ MakeDevice(c) \/ OpenDevice(c)
        \/ BindPort(c) \/ EndSearch(c) \/ FinishSetup(c) \/ Listen(c)

Spec == Init /\ [][Next]_vars

-----------------------------------------------------------------------------
\* Every variable has its type.
TypeOK ==
    /\ run_type \in {"simulation", "real"}
    /\ port \in Ports
    /\ device \in 0 .. Len(devices)
    /\ devices \in Seq([open : BOOLEAN, callbacks : Nat])
    /\ setupDone \in BOOLEAN
    /\ current_message_id \in 0 .. IdModulus - 1
    /\ DOMAIN call = Callers
    /\ \A c \in Callers :
          /\ call[c].at \in Steps
          /\ call[c].service \in Services
          /\ call[c].id \in 0 .. IdModulus - 1
          /\ call[c].temp_id \in 0 .. IdModulus
          /\ ToSet(call[c].left) \subseteq ToSet(SerialPorts)
          /\ call[c].sent \in BOOLEAN
    /\ air \in Seq(0 .. IdModulus - 1)
    /\ calls \in 0 .. MaxCalls
    /\ overlapped \in BOOLEAN

\* The counter of a message may lag behind when two handlers read it before
\* either writes it, but it is never ahead of what was answered: each message
\* advances it once, and what sends nothing does not.
NeverAhead ==
    current_message_id <=
        Cardinality({i \in DOMAIN replies :
            replies[i].service \in PayloadServices /\ replies[i].answer = "True"})

\* As long as no two calls overlap, the transmissions are numbered one by one,
\* failed attempts and refused calls between them included: a receiver can tell
\* what it missed.
NumberedInOrder ==
    ~simulated /\ ~overlapped =>
        \A i \in DOMAIN air : air[i] = (i - 1) % IdModulus

\* As long as no two calls overlap, a set-up that was answered True leaves the
\* node with an open device that has the receiving callback once, whatever
\* set-ups came before it.
ReadyAfterSetup ==
    /\ ~simulated
    /\ ~overlapped
    /\ replies # <<>>
    /\ Last(replies).service = "setup"
    /\ Last(replies).answer = "True"
    /\ \A c \in Callers : call[c].at = "idle"
    => devices[device] = [open |-> TRUE, callbacks |-> 1]
=============================================================================
