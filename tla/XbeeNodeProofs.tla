--------------------------- MODULE XbeeNodeProofs ---------------------------
(***************************************************************************)
(* Proofs about the XBee ROS node (XbeeNode): its types, what a handler    *)
(* at each of its steps knows of the globals, and from it that the counter *)
(* of messages is never ahead, that messages are numbered in order and     *)
(* that a set-up leaves one callback, as long as no two calls overlap.     *)
(* At the end: what the receiver gets of the node's payloads               *)
(* (XbeePayload).                                                          *)
(***************************************************************************)
EXTENDS XbeeNode, XbeePayload, SequenceLemmas

-----------------------------------------------------------------------------
CallRec == [at : Steps, service : Services, id : 0 .. IdModulus - 1,
            temp_id : 0 .. IdModulus, left : Seq(ToSet(SerialPorts)), sent : BOOLEAN]

DeviceRec == [open : BOOLEAN, callbacks : Nat]

ReplyRec == [service : Services, answer : {"True", "False", "error"}]

\* TypeOK, with the ports left to try in order, and the replies.
NodeType ==
    /\ run_type \in {"simulation", "real"}
    /\ port \in Ports
    /\ devices \in Seq(DeviceRec)
    /\ device \in 0 .. Len(devices)
    /\ setupDone \in BOOLEAN
    /\ current_message_id \in 0 .. IdModulus - 1
    /\ call \in [Callers -> CallRec]
    /\ air \in Seq(0 .. IdModulus - 1)
    /\ replies \in Seq(ReplyRec)
    /\ calls \in 0 .. MaxCalls
    /\ overlapped \in BOOLEAN

\* A handler that is about to use the global device finds one: none is used
\* before it was made, and a port that is known only from a search was bound
\* after it had been opened.
HasDevice(c) ==
    /\ call[c].at = "send" => setupDone
    /\ call[c].at \in {"open", "bind", "listen"} => device # 0
    /\ call[c].at \in {"unset", "search", "found"} => device # 0 \/ port = NoPort
    /\ call[c].at = "bind" => call[c].left # <<>>
    /\ call[c].at \in {"setup", "unset", "reopen"} => call[c].left = <<>>

DevicesKnown ==
    /\ setupDone => device # 0
    /\ \A c \in Callers : HasDevice(c)

\* The messages answered so far.
Answered ==
    {i \in DOMAIN replies :
        replies[i].service \in PayloadServices /\ replies[i].answer = "True"}

\* NeverAhead, made inductive: what a handler has read of the counter counts
\* the answers given before, and none of those that other handlers give
\* meanwhile is taken back.
Counted(c) ==
    /\ call[c].at \in {"send", "read", "write"} => call[c].service \in PayloadServices
    /\ call[c].at = "write" => call[c].temp_id <= Cardinality(Answered) + 1

CountersBehind == NeverAhead /\ \A c \in Callers : Counted(c)

\* Until two calls overlap, at most one handler is at work.
OneAtATime ==
    ~overlapped =>
        \A c, d \in Callers : call[c].at # "idle" /\ call[d].at # "idle" => c = d

Transmitted(c) == call[c].at \in {"read", "write"}

\* NumberedInOrder, made inductive: the counter is the number of transmissions,
\* but for the one that a handler has made and not yet counted.
IdsInStep(c) ==
    /\ call[c].at \in {"check", "send"} => call[c].id = current_message_id
    /\ Transmitted(c) => (current_message_id + 1) % IdModulus = Len(air) % IdModulus
    /\ call[c].at = "write" => call[c].temp_id = current_message_id + 1

Numbered ==
    ~simulated /\ ~overlapped =>
        /\ \A i \in 1 .. Len(air) : air[i] = (i - 1) % IdModulus
        /\ (\A c \in Callers : ~Transmitted(c)) =>
              current_message_id = Len(air) % IdModulus
        /\ \A c \in Callers : IdsInStep(c)

NewDevice == [open |-> FALSE, callbacks |-> 0]
OpenedDevice == [open |-> TRUE, callbacks |-> 0]

\* ReadyAfterSetup, made inductive: where a set-up is tells what its device is.
SetsUp(c) ==
    /\ call[c].at = "check" => call[c].service # "setup"
    /\ call[c].at \in {"unset", "search"} => port = NoPort
    /\ call[c].at = "open" =>
          devices[device] = NewDevice /\ (call[c].left = <<>> \/ port = NoPort)
    /\ call[c].at \in {"bind", "listen"} => devices[device] = OpenedDevice
    /\ call[c].at = "found" => port = NoPort \/ devices[device] = OpenedDevice

SettingUp ==
    /\ ReadyAfterSetup
    /\ ~simulated /\ ~overlapped => \A c \in Callers : SetsUp(c)

\* The inductive invariant of the node.
NodeInv == DevicesKnown /\ CountersBehind /\ OneAtATime /\ Numbered /\ SettingUp


-----------------------------------------------------------------------------
\* What a step of c's handler leaves to the others.
Others(c) == \A d \in Callers \ {c} : call'[d] = call[d]

\* A handler that waits for its next call has a record of the type.
LEMMA IdleType == Idle \in CallRec
BY NumbersAssumption DEF Idle, CallRec, Steps, Services, PayloadServices

\* A handler that changes its own record leaves those of the others.
LEMMA CallChanged ==
  ASSUME NEW c \in Callers, NEW rec \in CallRec, call \in [Callers -> CallRec],
         call' = [call EXCEPT ![c] = rec]
  PROVE  call' \in [Callers -> CallRec] /\ call'[c] = rec /\ Others(c)
BY DEF Others

\* Goto moves the handler of c, and nothing else of it.
LEMMA GotoMoves ==
  ASSUME NodeType, NEW c \in Callers, NEW step \in Steps, Goto(c, step)
  PROVE  /\ call' \in [Callers -> CallRec]
         /\ call'[c].at = step
         /\ call'[c].service = call[c].service /\ call'[c].id = call[c].id
         /\ call'[c].temp_id = call[c].temp_id /\ call'[c].left = call[c].left
         /\ Others(c)
         /\ replies' = replies
<1>1. call \in [Callers -> CallRec]
  BY DEF NodeType
<1>2. call' = [call EXCEPT ![c].at = step] /\ replies' = replies
  BY DEF Goto
<1>3. call' \in [Callers -> CallRec]
  BY <1>1, <1>2 DEF CallRec
<1> QED
  BY <1>1, <1>2, <1>3 DEF CallRec, Others

\* Reply ends the handler of c and records its answer.
LEMMA ReplyEnds ==
  ASSUME NodeType, NEW c \in Callers,
         NEW answer \in {"True", "False", "error"}, Reply(c, answer)
  PROVE  /\ call' \in [Callers -> CallRec]
         /\ call'[c] = Idle
         /\ Others(c)
         /\ replies \in Seq(ReplyRec)
         /\ [service |-> call[c].service, answer |-> answer] \in ReplyRec
         /\ replies' = Append(replies, [service |-> call[c].service, answer |-> answer])
         /\ replies' \in Seq(ReplyRec)
<1>1. call \in [Callers -> CallRec] /\ replies \in Seq(ReplyRec)
  BY DEF NodeType
<1>2. /\ call' = [call EXCEPT ![c] = Idle]
      /\ replies' = Append(replies, [service |-> call[c].service, answer |-> answer])
  BY DEF Reply
<1>3. call' \in [Callers -> CallRec] /\ call'[c] = Idle /\ Others(c)
  BY <1>1, <1>2, IdleType DEF Others
<1>4. [service |-> call[c].service, answer |-> answer] \in ReplyRec
  BY <1>1 DEF CallRec, ReplyRec
<1>5. replies' \in Seq(ReplyRec)
  BY <1>1, <1>2, <1>4
<1> QED
  BY <1>1, <1>2, <1>3, <1>4, <1>5

\* An answer counts if a message was sent for it, and only then.
LEMMA AnsweredGrows ==
  ASSUME replies \in Seq(ReplyRec), NEW r \in ReplyRec, replies' = Append(replies, r)
  PROVE  /\ Cardinality(Answered) \in Nat /\ Cardinality(Answered') \in Nat
         /\ Cardinality(Answered') = IF r.service \in PayloadServices /\ r.answer = "True"
                                     THEN Cardinality(Answered) + 1
                                     ELSE Cardinality(Answered)
<1>1. /\ DOMAIN replies = 1 .. Len(replies) /\ Len(replies) \in Nat
      /\ DOMAIN replies' = 1 .. (Len(replies) + 1)
      /\ \A i \in 1 .. Len(replies) : replies'[i] = replies[i]
      /\ replies'[Len(replies) + 1] = r
  OBVIOUS
<1>2. IsFiniteSet(Answered)
  <2>1. Answered \subseteq 1 .. Len(replies) /\ IsFiniteSet(1 .. Len(replies))
    BY <1>1, FS_Interval DEF Answered
  <2> QED
    BY <2>1, FS_Subset
<1>3. Len(replies) + 1 \notin Answered
  BY <1>1 DEF Answered
<1>4. Answered' = IF r.service \in PayloadServices /\ r.answer = "True"
                  THEN Answered \union {Len(replies) + 1} ELSE Answered
  BY <1>1 DEF Answered
<1>5. /\ Cardinality(Answered \union {Len(replies) + 1}) = Cardinality(Answered) + 1
      /\ Cardinality(Answered) \in Nat
  BY <1>2, <1>3, FS_AddElement, FS_CardinalityType
<1> QED
  BY <1>4, <1>5

\* The number of answers is a number.
LEMMA AnsweredNat ==
  ASSUME replies \in Seq(ReplyRec)
  PROVE  Cardinality(Answered) \in Nat
<1>1. Answered \subseteq 1 .. Len(replies) /\ IsFiniteSet(1 .. Len(replies))
  BY FS_Interval DEF Answered
<1>2. IsFiniteSet(Answered)
  BY <1>1, FS_Subset
<1> QED
  BY <1>2, FS_CardinalityType

\* A number is a multiple and a remainder in one way.
LEMMA RemainderUnique ==
  ASSUME NEW k \in Nat, NEW d \in Nat \ {0}, NEW q \in Nat, NEW r \in 0 .. d - 1,
         k = d * q + r
  PROVE  k % d = r
OBVIOUS

\* A number is its quotient's multiple and its remainder.
LEMMA RemainderDef ==
  ASSUME NEW k \in Nat, NEW d \in Nat \ {0}
  PROVE  /\ k \div d \in Nat /\ k % d \in 0 .. d - 1
         /\ k = d * (k \div d) + (k % d)
OBVIOUS

\* A remainder is not greater than the number.
LEMMA RemainderBelow ==
  ASSUME NEW k \in Nat, NEW d \in Nat \ {0}
  PROVE  k % d <= k
<1> DEFINE q == k \div d
           r == k % d
<1>1. q \in Nat /\ r \in 0 .. d - 1 /\ k = d * q + r
  BY RemainderDef
<1> HIDE DEF q, r
<1>2. d * q \in Nat
  BY <1>1
<1>3. r <= k
  BY <1>1, <1>2
<1> QED
  BY <1>3 DEF r

\* In a remainder, one more can be added before or after.
LEMMA NextRemainder ==
  ASSUME NEW k \in Nat, NEW d \in Nat \ {0}
  PROVE  ((k % d) + 1) % d = (k + 1) % d
<1> DEFINE q == k \div d
           r == k % d
<1>1. q \in Nat /\ r \in 0 .. d - 1 /\ k = d * q + r
  BY RemainderDef
<1> HIDE DEF q, r
<1>2. CASE r + 1 \in 0 .. d - 1
  <2>1. k + 1 = d * q + (r + 1) /\ r + 1 = d * 0 + (r + 1)
    BY <1>1
  <2>2. (k + 1) % d = r + 1
    BY <1>1, <1>2, <2>1, RemainderUnique
  <2>3. (r + 1) % d = r + 1
    BY <1>1, <1>2, <2>1, RemainderUnique
  <2> QED
    BY <2>2, <2>3 DEF r
<1>3. CASE r + 1 = d
  <2>1. d * (q + 1) = d * q + d
    BY <1>1
  <2>2. k + 1 = d * (q + 1) + 0 /\ r + 1 = d * 1 + 0 /\ q + 1 \in Nat /\ 0 \in 0 .. d - 1
    BY <1>1, <1>3, <2>1
  <2>3. (k + 1) % d = 0
    BY <1>1, <2>2, RemainderUnique
  <2>4. (r + 1) % d = 0
    BY <1>1, <2>2, RemainderUnique
  <2> QED
    BY <2>3, <2>4 DEF r
<1> QED
  BY <1>1, <1>2, <1>3


-----------------------------------------------------------------------------
\* The last answer is that of a set-up that succeeded.
SetupAnswered ==
    replies # <<>> /\ Last(replies).service = "setup" /\ Last(replies).answer = "True"

ReadyDevice == [open |-> TRUE, callbacks |-> 1]

\* A step of c's handler keeps the invariant if what is said of c and of the
\* globals is kept: the other handlers are idle if calls do not overlap, and
\* know no more than that there is a device and how many answers there were.
LEMMA StepOfOne ==
  ASSUME NodeType, NodeInv, NEW c \in Callers, call[c].at # "idle", Others(c),
         run_type' = run_type, overlapped' = overlapped,
         setupDone => setupDone', device # 0 => device' # 0,
         port' = port \/ device' # 0,
         setupDone' => device' # 0, HasDevice(c)',
         Cardinality(Answered) \in Nat, Cardinality(Answered') \in Nat,
         Cardinality(Answered) <= Cardinality(Answered'),
         current_message_id' <= Cardinality(Answered'), Counted(c)',
         ~simulated /\ ~overlapped =>
            /\ \A i \in 1 .. Len(air') : air'[i] = (i - 1) % IdModulus
            /\ ~Transmitted(c)' => current_message_id' = Len(air') % IdModulus
            /\ IdsInStep(c)'
            /\ SetsUp(c)'
            /\ call'[c].at = "idle" /\ SetupAnswered' => devices'[device'] = ReadyDevice
  PROVE  NodeInv'
<1>1. DevicesKnown'
  <2>1. \A d \in Callers \ {c} : HasDevice(d)'
    BY DEF Others, NodeInv, DevicesKnown, HasDevice
  <2> QED
    BY <2>1 DEF DevicesKnown
<1>2. CountersBehind'
  <2>1. NeverAhead'
    BY DEF NeverAhead, Answered
  <2>2. ASSUME NEW d \in Callers \ {c}
        PROVE  Counted(d)'
    <3>1. Counted(d) /\ call'[d] = call[d]
      BY DEF Others, NodeInv, CountersBehind
    <3>2. call[d].temp_id \in Int
      BY NumbersAssumption DEF NodeType, CallRec
    <3> QED
      BY <3>1, <3>2 DEF Counted
  <2> QED
    BY <2>1, <2>2 DEF CountersBehind
<1>3. OneAtATime'
  BY DEF Others, NodeInv, OneAtATime
<1>4. simulated' = simulated
  BY DEF simulated
<1>5. ASSUME ~overlapped, NEW d \in Callers \ {c}
      PROVE  call'[d].at = "idle"
  BY <1>5 DEF Others, NodeInv, OneAtATime
<1>6. Numbered'
  <2> SUFFICES ASSUME ~simulated', ~overlapped'
               PROVE  /\ \A i \in 1 .. Len(air') : air'[i] = (i - 1) % IdModulus
                      /\ (\A d \in Callers : ~Transmitted(d)') =>
                            current_message_id' = Len(air') % IdModulus
                      /\ \A d \in Callers : IdsInStep(d)'
    BY DEF Numbered
  <2>1. ~simulated /\ ~overlapped
    BY <1>4
  <2>2. \A d \in Callers \ {c} : IdsInStep(d)'
    BY <1>5, <2>1 DEF IdsInStep, Transmitted
  <2> QED
    BY <2>1, <2>2
<1>7. SettingUp'
  <2>1. ASSUME ~simulated', ~overlapped'
        PROVE  /\ \A d \in Callers : SetsUp(d)'
               /\ call'[c].at = "idle" /\ SetupAnswered' =>
                     devices'[device'] = ReadyDevice
    <3>1. ~simulated /\ ~overlapped
      BY <1>4, <2>1
    <3>2. \A d \in Callers \ {c} : SetsUp(d)'
      BY <1>5, <3>1 DEF SetsUp
    <3> QED
      BY <3>1, <3>2
  <2>2. ReadyAfterSetup'
    BY <2>1 DEF ReadyAfterSetup, SetupAnswered, ReadyDevice
  <2> QED
    BY <2>1, <2>2 DEF SettingUp
<1> QED
  BY <1>1, <1>2, <1>3, <1>6, <1>7 DEF NodeInv

\* What the invariant says of the handler that takes a step.
LEMMA KnownOfOne ==
  ASSUME NodeType, NodeInv, NEW c \in Callers
  PROVE  /\ setupDone => device # 0
         /\ HasDevice(c)
         /\ Counted(c)
         /\ current_message_id <= Cardinality(Answered)
         /\ Cardinality(Answered) \in Nat
         /\ call[c].at # "idle" /\ ~simulated /\ ~overlapped =>
               /\ \A i \in 1 .. Len(air) : air[i] = (i - 1) % IdModulus
               /\ ~Transmitted(c) => current_message_id = Len(air) % IdModulus
               /\ IdsInStep(c)
               /\ SetsUp(c)
<1>1. (setupDone => device # 0) /\ HasDevice(c) /\ Counted(c)
  BY DEF NodeInv, DevicesKnown, CountersBehind
<1>2. current_message_id <= Cardinality(Answered) /\ Cardinality(Answered) \in Nat
  <2>1. replies \in Seq(ReplyRec)
    BY DEF NodeType
  <2> QED
    BY <2>1, AnsweredNat DEF NodeInv, CountersBehind, NeverAhead, Answered
<1>3. ASSUME call[c].at # "idle", ~simulated, ~overlapped
      PROVE  /\ \A i \in 1 .. Len(air) : air[i] = (i - 1) % IdModulus
             /\ ~Transmitted(c) => current_message_id = Len(air) % IdModulus
             /\ IdsInStep(c)
             /\ SetsUp(c)
  <2>1. \A d \in Callers \ {c} : ~Transmitted(d)
    BY <1>3 DEF NodeInv, OneAtATime, Transmitted
  <2> QED
    BY <1>3, <2>1 DEF NodeInv, Numbered, SettingUp
<1> QED
  BY <1>1, <1>2, <1>3

-----------------------------------------------------------------------------
\* The steps of a handler that only looks or answers: nothing but its own
\* record and the answers change, so the types are kept.
LEMMA OnlyCallType ==
  ASSUME NodeType, call' \in [Callers -> CallRec], replies' \in Seq(ReplyRec),
         UNCHANGED <<setupVars, current_message_id, air, calls, overlapped>>
  PROVE  NodeType'
BY DEF NodeType, setupVars

\* An answer can only put the counter further behind the answers, and a
\* handler that has answered knows nothing any more.
LEMMA AnswerKeeps ==
  ASSUME NodeType, NodeInv, NEW c \in Callers, call[c].at # "idle",
         ~Transmitted(c),
         NEW answer \in {"True", "False", "error"}, Reply(c, answer),
         answer = "True" /\ call[c].service = "setup" => simulated,
         UNCHANGED <<setupVars, current_message_id, air, calls, overlapped>>
  PROVE  NodeType' /\ NodeInv'
<1> DEFINE r == [service |-> call[c].service, answer |-> answer]
<1>1. /\ call' \in [Callers -> CallRec] /\ call'[c] = Idle /\ Others(c)
      /\ replies \in Seq(ReplyRec) /\ r \in ReplyRec
      /\ replies' = Append(replies, r) /\ replies' \in Seq(ReplyRec)
  BY ReplyEnds
<1>2. r.service = call[c].service /\ r.answer = answer
  OBVIOUS
<1> HIDE DEF r
<1>3. Last(replies') = r /\ replies' # <<>>
  BY <1>1 DEF Last
<1>4. NodeType'
  BY <1>1, OnlyCallType
<1>5. call'[c].at = "idle"
  BY <1>1 DEF Idle
<1>6. /\ Cardinality(Answered) \in Nat /\ Cardinality(Answered') \in Nat
      /\ Cardinality(Answered) <= Cardinality(Answered')
  BY <1>1, <1>2, AnsweredGrows
<1>7. HasDevice(c)' /\ Counted(c)' /\ IdsInStep(c)' /\ SetsUp(c)' /\ ~Transmitted(c)'
  BY <1>5 DEF HasDevice, Counted, IdsInStep, SetsUp, Transmitted
<1>8. ~simulated => ~SetupAnswered'
  BY <1>2, <1>3 DEF SetupAnswered
<1>9. /\ run_type' = run_type /\ port' = port /\ device' = device
      /\ devices' = devices /\ setupDone' = setupDone
      /\ current_message_id' = current_message_id /\ air' = air
      /\ overlapped' = overlapped
  BY DEF setupVars
<1>10. current_message_id <= Cardinality(Answered')
  <2>1. current_message_id \in Nat /\ current_message_id <= Cardinality(Answered)
    BY KnownOfOne, NumbersAssumption DEF NodeType
  <2> QED
    BY <1>6, <2>1
<1> QED
  BY <1>1, <1>4, <1>6, <1>7, <1>8, <1>9, <1>10, KnownOfOne, StepOfOne

\* CheckSetup answers without having sent, or lets a message pass when the node
\* is set up.
LEMMA CheckSetupKeeps ==
  ASSUME NodeType, NodeInv, NEW c \in Callers, CheckSetup(c)
  PROVE  NodeType' /\ NodeInv'
<1>1. /\ call[c].at = "check"
      /\ UNCHANGED <<setupVars, current_message_id, air, calls, overlapped>>
  BY DEF CheckSetup
<1>2. CASE call[c].service = "position" /\ Reply(c, "True")
  BY <1>1, <1>2, AnswerKeeps DEF Transmitted, PayloadServices
<1>3. CASE Reply(c, "False")
  BY <1>1, <1>3, AnswerKeeps DEF Transmitted
<1>4. CASE call[c].service \in PayloadServices /\ setupDone /\ Goto(c, "send")
  <2>1. /\ call' \in [Callers -> CallRec] /\ call'[c].at = "send"
        /\ call'[c].service = call[c].service /\ call'[c].id = call[c].id
        /\ Others(c) /\ replies' = replies
    BY <1>4, GotoMoves DEF Steps
  <2>2. replies' \in Seq(ReplyRec)
    BY <2>1 DEF NodeType
  <2>3. NodeType'
    BY <1>1, <2>1, <2>2, OnlyCallType
  <2>4. Cardinality(Answered) \in Nat /\ Answered' = Answered
    BY <2>1, KnownOfOne DEF Answered
  <2>5. /\ run_type' = run_type /\ port' = port /\ device' = device
        /\ devices' = devices /\ setupDone' = setupDone
        /\ current_message_id' = current_message_id /\ air' = air
        /\ overlapped' = overlapped
    BY <1>1 DEF setupVars
  <2>6. HasDevice(c)' /\ Counted(c)' /\ SetsUp(c)' /\ ~Transmitted(c)' /\ ~Transmitted(c)
    BY <1>1, <1>4, <2>1, <2>5 DEF HasDevice, Counted, SetsUp, Transmitted
  <2>7. IdsInStep(c) => IdsInStep(c)'
    BY <1>1, <2>1, <2>5, <2>6 DEF IdsInStep
  <2> QED
    BY <1>1, <2>1, <2>3, <2>4, <2>5, <2>6, <2>7, KnownOfOne, StepOfOne
<1> QED
  BY <1>2, <1>3, <1>4 DEF CheckSetup

\* Transmit sends the payload with the id it was made with, or ends by an
\* exception that is not caught.
LEMMA TransmitKeeps ==
  ASSUME NodeType, NodeInv, NEW c \in Callers, Transmit(c)
  PROVE  NodeType' /\ NodeInv'
<1>1. /\ call[c].at = "send"
      /\ UNCHANGED <<setupVars, current_message_id, calls, overlapped>>
  BY DEF Transmit
<1>2. CASE Reply(c, "error") /\ UNCHANGED air
  BY <1>1, <1>2, AnswerKeeps DEF Transmitted
<1>3. ASSUME NEW sent \in BOOLEAN,
             call' = [call EXCEPT ![c].at = "read", ![c].sent = sent],
             air' = Append(air, call[c].id), replies' = replies
      PROVE  NodeType' /\ NodeInv'
  <2>1. /\ call \in [Callers -> CallRec] /\ air \in Seq(0 .. IdModulus - 1)
        /\ replies \in Seq(ReplyRec)
    BY DEF NodeType
  <2>2. /\ call' \in [Callers -> CallRec] /\ call'[c].at = "read"
        /\ call'[c].service = call[c].service /\ Others(c)
    <3> DEFINE rec == [call[c] EXCEPT !.at = "read", !.sent = sent]
    <3>1. rec \in CallRec /\ rec.at = "read" /\ rec.service = call[c].service
      BY <2>1 DEF CallRec, Steps
    <3>2. call' = [call EXCEPT ![c] = rec]
      BY <1>3
    <3> HIDE DEF rec
    <3> QED
      BY <2>1, <3>1, <3>2, CallChanged
  <2>3. call[c].id \in 0 .. IdModulus - 1
    BY <2>1 DEF CallRec
  <2>4. /\ air' \in Seq(0 .. IdModulus - 1) /\ Len(air') = Len(air) + 1
        /\ Len(air) \in Nat
        /\ \A i \in 1 .. Len(air) : air'[i] = air[i]
        /\ air'[Len(air) + 1] = call[c].id
    BY <1>3, <2>1, <2>3
  <2>5. /\ run_type' = run_type /\ port' = port /\ device' = device
        /\ devices' = devices /\ setupDone' = setupDone /\ calls' = calls
        /\ current_message_id' = current_message_id /\ overlapped' = overlapped
    BY <1>1 DEF setupVars
  <2>6. NodeType'
    BY <1>3, <2>2, <2>4, <2>5 DEF NodeType
  <2>7. Cardinality(Answered) \in Nat /\ Answered' = Answered
    BY <1>3, KnownOfOne DEF Answered
  <2>8. HasDevice(c)' /\ Counted(c)' /\ SetsUp(c)' /\ Transmitted(c)'
    BY <1>1, <2>2, KnownOfOne DEF HasDevice, Counted, SetsUp, Transmitted
  <2>9. ASSUME ~simulated, ~overlapped
        PROVE  /\ \A i \in 1 .. Len(air') : air'[i] = (i - 1) % IdModulus
               /\ IdsInStep(c)'
    <3>1. /\ \A i \in 1 .. Len(air) : air[i] = (i - 1) % IdModulus
          /\ current_message_id = Len(air) % IdModulus
          /\ call[c].id = current_message_id
      BY <1>1, <2>9, KnownOfOne DEF Transmitted, IdsInStep
    <3>2. (current_message_id + 1) % IdModulus = (Len(air) + 1) % IdModulus
      BY <2>4, <3>1, NextRemainder, NumbersAssumption
    <3>3. IdsInStep(c)'
      BY <2>2, <2>4, <2>5, <3>2 DEF IdsInStep
    <3>4. air'[Len(air) + 1] = ((Len(air) + 1) - 1) % IdModulus
      <4>1. (Len(air) + 1) - 1 = Len(air)
        BY <2>4
      <4> QED
        BY <2>4, <3>1, <4>1
    <3>5. ASSUME NEW i \in 1 .. Len(air')
          PROVE  air'[i] = (i - 1) % IdModulus
      <4>1. i \in 1 .. Len(air) \/ i = Len(air) + 1
        BY <2>4
      <4> QED
        BY <2>4, <3>1, <3>4, <4>1
    <3> QED
      BY <3>3, <3>5
  <2> QED
    BY <1>1, <2>2, <2>5, <2>6, <2>7, <2>8, <2>9, KnownOfOne, StepOfOne
<1> QED
  BY <1>2, <1>3 DEF Transmit

\* ReadId takes the counter, which counts no more than the answers so far.
LEMMA ReadIdKeeps ==
  ASSUME NodeType, NodeInv, NEW c \in Callers, ReadId(c)
  PROVE  NodeType' /\ NodeInv'
<1>1. /\ call[c].at = "read"
      /\ call' = [call EXCEPT ![c].at = "write", ![c].temp_id = current_message_id + 1]
      /\ UNCHANGED <<setupVars, current_message_id, air, replies, calls, overlapped>>
  BY DEF ReadId, NextId
<1>2. /\ call \in [Callers -> CallRec] /\ current_message_id \in 0 .. IdModulus - 1
      /\ replies \in Seq(ReplyRec)
  BY DEF NodeType
<1>3. current_message_id + 1 \in 0 .. IdModulus
  BY <1>2, NumbersAssumption
<1>4. /\ call' \in [Callers -> CallRec] /\ call'[c].at = "write"
      /\ call'[c].temp_id = current_message_id + 1
      /\ call'[c].service = call[c].service /\ Others(c)
  <2> DEFINE rec == [call[c] EXCEPT !.at = "write", !.temp_id = current_message_id + 1]
  <2>1. rec \in CallRec /\ rec.at = "write"
        /\ rec.temp_id = current_message_id + 1 /\ rec.service = call[c].service
    BY <1>2, <1>3 DEF CallRec, Steps
  <2>2. call' = [call EXCEPT ![c] = rec]
    BY <1>1
  <2> HIDE DEF rec
  <2> QED
    BY <1>2, <1>3, <2>1, <2>2, CallChanged
<1>5. NodeType'
  BY <1>1, <1>2, <1>4, OnlyCallType
<1>6. /\ run_type' = run_type /\ port' = port /\ device' = device
      /\ devices' = devices /\ setupDone' = setupDone
      /\ current_message_id' = current_message_id /\ air' = air
      /\ overlapped' = overlapped
  BY <1>1 DEF setupVars
<1>7. Cardinality(Answered) \in Nat /\ Answered' = Answered
  BY <1>1, KnownOfOne DEF Answered
<1>8. Counted(c)'
  BY <1>1, <1>2, <1>4, <1>7, KnownOfOne DEF Counted
<1>9. HasDevice(c)' /\ SetsUp(c)' /\ Transmitted(c)' /\ Transmitted(c)
  BY <1>1, <1>4 DEF HasDevice, SetsUp, Transmitted
<1>10. IdsInStep(c) => IdsInStep(c)'
  BY <1>4, <1>6, <1>9 DEF IdsInStep
<1> QED
  BY <1>1, <1>4, <1>5, <1>6, <1>7, <1>8, <1>9, <1>10, KnownOfOne, StepOfOne

\* WriteId puts the counter to what was read and one more, and answers.
LEMMA WriteIdKeeps ==
  ASSUME NodeType, NodeInv, NEW c \in Callers, WriteId(c)
  PROVE  NodeType' /\ NodeInv'
<1> DEFINE r == [service |-> call[c].service, answer |-> "True"]
<1>1. /\ call[c].at = "write"
      /\ current_message_id' = call[c].temp_id % IdModulus
      /\ Reply(c, "True")
      /\ UNCHANGED <<setupVars, air, calls, overlapped>>
  BY DEF WriteId, Wrapped
<1>2. /\ call' \in [Callers -> CallRec] /\ call'[c] = Idle /\ Others(c)
      /\ replies \in Seq(ReplyRec) /\ r \in ReplyRec
      /\ replies' = Append(replies, r) /\ replies' \in Seq(ReplyRec)
  BY <1>1, ReplyEnds
<1>3. r.service = call[c].service /\ r.answer = "True"
  OBVIOUS
<1> HIDE DEF r
<1>4. Last(replies') = r /\ replies' # <<>>
  BY <1>2 DEF Last
<1>5. call[c].temp_id \in Nat /\ call[c].temp_id \in 0 .. IdModulus
  BY NumbersAssumption DEF NodeType, CallRec
<1>6. /\ current_message_id' \in 0 .. IdModulus - 1
      /\ current_message_id' <= call[c].temp_id
  BY <1>1, <1>5, RemainderDef, RemainderBelow, NumbersAssumption
<1>7. NodeType'
  BY <1>1, <1>2, <1>6 DEF NodeType, setupVars
<1>8. call'[c].at = "idle"
  BY <1>2 DEF Idle
<1>9. call[c].service \in PayloadServices /\ call[c].temp_id <= Cardinality(Answered) + 1
  BY <1>1, KnownOfOne DEF Counted
<1>10. /\ Cardinality(Answered) \in Nat
       /\ Cardinality(Answered') = Cardinality(Answered) + 1
  BY <1>2, <1>3, <1>9, AnsweredGrows
<1>11. current_message_id' <= Cardinality(Answered')
  BY <1>5, <1>6, <1>9, <1>10
<1>12. HasDevice(c)' /\ Counted(c)' /\ IdsInStep(c)' /\ SetsUp(c)' /\ ~Transmitted(c)'
  BY <1>8 DEF HasDevice, Counted, IdsInStep, SetsUp, Transmitted
<1>13. ~SetupAnswered'
  BY <1>3, <1>4, <1>9 DEF SetupAnswered, PayloadServices
<1>14. /\ run_type' = run_type /\ port' = port /\ device' = device
       /\ devices' = devices /\ setupDone' = setupDone
       /\ air' = air /\ overlapped' = overlapped
  BY <1>1 DEF setupVars
<1>15. ASSUME ~simulated, ~overlapped
       PROVE  current_message_id' = Len(air) % IdModulus
  BY <1>1, <1>15, KnownOfOne DEF IdsInStep, Transmitted
<1> QED
  BY <1>1, <1>2, <1>7, <1>10, <1>11, <1>12, <1>13, <1>14, <1>15, KnownOfOne, StepOfOne

-----------------------------------------------------------------------------
\* A step of a set-up that only goes on, to a step that knows its device.
LEMMA SetupGoesOn ==
  ASSUME NodeType, NodeType', NodeInv, NEW c \in Callers, call[c].at # "idle",
         ~Transmitted(c), Others(c),
         call'[c].at \in {"unset", "search", "reopen", "open", "bind", "found",
                          "listen"},
         UNCHANGED <<run_type, current_message_id, air, replies, calls, overlapped>>,
         setupDone' = setupDone \/ (setupDone' /\ device # 0),
         device # 0 => device' # 0, port' = port \/ device' # 0,
         HasDevice(c)',
         ~simulated /\ ~overlapped => SetsUp(c)'
  PROVE  NodeInv'
<1>1. Cardinality(Answered) \in Nat /\ Answered' = Answered
  BY KnownOfOne DEF Answered
<1>2. Counted(c)' /\ IdsInStep(c)' /\ ~Transmitted(c)' /\ call'[c].at # "idle"
  BY DEF Counted, IdsInStep, Transmitted
<1>3. (setupDone => setupDone') /\ (setupDone' => device # 0)
  BY KnownOfOne
<1> QED
  BY <1>1, <1>2, <1>3, KnownOfOne, StepOfOne

\* StartSetup has nothing to do in a simulation; else it goes to the port it
\* knows, or on without one.
LEMMA StartSetupKeeps ==
  ASSUME NodeType, NodeInv, NEW c \in Callers, StartSetup(c)
  PROVE  NodeType' /\ NodeInv'
<1>1. /\ call[c].at = "setup"
      /\ UNCHANGED <<setupVars, current_message_id, air, calls, overlapped>>
  BY DEF StartSetup
<1>2. /\ run_type' = run_type /\ port' = port /\ device' = device
      /\ devices' = devices /\ setupDone' = setupDone
      /\ current_message_id' = current_message_id /\ air' = air
      /\ calls' = calls /\ overlapped' = overlapped
  BY <1>1 DEF setupVars
<1>3. CASE simulated /\ Reply(c, "True")
  BY <1>1, <1>3, AnswerKeeps, KnownOfOne DEF Transmitted, SetsUp, PayloadServices
<1>4. CASE ~simulated /\ port # NoPort /\ Goto(c, "reopen")
  <2>1. /\ call' \in [Callers -> CallRec] /\ call'[c].at = "reopen"
        /\ call'[c].left = call[c].left /\ Others(c) /\ replies' = replies
    BY <1>4, GotoMoves DEF Steps
  <2>2. replies' \in Seq(ReplyRec)
    BY <2>1 DEF NodeType
  <2>3. NodeType'
    BY <1>1, <2>1, <2>2, OnlyCallType
  <2>4. HasDevice(c)' /\ SetsUp(c)'
    BY <1>1, <2>1, KnownOfOne DEF HasDevice, SetsUp
  <2> QED
    BY <1>1, <1>2, <2>1, <2>3, <2>4, SetupGoesOn DEF Transmitted
<1>5. CASE ~simulated /\ port = NoPort /\ Goto(c, "unset")
  <2>1. /\ call' \in [Callers -> CallRec] /\ call'[c].at = "unset"
        /\ call'[c].left = call[c].left /\ Others(c) /\ replies' = replies
    BY <1>5, GotoMoves DEF Steps
  <2>2. replies' \in Seq(ReplyRec)
    BY <2>1 DEF NodeType
  <2>3. NodeType'
    BY <1>1, <2>1, <2>2, OnlyCallType
  <2>4. HasDevice(c)' /\ SetsUp(c)'
    BY <1>1, <1>2, <1>5, <2>1, KnownOfOne DEF HasDevice, SetsUp
  <2> QED
    BY <1>1, <1>2, <2>1, <2>3, <2>4, SetupGoesOn DEF Transmitted
<1> QED
  BY <1>3, <1>4, <1>5 DEF StartSetup

\* SearchPorts begins a search, unless another set-up has bound a port.
LEMMA SearchPortsKeeps ==
  ASSUME NodeType, NodeInv, NEW c \in Callers, SearchPorts(c)
  PROVE  NodeType' /\ NodeInv'
<1>1. /\ call[c].at = "unset"
      /\ UNCHANGED <<setupVars, current_message_id, air, calls, overlapped>>
  BY DEF SearchPorts
<1>2. /\ run_type' = run_type /\ port' = port /\ device' = device
      /\ devices' = devices /\ setupDone' = setupDone
      /\ current_message_id' = current_message_id /\ air' = air
      /\ calls' = calls /\ overlapped' = overlapped
  BY <1>1 DEF setupVars
<1>3. CASE port # NoPort /\ Goto(c, "found")
  <2>1. /\ call' \in [Callers -> CallRec] /\ call'[c].at = "found"
        /\ call'[c].left = call[c].left /\ Others(c) /\ replies' = replies
    BY <1>3, GotoMoves DEF Steps
  <2>2. replies' \in Seq(ReplyRec)
    BY <2>1 DEF NodeType
  <2>3. NodeType'
    BY <1>1, <2>1, <2>2, OnlyCallType
  <2>4. HasDevice(c)'
    BY <1>1, <1>2, <2>1, KnownOfOne DEF HasDevice
  <2>5. ~simulated /\ ~overlapped => SetsUp(c)'
    BY <1>1, <1>3, KnownOfOne DEF SetsUp
  <2> QED
    BY <1>1, <1>2, <2>1, <2>3, <2>4, <2>5, SetupGoesOn DEF Transmitted
<1>4. CASE /\ port = NoPort
           /\ call' = [call EXCEPT ![c].at = "search", ![c].left = SerialPorts]
           /\ UNCHANGED replies
  <2>1. call \in [Callers -> CallRec] /\ replies \in Seq(ReplyRec)
    BY DEF NodeType
  <2>2. /\ call' \in [Callers -> CallRec] /\ call'[c].at = "search"
        /\ Others(c)
    <3> DEFINE rec == [call[c] EXCEPT !.at = "search", !.left = SerialPorts]
    <3>1. rec \in CallRec /\ rec.at = "search"
      BY <2>1, PortsAssumption DEF CallRec, Steps
    <3>2. call' = [call EXCEPT ![c] = rec]
      BY <1>4
    <3> HIDE DEF rec
    <3> QED
      BY <2>1, PortsAssumption, <3>1, <3>2, CallChanged
  <2>3. NodeType'
    BY <1>1, <1>4, <2>1, <2>2, OnlyCallType
  <2>4. HasDevice(c)' /\ SetsUp(c)'
    BY <1>2, <1>4, <2>2 DEF HasDevice, SetsUp
  <2> QED
    BY <1>1, <1>2, <1>4, <2>2, <2>3, <2>4, SetupGoesOn DEF Transmitted
<1> QED
  BY <1>3, <1>4 DEF SearchPorts

\* A failed attempt ends the set-up, or the search goes on.
LEMMA FailedKeeps ==
  ASSUME NodeType, NodeInv, NEW c \in Callers, Failed(c),
         call[c].at \in {"reopen", "search", "open"},
         UNCHANGED <<setupVars, current_message_id, air, calls, overlapped>>
  PROVE  NodeType' /\ NodeInv'
<1>1. /\ run_type' = run_type /\ port' = port /\ device' = device
      /\ devices' = devices /\ setupDone' = setupDone
      /\ current_message_id' = current_message_id /\ air' = air
      /\ calls' = calls /\ overlapped' = overlapped
  BY DEF setupVars
<1>2. CASE Reply(c, "False")
  BY <1>2, AnswerKeeps DEF Transmitted
<1>3. CASE /\ call[c].left # <<>>
           /\ call' = [call EXCEPT ![c].at = "search", ![c].left = Tail(@)]
           /\ UNCHANGED replies
  <2>1. call \in [Callers -> CallRec] /\ replies \in Seq(ReplyRec)
    BY DEF NodeType
  <2>2. call[c].left \in Seq(ToSet(SerialPorts))
    BY <2>1 DEF CallRec
  <2>3. Tail(call[c].left) \in Seq(ToSet(SerialPorts))
    BY <1>3, <2>2
  <2>4. /\ call' \in [Callers -> CallRec] /\ call'[c].at = "search"
        /\ Others(c)
    <3> DEFINE rec == [call[c] EXCEPT !.at = "search", !.left = Tail(call[c].left)]
    <3>1. rec \in CallRec /\ rec.at = "search"
      BY <2>1, <2>3 DEF CallRec, Steps
    <3>2. call' = [call EXCEPT ![c] = rec]
      BY <1>3
    <3> HIDE DEF rec
    <3> QED
      BY <2>1, <2>3, <3>1, <3>2, CallChanged
  <2>5. NodeType'
    BY <1>3, <2>1, <2>4, OnlyCallType
  <2>6. HasDevice(c) => HasDevice(c)'
    BY <1>1, <1>3, <2>4 DEF HasDevice
  <2>7. SetsUp(c) => SetsUp(c)'
    <3>1. call[c].at # "reopen" \/ ~HasDevice(c)
      BY <1>3 DEF HasDevice
    <3> QED
      BY <1>1, <1>3, <2>4, <3>1, KnownOfOne DEF SetsUp
  <2> QED
    BY <1>1, <1>3, <2>4, <2>5, <2>6, <2>7, KnownOfOne, SetupGoesOn DEF Transmitted
<1> QED
  BY <1>2, <1>3 DEF Failed

\* MakeDevice puts a new object into device, which is not open.
LEMMA MakeDeviceKeeps ==
  ASSUME NodeType, NodeInv, NEW c \in Callers, MakeDevice(c)
  PROVE  NodeType' /\ NodeInv'
<1>1. /\ call[c].at = "reopen" \/ (call[c].at = "search" /\ call[c].left # <<>>)
      /\ UNCHANGED <<run_type, port, setupDone, current_message_id, air, calls, overlapped>>
  BY DEF MakeDevice
<1>2. CASE Failed(c) /\ UNCHANGED <<device, devices>>
  BY <1>1, <1>2, FailedKeeps DEF setupVars
<1>3. CASE /\ devices' = Append(devices, [open |-> FALSE, callbacks |-> 0])
           /\ device' = Len(devices) + 1
           /\ Goto(c, "open")
  <2>1. devices \in Seq(DeviceRec) /\ NewDevice \in DeviceRec
        /\ replies \in Seq(ReplyRec) /\ Len(devices) \in Nat
    BY DEF NodeType, DeviceRec, NewDevice
  <2>2. /\ devices' \in Seq(DeviceRec) /\ Len(devices') = Len(devices) + 1
        /\ devices'[device'] = NewDevice /\ device' \in 1 .. Len(devices')
    BY <1>3, <2>1 DEF NewDevice
  <2>3. /\ call' \in [Callers -> CallRec] /\ call'[c].at = "open"
        /\ call'[c].left = call[c].left /\ Others(c) /\ replies' = replies
    BY <1>3, GotoMoves DEF Steps
  <2>4. NodeType'
    BY <1>1, <2>1, <2>2, <2>3 DEF NodeType
  <2>5. HasDevice(c)'
    BY <2>2, <2>3 DEF HasDevice
  <2>6. SetsUp(c) /\ HasDevice(c) => SetsUp(c)'
    BY <1>1, <2>2, <2>3 DEF SetsUp, HasDevice
  <2> QED
    BY <1>1, <2>2, <2>3, <2>4, <2>5, <2>6, KnownOfOne, SetupGoesOn DEF Transmitted
<1> QED
  BY <1>2, <1>3 DEF MakeDevice

\* An object has one record for a value of open.
LEMMA OpenValue ==
  ASSUME NEW d \in DeviceRec, NEW b
  PROVE  [d EXCEPT !.open = b] = [open |-> b, callbacks |-> d.callbacks]
BY DEF DeviceRec

\* Opening makes an opened device of a new one.
LEMMA OpenNew ==
  /\ \A d \in DeviceRec : [d EXCEPT !.open = TRUE] \in DeviceRec
  /\ [NewDevice EXCEPT !.open = TRUE] = OpenedDevice
<1>1. ASSUME NEW d \in DeviceRec
      PROVE  [d EXCEPT !.open = TRUE] = [open |-> TRUE, callbacks |-> d.callbacks]
  BY OpenValue, Zenon
<1>2. NewDevice \in DeviceRec /\ NewDevice.callbacks = 0
  BY DEF NewDevice, DeviceRec
<1>3. [NewDevice EXCEPT !.open = TRUE] = [open |-> TRUE, callbacks |-> 0]
  BY <1>1, <1>2, Zenon
<1>4. \A d \in DeviceRec : [open |-> TRUE, callbacks |-> d.callbacks] \in DeviceRec
  BY DEF DeviceRec
<1>5. \A d \in DeviceRec : [d EXCEPT !.open = TRUE] \in DeviceRec
  BY <1>1, <1>4, Zenon
<1>6. [NewDevice EXCEPT !.open = TRUE] = OpenedDevice
  BY <1>3, Zenon DEF OpenedDevice
<1> QED
  BY <1>5, <1>6, Zenon

\* The callback makes a ready device of an opened one.
LEMMA ListenOpened == [OpenedDevice EXCEPT !.callbacks = @ + 1] = ReadyDevice
<1>1. /\ OpenedDevice \in DeviceRec /\ OpenedDevice.callbacks = 0
      /\ OpenedDevice.callbacks + 1 = 1
  BY DEF OpenedDevice, DeviceRec
<1>2. OpenedDevice.open = TRUE
  BY DEF OpenedDevice
<1>3. [OpenedDevice EXCEPT !.callbacks = @ + 1]
         = [open |-> OpenedDevice.open, callbacks |-> OpenedDevice.callbacks + 1]
  BY <1>1 DEF DeviceRec
<1>4. [OpenedDevice EXCEPT !.callbacks = @ + 1] = [open |-> TRUE, callbacks |-> 1]
  BY <1>1, <1>2, <1>3, Zenon
<1> QED
  BY <1>4, Zenon DEF ReadyDevice

\* OpenDevice opens the object that is in device by now, unless it is open.
LEMMA OpenDeviceKeeps ==
  ASSUME NodeType, NodeInv, NEW c \in Callers, OpenDevice(c)
  PROVE  NodeType' /\ NodeInv'
<1>1. /\ call[c].at = "open"
      /\ UNCHANGED <<run_type, port, device, setupDone, current_message_id, air,
                     calls, overlapped>>
  BY DEF OpenDevice
<1>2. CASE Failed(c) /\ UNCHANGED devices
  BY <1>1, <1>2, FailedKeeps DEF setupVars
<1>3. CASE /\ devices' = [devices EXCEPT ![device].open = TRUE]
           /\ Goto(c, IF call[c].left = <<>> THEN "found" ELSE "bind")
  <2>1. /\ devices \in Seq(DeviceRec) /\ Len(devices) \in Nat
        /\ device \in 0 .. Len(devices) /\ device # 0
        /\ replies \in Seq(ReplyRec)
    BY <1>1, KnownOfOne DEF NodeType, HasDevice
  <2>2. device \in 1 .. Len(devices) /\ devices[device] \in DeviceRec
    BY <2>1
  <2>3. /\ devices' \in Seq(DeviceRec) /\ Len(devices') = Len(devices)
        /\ devices'[device] = [devices[device] EXCEPT !.open = TRUE]
    <3> DEFINE opened == [devices[device] EXCEPT !.open = TRUE]
    <3>1. opened \in DeviceRec
      BY <2>2, OpenNew, Zenon
    <3>2. devices' = [devices EXCEPT ![device] = opened]
      BY <1>3
    <3> HIDE DEF opened
    <3>3. /\ devices' \in Seq(DeviceRec) /\ Len(devices') = Len(devices)
          /\ devices'[device] = opened
      BY <2>1, <2>2, <3>1, <3>2, ExceptSeq
    <3> QED
      BY <3>3, Zenon DEF opened
  <2>4. ASSUME devices[device] = NewDevice
        PROVE  devices'[device] = OpenedDevice
    BY <2>3, <2>4, OpenNew, Zenon
  <2>5. /\ call' \in [Callers -> CallRec]
        /\ call'[c].at = (IF call[c].left = <<>> THEN "found" ELSE "bind")
        /\ call'[c].left = call[c].left /\ Others(c) /\ replies' = replies
    BY <1>3, GotoMoves DEF Steps
  <2>6. NodeType'
    BY <1>1, <2>1, <2>3, <2>5 DEF NodeType
  <2>7. HasDevice(c)'
    BY <1>1, <2>1, <2>5 DEF HasDevice
  <2>8. SetsUp(c) => SetsUp(c)'
    BY <1>1, <2>4, <2>5 DEF SetsUp
  <2> QED
    BY <1>1, <2>1, <2>5, <2>6, <2>7, <2>8, KnownOfOne, SetupGoesOn DEF Transmitted
<1> QED
  BY <1>2, <1>3 DEF OpenDevice

\* BindPort makes the port known that has been opened.
LEMMA BindPortKeeps ==
  ASSUME NodeType, NodeInv, NEW c \in Callers, BindPort(c)
  PROVE  NodeType' /\ NodeInv'
<1>1. /\ call[c].at = "bind" /\ port' = Head(call[c].left) /\ Goto(c, "found")
      /\ UNCHANGED <<run_type, device, devices, setupDone, current_message_id, air,
                     calls, overlapped>>
  BY DEF BindPort
<1>2. device # 0 /\ call[c].left # <<>>
  BY <1>1, KnownOfOne DEF HasDevice
<1>3. /\ call' \in [Callers -> CallRec] /\ call'[c].at = "found"
      /\ call'[c].left = call[c].left /\ Others(c) /\ replies' = replies
  BY <1>1, GotoMoves DEF Steps
<1>4. port' \in Ports
  <2>1. call[c].left \in Seq(ToSet(SerialPorts))
    BY DEF NodeType, CallRec
  <2>2. Head(call[c].left) \in ToSet(SerialPorts)
    BY <1>2, <2>1
  <2> QED
    BY <1>1, <2>2 DEF Ports
<1>5. NodeType'
  BY <1>1, <1>3, <1>4 DEF NodeType
<1>6. HasDevice(c)'
  BY <1>1, <1>2, <1>3 DEF HasDevice
<1>7. SetsUp(c) => SetsUp(c)'
  BY <1>1, <1>3 DEF SetsUp
<1> QED
  BY <1>1, <1>2, <1>3, <1>5, <1>6, <1>7, KnownOfOne, SetupGoesOn DEF Transmitted

\* EndSearch leaves a search that has come to its end.
LEMMA EndSearchKeeps ==
  ASSUME NodeType, NodeInv, NEW c \in Callers, EndSearch(c)
  PROVE  NodeType' /\ NodeInv'
<1>1. /\ call[c].at = "search" /\ Goto(c, "found")
      /\ UNCHANGED <<setupVars, current_message_id, air, calls, overlapped>>
  BY DEF EndSearch
<1>2. /\ run_type' = run_type /\ port' = port /\ device' = device
      /\ devices' = devices /\ setupDone' = setupDone
      /\ current_message_id' = current_message_id /\ air' = air
      /\ calls' = calls /\ overlapped' = overlapped
  BY <1>1 DEF setupVars
<1>3. /\ call' \in [Callers -> CallRec] /\ call'[c].at = "found"
      /\ call'[c].left = call[c].left /\ Others(c) /\ replies' = replies
  BY <1>1, GotoMoves DEF Steps
<1>4. replies' \in Seq(ReplyRec)
  BY <1>3 DEF NodeType
<1>5. NodeType'
  BY <1>1, <1>3, <1>4, OnlyCallType
<1>6. HasDevice(c) => HasDevice(c)'
  BY <1>1, <1>2, <1>3 DEF HasDevice
<1>7. SetsUp(c) => SetsUp(c)'
  BY <1>1, <1>2, <1>3 DEF SetsUp
<1> QED
  BY <1>1, <1>2, <1>3, <1>5, <1>6, <1>7, KnownOfOne, SetupGoesOn DEF Transmitted

\* FinishSetup answers False, or takes the node for set up.
LEMMA FinishSetupKeeps ==
  ASSUME NodeType, NodeInv, NEW c \in Callers, FinishSetup(c)
  PROVE  NodeType' /\ NodeInv'
<1>1. /\ call[c].at = "found"
      /\ UNCHANGED <<run_type, port, device, devices, current_message_id, air,
                     calls, overlapped>>
  BY DEF FinishSetup
<1>2. CASE Reply(c, "False") /\ UNCHANGED setupDone
  BY <1>1, <1>2, AnswerKeeps DEF Transmitted, setupVars
<1>3. CASE port # NoPort /\ setupDone' = TRUE /\ Goto(c, "listen")
  <2>1. device # 0
    BY <1>1, <1>3, KnownOfOne DEF HasDevice
  <2>2. /\ call' \in [Callers -> CallRec] /\ call'[c].at = "listen"
        /\ call'[c].left = call[c].left /\ Others(c) /\ replies' = replies
    BY <1>3, GotoMoves DEF Steps
  <2>3. NodeType'
    BY <1>1, <1>3, <2>2 DEF NodeType
  <2>4. HasDevice(c)'
    BY <1>1, <2>1, <2>2 DEF HasDevice
  <2>5. SetsUp(c) => SetsUp(c)'
    BY <1>1, <1>3, <2>2 DEF SetsUp
  <2> QED
    BY <1>1, <1>3, <2>1, <2>2, <2>3, <2>4, <2>5, KnownOfOne, SetupGoesOn DEF Transmitted
<1> QED
  BY <1>2, <1>3 DEF FinishSetup, HasPort

\* Listen adds the callback to the device and answers True.
LEMMA ListenKeeps ==
  ASSUME NodeType, NodeInv, NEW c \in Callers, Listen(c)
  PROVE  NodeType' /\ NodeInv'
<1> DEFINE r == [service |-> call[c].service, answer |-> "True"]
<1>1. /\ call[c].at = "listen"
      /\ devices' = [devices EXCEPT ![device].callbacks = @ + 1]
      /\ Reply(c, "True")
      /\ UNCHANGED <<run_type, port, device, setupDone, current_message_id, air,
                     calls, overlapped>>
  BY DEF Listen, ListeningDevice
<1>2. /\ call' \in [Callers -> CallRec] /\ call'[c] = Idle /\ Others(c)
      /\ replies \in Seq(ReplyRec) /\ r \in ReplyRec
      /\ replies' = Append(replies, r) /\ replies' \in Seq(ReplyRec)
  BY <1>1, ReplyEnds
<1> HIDE DEF r
<1>3. /\ devices \in Seq(DeviceRec) /\ Len(devices) \in Nat
      /\ device \in 0 .. Len(devices) /\ device # 0
  BY <1>1, KnownOfOne DEF NodeType, HasDevice
<1>4. device \in 1 .. Len(devices) /\ devices[device] \in DeviceRec
  BY <1>3
<1>5. /\ devices' \in Seq(DeviceRec) /\ Len(devices') = Len(devices)
      /\ devices'[device] = [devices[device] EXCEPT !.callbacks = @ + 1]
  <2>1. [devices[device] EXCEPT !.callbacks = @ + 1] \in DeviceRec
    BY <1>4 DEF DeviceRec
  <2> QED
    BY <1>1, <1>3, <1>4, <2>1
<1>6. ASSUME devices[device] = OpenedDevice
      PROVE  devices'[device] = ReadyDevice
  BY <1>5, <1>6, ListenOpened, Zenon
<1>7. NodeType'
  BY <1>1, <1>2, <1>3, <1>5 DEF NodeType
<1>8. call'[c].at = "idle"
  BY <1>2 DEF Idle
<1>9. /\ Cardinality(Answered) \in Nat /\ Cardinality(Answered') \in Nat
      /\ Cardinality(Answered) <= Cardinality(Answered')
  BY <1>2, AnsweredGrows
<1>10. current_message_id' <= Cardinality(Answered')
  <2>1. current_message_id \in Nat /\ current_message_id <= Cardinality(Answered)
    BY KnownOfOne, NumbersAssumption DEF NodeType
  <2> QED
    BY <1>1, <1>9, <2>1
<1>11. HasDevice(c)' /\ Counted(c)' /\ IdsInStep(c)' /\ SetsUp(c)' /\ ~Transmitted(c)'
  BY <1>8 DEF HasDevice, Counted, IdsInStep, SetsUp, Transmitted
<1>12. ASSUME ~simulated, ~overlapped
       PROVE  /\ devices'[device'] = ReadyDevice
              /\ current_message_id' = Len(air') % IdModulus
              /\ \A i \in 1 .. Len(air') : air'[i] = (i - 1) % IdModulus
  BY <1>1, <1>6, <1>12, KnownOfOne DEF SetsUp, Transmitted
<1>13. /\ run_type' = run_type /\ port' = port /\ device' = device
       /\ setupDone' = setupDone /\ overlapped' = overlapped
       /\ call[c].at # "idle"
  BY <1>1
<1> QED
  BY <1>2, <1>7, <1>9, <1>10, <1>11, <1>12, <1>13, KnownOfOne, StepOfOne

-----------------------------------------------------------------------------
\* A call that comes in takes its id from the counter, and notes whether another
\* is being served.
LEMMA CallKeeps ==
  ASSUME NodeType, NodeInv, NEW c \in Callers, NEW service \in Services, Call(c, service)
  PROVE  NodeType' /\ NodeInv'
<1> DEFINE step == IF service = "setup" THEN "setup"
                   ELSE IF simulated /\ service \in {"bits", "command"}
                   THEN "read" ELSE "check"
           rec == [Idle EXCEPT !.service = service, !.id = current_message_id,
                               !.at = step]
<1>1. /\ call[c].at = "idle" /\ calls < MaxCalls /\ calls' = calls + 1
      /\ call' = [call EXCEPT ![c] = rec]
      /\ overlapped' = (overlapped \/ \E d \in Callers : call[d].at # "idle")
      /\ UNCHANGED <<setupVars, current_message_id, air, replies>>
  BY DEF Call
<1>2. /\ run_type' = run_type /\ port' = port /\ device' = device
      /\ devices' = devices /\ setupDone' = setupDone
      /\ current_message_id' = current_message_id /\ air' = air
      /\ replies' = replies
  BY <1>1 DEF setupVars
<1>3. /\ call \in [Callers -> CallRec] /\ current_message_id \in 0 .. IdModulus - 1
      /\ calls \in 0 .. MaxCalls /\ overlapped \in BOOLEAN
      /\ replies \in Seq(ReplyRec)
  BY DEF NodeType
<1>4. rec \in CallRec
  <2>1. Idle \in CallRec /\ step \in Steps
    BY IdleType DEF Steps
  <2> HIDE DEF step
  <2> QED
    BY <1>3, <2>1 DEF CallRec
<1>5. rec.at = step /\ rec.service = service /\ rec.id = current_message_id
      /\ rec.left = <<>>
  BY DEF Idle
<1>6. step \in {"setup", "read", "check"} /\ (step = "check" => service # "setup")
      /\ (step = "read" => simulated /\ service \in PayloadServices)
  BY DEF PayloadServices
<1> HIDE DEF rec, step
<1>7. call' \in [Callers -> CallRec] /\ call'[c] = rec /\ Others(c)
  BY <1>1, <1>3, <1>4 DEF Others
<1>8. NodeType'
  <2>1. calls' \in 0 .. MaxCalls /\ overlapped' \in BOOLEAN
    BY <1>1, <1>3, NumbersAssumption
  <2> QED
    BY <1>2, <1>7, <2>1 DEF NodeType
<1>9. DevicesKnown'
  <2>1. HasDevice(c)'
    BY <1>5, <1>6, <1>7 DEF HasDevice
  <2>2. \A d \in Callers \ {c} : HasDevice(d)'
    BY <1>2, <1>7 DEF Others, NodeInv, DevicesKnown, HasDevice
  <2> QED
    BY <1>2, <2>1, <2>2 DEF NodeInv, DevicesKnown
<1>10. CountersBehind'
  <2>1. Answered' = Answered
    BY <1>2 DEF Answered
  <2>2. NeverAhead'
    BY <1>2 DEF NodeInv, CountersBehind, NeverAhead
  <2>3. Counted(c)'
    BY <1>5, <1>6, <1>7 DEF Counted
  <2>4. \A d \in Callers \ {c} : Counted(d)'
    BY <1>7, <2>1 DEF Others, NodeInv, CountersBehind, Counted
  <2> QED
    BY <2>2, <2>3, <2>4 DEF CountersBehind
<1>11. ASSUME ~overlapped'
       PROVE  /\ ~overlapped
              /\ \A d \in Callers : call[d].at = "idle"
              /\ \A d \in Callers \ {c} : call'[d].at = "idle"
  BY <1>1, <1>3, <1>7, <1>11 DEF Others
<1>12. OneAtATime'
  BY <1>11 DEF OneAtATime
<1>13. simulated' = simulated
  BY <1>2 DEF simulated
<1>14. Numbered'
  <2> SUFFICES ASSUME ~simulated', ~overlapped'
               PROVE  /\ \A i \in 1 .. Len(air') : air'[i] = (i - 1) % IdModulus
                      /\ (\A d \in Callers : ~Transmitted(d)') =>
                            current_message_id' = Len(air') % IdModulus
                      /\ \A d \in Callers : IdsInStep(d)'
    BY DEF Numbered
  <2>1. \A d \in Callers : ~Transmitted(d)
    BY <1>11 DEF Transmitted
  <2>2. /\ \A i \in 1 .. Len(air) : air[i] = (i - 1) % IdModulus
        /\ current_message_id = Len(air) % IdModulus
    BY <1>11, <1>13, <2>1 DEF NodeInv, Numbered
  <2>3. IdsInStep(c)'
    BY <1>2, <1>5, <1>6, <1>7, <1>13 DEF IdsInStep, Transmitted
  <2>4. \A d \in Callers \ {c} : IdsInStep(d)'
    BY <1>11 DEF IdsInStep, Transmitted
  <2> QED
    BY <1>2, <2>2, <2>3, <2>4
<1>15. SettingUp'
  <2>1. call'[c].at # "idle"
    BY <1>5, <1>6, <1>7
  <2>2. ReadyAfterSetup'
    BY <2>1 DEF ReadyAfterSetup
  <2>3. SetsUp(c)'
    BY <1>5, <1>6, <1>7 DEF SetsUp
  <2>4. ~overlapped' => \A d \in Callers \ {c} : SetsUp(d)'
    BY <1>11 DEF SetsUp
  <2> QED
    BY <2>2, <2>3, <2>4 DEF SettingUp
<1> QED
  BY <1>8, <1>9, <1>10, <1>12, <1>14, <1>15 DEF NodeInv

-----------------------------------------------------------------------------
\* The node starts without a device, a call or an answer.
LEMMA NodeStarts == Init => NodeType /\ NodeInv
<1> SUFFICES ASSUME Init
             PROVE  NodeType /\ NodeInv
  OBVIOUS
<1>1. NodeType
  <2>1. /\ port \in Ports /\ devices \in Seq(DeviceRec) /\ device \in 0 .. Len(devices)
        /\ air \in Seq(0 .. IdModulus - 1) /\ replies \in Seq(ReplyRec)
    BY DEF Init, Ports
  <2>2. current_message_id \in 0 .. IdModulus - 1 /\ calls \in 0 .. MaxCalls
    BY NumbersAssumption DEF Init
  <2>3. call \in [Callers -> CallRec]
    BY IdleType DEF Init
  <2> QED
    BY <2>1, <2>2, <2>3 DEF Init, NodeType
<1>2. \A c \in Callers : call[c].at = "idle"
  BY DEF Init, Idle
<1>3. DevicesKnown
  BY <1>2 DEF DevicesKnown, HasDevice, Init
<1>4. CountersBehind
  <2>1. Answered = {}
    BY DEF Init, Answered
  <2>2. Cardinality(Answered) = 0
    BY <2>1, FS_EmptySet
  <2>3. NeverAhead
    BY <2>2 DEF Init, NeverAhead, Answered
  <2> QED
    BY <1>2, <2>3 DEF CountersBehind, Counted
<1>5. OneAtATime
  BY <1>2 DEF OneAtATime
<1>6. Numbered
  <2>1. air = <<>> /\ Len(air) = 0 /\ current_message_id = 0
    BY DEF Init
  <2>2. 0 % IdModulus = 0
    BY NumbersAssumption
  <2>3. \A c \in Callers : IdsInStep(c)
    BY <1>2 DEF IdsInStep, Transmitted
  <2> QED
    BY <2>1, <2>2, <2>3 DEF Numbered
<1>7. SettingUp
  BY <1>2 DEF SettingUp, ReadyAfterSetup, SetsUp, Init
<1> QED
  BY <1>1, <1>3, <1>4, <1>5, <1>6, <1>7 DEF NodeInv

\* Every step of the node keeps its invariant.
LEMMA NodeSteps == NodeType /\ NodeInv /\ [Next]_vars => NodeType' /\ NodeInv'
<1> SUFFICES ASSUME NodeType, NodeInv, [Next]_vars
             PROVE  NodeType' /\ NodeInv'
  OBVIOUS
<1>1. CASE Next
  <2>1. PICK c \in Callers :
           \/ \E service \in Services : Call(c, service)
           \/ CheckSetup(c) \/ Transmit(c) \/ ReadId(c) \/ WriteId(c)
           \/ StartSetup(c) \/ SearchPorts(c) \/ MakeDevice(c) \/ OpenDevice(c)
           \/ BindPort(c) \/ EndSearch(c) \/ FinishSetup(c) \/ Listen(c)
    BY <1>1 DEF Next
  <2>2. CASE \E service \in Services : Call(c, service)
    BY <2>2, CallKeeps
  <2>3. CASE CheckSetup(c) \/ Transmit(c) \/ ReadId(c) \/ WriteId(c)
    BY <2>3, CheckSetupKeeps, TransmitKeeps, ReadIdKeeps, WriteIdKeeps
  <2>4. CASE StartSetup(c) \/ SearchPorts(c) \/ MakeDevice(c) \/ OpenDevice(c)
    BY <2>4, StartSetupKeeps, SearchPortsKeeps, MakeDeviceKeeps, OpenDeviceKeeps
  <2>5. CASE BindPort(c) \/ EndSearch(c) \/ FinishSetup(c) \/ Listen(c)
    BY <2>5, BindPortKeeps, EndSearchKeeps, FinishSetupKeeps, ListenKeeps
  <2> QED
    BY <2>1, <2>2, <2>3, <2>4, <2>5
<1>2. CASE UNCHANGED vars
  <2>1. /\ run_type' = run_type /\ port' = port /\ device' = device
        /\ devices' = devices /\ setupDone' = setupDone
        /\ current_message_id' = current_message_id /\ air' = air /\ call' = call
        /\ replies' = replies /\ calls' = calls /\ overlapped' = overlapped
    BY <1>2 DEF vars, setupVars
  <2>2. NodeType'
    BY <2>1 DEF NodeType
  <2>3. DevicesKnown' /\ CountersBehind'
    BY <2>1 DEF NodeInv, DevicesKnown, HasDevice, CountersBehind, NeverAhead, Counted, Answered
  <2>4. OneAtATime' /\ Numbered'
    BY <2>1 DEF NodeInv, OneAtATime, Numbered, IdsInStep, Transmitted, simulated
  <2>5. SettingUp'
    BY <2>1 DEF NodeInv, SettingUp, ReadyAfterSetup, SetsUp, simulated
  <2> QED
    BY <2>2, <2>3, <2>4, <2>5 DEF NodeInv
<1> QED
  BY <1>1, <1>2

\* The node's invariant holds whatever connections call whatever services.
THEOREM NodeCorrect == Spec => [](NodeType /\ NodeInv)
<1>1. Init => NodeType /\ NodeInv
  BY NodeStarts
<1>2. NodeType /\ NodeInv /\ [Next]_vars => (NodeType /\ NodeInv)'
  BY NodeSteps
<1> QED
  BY <1>1, <1>2, PTL DEF Spec

\* The globals of uhura.py have their types: device is None or an object made,
\* and the ids stay below the modulus.
THEOREM TypeCorrect == Spec => []TypeOK
<1>1. NodeType => TypeOK
  <2> SUFFICES ASSUME NodeType
               PROVE  TypeOK
    OBVIOUS
  <2>1. call \in [Callers -> CallRec]
    BY DEF NodeType
  <2>2. ASSUME NEW c \in Callers
        PROVE  ToSet(call[c].left) \subseteq ToSet(SerialPorts)
    <3>1. call[c].left \in Seq(ToSet(SerialPorts))
      BY <2>1 DEF CallRec
    <3> QED
      BY <3>1, ToSetMember
  <2>3. \A c \in Callers :
           /\ call[c].at \in Steps /\ call[c].service \in Services
           /\ call[c].id \in 0 .. IdModulus - 1
           /\ call[c].temp_id \in 0 .. IdModulus
           /\ call[c].sent \in BOOLEAN
    BY <2>1 DEF CallRec
  <2> QED
    BY <2>1, <2>2, <2>3 DEF NodeType, TypeOK, DeviceRec
<1> QED
  BY <1>1, NodeCorrect, PTL

\* generate_next_message_id, whose two lines other handlers may come between,
\* never takes the counter ahead of the messages answered.
THEOREM NeverAheadCorrect == Spec => []NeverAhead
<1>1. NodeInv => NeverAhead
  BY DEF NodeInv, CountersBehind
<1> QED
  BY <1>1, NodeCorrect, PTL

\* Until two calls overlap, transmissions are numbered without a gap, failed
\* attempts included, for every modulus.
THEOREM NumberedInOrderCorrect == Spec => []NumberedInOrder
<1>1. NodeType /\ NodeInv => NumberedInOrder
  <2> SUFFICES ASSUME NodeType, NodeInv
               PROVE  NumberedInOrder
    OBVIOUS
  <2>1. DOMAIN air = 1 .. Len(air)
    BY DEF NodeType
  <2> QED
    BY <2>1 DEF NodeInv, Numbered, NumberedInOrder
<1> QED
  BY <1>1, NodeCorrect, PTL

\* Until two calls overlap, a set-up answered True leaves an open device with
\* one callback, however many ports were tried and set-ups made before.
THEOREM ReadyAfterSetupCorrect == Spec => []ReadyAfterSetup
<1>1. NodeInv => ReadyAfterSetup
  BY DEF NodeInv, SettingUp
<1> QED
  BY <1>1, NodeCorrect, PTL

-----------------------------------------------------------------------------
(***************************************************************************)
(* The payloads (XbeePayload): what the bits of a message become on their  *)
(* way to the receiver, for every id of 16 bits and data of any length.    *)
(***************************************************************************)
Bits == {0, 1}

\* Bits that follow others.
IsJoined(s, q, r, a, c) ==
    /\ s \in Seq(Bits) /\ Len(s) = a + c
    /\ \A i \in 1 .. a : s[i] = q[i]
    /\ \A i \in 1 .. c : s[a + i] = r[i]

\* Concatenation joins bits.
LEMMA Joined ==
  ASSUME NEW q \in Seq(Bits), NEW r \in Seq(Bits)
  PROVE  IsJoined(q \o r, q, r, Len(q), Len(r))
<1> DEFINE s == q \o r
           a == Len(q)
           c == Len(r)
<1>1. s \in Seq(Bits)
  OBVIOUS
<1>2. Len(s) = a + c /\ a \in Nat /\ c \in Nat
  OBVIOUS
<1>3. \A i \in 1 .. a + c : s[i] = IF i <= a THEN q[i] ELSE r[i - a]
  OBVIOUS
<1> HIDE DEF s, a, c
<1>4. \A i \in 1 .. a : i \in 1 .. a + c /\ i <= a
  BY <1>2
<1>5. \A i \in 1 .. c : a + i \in 1 .. a + c /\ ~(a + i <= a) /\ (a + i) - a = i
  BY <1>2
<1>6. ASSUME NEW i \in 1 .. a
      PROVE  s[i] = q[i]
  BY <1>3, <1>4, Zenon
<1>7. ASSUME NEW i \in 1 .. c
      PROVE  s[a + i] = r[i]
  <2>1. a + i \in 1 .. a + c /\ ~(a + i <= a) /\ (a + i) - a = i
    BY <1>5
  <2>2. s[a + i] = r[(a + i) - a]
    BY <1>3, <2>1, Zenon
  <2> QED
    BY <2>1, <2>2, Zenon
<1>8. IsJoined(s, q, r, a, c)
  BY <1>1, <1>2, <1>6, <1>7, Zenon DEF IsJoined
<1> QED
  BY <1>8 DEF s, a, c

\* Some bits of others, behind the first ones.
IsCut(t, s, before, n) ==
    /\ t \in Seq(Bits) /\ Len(t) = n
    /\ \A i \in 1 .. n : t[i] = s[before + i]

\* SubSeq cuts bits out.
LEMMA CutOut ==
  ASSUME NEW s \in Seq(Bits), NEW before \in Nat, NEW n \in Nat, before + n <= Len(s)
  PROVE  IsCut(SubSeq(s, before + 1, before + n), s, before, n)
<1> DEFINE t == SubSeq(s, before + 1, before + n)
           f(i) == s[before + i]
<1>1. \A i \in 1 .. n : before + i \in 1 .. Len(s)
  OBVIOUS
<1>2. \A i \in 1 .. n : f(i) \in Bits
  BY <1>1, ElementOfSeq
<1>3. t = [i \in 1 .. n |-> f(i)]
  <2>1. t = [i \in 1 .. (before + n) - (before + 1) + 1 |-> s[(before + 1) + i - 1]]
    OBVIOUS
  <2>2. (before + n) - (before + 1) + 1 = n
    OBVIOUS
  <2>3. \A i \in 1 .. n : (before + 1) + i - 1 = before + i
    OBVIOUS
  <2> HIDE DEF t
  <2>4. t = [i \in 1 .. n |-> s[(before + 1) + i - 1]]
    BY <2>1, <2>2, Zenon
  <2> QED
    BY <2>3, <2>4, Zenon
<1> HIDE DEF f, t
<1>4. t \in Seq(Bits) /\ Len(t) = n /\ \A i \in 1 .. n : t[i] = f(i)
  BY <1>2, <1>3
<1> QED
  BY <1>4, Zenon DEF IsCut, t, f

\* The values of the beginnings of a bit string.
IsValue(v, s, n) ==
    /\ v \in [0 .. n -> Nat] /\ v[0] = 0
    /\ \A i \in 1 .. n : v[i] = 2 * v[i - 1] + s[i]

\* Every bit string has them: by induction over its length.
LEMMA ValueExists ==
  ASSUME NEW s \in Seq(Bits)
  PROVE  \E v : IsValue(v, s, Len(s))
<1> DEFINE T == {n \in Nat : n <= Len(s) => \E v : IsValue(v, s, n)}
<1>1. 0 \in T
  <2> DEFINE v == [i \in 0 .. 0 |-> 0]
  <2>1. IsValue(v, s, 0)
    BY DEF IsValue
  <2> QED
    BY <2>1
<1>2. ASSUME NEW n \in Nat, n \in T
      PROVE  n + 1 \in T
  <2>1. SUFFICES ASSUME n + 1 <= Len(s)
                 PROVE  \E v : IsValue(v, s, n + 1)
    OBVIOUS
  <2>2. n <= Len(s) /\ Len(s) \in Nat
    BY <2>1
  <2>3. PICK v : IsValue(v, s, n)
    BY <1>2, <2>2
  <2> DEFINE last == 2 * v[n] + s[n + 1]
             w == [i \in 0 .. n + 1 |-> IF i = n + 1 THEN last ELSE v[i]]
  <2>4. s[n + 1] \in Nat
    BY <2>1, <2>2, ElementOfSeq DEF Bits
  <2>5. v[n] \in Nat
    BY <2>3 DEF IsValue
  <2>6. last \in Nat
    BY <2>4, <2>5
  <2> HIDE DEF last
  <2>7. w \in [0 .. n + 1 -> Nat] /\ w[0] = 0
    BY <2>3, <2>6 DEF IsValue
  <2>8. ASSUME NEW i \in 1 .. n + 1
        PROVE  w[i] = 2 * w[i - 1] + s[i]
    <3>1. CASE i = n + 1
      BY <3>1 DEF last
    <3>2. CASE i # n + 1
      <4>1. i \in 1 .. n /\ i - 1 \in 0 .. n /\ i - 1 # n + 1
        BY <3>2
      <4>2. w[i] = v[i] /\ w[i - 1] = v[i - 1]
        BY <3>2, <4>1
      <4> HIDE DEF w
      <4> QED
        BY <2>3, <4>1, <4>2 DEF IsValue
    <3> QED
      BY <3>1, <3>2
  <2> HIDE DEF w
  <2>9. IsValue(w, s, n + 1)
    BY <2>7, <2>8 DEF IsValue
  <2> QED
    BY <2>9
<1> HIDE DEF T
<1>3. Len(s) \in T /\ Len(s) \in Nat
  BY <1>1, <1>2, SetInduction
<1> QED
  BY <1>3 DEF T

\* bitstring_to_int is the last of them.
LEMMA ValueOf ==
  ASSUME NEW s \in Seq(Bits)
  PROVE  \E v : IsValue(v, s, Len(s)) /\ bitstring_to_int(s) = v[Len(s)]
<1> DEFINE n == Len(s)
           R(v) == v = [i \in 0 .. n |-> IF i = 0 THEN 0 ELSE 2 * v[i - 1] + s[i]]
           v == CHOOSE x : R(x)
<1>0. n \in Nat /\ \A i \in 1 .. n : s[i] \in Nat
  BY ElementOfSeq DEF Bits
<1>1. PICK u : IsValue(u, s, n)
  BY ValueExists
<1> HIDE DEF n
<1>2. R(u)
  <2>1. u = [i \in 0 .. n |-> u[i]]
    BY <1>1 DEF IsValue
  <2>2. \A i \in 0 .. n : u[i] = IF i = 0 THEN 0 ELSE 2 * u[i - 1] + s[i]
    BY <1>0, <1>1 DEF IsValue
  <2> QED
    BY <2>1, <2>2
<1>3. R(v)
  BY <1>2
<1>4. bitstring_to_int(s) = v[n]
  BY DEF bitstring_to_int, n
<1> HIDE DEF v
<1>5. DOMAIN v = 0 .. n /\ v = [i \in 0 .. n |-> v[i]]
  BY <1>3
<1>6. \A i \in 0 .. n : v[i] = IF i = 0 THEN 0 ELSE 2 * v[i - 1] + s[i]
  BY <1>3, Zenon
<1>7. v[0] = 0 /\ \A i \in 1 .. n : v[i] = 2 * v[i - 1] + s[i]
  BY <1>0, <1>6
<1>8. \A i \in 0 .. n : v[i] \in Nat
  <2> DEFINE T == {i \in Nat : i <= n => v[i] \in Nat}
  <2>1. 0 \in T
    BY <1>7
  <2>2. ASSUME NEW i \in Nat, i \in T
        PROVE  i + 1 \in T
    <3>1. SUFFICES ASSUME i + 1 <= n
                   PROVE  v[i + 1] \in Nat
      OBVIOUS
    <3>2. v[i] \in Nat /\ i + 1 \in 1 .. n /\ s[i + 1] \in Nat /\ (i + 1) - 1 = i
      BY <1>0, <2>2, <3>1
    <3>3. v[i + 1] = 2 * v[(i + 1) - 1] + s[i + 1]
      BY <1>7, <3>2
    <3> QED
      BY <3>2, <3>3
  <2> HIDE DEF T
  <2>3. \A i \in Nat : i \in T
    BY <2>1, <2>2, SetInduction
  <2> QED
    BY <1>0, <2>3 DEF T
<1>9. IsValue(v, s, n)
  BY <1>5, <1>7, <1>8 DEF IsValue
<1> QED
  BY <1>4, <1>9 DEF n

\* The powers of two that occur, and what halving a number does.
LEMMA Powers ==
  \A j \in 0 .. 31 : /\ 2^j \in Nat /\ 2^j > 0
                     /\ j >= 8 => 2^j >= 2^8
                     /\ j >= 16 => 2^j >= 2^16
<1> DEFINE P(j) == /\ 2^j \in Nat /\ 2^j > 0
                   /\ j >= 8 => 2^j >= 2^8
                   /\ j >= 16 => 2^j >= 2^16
<1>1. /\ P(0) /\ P(1) /\ P(2) /\ P(3) /\ P(4) /\ P(5) /\ P(6) /\ P(7)
      /\ P(8) /\ P(9) /\ P(10) /\ P(11) /\ P(12) /\ P(13) /\ P(14) /\ P(15)
  BY SMT
<1>2. /\ P(16) /\ P(17) /\ P(18) /\ P(19) /\ P(20) /\ P(21) /\ P(22) /\ P(23)
      /\ P(24) /\ P(25) /\ P(26) /\ P(27) /\ P(28) /\ P(29) /\ P(30) /\ P(31)
  BY SMT
<1> HIDE DEF P
<1>3. ASSUME NEW j \in 0 .. 15
      PROVE  P(j)
  <2>1. \/ j = 0 \/ j = 1 \/ j = 2 \/ j = 3 \/ j = 4 \/ j = 5 \/ j = 6 \/ j = 7
        \/ j = 8 \/ j = 9 \/ j = 10 \/ j = 11 \/ j = 12 \/ j = 13 \/ j = 14 \/ j = 15
    BY SMT
  <2> QED
    BY <1>1, <2>1, Zenon
<1>4. ASSUME NEW j \in 16 .. 31
      PROVE  P(j)
  <2>1. CASE j \in 16 .. 23
    <3>1. \/ j = 16 \/ j = 17 \/ j = 18 \/ j = 19 \/ j = 20 \/ j = 21 \/ j = 22 \/ j = 23
      BY <2>1, SMT
    <3>2. /\ P(16) /\ P(17) /\ P(18) /\ P(19) /\ P(20) /\ P(21) /\ P(22) /\ P(23)
      BY <1>2
    <3> QED
      BY <3>1, <3>2, Zenon
  <2>2. CASE j \in 24 .. 31
    <3>1. \/ j = 24 \/ j = 25 \/ j = 26 \/ j = 27 \/ j = 28 \/ j = 29 \/ j = 30 \/ j = 31
      BY <2>2, SMT
    <3>2. /\ P(24) /\ P(25) /\ P(26) /\ P(27) /\ P(28) /\ P(29) /\ P(30) /\ P(31)
      BY <1>2
    <3> QED
      BY <3>1, <3>2, Zenon
  <2> QED
    BY <2>1, <2>2
<1>5. \A j \in 0 .. 31 : j \in 0 .. 15 \/ j \in 16 .. 31
  OBVIOUS
<1>6. \A j \in 0 .. 31 : P(j)
  BY <1>3, <1>4, <1>5, Zenon
<1> QED
  BY <1>6, Zenon DEF P

\* Dividing a number below 2^16 by one power of two more.
LEMMA Halves ==
  ASSUME NEW k \in Nat, k < 2^16
  PROVE  /\ k \div 2^0 = k /\ k \div 2^16 = 0
         /\ \A e \in 0 .. 16 : k \div 2^e \in Nat
         /\ \A e \in 0 .. 15 : k \div 2^e = 2 * (k \div 2^(e + 1)) + ((k \div 2^e) % 2)
         /\ k % 2^0 = 0
         /\ \A e \in 0 .. 15 : k % 2^(e + 1) = 0
                               <=> k % 2^e = 0 /\ (k \div 2^e) % 2 = 0
<1> DEFINE P(e) == /\ k \div 2^e \in Nat
                   /\ k \div 2^e = 2 * (k \div 2^(e + 1)) + ((k \div 2^e) % 2)
                   /\ k % 2^(e + 1) = 0 <=> k % 2^e = 0 /\ (k \div 2^e) % 2 = 0
<1>1. P(0) /\ P(1) /\ P(2) /\ P(3)
  BY SMT
<1>2. P(4) /\ P(5) /\ P(6) /\ P(7)
  BY SMT
<1>3. P(8) /\ P(9) /\ P(10) /\ P(11)
  BY SMT
<1>4. P(12) /\ P(13) /\ P(14) /\ P(15)
  BY SMT
<1>5. k \div 2^0 = k /\ k \div 2^16 = 0 /\ k % 2^0 = 0 /\ k \div 2^16 \in Nat
  BY SMT
<1>6. ASSUME NEW e \in 0 .. 15
      PROVE  P(e)
  <2> HIDE DEF P
  <2>1. \/ e = 0 \/ e = 1 \/ e = 2 \/ e = 3 \/ e = 4 \/ e = 5 \/ e = 6 \/ e = 7
        \/ e = 8 \/ e = 9 \/ e = 10 \/ e = 11 \/ e = 12 \/ e = 13 \/ e = 14 \/ e = 15
    BY SMT
  <2> QED
    BY <1>1, <1>2, <1>3, <1>4, <2>1, Zenon
<1>7. ASSUME NEW e \in 0 .. 16
      PROVE  k \div 2^e \in Nat
  <2> DEFINE N(i) == k \div 2^i \in Nat
  <2>1. N(16)
    BY <1>5, Zenon
  <2>2. e \in 0 .. 15 => N(e)
    BY <1>6, Zenon
  <2>3. e \in 0 .. 15 \/ e = 16
    BY SMT
  <2> HIDE DEF N
  <2>4. N(e)
    BY <2>1, <2>2, <2>3, Zenon
  <2> QED
    BY <2>4 DEF N
<1> QED
  BY <1>5, <1>6, <1>7, Zenon

\* How many bits a number has, and that a byte has at most 8 and an id 16.
LEMMA BitLengths ==
  ASSUME NEW k \in 0 .. MaxNumber
  PROVE  /\ BitLength(k) \in 1 .. 31
         /\ k < 2^8 => BitLength(k) <= 8
         /\ k < 2^16 => BitLength(k) <= 16
<1> DEFINE F(j) == k < 2^j /\ (j > 1 => k >= 2^(j - 1))
           E == {j \in Nat : j \in 1 .. 31 /\ k < 2^j}
<1>1. 30 \in E
  <2> DEFINE p == 2^30
  <2>1. p \in Nat
    BY Powers
  <2>2. k \in 0 .. p - 1
    BY DEF MaxNumber
  <2> HIDE DEF p
  <2>3. k < p
    BY <2>1, <2>2
  <2> QED
    BY <2>3 DEF p
<1>2. PICK l \in E : \A j \in E : l <= j
  BY <1>1, LeastNatural
<1>3. l \in 1 .. 31 /\ F(l)
  <2>1. l \in 1 .. 31 /\ k < 2^l
    OBVIOUS
  <2>2. ASSUME l > 1
        PROVE  k >= 2^(l - 1)
    <3>1. l - 1 \in 0 .. 31 /\ l - 1 \in 1 .. 31 /\ l - 1 \in Nat /\ ~(l <= l - 1)
      BY <2>1, <2>2
    <3>2. l - 1 \notin E
      BY <1>2, <3>1
    <3> DEFINE p == 2^(l - 1)
    <3>3. p \in Nat /\ ~(k < p)
      BY <3>1, <3>2, Powers
    <3> HIDE DEF p
    <3>4. k >= p /\ k \in Nat
      BY <3>3
    <3> QED
      BY <3>4 DEF p
  <2> QED
    BY <2>1, <2>2
<1> DEFINE b == BitLength(k)
<1>4. b \in 1 .. 31 /\ F(b)
  BY <1>3, Zenon DEF BitLength
<1> HIDE DEF b
<1>5. ASSUME b > 1
      PROVE  /\ k >= 2^(b - 1) /\ 2^(b - 1) \in Nat
             /\ b > 8 => 2^(b - 1) >= 2^8
             /\ b > 16 => 2^(b - 1) >= 2^16
  <2>1. b - 1 \in 0 .. 31 /\ (b > 8 => b - 1 >= 8) /\ (b > 16 => b - 1 >= 16)
    BY <1>4
  <2>2. /\ 2^(b - 1) \in Nat
        /\ b - 1 >= 8 => 2^(b - 1) >= 2^8
        /\ b - 1 >= 16 => 2^(b - 1) >= 2^16
    BY <2>1, Powers
  <2> QED
    BY <1>4, <1>5, <2>1, <2>2, Zenon
<1>6. (k < 2^8 => b <= 8) /\ (k < 2^16 => b <= 16)
  <2> DEFINE p == 2^(b - 1)
  <2>1. b > 1 => k >= p /\ p \in Nat /\ (b > 8 => p >= 2^8) /\ (b > 16 => p >= 2^16)
    BY <1>5
  <2> HIDE DEF p
  <2> QED
    BY <1>4, <2>1
<1> QED
  BY <1>4, <1>6 DEF b

\* int_to_bit returns bits, at least max_bit of them; those of a number that fits
\* are the remainders of its halves.
LEMMA BitsOf ==
  ASSUME NEW k \in 0 .. MaxNumber, NEW m \in {8, 16}
  PROVE  /\ int_to_bit(k, m) \in Seq(Bits)
         /\ Len(int_to_bit(k, m)) >= m
         /\ k < 2^m => /\ Len(int_to_bit(k, m)) = m
                       /\ \A i \in 1 .. m : int_to_bit(k, m)[i] = (k \div 2^(m - i)) % 2
<1> DEFINE w == Width(k, m)
<1>0. k \in Nat
  BY DEF MaxNumber
<1>1. w \in 1 .. 31 /\ w >= m /\ (k < 2^m => w = m)
  <2> DEFINE b == BitLength(k)
             fits == k < 2^m
  <2>1. b \in 1 .. 31 /\ (k < 2^8 => b <= 8) /\ (k < 2^16 => b <= 16)
    BY BitLengths
  <2>2. fits => b <= m
    <3>1. m = 8 \/ m = 16
      OBVIOUS
    <3> HIDE DEF b
    <3> QED
      BY <2>1, <3>1, Zenon
  <2>3. w = IF b < m THEN m ELSE b
    BY DEF Width
  <2> HIDE DEF b, w, fits
  <2>4. w \in 1 .. 31 /\ w >= m /\ (fits => w = m)
    BY <2>1, <2>2, <2>3
  <2> QED
    BY <2>4 DEF fits
<1> DEFINE f(i) == (k \div 2^(w - i)) % 2
<1>2. int_to_bit(k, m) = [i \in 1 .. w |-> f(i)]
  BY Zenon DEF int_to_bit
<1> HIDE DEF w
<1>3. ASSUME NEW i \in 1 .. w
      PROVE  f(i) \in Bits
  <2> DEFINE p == 2^(w - i)
  <2>1. w - i \in 0 .. 31
    BY <1>1
  <2>2. p \in Nat /\ p > 0
    BY <2>1, Powers, Zenon
  <2> HIDE DEF p
  <2> DEFINE q == k \div p
  <2>3. q \in Int
    BY <1>0, <2>2
  <2> HIDE DEF q
  <2>4. q % 2 \in Bits
    BY <2>3 DEF Bits
  <2> QED
    BY <2>4 DEF q, p
<1>4. k < 2^m => \A i \in 1 .. m : f(i) = (k \div 2^(m - i)) % 2
  BY <1>1, Zenon
<1> HIDE DEF f
<1> DEFINE s == [i \in 1 .. w |-> f(i)]
<1>5. s \in Seq(Bits) /\ Len(s) = w /\ \A i \in 1 .. w : s[i] = f(i)
  BY <1>1, <1>3
<1> HIDE DEF s
<1>6. int_to_bit(k, m) = s
  BY <1>2 DEF s
<1>7. ASSUME k < 2^m
      PROVE  Len(s) = m /\ \A i \in 1 .. m : s[i] = (k \div 2^(m - i)) % 2
  BY <1>1, <1>4, <1>5, <1>7, Zenon
<1> QED
  BY <1>1, <1>5, <1>6, <1>7, Zenon

\* Eight bits are the bits of the byte they make.
LEMMA ByteOfBits ==
  ASSUME NEW s \in Seq(Bits), Len(s) = 8
  PROVE  /\ bitstring_to_int(s) \in 0 .. 255
         /\ \A i \in 1 .. 8 : int_to_bit(bitstring_to_int(s), 8)[i] = s[i]
<1> DEFINE n == bitstring_to_int(s)
<1>1. PICK v : IsValue(v, s, 8) /\ n = v[8]
  BY ValueOf
<1> HIDE DEF n
<1>2. \A i \in 1 .. 8 : s[i] \in Bits
  BY ElementOfSeq
<1>3. s[1] \in Bits /\ s[2] \in Bits /\ s[3] \in Bits /\ s[4] \in Bits
      /\ s[5] \in Bits /\ s[6] \in Bits /\ s[7] \in Bits /\ s[8] \in Bits
  BY <1>2
<1> DEFINE a == s[1]
           b == s[2]
           c == s[3]
           d == s[4]
           e == s[5]
           f == s[6]
           g == s[7]
           h == s[8]
<1>4. n = 128 * a + 64 * b + 32 * c + 16 * d + 8 * e + 4 * f + 2 * g + h
  <2>1. /\ v[0] = 0
        /\ v[1] = 2 * v[0] + a /\ v[2] = 2 * v[1] + b /\ v[3] = 2 * v[2] + c
        /\ v[4] = 2 * v[3] + d /\ v[5] = 2 * v[4] + e /\ v[6] = 2 * v[5] + f
        /\ v[7] = 2 * v[6] + g /\ v[8] = 2 * v[7] + h
    BY <1>1 DEF IsValue
  <2>2. /\ a \in Int /\ b \in Int /\ c \in Int /\ d \in Int
        /\ e \in Int /\ f \in Int /\ g \in Int /\ h \in Int
    BY <1>3 DEF Bits
  <2> HIDE DEF a, b, c, d, e, f, g, h
  <2> QED
    BY <1>1, <2>1, <2>2
<1>5. n \in 0 .. 255
      /\ (n \div 2^7) % 2 = a /\ (n \div 2^6) % 2 = b /\ (n \div 2^5) % 2 = c
      /\ (n \div 2^4) % 2 = d /\ (n \div 2^3) % 2 = e /\ (n \div 2^2) % 2 = f
      /\ (n \div 2^1) % 2 = g /\ (n \div 2^0) % 2 = h
  <2>1. /\ a \in 0 .. 1 /\ b \in 0 .. 1 /\ c \in 0 .. 1 /\ d \in 0 .. 1
        /\ e \in 0 .. 1 /\ f \in 0 .. 1 /\ g \in 0 .. 1 /\ h \in 0 .. 1
    BY <1>3 DEF Bits
  <2> HIDE DEF a, b, c, d, e, f, g, h
  <2>2. n \in 0 .. 255
    BY <1>4, <2>1
  <2>3. (n \div 2^7) % 2 = a /\ (n \div 2^6) % 2 = b
    BY <1>4, <2>1
  <2>4. (n \div 2^5) % 2 = c /\ (n \div 2^4) % 2 = d
    BY <1>4, <2>1
  <2>5. (n \div 2^3) % 2 = e /\ (n \div 2^2) % 2 = f
    BY <1>4, <2>1
  <2>6. (n \div 2^1) % 2 = g /\ (n \div 2^0) % 2 = h
    BY <1>4, <2>1
  <2> QED
    BY <2>2, <2>3, <2>4, <2>5, <2>6, Zenon
<1>6. n \in 0 .. MaxNumber /\ n < 2^8
  BY <1>5, SMT DEF MaxNumber
<1>7. \A i \in 1 .. 8 : int_to_bit(n, 8)[i] = (n \div 2^(8 - i)) % 2
  BY <1>6, BitsOf
<1>8. ASSUME NEW i \in 1 .. 8
      PROVE  (n \div 2^(8 - i)) % 2 = s[i]
  <2> DEFINE P(j) == (n \div 2^(8 - j)) % 2 = s[j]
  <2>1. P(1) /\ P(2) /\ P(3) /\ P(4) /\ P(5) /\ P(6) /\ P(7) /\ P(8)
    BY <1>5
  <2> HIDE DEF P
  <2>2. i = 1 \/ i = 2 \/ i = 3 \/ i = 4 \/ i = 5 \/ i = 6 \/ i = 7 \/ i = 8
    BY SMT
  <2>3. P(i)
    BY <2>1, <2>2, Zenon
  <2> QED
    BY <2>3 DEF P
<1> QED
  BY <1>5, <1>7, <1>8 DEF n

\* An id with zeros in front and as many bits cut off at its end is divided by two
\* as often.
LEMMA ShiftedId ==
  ASSUME NEW k \in Nat, k < 2^16, NEW z \in 0 .. 7, NEW s \in Seq(Bits), Len(s) = 16,
         \A i \in 1 .. z : s[i] = 0,
         \A i \in z + 1 .. 16 : s[i] = (k \div 2^(16 + z - i)) % 2
  PROVE  bitstring_to_int(s) = k \div 2^z
<1>1. PICK v : IsValue(v, s, 16) /\ bitstring_to_int(s) = v[16]
  BY ValueOf
<1> DEFINE q(e) == k \div 2^e
<1>2. /\ q(16) = 0
      /\ \A e \in 0 .. 16 : q(e) \in Nat
      /\ \A e \in 0 .. 15 : q(e) = 2 * q(e + 1) + (q(e) % 2)
  BY Halves, Zenon
<1>3. \A i \in z + 1 .. 16 : s[i] = q(16 + z - i) % 2
  BY Zenon
<1> HIDE DEF q
<1> DEFINE T == {i \in Nat : i <= 16 => v[i] = IF i <= z THEN 0 ELSE q(16 + z - i)}
<1>4. 0 \in T
  BY <1>1 DEF IsValue
<1>5. ASSUME NEW i \in Nat, i \in T
      PROVE  i + 1 \in T
  <2>1. SUFFICES ASSUME i + 1 <= 16
                 PROVE  v[i + 1] = IF i + 1 <= z THEN 0 ELSE q(16 + z - (i + 1))
    OBVIOUS
  <2>2. v[i] = IF i <= z THEN 0 ELSE q(16 + z - i)
    BY <1>5, <2>1
  <2>3. i + 1 \in 1 .. 16 /\ (i + 1) - 1 = i
    BY <2>1
  <2>4. v[i + 1] = 2 * v[i] + s[i + 1]
    BY <1>1, <2>3 DEF IsValue
  <2>5. CASE i + 1 <= z
    <3>1. i <= z /\ s[i + 1] = 0
      BY <2>3, <2>5
    <3> QED
      BY <2>2, <2>4, <2>5, <3>1
  <2>6. CASE i = z
    <3>1. 16 + z - i = 16 /\ 16 + z - (i + 1) = 15 /\ i <= z /\ ~(i + 1 <= z)
          /\ i + 1 \in z + 1 .. 16
      BY <2>1, <2>6
    <3>2. s[i + 1] = q(15) % 2
      BY <1>3, <3>1, Zenon
    <3>3. q(15) = 2 * q(16) + (q(15) % 2) /\ q(15) \in Nat
      BY <1>2, <3>1
    <3> DEFINE a == q(15)
    <3>4. v[i + 1] = a
      <4> HIDE DEF a
      <4>1. v[i] = 0 /\ a = 2 * 0 + (a % 2) /\ s[i + 1] = a % 2
        BY <1>2, <2>2, <3>1, <3>2, <3>3 DEF a
      <4> QED
        BY <2>4, <4>1
    <3> QED
      BY <3>1, <3>4
  <2>7. CASE i > z
    <3> DEFINE e == 16 + z - (i + 1)
    <3>1. e \in 0 .. 15 /\ e + 1 = 16 + z - i /\ ~(i <= z) /\ ~(i + 1 <= z)
          /\ i + 1 \in z + 1 .. 16
      BY <2>1, <2>7
    <3>2. s[i + 1] = q(e) % 2
      BY <1>3, <3>1, Zenon
    <3> HIDE DEF e
    <3>3. q(e) = 2 * q(e + 1) + (q(e) % 2)
      BY <1>2, <3>1
    <3>4. v[i] = q(e + 1)
      BY <2>2, <3>1
    <3>5. v[i + 1] = q(e)
      BY <2>4, <3>2, <3>3, <3>4, Zenon
    <3> QED
      BY <3>1, <3>5 DEF e
  <2> QED
    BY <2>3, <2>5, <2>6, <2>7
<1> HIDE DEF T
<1>6. 16 \in T
  BY <1>4, <1>5, SetInduction
<1>7. v[16] = q(16 + z - 16)
  BY <1>6 DEF T
<1>8. 16 + z - 16 = z
  OBVIOUS
<1> QED
  BY <1>1, <1>7, <1>8, Zenon DEF q

\* Whole bytes come back as they were.
LEMMA WholeBytes ==
  ASSUME NEW p \in Seq(Bits), NEW n \in Nat, Len(p) = 8 * n
  PROVE  LET bytes == [i \in 1 .. n |-> bitstring_to_int(SubSeq(p, 8 * i - 7, 8 * i))]
         IN /\ bytes \in Seq(0 .. 255)
            /\ bytes_to_bitstring(bytes) = p
<1> DEFINE eight(i) == SubSeq(p, 8 * i - 7, 8 * i)
           byte(i) == bitstring_to_int(eight(i))
           bytes == [i \in 1 .. n |-> byte(i)]
<1>1. ASSUME NEW i \in 1 .. n
      PROVE  /\ eight(i) \in Seq(Bits) /\ Len(eight(i)) = 8
             /\ \A r \in 1 .. 8 : eight(i)[r] = p[8 * i - 8 + r]
  <2> DEFINE before == 8 * i - 8
  <2>1. /\ before \in Nat /\ 8 \in Nat /\ before + 8 <= Len(p)
        /\ before + 1 = 8 * i - 7 /\ before + 8 = 8 * i
    OBVIOUS
  <2> HIDE DEF before
  <2>2. IsCut(SubSeq(p, before + 1, before + 8), p, before, 8)
    BY <2>1, CutOut, Zenon
  <2>3. IsCut(eight(i), p, before, 8)
    BY <2>1, <2>2, Zenon
  <2> HIDE DEF eight
  <2> QED
    BY <2>3, Zenon DEF IsCut, before
<1> HIDE DEF eight
<1>2. ASSUME NEW i \in 1 .. n
      PROVE  /\ byte(i) \in 0 .. 255
             /\ \A r \in 1 .. 8 : int_to_bit(byte(i), 8)[r] = p[8 * i - 8 + r]
  BY <1>1, ByteOfBits
<1> HIDE DEF byte
<1>3. bytes \in Seq(0 .. 255) /\ Len(bytes) = n /\ \A i \in 1 .. n : bytes[i] = byte(i)
  BY <1>2
<1> HIDE DEF bytes
<1>4. ASSUME NEW j \in 1 .. 8 * n
      PROVE  int_to_bit(bytes[(j + 7) \div 8], 8)[((j - 1) % 8) + 1] = p[j]
  <2> DEFINE i == (j + 7) \div 8
             r == ((j - 1) % 8) + 1
  <2>1. i \in 1 .. n /\ r \in 1 .. 8 /\ 8 * i - 8 + r = j
    OBVIOUS
  <2> HIDE DEF i, r
  <2>2. int_to_bit(bytes[i], 8)[r] = p[j]
    BY <1>2, <1>3, <2>1
  <2> QED
    BY <2>2 DEF i, r
<1>5. bytes_to_bitstring(bytes) = [j \in 1 .. 8 * n |-> p[j]]
  BY <1>3, <1>4 DEF bytes_to_bitstring
<1>6. p = [j \in 1 .. 8 * n |-> p[j]]
  OBVIOUS
<1> QED
  BY <1>3, <1>5, <1>6 DEF bytes, byte, eight

\* As many zeros as are short of whole bytes.
ShortOf(s) == (8 - (Len(s) % 8)) % 8

\* What bits become that are made bytes and read as bits again: they get zeros in
\* front that fill up the first byte.
LEMMA BitsThere ==
  ASSUME NEW s \in Seq(Bits)
  PROVE  /\ ShortOf(s) \in 0 .. 7
         /\ Zeros(ShortOf(s)) \in Seq(Bits) /\ Len(Zeros(ShortOf(s))) = ShortOf(s)
         /\ \A i \in 1 .. ShortOf(s) : Zeros(ShortOf(s))[i] = 0
         /\ bitstring_to_bytes(s) \in Seq(0 .. 255)
         /\ bytes_to_bitstring(bitstring_to_bytes(s)) = Zeros(ShortOf(s)) \o s
<1> DEFINE z == ShortOf(s)
           p == Zeros(z) \o s
           n == Len(p) \div 8
<1>1. z \in 0 .. 7 /\ (z + Len(s)) % 8 = 0 /\ Len(s) \in Nat
  <2> DEFINE l == Len(s)
  <2>1. l \in Nat
    OBVIOUS
  <2> HIDE DEF l
  <2>2. (8 - (l % 8)) % 8 \in 0 .. 7 /\ (((8 - (l % 8)) % 8) + l) % 8 = 0
    BY <2>1
  <2> QED
    BY <2>1, <2>2 DEF l, ShortOf
<1> HIDE DEF z
<1>2. Zeros(z) \in Seq(Bits) /\ Len(Zeros(z)) = z /\ \A i \in 1 .. z : Zeros(z)[i] = 0
  BY <1>1 DEF Zeros, Bits
<1>3. p \in Seq(Bits) /\ Len(p) = z + Len(s)
  BY <1>2, ConcatPlaces
<1>4. Padded(s) = p
  BY Zenon DEF Padded, ShortOf, z
<1> HIDE DEF p
<1>5. n \in Nat /\ Len(p) = 8 * n
  <2> DEFINE l == Len(p)
  <2>1. l \in Nat /\ l % 8 = 0
    BY <1>1, <1>3
  <2> HIDE DEF l
  <2>2. l \div 8 \in Nat /\ l = 8 * (l \div 8)
    BY <2>1
  <2> QED
    BY <2>2 DEF l
<1>6. bitstring_to_bytes(s)
         = [i \in 1 .. n |-> bitstring_to_int(SubSeq(p, 8 * i - 7, 8 * i))]
  BY <1>4, Zenon DEF bitstring_to_bytes
<1> HIDE DEF n
<1>7. bitstring_to_bytes(s) \in Seq(0 .. 255)
      /\ bytes_to_bitstring(bitstring_to_bytes(s)) = p
  <2> DEFINE bytes == [i \in 1 .. n |-> bitstring_to_int(SubSeq(p, 8 * i - 7, 8 * i))]
  <2>1. bytes \in Seq(0 .. 255) /\ bytes_to_bitstring(bytes) = p
    BY <1>3, <1>5, WholeBytes
  <2> HIDE DEF bytes
  <2> QED
    BY <1>6, <2>1, Zenon DEF bytes
<1> QED
  BY <1>1, <1>2, <1>7 DEF z, p

\* Bytes are read as eight bits each, one after the other.
LEMMA BitsOfBytes ==
  ASSUME NEW d \in Seq(0 .. 255)
  PROVE  /\ bytes_to_bitstring(d) \in Seq(Bits)
         /\ Len(bytes_to_bitstring(d)) = 8 * Len(d)
         /\ \A j \in 1 .. 8 * Len(d) :
               bytes_to_bitstring(d)[j]
                  = int_to_bit(d[(j + 7) \div 8], 8)[((j - 1) % 8) + 1]
<1> DEFINE n == Len(d)
           f(j) == int_to_bit(d[(j + 7) \div 8], 8)[((j - 1) % 8) + 1]
<1>1. n \in Nat /\ \A i \in 1 .. n : d[i] \in 0 .. 255
  BY ElementOfSeq
<1>2. bytes_to_bitstring(d) = [j \in 1 .. 8 * n |-> f(j)]
  BY Zenon DEF bytes_to_bitstring
<1> HIDE DEF n
<1>3. ASSUME NEW j \in 1 .. 8 * n
      PROVE  f(j) \in Bits
  <2> DEFINE i == (j + 7) \div 8
             r == ((j - 1) % 8) + 1
  <2>1. i \in 1 .. n /\ r \in 1 .. 8
    BY <1>1
  <2> HIDE DEF i, r
  <2> DEFINE k == d[i]
  <2>2. k \in 0 .. 255
    BY <1>1, <2>1
  <2> HIDE DEF k
  <2>3. k \in 0 .. MaxNumber
    BY <2>2, SMT DEF MaxNumber
  <2>4. int_to_bit(k, 8) \in Seq(Bits) /\ Len(int_to_bit(k, 8)) >= 8
    BY <2>3, BitsOf
  <2> DEFINE b == int_to_bit(k, 8)
  <2>5. b[r] \in Bits
    <3> HIDE DEF b
    <3>1. b \in Seq(Bits) /\ Len(b) >= 8
      BY <2>4 DEF b
    <3>2. r \in 1 .. Len(b)
      BY <2>1, <3>1
    <3> QED
      BY <3>1, <3>2, ElementOfSeq
  <2> QED
    BY <2>5 DEF b, k, i, r
<1> HIDE DEF f
<1> DEFINE s == [j \in 1 .. 8 * n |-> f(j)]
<1>4. s \in Seq(Bits) /\ Len(s) = 8 * n /\ \A j \in 1 .. 8 * n : s[j] = f(j)
  BY <1>1, <1>3
<1> HIDE DEF s
<1>5. bytes_to_bitstring(d) = s
  BY <1>2 DEF s
<1> QED
  BY <1>4, <1>5, Zenon DEF n, f

\* So bytes that follow others are read after them.
LEMMA BytesJoined ==
  ASSUME NEW a \in Seq(0 .. 255), NEW d \in Seq(0 .. 255)
  PROVE  bytes_to_bitstring(a \o d) = bytes_to_bitstring(a) \o bytes_to_bitstring(d)
<1> DEFINE m == Len(a)
           n == Len(d)
           ad == a \o d
           x == bytes_to_bitstring(a)
           y == bytes_to_bitstring(d)
           t == bytes_to_bitstring(ad)
<1>1. m \in Nat /\ n \in Nat
  OBVIOUS
<1>2. /\ ad \in Seq(0 .. 255) /\ Len(ad) = m + n
      /\ \A i \in 1 .. m : ad[i] = a[i]
      /\ \A i \in 1 .. n : ad[m + i] = d[i]
  BY ConcatPlaces
<1> DEFINE bit(k, j) == int_to_bit(k, 8)[((j - 1) % 8) + 1]
<1>3. /\ x \in Seq(Bits) /\ Len(x) = 8 * m
      /\ \A j \in 1 .. 8 * m : x[j] = bit(a[(j + 7) \div 8], j)
  BY BitsOfBytes
<1>4. /\ y \in Seq(Bits) /\ Len(y) = 8 * n
      /\ \A j \in 1 .. 8 * n : y[j] = bit(d[(j + 7) \div 8], j)
  BY BitsOfBytes
<1>5. /\ t \in Seq(Bits) /\ Len(t) = 8 * (m + n)
      /\ \A j \in 1 .. 8 * (m + n) : t[j] = bit(ad[(j + 7) \div 8], j)
  <2> HIDE DEF ad, bit
  <2> QED
    BY <1>2, BitsOfBytes DEF bit
<1>6. \A k : \A j \in 1 .. 8 * n : bit(k, 8 * m + j) = bit(k, j)
  <2> SUFFICES ASSUME NEW j \in 1 .. 8 * n
               PROVE  ((8 * m + j - 1) % 8) + 1 = ((j - 1) % 8) + 1
    BY DEF bit
  <2> HIDE DEF m, n
  <2> QED
    BY <1>1
<1> HIDE DEF m, n, ad, x, y, t, bit
<1>7. /\ x \o y \in Seq(Bits) /\ Len(x \o y) = Len(x) + Len(y)
      /\ \A j \in 1 .. Len(x) : (x \o y)[j] = x[j]
      /\ \A j \in 1 .. Len(y) : (x \o y)[Len(x) + j] = y[j]
  <2>1. x \in Seq(Bits) /\ y \in Seq(Bits)
    BY <1>3, <1>4
  <2> QED
    BY <2>1, ConcatPlaces
<1> DEFINE u == x \o y
<1> HIDE DEF u
<1>8. ASSUME NEW j \in 1 .. 8 * (m + n)
      PROVE  t[j] = u[j]
  <2>1. CASE j \in 1 .. 8 * m
    <3>1. (j + 7) \div 8 \in 1 .. m
      BY <1>1, <2>1
    <3>2. t[j] = bit(a[(j + 7) \div 8], j)
      BY <1>2, <1>5, <3>1, Zenon
    <3>3. u[j] = x[j]
      BY <1>3, <1>7, <2>1 DEF u
    <3> QED
      BY <1>3, <2>1, <3>2, <3>3, Zenon
  <2>2. CASE j \notin 1 .. 8 * m
    <3> DEFINE i == j - 8 * m
    <3>1. i \in 1 .. 8 * n /\ 8 * m + i = j
      BY <1>1, <2>2
    <3>2. (i + 7) \div 8 \in 1 .. n /\ (j + 7) \div 8 = m + ((i + 7) \div 8)
      BY <1>1, <3>1
    <3> HIDE DEF i
    <3>3. ad[(j + 7) \div 8] = d[(i + 7) \div 8]
      <4> DEFINE r == (i + 7) \div 8
      <4>1. r \in 1 .. n /\ (j + 7) \div 8 = m + r
        BY <3>2
      <4> HIDE DEF r
      <4>2. ad[m + r] = d[r]
        BY <1>2, <4>1
      <4> QED
        BY <4>1, <4>2 DEF r
    <3>4. t[j] = bit(d[(i + 7) \div 8], j)
      BY <1>5, <3>3, Zenon
    <3>5. bit(d[(i + 7) \div 8], j) = bit(d[(i + 7) \div 8], i)
      BY <1>6, <3>1, Zenon
    <3>6. u[j] = y[i]
      BY <1>3, <1>4, <1>7, <3>1 DEF u
    <3> QED
      BY <1>4, <3>1, <3>4, <3>5, <3>6, Zenon
  <2> QED
    BY <2>1, <2>2
<1>9. u \in Seq(Bits) /\ Len(u) = 8 * (m + n)
  BY <1>1, <1>3, <1>4, <1>7 DEF u
<1>10. t = u
  BY <1>1, <1>5, <1>8, <1>9
<1> QED
  BY <1>10 DEF t, u, x, y, ad

\* What a message may be: what Init sends, and no more than that.
Sendable(m) ==
    /\ m.id \in Nat /\ m.id < 2^16
    /\ \/ m.service = "bits" /\ m.data \in Seq(Bits)
       \/ m.service = "command" /\ m.data[1] \in 0 .. MaxNumber
       \/ m.service \in {"string", "test", "packet"} /\ m.data \in Seq(0 .. 255)

IdBits(m) == int_to_bit(m.id, 16)

\* The bits of an id are the remainders of its halves.
LEMMA IdBitsOf ==
  ASSUME NEW m, Sendable(m)
  PROVE  /\ IdBits(m) \in Seq(Bits) /\ Len(IdBits(m)) = 16
         /\ \A i \in 1 .. 16 : IdBits(m)[i] = (m.id \div 2^(16 - i)) % 2
<1> DEFINE k == m.id
<1>1. k \in Nat /\ k < 2^16
  BY DEF Sendable
<1> HIDE DEF k
<1>2. k \in 0 .. MaxNumber
  BY <1>1, SMT DEF MaxNumber
<1> QED
  BY <1>1, <1>2, BitsOf DEF IdBits, k

\* Every kind of data is sent as bits, and the receiver gets the bits of the id and
\* the data, with the zeros in front that fill up the first byte.
LEMMA OnAir ==
  ASSUME NEW m, Sendable(m)
  PROVE  /\ DataBits(m) \in Seq(Bits)
         /\ bytes_to_bitstring(Payload(m))
               = Zeros(ShortOf(DataBits(m))) \o (IdBits(m) \o DataBits(m))
<1> DEFINE D == DataBits(m)
           id == IdBits(m)
           z == ShortOf(D)
<1>1. id \in Seq(Bits) /\ Len(id) = 16
  BY IdBitsOf
<1> HIDE DEF id
<1>2. CASE m.service \in {"string", "test", "packet"}
  <2>1. m.data \in Seq(0 .. 255) /\ D = bytes_to_bitstring(m.data)
    BY <1>2 DEF Sendable, DataBits
  <2>2. Payload(m) = bitstring_to_bytes(id) \o m.data
    BY <1>2, Zenon DEF Payload, id, IdBits
  <2> HIDE DEF D
  <2>3. D \in Seq(Bits) /\ Len(D) = 8 * Len(m.data) /\ Len(m.data) \in Nat
    <3> DEFINE d == m.data
    <3>1. d \in Seq(0 .. 255) /\ D = bytes_to_bitstring(d)
      BY <2>1
    <3> HIDE DEF d
    <3>2. Len(d) \in Nat
      BY <3>1
    <3>3. D \in Seq(Bits) /\ Len(D) = 8 * Len(d)
      BY <3>1, BitsOfBytes, Zenon
    <3> QED
      BY <3>2, <3>3 DEF d
  <2>4. ShortOf(id) = 0 /\ z = 0
    <3> DEFINE l == Len(m.data)
    <3>1. l \in Nat /\ Len(D) = 8 * l
      BY <2>3
    <3> HIDE DEF l
    <3> QED
      BY <1>1, <3>1 DEF ShortOf
  <2> HIDE DEF z
  <2>5. /\ bitstring_to_bytes(id) \in Seq(0 .. 255)
        /\ bytes_to_bitstring(bitstring_to_bytes(id)) = Zeros(0) \o id
        /\ Zeros(0) \in Seq(Bits)
    BY <1>1, <2>4, BitsThere
  <2>6. bytes_to_bitstring(Payload(m)) = (Zeros(0) \o id) \o D
    BY <2>1, <2>2, <2>5, BytesJoined
  <2>7. (Zeros(0) \o id) \o D = Zeros(0) \o (id \o D)
    <3>1. Zeros(0) \in Seq(Bits) /\ id \in Seq(Bits) /\ D \in Seq(Bits)
      BY <1>1, <2>3, <2>5
    <3> QED
      BY <3>1, ConcatAssociative
  <2> QED
    BY <2>3, <2>4, <2>6, <2>7 DEF D, id, z
<1>3. CASE m.service \notin {"string", "test", "packet"}
  <2>1. Payload(m) = bitstring_to_bytes(id \o D)
    BY <1>3, Zenon DEF Payload, id, IdBits
  <2>2. D \in Seq(Bits)
    <3>1. CASE m.service = "bits"
      BY <1>3, <3>1 DEF Sendable, DataBits
    <3>2. CASE m.service = "command"
      <4> DEFINE c == m.data[1]
      <4>1. c \in 0 .. MaxNumber
        BY <1>3, <3>2 DEF Sendable
      <4>2. 255 \in 0 .. MaxNumber
        BY SMT DEF MaxNumber
      <4>3. int_to_bit(255, 16) \in Seq(Bits) /\ int_to_bit(c, 8) \in Seq(Bits)
        BY <4>1, <4>2, BitsOf
      <4>4. D = int_to_bit(255, 16) \o int_to_bit(c, 8)
        BY <3>2 DEF DataBits
      <4> HIDE DEF c, D
      <4> QED
        BY <4>3, <4>4, ConcatPlaces
    <3> QED
      BY <1>3, <3>1, <3>2 DEF Sendable
  <2> HIDE DEF D
  <2>3. id \o D \in Seq(Bits) /\ Len(id \o D) = 16 + Len(D)
    <3>1. IsJoined(id \o D, id, D, Len(id), Len(D))
      BY <1>1, <2>2, Joined
    <3> QED
      BY <1>1, <3>1, Zenon DEF IsJoined
  <2>4. ShortOf(id \o D) = z
    <3> DEFINE l == Len(D)
    <3>1. l \in Nat /\ Len(id \o D) = 16 + l
      BY <2>2, <2>3
    <3>2. z = (8 - (l % 8)) % 8
      BY DEF ShortOf
    <3> HIDE DEF l, z
    <3>3. (16 + l) % 8 = l % 8
      BY <3>1
    <3> QED
      BY <3>1, <3>2, <3>3 DEF ShortOf
  <2>5. bytes_to_bitstring(bitstring_to_bytes(id \o D)) = Zeros(z) \o (id \o D)
    BY <2>3, <2>4, BitsThere
  <2> QED
    BY <2>1, <2>2, <2>5 DEF D, id, z
<1> QED
  BY <1>2, <1>3

\* What the receiver reads as the id, and what it takes for the data.
LEMMA ReadBits ==
  ASSUME NEW m, Sendable(m)
  PROVE  LET bits == bytes_to_bitstring(Payload(m))
             z == ShortOf(DataBits(m))
         IN /\ bitstring_to_int(SubSeq(bits, 1, 16)) = m.id \div 2^z
            /\ SubSeq(bits, 17, Len(bits)) = SubSeq(IdBits(m), 17 - z, 16) \o DataBits(m)
<1> DEFINE D == DataBits(m)
           id == IdBits(m)
           z == ShortOf(D)
           k == m.id
           b == Zeros(z) \o (id \o D)
           n == Len(D)
<1>1. D \in Seq(Bits) /\ bytes_to_bitstring(Payload(m)) = b
  BY OnAir
<1>2. /\ id \in Seq(Bits) /\ Len(id) = 16
      /\ \A i \in 1 .. 16 : id[i] = (k \div 2^(16 - i)) % 2
  BY IdBitsOf
<1>3. k \in Nat /\ k < 2^16
  BY DEF Sendable
<1> HIDE DEF id, D, k
<1>4. /\ z \in 0 .. 7 /\ Zeros(z) \in Seq(Bits) /\ Len(Zeros(z)) = z
      /\ \A i \in 1 .. z : Zeros(z)[i] = 0
  BY <1>1, BitsThere
<1>5. n \in Nat /\ Len(D) = n
  BY <1>1
<1> HIDE DEF z
<1>6. /\ id \o D \in Seq(Bits) /\ Len(id \o D) = 16 + n
      /\ \A i \in 1 .. 16 : (id \o D)[i] = id[i]
      /\ \A i \in 1 .. n : (id \o D)[16 + i] = D[i]
  <2>1. IsJoined(id \o D, id, D, Len(id), Len(D))
    BY <1>1, <1>2, Joined
  <2> HIDE DEF n
  <2> QED
    BY <1>2, <1>5, <2>1, Zenon DEF IsJoined
<1> HIDE DEF n
<1>7. /\ b \in Seq(Bits) /\ Len(b) = z + 16 + n
      /\ \A i \in 1 .. z : b[i] = 0
      /\ \A i \in 1 .. 16 + n : b[z + i] = (id \o D)[i]
  <2>1. z + (16 + n) = z + 16 + n
    BY <1>4, <1>5
  <2> DEFINE y == id \o D
  <2>2. y \in Seq(Bits) /\ Len(y) = 16 + n
    BY <1>6
  <2> HIDE DEF y
  <2>3. IsJoined(Zeros(z) \o y, Zeros(z), y, Len(Zeros(z)), Len(y))
    BY <1>4, <2>2, Joined
  <2>4. IsJoined(Zeros(z) \o y, Zeros(z), y, z, 16 + n)
    BY <1>4, <2>2, <2>3, Zenon
  <2>5. /\ Zeros(z) \o y \in Seq(Bits) /\ Len(Zeros(z) \o y) = z + (16 + n)
        /\ \A i \in 1 .. z : (Zeros(z) \o y)[i] = Zeros(z)[i]
        /\ \A i \in 1 .. 16 + n : (Zeros(z) \o y)[z + i] = y[i]
    BY <2>4, Zenon DEF IsJoined
  <2> QED
    BY <1>4, <2>1, <2>5, Zenon DEF y
<1>8. /\ \A i \in 1 .. 16 : b[z + i] = id[i]
      /\ \A i \in 1 .. n : b[z + 16 + i] = D[i]
  <2>1. ASSUME NEW i \in 1 .. 16
        PROVE  b[z + i] = id[i]
    <3>1. i \in 1 .. 16 + n
      BY <1>5
    <3> QED
      BY <1>6, <1>7, <3>1, Zenon
  <2>2. ASSUME NEW i \in 1 .. n
        PROVE  b[z + 16 + i] = D[i]
    <3>1. 16 + i \in 1 .. 16 + n /\ z + (16 + i) = z + 16 + i
      BY <1>4, <1>5
    <3>2. b[z + (16 + i)] = (id \o D)[16 + i]
      BY <1>7, <3>1, Zenon
    <3> QED
      BY <1>6, <3>1, <3>2, Zenon
  <2> QED
    BY <2>1, <2>2
<1> HIDE DEF b
<1>9. bitstring_to_int(SubSeq(b, 1, 16)) = k \div 2^z
  <2> DEFINE s == SubSeq(b, 1, 16)
  <2>1. s \in Seq(Bits) /\ Len(s) = 16 /\ \A i \in 1 .. 16 : s[i] = b[i]
    <3>1. /\ b \in Seq(Bits) /\ 0 \in Nat /\ 16 \in Nat /\ 0 + 16 <= Len(b)
          /\ 0 + 1 = 1 /\ 0 + 16 = 16
      BY <1>4, <1>5, <1>7
    <3>2. IsCut(SubSeq(b, 0 + 1, 0 + 16), b, 0, 16)
      BY <3>1, CutOut, Zenon
    <3>3. IsCut(s, b, 0, 16)
      BY <3>1, <3>2, Zenon
    <3> HIDE DEF s
    <3>4. \A i \in 1 .. 16 : 0 + i = i
      OBVIOUS
    <3> QED
      BY <3>3, <3>4, Zenon DEF IsCut
  <2> HIDE DEF s
  <2>2. \A i \in 1 .. z : s[i] = 0
    <3>1. \A i \in 1 .. z : i \in 1 .. 16
      BY <1>4
    <3> QED
      BY <1>7, <2>1, <3>1, Zenon
  <2>3. ASSUME NEW i \in z + 1 .. 16
        PROVE  s[i] = (k \div 2^(16 + z - i)) % 2
    <3> DEFINE j == i - z
    <3>1. j \in 1 .. 16 /\ z + j = i /\ i \in 1 .. 16 /\ 16 - j = 16 + z - i
      BY <1>4
    <3> HIDE DEF j
    <3>2. s[i] = id[j]
      BY <1>8, <2>1, <3>1, Zenon
    <3>3. id[j] = (k \div 2^(16 - j)) % 2
      BY <1>2, <3>1, Zenon
    <3> QED
      BY <3>1, <3>2, <3>3, Zenon
  <2>4. bitstring_to_int(s) = k \div 2^z
    BY <1>3, <1>4, <2>1, <2>2, <2>3, ShiftedId
  <2> QED
    BY <2>4 DEF s
<1> DEFINE out == SubSeq(id, 17 - z, 16)
           t == SubSeq(b, 17, Len(b))
<1>10. out \in Seq(Bits) /\ Len(out) = z /\ \A i \in 1 .. z : out[i] = id[16 - z + i]
  <2> DEFINE before == 16 - z
  <2>1. /\ before \in Nat /\ z \in Nat /\ before + z <= Len(id)
        /\ before + 1 = 17 - z /\ before + z = 16
    <3>1. z \in 0 .. 7 /\ Len(id) = 16
      BY <1>2, <1>4
    <3> HIDE DEF id, z
    <3> QED
      BY <3>1
  <2> HIDE DEF before
  <2>2. IsCut(SubSeq(id, before + 1, before + z), id, before, z)
    BY <1>2, <2>1, CutOut, Zenon
  <2>3. IsCut(out, id, before, z)
    BY <2>1, <2>2, Zenon
  <2> HIDE DEF out
  <2> QED
    BY <2>3, Zenon DEF IsCut, before
<1>11. t \in Seq(Bits) /\ Len(t) = z + n /\ \A i \in 1 .. z + n : t[i] = b[16 + i]
  <2>1. /\ 16 \in Nat /\ z + n \in Nat /\ 16 + (z + n) <= Len(b)
        /\ 16 + 1 = 17 /\ 16 + (z + n) = Len(b)
    BY <1>4, <1>5, <1>7
  <2>2. IsCut(SubSeq(b, 16 + 1, 16 + (z + n)), b, 16, z + n)
    BY <1>7, <2>1, CutOut, Zenon
  <2>3. IsCut(t, b, 16, z + n)
    BY <2>1, <2>2, Zenon
  <2> HIDE DEF t
  <2> QED
    BY <2>3, Zenon DEF IsCut
<1> HIDE DEF out, t
<1>12. t = out \o D
  <2> DEFINE u == out \o D
  <2>1. /\ u \in Seq(Bits) /\ Len(u) = z + n
        /\ \A i \in 1 .. z : u[i] = out[i]
        /\ \A i \in 1 .. n : u[z + i] = D[i]
    <3>1. IsJoined(u, out, D, Len(out), Len(D))
      BY <1>1, <1>10, Joined
    <3> HIDE DEF u
    <3> QED
      BY <1>5, <1>10, <3>1, Zenon DEF IsJoined
  <2> HIDE DEF u
  <2>2. ASSUME NEW i \in 1 .. z + n
        PROVE  t[i] = u[i]
    <3>1. CASE i \in 1 .. z
      <4>1. 16 - z + i \in 1 .. 16 /\ z + (16 - z + i) = 16 + i
        BY <1>4, <3>1
      <4>2. b[z + (16 - z + i)] = id[16 - z + i]
        BY <1>8, <4>1, Zenon
      <4> QED
        BY <1>10, <1>11, <2>1, <3>1, <4>1, <4>2, Zenon
    <3>2. CASE i \notin 1 .. z
      <4> DEFINE j == i - z
      <4>1. j \in 1 .. n /\ z + j = i /\ z + 16 + j = 16 + i
        BY <1>4, <1>5, <3>2
      <4> HIDE DEF j
      <4> QED
        BY <1>8, <1>11, <2>1, <4>1, Zenon
    <3> QED
      BY <3>1, <3>2
  <2>3. t = u
    BY <1>4, <1>5, <1>11, <2>1, <2>2
  <2> QED
    BY <2>3 DEF u
<1> QED
  BY <1>1, <1>9, <1>12 DEF b, D, z, k, out, t, id

\* Zeros in front of the data are what was shifted out of the id just when that is
\* a multiple.
LEMMA SameAsZeros ==
  ASSUME NEW m, Sendable(m)
  PROVE  LET z == ShortOf(DataBits(m))
         IN Zeros(z) \o DataBits(m) = SubSeq(IdBits(m), 17 - z, 16) \o DataBits(m)
               <=> m.id % 2^z = 0
<1> DEFINE D == DataBits(m)
           id == IdBits(m)
           z == ShortOf(D)
           k == m.id
           q(e) == (k \div 2^e) % 2
           out == SubSeq(id, 17 - z, 16)
<1>1. D \in Seq(Bits)
  BY OnAir
<1>2. /\ id \in Seq(Bits) /\ Len(id) = 16
      /\ \A i \in 1 .. 16 : id[i] = q(16 - i)
  BY IdBitsOf
<1>3. k \in Nat /\ k < 2^16
  BY DEF Sendable
<1> HIDE DEF id, D, k
<1>4. /\ z \in 0 .. 7 /\ Zeros(z) \in Seq(Bits) /\ Len(Zeros(z)) = z
      /\ \A i \in 1 .. z : Zeros(z)[i] = 0
  BY <1>1, BitsThere
<1> DEFINE R(i) == k % 2^i = 0 <=> \A e \in 0 .. i - 1 : q(e) = 0
<1>5. ASSUME NEW i \in Nat, i <= 15
      PROVE  R(i)
  <2> DEFINE T == {j \in Nat : j <= 15 => R(j)}
  <2>1. k % 2^0 = 0 /\ \A e \in 0 .. 15 : k % 2^(e + 1) = 0 <=> k % 2^e = 0 /\ q(e) = 0
    BY <1>3, Halves, Zenon
  <2> HIDE DEF q
  <2>2. 0 \in T
    <3>1. 0 .. 0 - 1 = {}
      OBVIOUS
    <3> QED
      BY <2>1, <3>1, Zenon
  <2>3. ASSUME NEW j \in Nat, j \in T
        PROVE  j + 1 \in T
    <3>1. j + 1 <= 15 => j \in 0 .. 15 /\ j <= 15
      OBVIOUS
    <3>2. 0 .. (j + 1) - 1 = (0 .. j - 1) \union {j} /\ j + 1 \in Nat
      OBVIOUS
    <3>3. j + 1 <= 15 => R(j + 1)
      BY <2>1, <2>3, <3>1, <3>2, Zenon
    <3> QED
      BY <3>2, <3>3
  <2> HIDE DEF T
  <2>4. \A j \in Nat : j \in T
    BY <2>2, <2>3, SetInduction
  <2> QED
    BY <1>5, <2>4 DEF T
<1> HIDE DEF q, z
<1>6. R(z)
  BY <1>4, <1>5
<1>7. out \in Seq(Bits) /\ Len(out) = z /\ \A i \in 1 .. z : out[i] = id[16 - z + i]
  <2> DEFINE before == 16 - z
  <2>1. /\ before \in Nat /\ z \in Nat /\ before + z <= Len(id)
        /\ before + 1 = 17 - z /\ before + z = 16
    <3>1. z \in 0 .. 7 /\ Len(id) = 16
      BY <1>2, <1>4
    <3> HIDE DEF id, z
    <3> QED
      BY <3>1
  <2> HIDE DEF before
  <2>2. IsCut(SubSeq(id, before + 1, before + z), id, before, z)
    BY <1>2, <2>1, CutOut, Zenon
  <2>3. IsCut(out, id, before, z)
    BY <2>1, <2>2, Zenon
  <2> HIDE DEF out
  <2> QED
    BY <2>3, Zenon DEF IsCut, before
<1> HIDE DEF out, R
<1>8. Zeros(z) = out <=> \A i \in 1 .. z : out[i] = 0
  BY <1>4, <1>7
<1>9. (\A i \in 1 .. z : out[i] = 0) <=> \A e \in 0 .. z - 1 : q(e) = 0
  <2>1. ASSUME NEW i \in 1 .. z
        PROVE  z - i \in 0 .. z - 1 /\ out[i] = q(z - i)
    <3>1. 16 - z + i \in 1 .. 16 /\ 16 - (16 - z + i) = z - i /\ z - i \in 0 .. z - 1
      BY <1>4
    <3>2. out[i] = q(16 - (16 - z + i))
      BY <1>2, <1>7, <3>1, Zenon
    <3> QED
      BY <3>1, <3>2, Zenon
  <2>2. ASSUME NEW e \in 0 .. z - 1
        PROVE  z - e \in 1 .. z /\ z - (z - e) = e
    BY <1>4
  <2> QED
    BY <2>1, <2>2, Zenon
<1>10. Zeros(z) \o D = out \o D <=> Zeros(z) = out
  <2> DEFINE x == Zeros(z)
  <2>1. x \in Seq(Bits) /\ out \in Seq(Bits) /\ Len(x) = z /\ Len(out) = z /\ z \in Nat
    BY <1>4, <1>7
  <2> HIDE DEF x
  <2>2. /\ \A i \in 1 .. Len(x) : (x \o D)[i] = x[i]
        /\ \A i \in 1 .. Len(out) : (out \o D)[i] = out[i]
    BY <1>1, <2>1, ConcatPlaces
  <2>3. ASSUME x \o D = out \o D
        PROVE  x = out
    <3>1. \A i \in 1 .. z : x[i] = out[i]
      BY <2>1, <2>2, <2>3, Zenon
    <3> QED
      BY <2>1, <3>1
  <2> QED
    BY <2>3 DEF x
<1> QED
  BY <1>6, <1>8, <1>9, <1>10, Zenon DEF R, D, z, k, out, id

-----------------------------------------------------------------------------
\* Init sends what the handlers take: bits, numbers or bytes.
LEMMA InitSendable ==
  ASSUME PayloadsTyped, PayloadInit
  PROVE  Sendable(message)
<1>0. /\ Ids \subseteq 0 .. 2^16 - 2
      /\ BitStrings \subseteq Seq({0, 1}) \ {<<>>}
      /\ Texts \subseteq Seq(0 .. 127)
      /\ Tests \subseteq [1 .. 3 -> Seq(0 .. 127)]
      /\ PacketSizes \subseteq Nat
      /\ MESH_TEST \in Seq(0 .. 127)
      /\ Commands \subseteq 0 .. MaxNumber
  BY Zenon DEF PayloadsTyped
<1>1. \A id \in Ids : id \in Nat /\ id < 2^16
  <2>1. \A id \in 0 .. 2^16 - 2 : id \in Nat /\ id < 2^16
    BY SMT
  <2> QED
    BY <1>0, <2>1, Zenon
<1>2. \A s \in BitStrings : s \in Seq(Bits)
  <2>1. BitStrings \subseteq Seq({0, 1}) \ {<<>>}
    BY <1>0
  <2> QED
    BY <2>1, Zenon DEF Bits
<1>3. \A s \in Seq(0 .. 127) : s \in Seq(0 .. 255)
  <2>1. 0 .. 127 \subseteq 0 .. 255
    OBVIOUS
  <2> QED
    BY <2>1, SeqWider
<1>4. \A t \in Texts : t \in Seq(0 .. 255)
  <2>1. Texts \subseteq Seq(0 .. 127)
    BY <1>0
  <2> QED
    BY <1>3, <2>1
<1>5. \A c \in Commands : <<c>>[1] \in 0 .. MaxNumber
  <2>1. \A c : <<c>>[1] = c
    OBVIOUS
  <2> QED
    BY <1>0, <2>1, Zenon
<1>6. \A t \in Tests : encode_test_net_to_string(t) \in Seq(0 .. 255)
  <2> SUFFICES ASSUME NEW t \in Tests
               PROVE  encode_test_net_to_string(t) \in Seq(0 .. 255)
    OBVIOUS
  <2> DEFINE S == Seq(0 .. 255)
  <2>1. t[1] \in Seq(0 .. 127) /\ t[2] \in Seq(0 .. 127) /\ t[3] \in Seq(0 .. 127)
        /\ MESH_TEST \in Seq(0 .. 127)
    <3>1. t \in [1 .. 3 -> Seq(0 .. 127)] /\ MESH_TEST \in Seq(0 .. 127)
      BY <1>0, Zenon
    <3>2. 1 \in 1 .. 3 /\ 2 \in 1 .. 3 /\ 3 \in 1 .. 3
      OBVIOUS
    <3> QED
      BY <3>1, <3>2, Zenon
  <2>2. t[1] \in S /\ t[2] \in S /\ t[3] \in S /\ MESH_TEST \in S
    BY <1>3, <2>1
  <2>3. <<32>> \in S /\ <<32, 49>> \in S
    OBVIOUS
  <2>4. \A q, r \in S : q \o r \in S
    OBVIOUS
  <2> HIDE DEF S
  <2>5. encode_test_net_to_string(t) \in S
    BY <2>2, <2>3, <2>4 DEF encode_test_net_to_string
  <2> QED
    BY <2>5 DEF S
<1>7. \A n \in PacketSizes : Zeros(n) \in Seq(0 .. 255)
  <2>1. \A n \in PacketSizes : n \in Nat
    BY <1>0
  <2>2. \A n \in Nat : [i \in 1 .. n |-> 0] \in Seq(0 .. 255)
    OBVIOUS
  <2> QED
    BY <2>1, <2>2, Zenon DEF Zeros
<1> HIDE DEF Sendable
<1>8. PICK id \in Ids :
         \/ \E s \in BitStrings : message = Message("bits", id, s)
         \/ \E t \in Texts : message = Message("string", id, t)
         \/ \E c \in Commands : message = Message("command", id, <<c>>)
         \/ \E t \in Tests : message = Message("test", id, encode_test_net_to_string(t))
         \/ \E size \in PacketSizes : message = Message("packet", id, Zeros(size))
  BY DEF PayloadInit
<1>9. \A service, data :
         /\ Message(service, id, data).service = service
         /\ Message(service, id, data).id = id
         /\ Message(service, id, data).data = data
  BY DEF Message
<1> HIDE DEF Message
<1>10. message.id \in Nat /\ message.id < 2^16
  <2>1. PICK service, data : message = Message(service, id, data)
    BY <1>8, Zenon
  <2>2. message.id = id
    BY <1>9, <2>1, Zenon
  <2> QED
    BY <1>1, <2>2, Zenon
<1>11. \/ message.service = "bits" /\ message.data \in Seq(Bits)
       \/ message.service = "command" /\ message.data[1] \in 0 .. MaxNumber
       \/ message.service \in {"string", "test", "packet"} /\ message.data \in Seq(0 .. 255)
  <2>1. ASSUME NEW s \in BitStrings, message = Message("bits", id, s)
        PROVE  message.service = "bits" /\ message.data \in Seq(Bits)
    <3>1. message.service = "bits" /\ message.data = s
      BY <1>9, <2>1, Zenon
    <3> QED
      BY <1>2, <3>1, Zenon
  <2>2. ASSUME NEW t \in Texts, message = Message("string", id, t)
        PROVE  message.service = "string" /\ message.data \in Seq(0 .. 255)
    <3>1. message.service = "string" /\ message.data = t
      BY <1>9, <2>2, Zenon
    <3> QED
      BY <1>4, <3>1, Zenon
  <2>3. ASSUME NEW c \in Commands, message = Message("command", id, <<c>>)
        PROVE  message.service = "command" /\ message.data[1] \in 0 .. MaxNumber
    <3>1. message.service = "command" /\ message.data = <<c>>
      BY <1>9, <2>3, Zenon
    <3> QED
      BY <1>5, <3>1, Zenon
  <2>4. ASSUME NEW t \in Tests,
               message = Message("test", id, encode_test_net_to_string(t))
        PROVE  message.service = "test" /\ message.data \in Seq(0 .. 255)
    <3>1. message.service = "test" /\ message.data = encode_test_net_to_string(t)
      BY <1>9, <2>4, Zenon
    <3> QED
      BY <1>6, <3>1, Zenon
  <2>5. ASSUME NEW size \in PacketSizes, message = Message("packet", id, Zeros(size))
        PROVE  message.service = "packet" /\ message.data \in Seq(0 .. 255)
    <3>1. message.service = "packet" /\ message.data = Zeros(size)
      BY <1>9, <2>5, Zenon
    <3> QED
      BY <1>7, <3>1, Zenon
  <2> QED
    BY <1>8, <2>1, <2>2, <2>3, <2>4, <2>5, Zenon
<1> QED
  BY <1>10, <1>11, Zenon DEF Sendable

\* What is known at each step: the message stays as it was sent, what is on the air
\* is its payload, and a simulation has published its data.
PayloadInv ==
    /\ Sendable(message)
    /\ stage = "receive" => radio = Payload(message)
    /\ stage \in {"receive", "received"} /\ message.service \in {"bits", "command"} =>
          simulation = Simulated(message)
    /\ ReceivedShifted

\* It holds before the message is sent.
LEMMA PayloadInitial ==
  ASSUME PayloadsTyped, PayloadInit
  PROVE  PayloadInv
<1>1. stage = "send" /\ Sendable(message)
  BY InitSendable, Zenon DEF PayloadInit
<1> QED
  BY <1>1, Zenon DEF PayloadInv, ReceivedShifted

\* The sending handler puts the payload on the air.
LEMMA SendKeeps ==
  ASSUME PayloadInv, Send
  PROVE  PayloadInv'
<1>1. stage' = "receive" /\ message' = message
  BY DEF Send
<1>2. Sendable(message)'
  BY <1>1 DEF PayloadInv, Sendable
<1>3. radio' = Payload(message)'
  BY <1>1, Zenon DEF Send
<1>4. message'.service \in {"bits", "command"} => simulation' = Simulated(message)'
  BY <1>1, Zenon DEF Send
<1> QED
  BY <1>1, <1>2, <1>3, <1>4, Zenon DEF PayloadInv, ReceivedShifted

\* The callback reads the id and the data from it.
LEMMA ReceiveKeeps ==
  ASSUME PayloadInv, Receive
  PROVE  PayloadInv'
<1>1. /\ stage = "receive" /\ stage' = "received"
      /\ message' = message /\ simulation' = simulation
  BY DEF Receive
<1>2. Sendable(message) /\ radio = Payload(message)
  BY <1>1, Zenon DEF PayloadInv
<1> DEFINE bits == bytes_to_bitstring(Payload(message))
           z == ShortOf(DataBits(message))
<1>3. /\ msgid' = bitstring_to_int(SubSeq(bits, 1, 16))
      /\ published' = SubSeq(bits, 17, Len(bits))
  BY <1>2, Zenon DEF Receive
<1>4. /\ msgid' = message.id \div 2^z
      /\ published' = SubSeq(IdBits(message), 17 - z, 16) \o DataBits(message)
  BY <1>2, <1>3, ReadBits, Zenon
<1>5. Short = z
  BY Zenon DEF Short, ShortOf
<1>6. Short' = z /\ IdBits(message) = int_to_bit(message.id, 16)
  BY <1>1, Zenon DEF Short, ShortOf, IdBits
<1> HIDE DEF z
<1>7. ReceivedShifted'
  BY <1>1, <1>4, <1>6, Zenon DEF ReceivedShifted
<1>8. Sendable(message)'
  BY <1>1, <1>2 DEF Sendable
<1>9. message'.service \in {"bits", "command"} => simulation' = Simulated(message)'
  BY <1>1, Zenon DEF PayloadInv
<1> QED
  BY <1>1, <1>7, <1>8, <1>9, Zenon DEF PayloadInv

\* So every step keeps it.
LEMMA PayloadStep ==
  ASSUME PayloadInv, [PayloadNext]_payloadVars
  PROVE  PayloadInv'
<1>1. CASE Send
  BY <1>1, SendKeeps
<1>2. CASE Receive
  BY <1>2, ReceiveKeeps
<1>3. CASE UNCHANGED payloadVars
  BY <1>3 DEF payloadVars, PayloadInv, ReceivedShifted, Short, Sendable
<1> QED
  BY <1>1, <1>2, <1>3 DEF PayloadNext

\* The payload is on the air as the handler made it, until the callback has read it.
THEOREM PayloadInvCorrect == PayloadSpec => []PayloadInv
<1>1. PayloadInit => PayloadInv
  BY PayloadInitial, PayloadAssumption
<1>2. PayloadInv /\ [PayloadNext]_payloadVars => PayloadInv'
  BY PayloadStep
<1> QED
  BY <1>1, <1>2, PTL DEF PayloadSpec

\* What the callback receives over the radio (listening_data_callback): all of the
\* data, whatever their length, behind as many bits of the id as fill up whole
\* bytes, and the id without them.
THEOREM ReceivedShiftedCorrect == PayloadSpec => []ReceivedShifted
<1>1. PayloadInv => ReceivedShifted
  BY DEF PayloadInv
<1> QED
  BY <1>1, PayloadInvCorrect, PTL

\* A simulation publishes what the radio delivers just when the bits that the radio
\* shifts out of the id are zeros.
THEOREM SimulationAgreesCorrect == PayloadSpec => []SimulationAgrees
<1>1. PayloadInv => SimulationAgrees
  <2> SUFFICES ASSUME PayloadInv, stage = "received",
                      message.service \in {"bits", "command"}
               PROVE  simulation = published <=> message.id % 2^Short = 0
    BY DEF SimulationAgrees
  <2> DEFINE D == DataBits(message)
             z == ShortOf(D)
  <2>1. Sendable(message) /\ simulation = Simulated(message)
    BY Zenon DEF PayloadInv
  <2>2. D \in Seq(Bits)
    BY <2>1, OnAir
  <2>3. simulation = Zeros(z) \o D
    <3> HIDE DEF D
    <3>1. bytes_to_bitstring(bitstring_to_bytes(D)) = Zeros(z) \o D
      BY <2>2, BitsThere
    <3> QED
      BY <2>1, <3>1, Zenon DEF Simulated, D
  <2>4. Short = z /\ IdBits(message) = int_to_bit(message.id, 16)
    BY Zenon DEF Short, ShortOf, IdBits
  <2>5. published = SubSeq(IdBits(message), 17 - z, 16) \o D
    BY <2>4, Zenon DEF PayloadInv, ReceivedShifted
  <2>6. Zeros(z) \o D = SubSeq(IdBits(message), 17 - z, 16) \o D
           <=> message.id % 2^z = 0
    BY <2>1, SameAsZeros, Zenon
  <2> HIDE DEF z, D
  <2> QED
    BY <2>3, <2>4, <2>5, <2>6, Zenon
<1> QED
  BY <1>1, PayloadInvCorrect, PTL
=============================================================================
