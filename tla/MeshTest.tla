------------------------------ MODULE MeshTest ------------------------------
(***************************************************************************)
(* The network test of the XBee ROS nodes (network_test and what it uses   *)
(* in src/ros/adapters/xbee/scripts/uhura.py).                             *)
(*                                                                         *)
(* A test is a chain of events of the module's one sched.scheduler: each   *)
(* sends a packet and enters the next.  Every call of network_test enters  *)
(* a first event and starts a thread that runs the scheduler, also while   *)
(* an earlier test is still going on, and all tests share the counter      *)
(* TEST_CURRENT_N_PACKETS.  A test for the whole mesh is announced to the  *)
(* other nodes, which then run it too, from the thread the XBee library    *)
(* calls them back on; the clients' calls come in on one thread for each   *)
(* connection to the service.                                              *)
(*                                                                         *)
(* The scheduler is external: its run takes the first event off the queue  *)
(* when it is due, calls it outside its lock, and returns when it finds    *)
(* the queue empty.  So is the radio: who hears a broadcast is open.       *)
(***************************************************************************)
EXTENDS Naturals, FiniteSets, Sequences, Functions

CONSTANTS
    Nodes,
    Connections, \* the connections to a node's service, each with a thread
    Runners,   \* threads a node may start
    Asks,      \* the values of <<n_packets, to_mesh>> a node's client asks for
    MaxTests,  \* bound: service calls, for each node
    MaxFaults  \* bound: attempts that raise, in all

ASSUME RunnersAssumption == IsFiniteSet(Runners)

ASSUME NodesAssumption == IsFiniteSet(Nodes)

ASSUME ConnectionsAssumption ==
    IsFiniteSet(Connections) /\ "callback" \notin Connections

ASSUME TestBounds ==
    /\ Asks \in [Nodes -> SUBSET (Nat \X BOOLEAN)]
    /\ MaxTests \in [Nodes -> Nat]
    /\ MaxFaults \in Nat

VARIABLES
    TEST_N_PACKETS,
    TEST_CURRENT_N_PACKETS,
    queue,      \* how many events wait in a node's scheduler
    runner,     \* what each thread of a node is doing
    test,       \* what each call of network_test in progress is doing
    heard,      \* announcements that wait for a node's callback
    setupDone,  \* is the device of a node set up?
    attempts,   \* history: attempts of a test packet tried
    asked,      \* history: the values of n_packets a node's tests were given
    requested,  \* service calls of a node so far
    faults      \* sendings so far that raised what is not caught

counters == <<TEST_N_PACKETS, TEST_CURRENT_N_PACKETS>>
vars == <<counters, queue, runner, test, heard, setupDone, attempts, asked,
          requested, faults>>

-----------------------------------------------------------------------------
\* network_test is called by the service, for each connection by itself, and by
\* the callback for received data.
Origins == Connections \cup {"callback"}

NoTest == [at |-> "idle", n |-> 0, to_mesh |-> FALSE]

\* A thread is not started, ended, looking at the queue, about to call the
\* event it has taken, or about to add one to the count it has read.
NotStarted == [at |-> "none", count |-> 0]
Looking == [at |-> "looking", count |-> 0]
Ended == [at |-> "ended", count |-> 0]

Init ==
    /\ TEST_N_PACKETS = [n \in Nodes |-> 0]
    /\ TEST_CURRENT_N_PACKETS = [n \in Nodes |-> 0]
    /\ queue = [n \in Nodes |-> 0]
    /\ runner = [n \in Nodes |-> [t \in Runners |-> NotStarted]]
    /\ test = [n \in Nodes |-> [o \in Origins |-> NoTest]]
    /\ heard = [n \in Nodes |-> <<>>]
    /\ setupDone = [n \in Nodes |-> FALSE]
    /\ attempts = [n \in Nodes |-> 0]
    /\ asked = [n \in Nodes |-> <<>>]
    /\ requested = [n \in Nodes |-> 0]
    /\ faults = 0

-----------------------------------------------------------------------------
\* A set-up of the device succeeds: its steps are those of XbeeNode.  No later
\* one takes it back.
Setup(n) ==
    /\ ~setupDone[n]
    /\ setupDone' = [setupDone EXCEPT ![n] = TRUE]
    /\ UNCHANGED <<counters, queue, runner, test, heard, attempts, asked,
                   requested, faults>>

\* network_test(delay, n_packets, n_bytes, to_mesh) is called.
Begin(n, origin, n_packets, to_mesh) ==
    /\ test[n][origin].at = "idle"
    /\ test' = [test EXCEPT ![n][origin] =
                   [at |-> "count", n |-> n_packets, to_mesh |-> to_mesh]]
    /\ asked' = [asked EXCEPT ![n] = Append(@, n_packets)]
    /\ UNCHANGED <<counters, queue, runner, setupDone, attempts, faults>>

\* The service test_broadcast_network.
RequestTest(n) ==
    /\ requested[n] < MaxTests[n]
    /\ requested' = [requested EXCEPT ![n] = @ + 1]
    /\ \E c \in Connections, ask \in Asks[n] : Begin(n, c, ask[1], ask[2])
    /\ UNCHANGED heard

\* Mutant: the last field of the announcement, which is 1, is taken for to_mesh.
AsAnnounced == TRUE

\* What handle_mesh_test_message hands on for to_mesh.
ToMeshWhenHeard == FALSE

\* An announcement is received and handled.
HearTest(n) ==
    /\ heard[n] # <<>>
    /\ Begin(n, "callback", Head(heard[n]), ToMeshWhenHeard)
    /\ heard' = [heard EXCEPT ![n] = Tail(@)]
    /\ UNCHANGED requested

\* The assignments to the globals, one after the other.
SetCount(n, origin) ==
    /\ test[n][origin].at = "count"
    /\ TEST_N_PACKETS' = [TEST_N_PACKETS EXCEPT ![n] = test[n][origin].n]
    /\ test' = [test EXCEPT ![n][origin].at = "reset"]
    /\ UNCHANGED <<TEST_CURRENT_N_PACKETS, queue, runner, heard, setupDone,
                   attempts, asked, requested, faults>>

ResetCounter(n, origin) ==
    /\ test[n][origin].at = "reset"
    /\ TEST_CURRENT_N_PACKETS' = [TEST_CURRENT_N_PACKETS EXCEPT ![n] = 0]
    /\ test' = [test EXCEPT ![n][origin].at =
                   IF test[n][origin].to_mesh THEN "announce" ELSE "enter"]
    /\ UNCHANGED <<TEST_N_PACKETS, queue, runner, heard, setupDone, attempts,
                   asked, requested, faults>>

\* Those who may hear what n sends: nobody while its device is not set up.
Hearers(n) == {h \in Nodes \ {n} : setupDone[n] /\ setupDone[h]}

\* The test is announced to the mesh, with what TEST_N_PACKETS is by now.  If
\* the sending raises what sendBroadCastData does not catch, the handler ends
\* here.
Announce(n, origin) ==
    /\ test[n][origin].at = "announce"
    /\ \/ /\ \E hearers \in SUBSET Hearers(n) :
                heard' = [h \in Nodes |->
                             IF h \in hearers
                             THEN Append(heard[h], TEST_N_PACKETS[n])
                             ELSE heard[h]]
          /\ test' = [test EXCEPT ![n][origin].at = "enter"]
          /\ UNCHANGED faults
       \/ /\ setupDone[n]
          /\ faults < MaxFaults
          /\ faults' = faults + 1
          /\ test' = [test EXCEPT ![n][origin] = NoTest]
          /\ UNCHANGED heard
    /\ UNCHANGED <<counters, queue, runner, setupDone, attempts, asked,
                   requested>>

\* schedule.enter: the first event of the chain.
EnterFirst(n, origin) ==
    /\ test[n][origin].at = "enter"
    /\ queue' = [queue EXCEPT ![n] = @ + 1]
    /\ test' = [test EXCEPT ![n][origin].at = "start"]
    /\ UNCHANGED <<counters, runner, heard, setupDone, attempts, asked,
                   requested, faults>>

\* Mutant: no thread is started while one is running the scheduler.
StartedIfNone(n) ==
    IF \E t \in Runners : runner[n][t].at \notin {"none", "ended"} THEN {}
    ELSE {CHOOSE t \in Runners : runner[n][t] = NotStarted}

\* The thread to be started: a new one for every test.
Started(n) == {CHOOSE t \in Runners : runner[n][t] = NotStarted}

\* x.start(), and network_test returns.
StartRunner(n, origin) ==
    /\ test[n][origin].at = "start"
    /\ \E t \in Runners : runner[n][t] = NotStarted
    /\ runner' = [runner EXCEPT ![n] =
                     [t \in Runners |->
                         IF t \in Started(n) THEN Looking ELSE @[t]]]
    /\ test' = [test EXCEPT ![n][origin] = NoTest]
    /\ UNCHANGED <<counters, queue, heard, setupDone, attempts, asked,
                   requested, faults>>

-----------------------------------------------------------------------------
\* Mutant: a thread that has slept takes its event without looking again.
SleptForOne(n) == TRUE

AnyEvent(n) == queue[n] > 0

\* scheduler.run: take an event, or return because there is none.
TakeEvent(n, t) ==
    /\ runner[n][t].at = "looking"
    /\ \/ /\ AnyEvent(n)
          /\ queue' = [queue EXCEPT ![n] = @ - 1]
          /\ runner' = [runner EXCEPT ![n][t].at = "due"]
       \/ /\ ~AnyEvent(n)
          /\ runner' = [runner EXCEPT ![n][t] = Ended]
          /\ UNCHANGED queue
    /\ UNCHANGED <<counters, test, heard, setupDone, attempts, asked,
                   requested, faults>>

\* Mutant: the packet after the last is sent, too.
OneMore(n) == TEST_CURRENT_N_PACKETS[n] <= TEST_N_PACKETS[n]

\* TEST_CURRENT_N_PACKETS < TEST_N_PACKETS
MoreToSend(n) == TEST_CURRENT_N_PACKETS[n] < TEST_N_PACKETS[n]

\* sendBroadCastDataSchedFun up to the sending, an attempt: nothing leaves when
\* no device is set up, or when the radio raises what sendBroadCastData catches,
\* but its answer is not looked at.  What else is raised ends the thread, and
\* the chain with it.
SendPacket(n, t) ==
    /\ runner[n][t].at = "due"
    /\ \/ /\ ~MoreToSend(n)
          /\ runner' = [runner EXCEPT ![n][t] = Looking]
          /\ UNCHANGED <<attempts, faults>>
       \/ /\ MoreToSend(n)
          /\ attempts' = [attempts EXCEPT ![n] = @ + 1]
          /\ \/ /\ runner' = [runner EXCEPT ![n][t].at = "sent"]
                /\ UNCHANGED faults
             \/ /\ setupDone[n]
                /\ faults < MaxFaults
                /\ faults' = faults + 1
                /\ runner' = [runner EXCEPT ![n][t] = Ended]
    /\ UNCHANGED <<counters, queue, test, heard, setupDone, asked, requested>>

\* Its last lines: the counter is read, ...
ReadCounter(n, t) ==
    /\ runner[n][t].at = "sent"
    /\ runner' = [runner EXCEPT ![n][t] =
                     [at |-> "counting", count |-> TEST_CURRENT_N_PACKETS[n]]]
    /\ UNCHANGED <<counters, queue, test, heard, setupDone, attempts, asked,
                   requested, faults>>

\* ... written, and the next event is entered.
CountPacket(n, t) ==
    /\ runner[n][t].at = "counting"
    /\ TEST_CURRENT_N_PACKETS' =
          [TEST_CURRENT_N_PACKETS EXCEPT ![n] = runner[n][t].count + 1]
    /\ queue' = [queue EXCEPT ![n] = @ + 1]
    /\ runner' = [runner EXCEPT ![n][t] = Looking]
    /\ UNCHANGED <<TEST_N_PACKETS, test, heard, setupDone, attempts, asked,
                   requested, faults>>

-----------------------------------------------------------------------------
TestStep(n, origin) ==
    \/ SetCount(n, origin) \/ ResetCounter(n, origin) \/ Announce(n, origin)
    \/ EnterFirst(n, origin) \/ StartRunner(n, origin)

RunnerStep(n, t) ==
    TakeEvent(n, t) \/ SendPacket(n, t) \/ ReadCounter(n, t) \/ CountPacket(n, t)

Next ==
    \E n \in Nodes :
        \/ Setup(n) \/ RequestTest(n) \/ HearTest(n)
        \/ \E origin \in Origins : TestStep(n, origin)
        \/ \E t \in Runners : RunnerStep(n, t)

\* Threads run on, and what is received is handled; nobody has to ask for a
\* test or a set-up, and nothing has to fail.
Fairness ==
    \A n \in Nodes :
        /\ WF_vars(HearTest(n))
        /\ \A origin \in Origins : WF_vars(TestStep(n, origin))
        /\ \A t \in Runners : WF_vars(RunnerStep(n, t))

Spec == Init /\ [][Next]_vars

FairSpec == Spec /\ Fairness

-----------------------------------------------------------------------------
RunnerRec == [at : {"none", "looking", "due", "sent", "counting", "ended"}, count : Nat]

TestRec == [at : {"idle", "count", "reset", "announce", "enter", "start"},
            n : Nat, to_mesh : BOOLEAN]

\* Every variable has its type.
TypeOK ==
    /\ TEST_N_PACKETS \in [Nodes -> Nat]
    /\ TEST_CURRENT_N_PACKETS \in [Nodes -> Nat]
    /\ queue \in [Nodes -> Nat]
    /\ runner \in [Nodes -> [Runners -> RunnerRec]]
    /\ test \in [Nodes -> [Origins -> TestRec]]
    /\ heard \in [Nodes -> Seq(Nat)]
    /\ setupDone \in [Nodes -> BOOLEAN]
    /\ attempts \in [Nodes -> Nat]
    /\ asked \in [Nodes -> Seq(Nat)]
    /\ requested \in [Nodes -> Nat]
    /\ faults \in 0 .. MaxFaults

\* Threads of n looking at the queue, and calls about to start one.
LookingAt(n) == {t \in Runners : runner[n][t].at = "looking"}
Starting(n) == {o \in Origins : test[n][o].at = "start"}

\* However tests overlap and whatever raises, a waiting event has a thread of
\* its own that will look for it: no thread returns before its time, and none
\* that dies leaves an event behind.
EventsHaveThreads ==
    \A n \in Nodes :
        queue[n] <= Cardinality(LookingAt(n)) + Cardinality(Starting(n))

\* Nothing of a test is left on n.
Quiet(n) ==
    /\ queue[n] = 0
    /\ heard[n] = <<>>
    /\ \A o \in Origins : test[n][o].at = "idle"
    /\ \A t \in Runners : runner[n][t].at \in {"none", "ended"}

\* A test that is the only one of its node tries to send as many packets as it
\* was asked for, no more, and not fewer unless a sending raised what is not
\* caught: each attempt counts, whether or not a packet left the device, and
\* none is made up for.
SoloTestExact ==
    \A n \in Nodes : Len(asked[n]) = 1 =>
        /\ attempts[n] <= asked[n][1]
        /\ Quiet(n) /\ faults = 0 => attempts[n] = asked[n][1]

\* A test for the mesh is run once by each node that hears of it: those who
\* hear do not announce it again.
SpreadsOnce ==
    \A n \in Nodes : Len(asked[n]) <= SumFunction(requested)

\* Tests end: overlapping chains lose counts to each other and send more than
\* was asked for, but each of them stops, and all its threads with it.
TestsEnd == <>[](\A n \in Nodes : Quiet(n))
=============================================================================
