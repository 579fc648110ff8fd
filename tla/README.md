# Uhura in TLA+

This directory models Uhura, the framework for message exchange in swarms of robots with several radios, in TLA+.
TLC checks the models on small instances, and TLAPS proves some of the results for all instances.
Paths below are relative to the repository; `src/...` is its source directory.

## 1. The system

A **node** (a drone, a base station) runs a *core* and some *adapters*, one for each communication technology.
They talk over a NATS server of the node.
Applications publish on `<core>.sendMessage.binary` (or `.text`) and listen to `<core>.receivedMessage.binary` (or `.text`).
The core chooses an adapter and publishes the message on `<core>.<id>.sendMessage`.
The adapter forwards it to its network, `adaptersNetwork`, which all adapters of that network hear.
The ones of other nodes publish it on `<core>.receivedMessageAdapter`, and their cores hand it to the applications.
Heartbeats and pings of the core travel the same way.

| Component | Source | State | Operations |
|---|---|---|---|
| Core | `src/nats/core/index.js`, `src/lib/core/uhuraCore.js` | link tables per adapter type, heartbeat counter | the handlers of five subscriptions, a timer |
| Adapter registry | `src/lib/core/adapters_registry` | id counter, list of adapters | `registerAdapter`; `unregisterAdapter` is a stub |
| Link table | `src/lib/common/linkTable.js` | the last frames of each sender | `addFrame`, `update` (the packet delivery ratio, pdr), `updateAll` |
| Direct adapter | `src/nats/adapters/direct` | its registration | register, forward both ways |
| Zenoh adapter | `src/nats/adapters/zenoh` | its registration | register, forward both ways |
| supervisord | `src/supervisord.conf` | the processes | starts them, and starts them again when they exit |
| XBee node | `src/ros/adapters/xbee/scripts` | device, message counter, state of the network test | ROS services, callback for received data |
| CycloneDDS bridge | `src/nats/adapters/cycloneDDS` | its registration, what its reader holds | register, write what the core sends to DDS, poll DDS and publish what comes |
| Gateway | `src/nats/packages/gateway` | none but its two subscriptions | pass the calls of its node on to all others, and those of the others to the node's services |
| BLE mesh, IPseSh | `src/lib/adapters`, `src/nats/adapters/blesh`, `src/ros/adapters/blesh` | device, link table, a link test | start, heartbeat, received data |
| Protobuf code | `src/nats/packages/gateway/src/common/protos` and others | none | encode and decode |
| Others | router and message stubs, logging, examples | none of interest | |

**Interaction.** Core and adapters share no memory.
All is NATS messages, of which those to a subject nobody is subscribed to are lost.
An adapter learns its id from the reply to one request, at the start of its life.
The core learns of an adapter from that request only, and forgets it with its process.
The gateway is a client of the core: its calls and everybody's binary messages share the subjects `sendMessage.binary` and `receivedMessage.binary`.
The BLE mesh and IPseSh adapters are libraries and a ROS node; they drive a radio themselves and do not register with a core.
The DDS bridge registers like the other adapters.
The XBee node is one Python process; its service threads, the callback thread of the XBee library and the threads of the network test share module globals.

**What is hard.**

- Core and adapters crash and restart independently, and neither looks whether the other did.
- A registration request may be answered too late, or its answer may be lost.
- The registry keeps entries of adapters that are gone, and the choice of a link looks at types, not at processes.
- Everything is broadcast, the answers to pings included.
- The threads of the XBee node use a counter, a device and a scheduler without locks.
- Messages that carry no type: the gateway finds out what it got by trying one decoder after the other.
- One event loop per process, and an exception in one handler that may end all of them: in the gateway, in the BLE mesh adapter, in the DDS bridge.
- Timers that are never cleared, and variables of a handler they read later.
- Numbers at their edges: counters that start at 0, windows of frames, a 16 bit id in a payload of bits.

**What makes the components correct.**

- *Registry and registration:* ids of one core run are distinct and belong to whom the registry says; every type has its link table; entries without a process come from faults only; everybody gets through in the end.
- *Core and adapters:* a message reaches other nodes only, at most once, in order per adapter; it does reach the nodes that the entry it is routed by reaches; so do the answers to pings, and answers are not answered; a message leaves by the adapter it was meant for.
- *Link table:* it keeps the newest frames; a silent link decays; a full link has 100.
- *XBee node:* messages are numbered in order; set-up leaves one open device with one callback; tests end, make as many attempts as asked for, and spread once; a receiver gets the id and the data that were sent, and the right handler gets them.
- *Gateway:* a call is performed where it was asked for, once, with what was asked; a message that is no call does no harm, and no call that arrives is forgotten.
- *BLE mesh:* a link test is sent once, to a drone, to its end; the link table counts what the application hears of.
- *DDS bridge:* nothing is forwarded twice or out of order.

## 2. The modules

| Module | Models | Remarks |
|---|---|---|
| `AdapterRegistration` | registry, start-up and failure of cores and adapters | |
| `SwarmBroadcast` | what a swarm promises: a best-effort broadcast | abstract |
| `UhuraSwarm` | the data path: clients, cores, adapters, networks | extends `AdapterRegistration`; implements `SwarmBroadcast` |
| `LinkTable` | one link table and the clock | |
| `ProcedureCodec` | the generated classes of procedure calls: constructors, encoders, decoders | no state |
| `Gateway` | gateways, their clients and services | extends `ProcedureCodec`; its network is an instance of `SwarmBroadcast` |
| `BleshMesh` | BLE mesh adapters of both kinds, and IPseSh adapters | |
| `DdsBridge` | CycloneDDS bridges on one topic | |
| `XbeeNode` | services and set-up of the XBee node | |
| `MeshTest` | its network test, over several nodes | |
| `XbeePayload` | its payloads and bit conversions | |
| `SequenceLemmas` | lemmas on queues, natural numbers and sums | no state |
| `UhuraSwarmProofs`, `GatewayProofs`, `DdsBridgeProofs`, `LinkTableProofs`, `XbeeNodeProofs`, `MeshTestProofs`, `BleshMeshProofs` | theorems about the module of that name | each extends it and `SequenceLemmas`; `UhuraSwarmProofs` begins with those about `AdapterRegistration`, `GatewayProofs` with those about `ProcedureCodec`, and `XbeeNodeProofs` ends with those about `XbeePayload`, which it extends as well |
| `MC...` | instances for TLC | |

### AdapterRegistration

`adapter_list`, `progressiveId` and `linkTables` are the variables of the code, one of each per core.
`requests` is the queue of the core's subscription `<core>.registerAdapter`.
`phase` says where an adapter is in its start-up.
The adapter is `booting` before its request (`setTimeout`, or the connection to zenoh), `waiting` for the reply, and `serving` once it is subscribed.
`assigned` is the reply, at the adapter or on its way to it.

`CoreRegister` is the whole callback: id, entry, reply, link table.
It runs without an await, so it is one step.
A core that dies (`CoreCrash`) loses all its state.
Its replies that were not delivered yet may be lost too.
An adapter that dies or gives up leaves its request in the core's queue, and the core will enter it in the registry all the same.
A reply is for one request: each request has its own inbox in NATS (`requestNo`, `Awaited`).

Ghosts and histories, which no step depends on, are `coreRun` (except in its bound), the fields `adapter` and `req` of a registry entry, and the field `run` of a registration.

### UhuraSwarm

Each NATS subscription is a queue: of a core per client topic (`sendQ`) and for received messages (`recvQ`), of an adapter for its core (`subQ`) and its network (`netQ`).
A message keeps its kind (heartbeat, ping, pong, text, binary), sender, adapter id, and number; `link` is `source.type`.
`Chosen` is the choice of the adapter in the `sendMessage.binary` handler.
The best type is that of the last link table with the greatest pdr, and the adapter is the first entry of that type.
The core's only call of `addFrame` is commented out (`src/nats/core/index.js:290`), so tables are empty and every pdr is 0 (`pdr`).
`CoreDrop` is what the handlers of `sendMessage` and `sendMessage.text` do: a comparison that never holds makes them drop the message.
`CoreReceive` is the handler of `receivedMessageAdapter`, and `CoreBeat` the timer.

A message can be lost although every adapter serves, and the two delivery properties say just when (`Reaches`, `Decisive`).
The entry of an adapter that is gone stays in the registry, before that of its successor, and the core takes the first entry of a type.
A pong goes by the first entry of the type its ping came in on.
The type itself is that of the table made last, whether or not the receiver has an adapter of it.
`ReliableDelivery` and `PingsAnswered` promise that nothing else is lost: if a living adapter listens under the id of that entry, and the other node has an adapter on its network, the message arrives.

The direct adapter hears its network from its start; the zenoh adapter only after its registration (`Hears`, `DirectAdapters`).
A network in `LossyNets` may lose a message for any of its receivers.

`SwarmBroadcast` has a step `Route` (a core hands a message to an adapter), a step `Deliver` (a node receives it) and nothing else.
The mapping is the identity on the histories `routed` and `received`.
Its conditions say that a message is delivered to other nodes, at most once, and never after a later one of the same adapter.

### LinkTable

A frame keeps its timestamp and cadence.
`addFrame` is one step, and `now` is the clock the pdr is computed with.
`Offsets` are the differences between the clocks of sender and receiver, since a heartbeat carries the sender's time.
`arrivals` is a history.
`updateAll` is the mean of the pdrs of all senders with an entry, and nothing removes one.
The code divides floats, so nothing is rounded down here: a pdr is a whole number of `1 / TEN_SECONDS` per cent (`FullPdr` are 100 per cent), and the mean is a fraction, `updateAll.of / updateAll.by`.
A table made without a length has `MaxFrames = Undefined` and never drops a frame: `x >= undefined` is false.

### XbeeNode

rospy serves every connection in a thread of its own.
A step goes from one access of a shared global to the next, so the two lines of `generate_next_message_id` are two steps, and `setup` is up to seven for each port.
`setup` asks three times whether there is a port, and another set-up may bind one in between; so it may do nothing and still find a device at the end (`StartSetup`, `SearchPorts`, `FinishSetup`).
`device` is the global; `devices` are the objects made, for a set-up may make several, and another thread may use the one it has just replaced.
Ports that are no XBee devices, and transmissions that fail, are choices.
The branches for a simulation are there too.
`overlapped` is a history that tells whether two calls were ever served at a time.
Without overlapping the properties are stronger.

### MeshTest

`queue` is the number of events in the one scheduler of a node, and `runner` its threads.
A thread looks at the queue, takes an event, sends, reads the counter, and writes it and enters the next event.
`test` holds the calls of `network_test` in progress, which may be one for each connection to the service and one of the callback for received data.
Calls that overlap share the globals: an announcement is made of what `TEST_N_PACKETS` is by then.

What is counted are attempts (`attempts`).
`sendBroadCastData` sends nothing while no device is set up (`setupDone`, `Setup`) and catches what the radio raises when a transmission fails.
Its answer is not looked at, so such a packet is counted like one that left the device.
Only an exception it does not catch ends a test early (`faults`).
Delays are left out: an event may be due at any time.

### XbeePayload

A message with an id is made bits, bytes, and bits again.
The conversions are definitions over sequences of bits, with the width of 16 bits of the code.
After that the receiver takes the bytes behind the id for a text, and its first word for the type of the message (`parse_message`, `handle_type_message`).
`stage` is what happens next: the sending handler, or the receiving callback.
`handled` is who gets it and the words it is given; `Raises` stands for an exception, of too few words or of a type nobody knows.
The packets of a network test have no type, so the handler for packets never gets one, and each of them raises.

### ProcedureCodec

A message is a function from its own properties to their values.
What it lacks is read from the prototype (`Read`).
On the wire it is a sequence of tokens, a field number and a body each.
The decoders switch on `tag >>> 3` and never look at the wire type, so a nested message can be read as a string (`Text`) and the procedure of a response as the receiver of a request.
Nothing depends on the bytes inside a token.

### Gateway

`calls` and `incoming` are the queues of the gateway's two subscriptions; they are lost when the process ends.
`TakeCall` and `TakeMessage` are the bodies of the two loops, with all functions they call.
A payload is a sequence of tokens, or one of another application (`Foreign`): then it is only known which decoders throw.
If both throw, `procedureType` stays undefined, and reading a property of it ends the process (`EndsGateway`).
supervisord does not start the gateway, so nothing starts it again.

The messages between the nodes are those of `SwarmBroadcast`: a core may drop a message, and each other node gets it at most once.
`UhuraSwarm` implements that module, so what holds of `Gateway` holds over the detailed swarm.
`Serve` is the loop of `src/nats/packages/gateway/examples/service.ts`, the only service in the repository; `ClientCall` is `caller.ts`.

Three things the model shows:

- A response is decoded as a request without a procedure, and dropped.
  So the branch for responses, and `handleProcedureRes`, are never reached for what `ProcedureRes` encodes.
- A call to all nodes whose name contains `broadcast` is published under the name of each node, but the message keeps the name with `broadcast` in it.
  The example service compares that with its own, so it never performs such a call.
- A node's calls to itself go nowhere, since cores ignore their own messages.

### BleshMesh

A process is a library adapter, a ROS node, or an IPseSh adapter.
A message is known by its sender and its place in `sent`, and may be heard by whom it reaches, late, out of order, or never.
`handleDataReceived` is the whole handler: the drone's address, the start of the test, the frame, the event.

The handler uses `messageInfo`, which comes from a package outside the repository, as a text (`split`) and as an object (`sender`, `cadence`).
It cannot be both, so one of the two raises an exception.
The variable `info`, which never changes, says which, and TLC tries both.
Whether the exception ends the process depends on that package too, and is left open.

`TestTimer` is the timer of a link test.
It reads `droneAddress` when it fires, so a test goes on with the drone heard last.
The question whether it is done is asked right after it is set, and never again; it counts down to 0 and then does nothing.

### DdsBridge

`loop` is where the main loop is: in its poll, which blocks the process for a second at a time, at a publication, or asleep.
Handlers of NATS messages run in the last two only.
A DDS reader holds `Depth` samples; newer ones replace older ones that were not taken.
The subject a bridge publishes on is not one the core listens to (`Subject`, `CoreSubjects`), and binary content is lost on the way to DDS (`Content`).
A failed registration ends the process: the `except` clause names a module that was not imported (`AfterFailure`).

## 3. What TLC checks

All runs leave deadlock unchecked: each bounded instance stops when its bounds are reached.

| Run | Instance | Shows |
|---|---|---|
| `Reg_restarts` | one node, three adapters of two types, two core runs, one adapter fault; 47 041 states | types; `TablesMatch`, `IssuedByRegistry`, `DistinctIds`, `GhostsBounded`; under fairness `EventuallyServing` and `EventuallyRegistered` |
| `Swarm_broadcast` | two nodes, three adapters, two networks of which one is lossy, one fault, three messages; 200 520 states | types; `ByItsLink`; `UhuraSwarm` implements `SwarmBroadcast` |
| `Swarm_delivery` | two nodes, three adapters of two types, no loss, one fault, a message on one of two topics, a heartbeat; 36 861 states | under fairness `ReliableDelivery`, `PingsAnswered`, `EventuallyQuiet` |
| `Swarm_restarts` | as `Swarm_broadcast`, with two core runs, no loss and one message; 420 996 states | `OnlyOthersMessages` |
| `Link_window` | two senders, heard three times and once, a window of two frames, clocks off by one, ten seconds as four units; 4 431 489 states | `KeepsNewest`, `SilentLinkDecays`, `WindowSuffices`, `FullLink`, `SilentWeighOnMean` |
| `Xbee_calls` | two callers, four calls, two ports, ids modulo 3; 461 196 states | types; `NeverAhead`, `NumberedInOrder`, `ReadyAfterSetup` |
| `Mesh_tests` | two nodes, two tests of one by two connections, of one or two packets, heard by the other, set-ups at any time, one exception; 781 672 states | `EventsHaveThreads`, `SoloTestExact`, `SpreadsOnce`; under fairness `TestsEnd` |
| `Xbee_payload` | all bit strings of up to nine bits, some texts, commands, announcements and packets of tests, seven ids; 22 386 states | `ReceivedShifted`, `SimulationAgrees`, `Dispatched` |
| `Gateway_calls` | three nodes with services, two with clients, calls of seven forms, a response, payloads of other applications; two messages; 198 039 states | types; `RunsWhereAsked`, `ArrivesAsAsked`, `ResponsesPassUnread`; under fairness `CallsServed` |
| `Blesh_mesh` | a base station, two drones, a ROS base and a ROS drone, an IPseSh adapter; two messages, a test of three packets; 400 608 states | `TestPackets`, `FramesMatchEmitted`; under fairness `TestCompletes` |
| `Dds_bridge` | two bridges (symmetric), readers of one sample, two messages each; 572 286 states | `BridgedOnce` |

One run ends in a counterexample, for what the documentation says and the code does not do:

| Run | Property | Counterexample |
|---|---|---|
| `Swarm_text` | `TextDelivery`: text messages arrive (`README.md:17`) | the core drops every text message |

One more thing the models show needs no run of its own.
A core that restarts gives out ids from 1 again, while adapters of its former run, which do not notice, listen under theirs.
So two adapters may forward the same message, and a message meant for one type may leave by another.
This is why `DistinctIds` speaks of ids of the same run, and why `ByItsLink` and the broadcast property are checked with cores that do not restart.
Adapters of a former run still count as serving, so `EventuallyRegistered` is conditional as well.

**Bounds.**
`MaxCoreRuns`, `MaxFaults`, `MaxSends`, `MaxBeats`, `MaxCalls`, `MaxTests`, `MaxHeard` and `MaxTime` bound what may happen from outside.
Two core runs give a restart at any moment, before, between and after registrations.
One fault is enough for a stale request, a stale entry, or a late reply.
Three adapters on a node are enough for a stale, a restarted and an undisturbed one at the same time.
In `Swarm_delivery` that fault leaves a stale entry in front of the living one, the zenoh adapter's table may be the last, and one message and one ping on their way are enough to be lost by either.
Two messages of one node are enough for reordering and duplication, and the message of another for mixing.
A window of two and three arrivals give a full table that drops one frame; the second sender makes the mean differ from the pdr of one.
Ids modulo 3 wrap within four calls.
Two procedure calls are enough for one that is in the way of the other, at the caller's gateway or at the receiver's; three nodes give a call to all two receivers, and a call for one a node that must not perform it.
Two heartbeats are enough for a second drone to be heard while the test of the first goes on, and for one that is heard before a test and one after it; packets of a test do not count.
Two samples of each writer are enough for one to be replaced, repeated or overtaken.

**Fairness.**
supervisord restarts what exits (`autorestart=true`), so starts are weakly fair.
An event loop handles what is queued, so handlers are weakly fair, and so is the timer for its bounded number of beats.
A request whose answer is lost ends by its timeout.
Nothing that fails, and nothing a client asks for, is fair.
In `MeshTest` threads go on, and announcements that are received are handled.
In `Gateway` the loops of gateways and services take what is queued; that a call arrives at all is not assumed, so `CallsServed` speaks of those that did.
In `BleshMesh` a timer that is set fires again and again; the radio may lose everything.
`DdsBridge` has no fairness: a poll ends only once nothing has come for a second, which a busy topic need not grant, and a bound on the messages would hide that.
supervisord gives up on a program that exits too often at its start (`startretries`); the fairness assumes it does not.

## 4. What is proved

The theorems hold for every value of the constants that meets the assumptions of the modules.
These are about the constants' sorts (each adapter has a node and a type, bounds are natural numbers), and that sets which the code counts are finite.
Each proof is by an inductive invariant: it holds at the start, every action of `Next` keeps it, and it implies the property.
TLC has checked each invariant on the run of its module as well.

| Module | Theorem | Property | Further hypotheses |
|---|---|---|---|
| `UhuraSwarmProofs` | `TypeCorrect`, `InvCorrect`, `TablesMatchCorrect`, `IssuedByRegistryCorrect`, `DistinctIdsCorrect`, `GhostsBoundedCorrect` | `TypeOK`, `TablesMatch`, `IssuedByRegistry`, `DistinctIds`, `GhostsBounded` | |
| | `SwarmRegisters` | the swarm implements `AdapterRegistration` | |
| | `SwarmTypeCorrect`, `OnlyOthersMessagesCorrect` | `SwarmTypeOK`, `OnlyOthersMessages` | |
| | `ByItsLinkCorrect` | `ByItsLink` | no core crashes (`[]CoresStay`) |
| | `IsBroadcastCorrect` | `IsBroadcast`: the swarm implements `SwarmBroadcast` | no core crashes; `OneAdapterPerNet` |
| | `OneRunIsBroadcast` | both of these | `MaxCoreRuns = 1`; `OneAdapterPerNet` |
| `GatewayProofs` | `TypeCorrect`, `RunsWhereAskedCorrect`, `ArrivesAsAskedCorrect`, `ResponsesPassUnreadCorrect` | `TypeOK`, `RunsWhereAsked`, `ArrivesAsAsked`, `ResponsesPassUnread` | |
| `DdsBridgeProofs` | `BridgedOnceCorrect` | `BridgedOnce` | |
| `LinkTableProofs` | `KeepsNewestCorrect`, `SilentLinkDecaysCorrect`, `WindowSufficesCorrect`, `FullLinkCorrect`, `SilentWeighOnMeanCorrect` | `KeepsNewest`, `SilentLinkDecays`, `WindowSuffices`, `FullLink`, `SilentWeighOnMean` | |
| `XbeeNodeProofs` | `TypeCorrect`, `NeverAheadCorrect`, `NumberedInOrderCorrect`, `ReadyAfterSetupCorrect` | `TypeOK`, `NeverAhead`, `NumberedInOrder`, `ReadyAfterSetup` | |
| | `ReceivedShiftedCorrect`, `SimulationAgreesCorrect` | `ReceivedShifted`, `SimulationAgrees` (of `XbeePayload`) | |
| `MeshTestProofs` | `TypeCorrect`, `EventsHaveThreadsCorrect`, `SoloTestExactCorrect`, `SpreadsOnceCorrect` | `TypeOK`, `EventsHaveThreads`, `SoloTestExact`, `SpreadsOnce` | |
| `BleshMeshProofs` | `TestPacketsCorrect`, `FramesMatchEmittedCorrect` | `TestPackets`, `FramesMatchEmitted` | |

**Registration.**
The properties of the registry are not inductive by themselves.
`Inv` adds three parts.

- `IdsCountUp`: the counter is the length of the registry's list, and the id of an entry is its place in it.
  So a new id differs from all in the list.
- `Provenance`: the queue and the registry of a core hold its own adapters only, and no adapter holds a registration of a later run than the current one.
  So after a restart nobody holds an id of the new run until the new core has given it out.
- `UnregisteredUntilWaiting`: an adapter that has not made its request holds no registration.
  So the one it holds is the answer to its last request, as `IssuedByRegistry` says.

`GhostsBounded` is a count, and needs another one, `CountInv`.
`Accounted` says that entries and requests are at most the adapters with a current request and the faults so far.
A fault turns such an adapter into one without, and leaves its request or entry behind.

**Swarm.**
`SwarmRegisters` is the refinement proof that the data path never disturbs the registration, so all of the above holds of the swarm.
`Genuine` says that whatever waits in a queue was routed by its sender's core, and that no core has its own messages before it.
`Addressed`, for cores that stay, says that the entry under a message's id is the adapter it waits at, or one on the network it travels on.
For the refinement of `SwarmBroadcast` the order of messages is followed along their whole way:
`Numbered` (increasing at a client's topics and behind what was routed), `QueuesSorted` (each queue is in order for each adapter), and a part for every pair of stations that says the later one is ahead of the earlier one (`AheadOfAdapters` and those after it).
`IsBroadcastCorrect` then maps each action to `Route`, `Deliver` or a stutter.

Both hypotheses are needed.
With a core that restarts, ids are given out again, and section 3 says what goes wrong.
With two adapters of one node on one network, both hear every message and the node receives it twice.
`src/supervisord.conf` starts one direct and one zenoh adapter for each node, which hear different networks.
`OneRunIsBroadcast` shows that the first one is met by every instance whose cores are started once.

**Gateway.**
There are two parts: what the codec gives back, and where a call may be.

*The codec.*
A message is encoded as one group of tokens for each field, in order.
A group has tokens of its own field only, so reading a field of the whole finds the last token of that group (`PartAdded`, `FourParts`, `SixParts`).
A group of a string gives the string, one of a map the map (`MapRoundTrip`), one of a procedure the procedure (`ProcedureRoundTrip`), and a group that is empty the default.
So `ReqRoundTrip`: what was decoded once is encoded and decoded again without a change.
A client's own object may still change the first time: a property that is `null` is left out.
That is why the gateway's second encoding can be compared with what a service would have read of the first, as `ArrivesAsAsked` does (`PassedRead`).
`ResponseRead` is the opposite case, bytes of one class read as another: the procedure of a response is in field 1, where a request has a string.

*The calls.*
The inductive invariant `IInv` follows a call from its client to the services.

- `Sending`: a call waits at the caller's gateway or was sent, never both, and a message carries what was asked, signed by the caller if it is a request.
- `Arrived`: a node has received, and a gateway was handed, only what another node sent.
- `InOnePlace`: a message a gateway was handed waits at the gateway, or at a service, or was performed, and all those are different.
  That a message arrives at most once is the promise of `SwarmBroadcast`; a step that takes a message out of a queue keeps this only if it was not there twice.
- `Waiting` and `Performed`: what is at a service, or performed there, is a request for that node and that name.
- `Bounded` and `Types`: the bound on messages, and that a gateway that is not up has no queues.

Three assumptions on the constants say what JavaScript gives.
`ObjectsAssumption`: an object has finitely many keys, and responses name a procedure.
`NullAssumption`: `null` is no map and no decoded procedure.
`GatewayAssumption`: there are finitely many nodes, so that published messages can be counted.

**DDS bridge.**
What a bridge published, the samples it has taken, and those its reader holds are, in this order, one sequence in which each writer's samples increase (`ReadInOrder`).
None of them is as young as what waits at its writer (`WrittenBefore`), and only a bridge that serves holds any.

**Link table.**
`LinkInv` says that the frames kept are the newest ones that came (`KeepsNewest`) and that arrivals are in the order of time, stamped with the receiver's clock up to what the sender's is off (`Timely`).
The properties of the pdr follow by arithmetic: frames within ten seconds are those of a final part of the arrivals, a window large enough drops none of them, and multiples of a cadence lie a cadence apart.
`SilentWeighOnMean` is about a fold.
That its recursion has a solution, that the sum is at most a full pdr for each sender with a recent frame and at least the pdr of each one, are inductions over the size of the set; they use `SetInduction`, which follows from the well-foundedness of `<`.
The mean is 0 exactly when the sum is, since a pdr with a recent frame is not 0 (`PdrBounds`); `SendersAssumption`, that there are finitely many senders, is all it needs.

**XBee node.**
`NodeInv` says of a handler at each of its steps what it knows of the globals.
A handler that is about to use `device` finds one (`DevicesKnown`).
What a handler has read of the counter counts answers already given, so the counter stays behind them however handlers interleave (`CountersBehind`).
As long as no two calls have overlapped, one handler is at work at a time (`OneAtATime`); the counter is then the number of transmissions, but for one made and not yet counted (`Numbered`), and a set-up is on its way to one open device with one callback (`SettingUp`).

*Payloads.*
The steps are few, and `PayloadInv` only says what is on the air; the work is in the conversions.
`ValueOf` gives `bitstring_to_int` its recursion, so eight bits are the bits of the byte they make (`ByteOfBits`), and bits made bytes and read again get zeros in front up to whole bytes (`WholeBytes`, `BitsThere`).
Behind `z` zeros, the first 16 bits are those of the id without its last `z`, which is the id divided by 2^`z` (`ShiftedId`, by induction over the places); the bits that are left come out in front of the data (`ReadBits`).
They are zeros just when 2^`z` divides the id (`SameAsZeros`).
`PayloadAssumption` bounds ids by 16 bits, and commands by `MaxNumber` (2^30 - 1): TLC's integers have 32 bits, and `BitLength` counts the bits of numbers up to there.
Bit strings, texts and packets may have any length.

**Network test.**
`EventsHaveThreads` is inductive together with `TypeOK`.
The proof counts: `EnterFirst` adds an event and a call that will start a thread, `StartRunner` makes the thread of the call, `CountPacket` adds an event and looks for it itself.
A thread stops looking only when it takes an event or finds none.

For `SoloTestExact`, `Solo` says how far a node's only test is: nothing asked, still in `network_test`, a chain in its only thread that is ahead of the counter by what it knows of it, or ended by an exception.

For `SpreadsOnce`, `SpreadInv` bounds the tests a node was given, those it has heard of, and the service calls elsewhere that are still to be announced by the requests of all clients.
An announcement turns one of the third into at most one of the second, and what was heard is not announced again (`HeardStay`).
The sum over all nodes grows by one with each request (`SumIncrement`).

**BLE mesh.**
`OneTest` says that `droneAddress` is the drone of the last announcement heard, and that what the timer has yet to send and what it has sent make up one test.
`Genuine` says that what is heard was sent, and that a heartbeat shows its sender's kind of adapter.
So a packet goes to an adapter of the same kind, and frames and emitted heartbeats are the same ones.

**Model-checked only.**

- Liveness: `EventuallyServing`, `EventuallyRegistered`, `ReliableDelivery`, `PingsAnswered`, `EventuallyQuiet`, `TestsEnd`, `CallsServed`, `TestCompletes`.
  Fairness needs ENABLED, which the provers cannot reach.
- `Dispatched` of `XbeePayload`: it says what folds over the bytes of a text make of it, which the provers cannot follow for texts of any length, and it depends on what the words of the instance are.
- What no theorem could say: `TextDelivery`, which does not hold.

## 5. Assumptions and what is left out

- The NATS server of a node is up all the time, delivers a subscription's messages in order, and knows at once who is subscribed.
- A node has at most one adapter on a network where a message must be received at most once.
  With two, each hears the message.
- Payloads, texts of logs, rssi and headers are left out.
  In `UhuraSwarm`, `AdapterRegistration` and `DdsBridge` protobuf encoding is the identity on what is kept; for procedure calls it is modelled in `ProcedureCodec`.
- `danfojs` and `mathjs` do what their documentation says of `append`, `drop`, `gt` and `loc`.
- The Python scheduler and rospy's threads are modelled from how the node uses them.
- The reaction of the XBee library to an exception in the callback for received data is not modelled.
- Bytes above ASCII are in no text message of `XbeePayload`; they would stay or be left out by `decode(errors='ignore')`.
- Two open devices on one serial port compete for what is received; that is left out.
- supervisord's priorities, retries and the containers are left out.
- The gateway learns of services from a package that is not in the repository (`uhura-discovery`); which procedures a node provides is a constant.
- A gateway that has ended, a DDS bridge and the mesh adapters are not restarted: supervisord has no entry for them.
- Frames that raised an exception after a change of state: JavaScript has no rollback, so the address and the test of `handleDataReceived` stay.
- DDS may lose any sample for any reader; its quality of service is not set by the code, and of its history only `Depth` is kept.
- Two library adapters on one radio, and the delays of timers, are left out: a timer may fire at any time.
- Not modelled, because nothing calls them: `src/lib/core/router.js`, `src/lib/core/uhura_message.js`, `src/nats/core/compiled.js`, `src/nats/client/messages.js`, and of `generated.js` all but constructors, encoders and decoders of the three classes.
- Not modelled, because they only write or print: `toolManager.js`, the logging of `tool_manager.py`, `listener.py`, `serial_ports.py`, `talker.js`, `listener.js`.
- Not modelled, because they only connect what is modelled elsewhere: `nats_adapter.js` and `test.js` of the BLE mesh, `src/nats/adapters/ipsesh/index.js`, the receiving example.
