----------------------------- MODULE DdsBridge -----------------------------
(***************************************************************************)
(* The CycloneDDS adapter (src/nats/adapters/cycloneDDS/src/main.py): on   *)
(* each node a process that registers with the core, writes what the core  *)
(* gives it to a DDS topic and publishes what it reads there.              *)
(*                                                                         *)
(* Its main loop polls DDS synchronously, a second at a time, so what      *)
(* comes over NATS is handled only while the loop is at one of its awaits. *)
(* All writers and readers share one topic, and a bridge's own reader is   *)
(* among them.  A reader keeps few samples (one, if the defaults are those *)
(* of the DDS standard): newer ones replace those not taken yet.           *)
(***************************************************************************)
EXTENDS Naturals, Sequences, SequencesExt

CONSTANTS
    Nodes,       \* the cores, by their id, with a bridge each
    Depth,       \* bound: samples a reader keeps
    MaxMessages  \* bound: messages of a core for its bridge

ASSUME DdsAssumption == Depth \in Nat \ {0} /\ MaxMessages \in Nat

VARIABLES
    bridge,      \* is it down, registering, serving, or ended by an exception?
    registered,  \* does the core's registry have it?
    handed,      \* what the core has published for it: kinds of content
    pending,     \* its queue of <core>.<id>.sendMessage: places in handed
    loop,        \* where listen_and_forward is: "poll", "forward" or "sleep"
    cache,       \* samples its reader holds
    samples,     \* samples taken, to be forwarded
    published    \* history: what it has published over NATS

vars == <<bridge, registered, handed, pending, loop, cache, samples, published>>

\* What a core listens to, as far as adapters publish there.
CoreSubjects == {"registerAdapter", "receivedMessageAdapter"}

-----------------------------------------------------------------------------
\* message.text: the empty string of a request whose content is binary.
Content(kind) == IF kind = "text" THEN "text" ELSE "empty"

\* SendMessageDDS, by its writer and its place there.
Sample(writer, i) == [writer |-> writer, num |-> i,
                      content |-> Content(handed[writer][i])]

Init ==
    /\ bridge = [n \in Nodes |-> "down"]
    /\ registered = [n \in Nodes |-> FALSE]
    /\ handed = [n \in Nodes |-> <<>>]
    /\ pending = [n \in Nodes |-> <<>>]
    /\ loop = [n \in Nodes |-> "poll"]
    /\ cache = [n \in Nodes |-> <<>>]
    /\ samples = [n \in Nodes |-> <<>>]
    /\ published = [n \in Nodes |-> <<>>]

\* main: connect, and the request on <core>.registerAdapter.
Request(n) ==
    /\ bridge[n] = "down"
    /\ bridge' = [bridge EXCEPT ![n] = "registering"]
    /\ UNCHANGED <<registered, handed, pending, loop, cache, samples, published>>

\* The core enters the adapter, and replies.
CoreRegister(n) ==
    /\ bridge[n] = "registering"
    /\ ~registered[n]
    /\ registered' = [registered EXCEPT ![n] = TRUE]
    /\ UNCHANGED <<bridge, handed, pending, loop, cache, samples, published>>

\* The reply: set_adapter, listen_on_nats_topic, and the reader is made.
Accept(n) ==
    /\ bridge[n] = "registering"
    /\ registered[n]
    /\ bridge' = [bridge EXCEPT ![n] = "serving"]
    /\ UNCHANGED <<registered, handed, pending, loop, cache, samples, published>>

\* Mutant: the error is printed, as the clause after it means to, and main goes on.
GoesOn == "serving"

\* The process ends: "except nats.errors..." names what was never imported, and
\* the NameError it raises instead is caught by nobody.
AfterFailure == "ended"

\* No responder, a timeout, also after the core has registered it, or a reply
\* that is none.  Nothing restarts the process.
Fail(n) ==
    /\ bridge[n] = "registering"
    /\ bridge' = [bridge EXCEPT ![n] = AfterFailure]
    /\ UNCHANGED <<registered, handed, pending, loop, cache, samples, published>>

\* The core gives the adapter a heartbeat (text) or an application's message
\* (binary).  If it has not subscribed yet, or has ended, that is lost.
CoreHandsOver(n) ==
    /\ registered[n]
    /\ Len(handed[n]) < MaxMessages
    /\ \E kind \in {"text", "binary"} :
          handed' = [handed EXCEPT ![n] = Append(@, kind)]
    /\ pending' = IF bridge[n] = "serving"
                  THEN [pending EXCEPT ![n] = Append(@, Len(handed'[n]))]
                  ELSE pending
    /\ UNCHANGED <<bridge, registered, loop, cache, samples, published>>

\* A reader that is full drops the oldest of what it holds.
Kept(held, sample) ==
    Append(IF Len(held) = Depth THEN Tail(held) ELSE held, sample)

\* message_handler and forward_to_dds, at an await of the main loop.  Any of
\* the readers may miss the sample.
message_handler(n) ==
    /\ bridge[n] = "serving"
    /\ loop[n] \in {"forward", "sleep"}
    /\ pending[n] # <<>>
    /\ pending' = [pending EXCEPT ![n] = Tail(@)]
    /\ \E readers \in SUBSET {m \in Nodes : bridge[m] = "serving"} :
          cache' = [m \in Nodes |->
                       IF m \in readers THEN Kept(cache[m], Sample(n, Head(pending[n])))
                       ELSE cache[m]]
    /\ UNCHANGED <<bridge, registered, handed, loop, samples, published>>

\* Mutant: the samples are read, and stay.
AfterRead(n) == cache[n]

\* What the reader holds after take.
AfterTake(n) == <<>>

\* take_iter yields what the reader holds, as often as there is more.
Take(n) ==
    /\ bridge[n] = "serving"
    /\ loop[n] = "poll"
    /\ cache[n] # <<>>
    /\ samples' = [samples EXCEPT ![n] = @ \o cache[n]]
    /\ cache' = [cache EXCEPT ![n] = AfterTake(n)]
    /\ UNCHANGED <<bridge, registered, handed, pending, loop, published>>

\* Nothing has come for a second: the list is complete.
EndPoll(n) ==
    /\ bridge[n] = "serving"
    /\ loop[n] = "poll"
    /\ cache[n] = <<>>
    /\ loop' = [loop EXCEPT ![n] = IF samples[n] = <<>> THEN "sleep" ELSE "forward"]
    /\ UNCHANGED <<bridge, registered, handed, pending, cache, samples, published>>

\* Mutant: the subject the other adapters use.
AdapterSubject == "receivedMessageAdapter"

Subject == "receivedMessage"

\* A sample is made a SendMessageRequest and published.
Forward(n) ==
    /\ bridge[n] = "serving"
    /\ loop[n] = "forward"
    /\ samples[n] # <<>>
    /\ published' = [published EXCEPT ![n] =
                        Append(@, [subject |-> Subject, sample |-> Head(samples[n])])]
    /\ samples' = [samples EXCEPT ![n] = Tail(@)]
    /\ loop' = [loop EXCEPT ![n] = IF samples'[n] = <<>> THEN "sleep" ELSE "forward"]
    /\ UNCHANGED <<bridge, registered, handed, pending, cache>>

\* asyncio.sleep is over.
EndSleep(n) ==
    /\ bridge[n] = "serving"
    /\ loop[n] = "sleep"
    /\ loop' = [loop EXCEPT ![n] = "poll"]
    /\ UNCHANGED <<bridge, registered, handed, pending, cache, samples, published>>

Next ==
    \E n \in Nodes :
        \/ Request(n) \/ CoreRegister(n) \/ Accept(n) \/ Fail(n)
        \/ CoreHandsOver(n) \/ message_handler(n) \/ Take(n) \/ EndPoll(n)
        \/ Forward(n) \/ EndSleep(n)

Spec == Init /\ [][Next]_vars

-----------------------------------------------------------------------------
\* All that n has taken off the topic or will take next, in order.
Read(n) ==
    [i \in DOMAIN published[n] |-> published[n][i].sample] \o samples[n] \o cache[n]

\* Whatever readers lose and however polls, awaits and handlers interleave, a
\* bridge forwards each sample at most once, and those of a writer in the order
\* in which their core handed them over.
\* A registration that failed late leaves an entry in the core's registry, but
\* no process that reads or writes for it.  And no core is told of anything:
\* what a bridge publishes goes where no core listens.
BridgedOnce ==
    \A n \in Nodes :
        /\ \A i, j \in DOMAIN Read(n) :
              i < j /\ Read(n)[i].writer = Read(n)[j].writer
                  => Read(n)[i].num < Read(n)[j].num
        /\ \A sample \in ToSet(Read(n)) :
              \A i \in DOMAIN pending[sample.writer] :
                  sample.num < pending[sample.writer][i]
        /\ Read(n) # <<>> => registered[n] /\ bridge[n] = "serving"
        /\ \A p \in ToSet(published[n]) : p.subject \notin CoreSubjects
=============================================================================
