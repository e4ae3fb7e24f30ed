---------------------------- MODULE CaptureSource ----------------------------
(***************************************************************************)
(* FFH264InputSource: the camera source of livertsp.  Three threads:       *)
(*                                                                         *)
(*   "live"  the event loop.  It is called by the downstream consumer (a   *)
(*           StreamReplicator) through FramedSource, and it runs the       *)
(*           handlers of the two event triggers of the source;             *)
(*   "dec"   decodingTask: reads the camera, pushes decodedFrames;         *)
(*   "enc"   encodingTask: pops decodedFrames, pushes encodedPackets.      *)
(*                                                                         *)
(* The workers tell the event loop about a packet, and about an error,     *)
(* with triggerEvent(), whose "fTriggersAwaitingHandling |= id" is not     *)
(* atomic: a load, then a store.  AtomicTriggers = FALSE is the code as it *)
(* is built; AtomicTriggers = TRUE is the code with an atomic word, under  *)
(* which the signalling protocol above the word can be judged by itself.   *)
(*                                                                         *)
(* A frame or packet is the number of the capture that produced it.        *)
(***************************************************************************)
EXTENDS Integers, Sequences

CONSTANTS
    MaxFrames,       \* bound: frames the camera delivers in a behaviour
    MaxStarts,       \* bound: times the capture is started
    NaluSplits,      \* the NALU sizes splitNalu() may find in a packet
    CodecRefuses,    \* may a codec answer EAGAIN to a submission?
    AtomicTriggers   \* is the update of the trigger word atomic?

ASSUME BoundsAssumption == MaxFrames \in Nat /\ MaxStarts \in Nat
ASSUME NaluAssumption   == NaluSplits \subseteq Seq(Nat) /\ NaluSplits # {}
ASSUME ModeAssumption   == CodecRefuses \in BOOLEAN /\ AtomicTriggers \in BOOLEAN

Workers  == {"dec", "enc"}
Threads  == Workers \cup {"live"}
Triggers == {"selfDestruct", "frameNotify"}

VARIABLES
    live,            \* where the event-loop thread is
    awaiting,        \* fIsCurrentlyAwaitingData
    listening,       \* fOnCloseFunc # NULL
    started,         \* started
    run,             \* decoding, encoding
    pc,              \* where each worker is; "none": its std::thread is not joinable
    retry,           \* the local "retry" of decodePacket / encodePacket
    pending,         \* fTriggersAwaitingHandling
    reg,             \* the word as each thread loaded it
    lastUsed,        \* fLastUsedTriggerMask
    decodedFrames, encodedPackets,
    current,         \* the frame encodingTask has taken
    held,            \* the frames inside the encoder
    nalus,           \* nalus_sending
    captured,        \* frames captured so far
    starts,          \* captures started so far
    failed,          \* history: a worker of this capture met an error
    closed           \* history: this capture's closure was reported

triggerVars == <<pending, reg>>
queueVars   == <<decodedFrames, encodedPackets, current, held, nalus, captured>>
liveVars    == <<live, awaiting, listening, started, run, lastUsed, starts, closed>>
vars == <<liveVars, pc, retry, triggerVars, queueVars, failed>>

-----------------------------------------------------------------------------
(* The trigger word: triggerEvent() and the clearing in SingleStep().      *)

LoadTriggers(t) ==
    /\ reg' = IF AtomicTriggers THEN reg ELSE [reg EXCEPT ![t] = pending]
    /\ UNCHANGED pending

\* Mutant: the word is assigned, not or-ed into.
OverwrittenWord(t) == {}

StoredWord(t) == IF AtomicTriggers THEN pending ELSE reg[t]

StoreTriggers(t, word) ==
    /\ pending' = word
    /\ reg' = [reg EXCEPT ![t] = {}]

-----------------------------------------------------------------------------
(* The worker threads.                                                     *)

Goto(t, label) == pc' = [pc EXCEPT ![t] = label]

\* An error leaves the task's loop; "exit" frees its contexts.
Fail(t) == Goto(t, "exit") /\ failed' = TRUE

\* while (decoding) / while (encoding)
LoopTop(t) ==
    /\ pc[t] = "top"
    /\ Goto(t, IF run[t] THEN "input" ELSE "exit")
    /\ UNCHANGED <<liveVars, retry, triggerVars, queueVars, failed>>

\* av_read_frame: not yet (EAGAIN), an error, or a packet for decodePacket.
ReadFrame ==
    /\ pc["dec"] = "input"
    /\ \/ Goto("dec", "top") /\ UNCHANGED <<retry, failed>>
       \/ Fail("dec") /\ UNCHANGED retry
       \/ Goto("dec", "submit") /\ retry' = [retry EXCEPT !["dec"] = FALSE]
                                /\ UNCHANGED failed
    /\ UNCHANGED <<liveVars, triggerVars, queueVars>>

\* wait_for(1ms) on decodedFrames; nothing there: back to the loop test.
TakeFrame ==
    /\ pc["enc"] = "input"
    /\ IF decodedFrames = << >>
       THEN Goto("enc", "top") /\ UNCHANGED <<retry, decodedFrames, current>>
       ELSE /\ Goto("enc", "submit")
            /\ retry' = [retry EXCEPT !["enc"] = FALSE]
            /\ current' = Head(decodedFrames)
            /\ decodedFrames' = Tail(decodedFrames)
    /\ UNCHANGED <<liveVars, triggerVars, encodedPackets, held, nalus, captured, failed>>

\* avcodec_send_packet / avcodec_send_frame: accepted, refused or failed.
\* "retry" is set by the first refusal and never cleared for this input.
Submit(t) ==
    /\ pc[t] = "submit"
    /\ \/ /\ Goto(t, "drain")
          /\ held' = IF t = "enc" /\ Len(held) < MaxFrames
                     THEN Append(held, current) ELSE held
          /\ UNCHANGED <<retry, failed>>
       \/ /\ CodecRefuses /\ ~retry[t]
          /\ Goto(t, "drain")
          /\ retry' = [retry EXCEPT ![t] = TRUE]
          /\ UNCHANGED <<held, failed>>
       \/ /\ CodecRefuses /\ retry[t]
          /\ Fail(t) /\ UNCHANGED <<retry, held>>
       \/ Fail(t) /\ UNCHANGED <<retry, held>>
    /\ UNCHANGED <<liveVars, triggerVars, decodedFrames, encodedPackets, current,
                   nalus, captured>>

\* receive_frame / receive_packet: nothing more (EAGAIN), or an error.
DrainEnds(t) ==
    /\ pc[t] = "drain"
    /\ \/ Goto(t, IF retry[t] THEN "submit" ELSE "top") /\ UNCHANGED failed
       \/ Fail(t)
    /\ UNCHANGED <<liveVars, retry, triggerVars, queueVars>>

\* Mutant: the frame is queued at the wrong end.
PushFrameInFront ==
    /\ pc["dec"] = "drain" /\ captured < MaxFrames
    /\ decodedFrames' = <<starts>> \o decodedFrames
    /\ captured' = captured + 1
    /\ UNCHANGED <<liveVars, pc, retry, triggerVars, encodedPackets, current, held,
                   nalus, failed>>

\* receive_frame gave a frame: queue it under decodedFrames_lock.
PushFrame ==
    /\ pc["dec"] = "drain" /\ captured < MaxFrames
    /\ decodedFrames' = Append(decodedFrames, starts)
    /\ captured' = captured + 1
    /\ UNCHANGED <<liveVars, pc, retry, triggerVars, encodedPackets, current, held,
                   nalus, failed>>

\* The event-loop thread is inside doGetNextFrame's encodedPackets_lock.
QueueLocked == live \in {"notify", "notifyStore"}

\* receive_packet gave a packet: queue it under the lock, then trigger.
PushPacket ==
    /\ pc["enc"] = "drain" /\ held # << >> /\ ~QueueLocked
    /\ Len(encodedPackets) < MaxFrames
    /\ encodedPackets' = Append(encodedPackets, Head(held))
    /\ held' = Tail(held)
    /\ Goto("enc", "notify")
    /\ UNCHANGED <<liveVars, retry, triggerVars, decodedFrames, current, nalus,
                   captured, failed>>

\* Mutant: the task waits for its join without reporting the error.
FreeContextsQuietly(t) ==
    /\ pc[t] = "exit"
    /\ Goto(t, IF run[t] THEN "spin" ELSE "done")
    /\ held' = IF t = "enc" THEN << >> ELSE held
    /\ UNCHANGED <<liveVars, retry, triggerVars, decodedFrames, encodedPackets,
                   current, nalus, captured, failed>>

\* The task's loop has ended: free the contexts, then test the flag again.
FreeContexts(t) ==
    /\ pc[t] = "exit"
    /\ Goto(t, IF run[t] THEN "alarm" ELSE "done")
    /\ held' = IF t = "enc" THEN << >> ELSE held
    /\ UNCHANGED <<liveVars, retry, triggerVars, decodedFrames, encodedPackets,
                   current, nalus, captured, failed>>

\* triggerEvent(frameNotifyTriggerId) after a packet, and
\* triggerEvent(selfDestructTriggerId) after an error.
TriggerLoad(t) ==
    /\ pc[t] \in {"notify", "alarm"}
    /\ LoadTriggers(t)
    /\ Goto(t, IF pc[t] = "notify" THEN "notifyStore" ELSE "alarmStore")
    /\ UNCHANGED <<liveVars, retry, queueVars, failed>>

NotifyStore ==
    /\ pc["enc"] = "notifyStore"
    /\ StoreTriggers("enc", StoredWord("enc") \cup {"frameNotify"})
    /\ Goto("enc", "drain")
    /\ UNCHANGED <<liveVars, retry, queueVars, failed>>

AlarmStore(t) ==
    /\ pc[t] = "alarmStore"
    /\ StoreTriggers(t, StoredWord(t) \cup {"selfDestruct"})
    /\ Goto(t, "spin")
    /\ UNCHANGED <<liveVars, retry, queueVars, failed>>

\* do { sleep 100ms } while (decoding), and the task returns.
SpinEnds(t) ==
    /\ pc[t] = "spin" /\ ~run[t]
    /\ Goto(t, "done")
    /\ UNCHANGED <<liveVars, retry, triggerVars, queueVars, failed>>

WorkerStep(t) ==
    \/ LoopTop(t)     \/ Submit(t)      \/ DrainEnds(t)  \/ FreeContexts(t)
    \/ TriggerLoad(t) \/ AlarmStore(t)  \/ SpinEnds(t)
    \/ t = "dec" /\ (ReadFrame \/ PushFrame)
    \/ t = "enc" /\ (TakeFrame \/ PushPacket \/ NotifyStore)

-----------------------------------------------------------------------------
(* The event-loop thread: calls of the consumer.                           *)

\* Both threads are created with their flag set; the queues, nalus_sending
\* and the pending triggers are left as the previous capture left them.
StartCapture ==
    /\ starts' = starts + 1
    /\ run' = [t \in Workers |-> TRUE]
    /\ pc' = [t \in Workers |-> "top"]
    /\ started' = TRUE
    /\ failed' = FALSE /\ closed' = FALSE

\* FramedSource::getNextFrame, then doGetNextFrame up to the look at the
\* queues ("fetch").  A capture that cannot start closes the source.
GetNextFrame ==
    /\ live = "loop" /\ ~awaiting
    /\ listening' = TRUE
    /\ \/ /\ started
          /\ live' = "fetch" /\ awaiting' = TRUE
          /\ UNCHANGED <<started, run, pc, starts, failed, closed>>
       \/ /\ ~started /\ starts < MaxStarts
          /\ live' = "fetch" /\ awaiting' = TRUE
          /\ StartCapture
       \/ /\ ~started
          /\ UNCHANGED <<live, awaiting, started, run, pc, starts, failed, closed>>
    /\ UNCHANGED <<retry, triggerVars, lastUsed, queueVars>>

\* Mutant: "next future" is forgotten.
NoneBehind == FALSE

\* "next future": a packet waits behind the one that is taken.
OneBehind == Tail(encodedPackets) # << >>

\* The rest of a NALU list, or the next packet; if more packets wait, the
\* loop triggers itself while it holds the lock.
Fetch ==
    /\ live = "fetch"
    /\ IF nalus # << >>
       THEN live' = "deliver" /\ UNCHANGED <<nalus, encodedPackets>>
       ELSE IF encodedPackets = << >>
       THEN live' = "loop" /\ UNCHANGED <<nalus, encodedPackets>>
       ELSE /\ encodedPackets' = Tail(encodedPackets)
            /\ nalus' \in NaluSplits
            /\ live' = IF OneBehind THEN "notify" ELSE "deliver"
    /\ UNCHANGED <<awaiting, listening, started, run, lastUsed, starts, closed, pc,
                   retry, triggerVars, decodedFrames, current, held, captured, failed>>

SelfNotify ==
    /\ \/ live = "notify" /\ LoadTriggers("live") /\ live' = "notifyStore"
       \/ /\ live = "notifyStore" /\ live' = "deliver"
          /\ StoreTriggers("live", StoredWord("live") \cup {"frameNotify"})
    /\ UNCHANGED <<awaiting, listening, started, run, lastUsed, starts, closed, pc,
                   retry, queueVars, failed>>

\* One NALU goes to the consumer, unless there is none or it is empty.
Deliver ==
    /\ live = "deliver"
    /\ live' = "loop"
    /\ IF nalus = << >>
       THEN UNCHANGED <<nalus, awaiting>>
       ELSE nalus' = Tail(nalus) /\ awaiting' = (awaiting /\ Head(nalus) = 0)
    /\ UNCHANGED <<listening, started, run, lastUsed, starts, closed, pc, retry,
                   triggerVars, decodedFrames, encodedPackets, current, held,
                   captured, failed>>

\* FramedSource::stopGettingFrames, and stopCapture if a capture runs.
StopGettingFrames ==
    /\ live = "loop"
    /\ awaiting' = FALSE /\ listening' = FALSE
    /\ IF started
       THEN live' = "joinDec" /\ run' = [run EXCEPT !["dec"] = FALSE]
       ELSE UNCHANGED <<live, run>>
    /\ UNCHANGED <<started, lastUsed, starts, closed, pc, retry, triggerVars,
                   queueVars, failed>>

\* Mutant: the encoder is joined without being told to end.
JoinDecodingOnly ==
    /\ live = "joinDec" /\ pc["dec"] = "done"
    /\ Goto("dec", "none")
    /\ live' = "joinEnc"
    /\ UNCHANGED <<awaiting, listening, started, run, lastUsed, starts, closed, retry,
                   triggerVars, queueVars, failed>>

\* stopCapture: end and join the decoder, then the encoder.
JoinDecoding ==
    /\ live = "joinDec" /\ pc["dec"] = "done"
    /\ Goto("dec", "none")
    /\ run' = [run EXCEPT !["enc"] = FALSE]
    /\ live' = "joinEnc"
    /\ UNCHANGED <<awaiting, listening, started, lastUsed, starts, closed, retry,
                   triggerVars, queueVars, failed>>

\* Mutant: the encoder is told to end and never joined.
EncodingNotJoined ==
    /\ live = "joinEnc"
    /\ started' = FALSE
    /\ live' = "loop"
    /\ UNCHANGED <<awaiting, listening, run, lastUsed, starts, closed, pc, retry,
                   triggerVars, queueVars, failed>>

JoinEncoding ==
    /\ live = "joinEnc" /\ pc["enc"] = "done"
    /\ Goto("enc", "none")
    /\ started' = FALSE
    /\ live' = "loop"
    /\ UNCHANGED <<awaiting, listening, run, lastUsed, starts, closed, retry,
                   triggerVars, queueVars, failed>>

\* Medium::close by the replicator's destructor, after its last replica made
\* it call stopGettingFrames: the triggers are deleted, nothing is joined.
Destroy ==
    /\ live = "loop" /\ ~listening
    /\ live' = "gone"
    /\ pending' = {}
    /\ UNCHANGED <<awaiting, listening, started, run, lastUsed, starts, closed, pc,
                   retry, reg, queueVars, failed>>

-----------------------------------------------------------------------------
(* The event-loop thread: SingleStep handles one pending trigger, beginning *)
(* past the one it handled last.                                           *)

TakeTrigger(id) ==
    /\ live = "loop" /\ id \in pending
    /\ id # lastUsed \/ pending = {id}
    /\ LoadTriggers("live")
    /\ lastUsed' = id
    /\ live' = "clear"
    /\ UNCHANGED <<awaiting, listening, started, run, starts, closed, pc, retry,
                   queueVars, failed>>

\* The bit is cleared, then the handler runs: frameNotifyTriggerHandler
\* enters doGetNextFrame if data is awaited, selfDestructTriggerHandler
\* calls handleClosure.  Data is only awaited of a started capture, so
\* doGetNextFrame starts none here.
HandleTrigger ==
    /\ live = "clear"
    /\ StoreTriggers("live", StoredWord("live") \ {lastUsed})
    /\ IF lastUsed = "frameNotify"
       THEN /\ live' = IF awaiting THEN "fetch" ELSE "loop"
            /\ UNCHANGED <<awaiting, closed>>
       ELSE /\ live' = "loop"
            /\ awaiting' = FALSE
            /\ closed' = (closed \/ listening)
    /\ UNCHANGED <<listening, started, run, lastUsed, starts, pc, retry, queueVars,
                   failed>>

LiveStep ==
    \/ Fetch \/ SelfNotify \/ Deliver \/ JoinDecoding \/ JoinEncoding \/ HandleTrigger

Consumer == GetNextFrame \/ StopGettingFrames \/ Destroy

-----------------------------------------------------------------------------

Init ==
    /\ live = "loop" /\ awaiting = FALSE /\ listening = FALSE /\ started = FALSE
    /\ run = [t \in Workers |-> FALSE]
    /\ pc = [t \in Workers |-> "none"]
    /\ retry = [t \in Workers |-> FALSE]
    /\ pending = {} /\ reg = [t \in Threads |-> {}] /\ lastUsed = "frameNotify"
    /\ decodedFrames = << >> /\ encodedPackets = << >> /\ current = 0
    /\ held = << >> /\ nalus = << >>
    /\ captured = 0 /\ starts = 0
    /\ failed = FALSE /\ closed = FALSE

\* The source is gone and nothing more happens.
Gone == live = "gone" /\ UNCHANGED vars

Next ==
    \/ \E t \in Workers : WorkerStep(t)
    \/ LiveStep
    \/ Consumer
    \/ \E id \in Triggers : TakeTrigger(id)
    \/ Gone

Spec == Init /\ [][Next]_vars

\* The scheduler runs every thread; SingleStep comes round to the triggers
\* between any two calls of the consumer's handlers.
Fairness ==
    /\ \A t \in Workers : WF_vars(WorkerStep(t))
    /\ WF_vars(LiveStep)
    /\ \A id \in Triggers : SF_vars(TakeTrigger(id))

FairSpec == Spec /\ Fairness

-----------------------------------------------------------------------------
(* Properties.                                                             *)

LivePCs == {"loop", "fetch", "notify", "notifyStore", "deliver", "clear",
            "joinDec", "joinEnc", "gone"}
WorkerPCs == {"none", "top", "input", "submit", "drain", "notify", "notifyStore",
              "exit", "alarm", "alarmStore", "spin", "done"}

ControlOK ==
    /\ live \in LivePCs
    /\ awaiting \in BOOLEAN /\ listening \in BOOLEAN /\ started \in BOOLEAN
    /\ run \in [Workers -> BOOLEAN]
    /\ pc \in [Workers -> WorkerPCs]
    /\ pc["dec"] \notin {"notify", "notifyStore"}
    /\ retry \in [Workers -> BOOLEAN]
    /\ pending \in SUBSET Triggers
    /\ reg \in [Threads -> SUBSET Triggers]
    /\ lastUsed \in Triggers
    /\ failed \in BOOLEAN /\ closed \in BOOLEAN

QueuesOK ==
    /\ decodedFrames \in Seq(Nat) /\ encodedPackets \in Seq(Nat)
    /\ held \in Seq(Nat) /\ nalus \in Seq(Nat)
    /\ current \in Nat /\ captured \in Nat /\ starts \in Nat

\* Every variable stays in its range; only the encoder raises frameNotify.
TypeOK == ControlOK /\ QueuesOK

\* std::thread calls std::terminate when a joinable thread is assigned to or
\* destroyed: startCapture and the destructor only ever run with both threads
\* joined, whatever the consumer, the camera and the codecs did before.
NeverTerminates ==
    [][starts' # starts \/ (live # "gone" /\ live' = "gone")
        => \A t \in Workers : pc[t] = "none"]_vars

\* A consumer that waits while packets are queued is always going to be
\* woken: the trigger is pending, or the encoder is about to raise it.
NoLostWakeup ==
    live = "loop" /\ awaiting /\ encodedPackets # << >>
        => "frameNotify" \in pending \/ pc["enc"] \in {"notify", "notifyStore"}

\* A worker that died of an error waits for a closure that is pending or was
\* reported: the source does not go silent.
ErrorIsSignalled ==
    \A t \in Workers :
        pc[t] = "spin" /\ run[t] => "selfDestruct" \in pending \/ closed

\* Across restarts, what an earlier capture produced is never behind what a
\* later one produced, in either queue.
Ordered(s) == \A i, j \in DOMAIN s : i < j => s[i] <= s[j]
CapturesInOrder == Ordered(encodedPackets \o held) /\ Ordered(decodedFrames)
                   /\ \A i \in DOMAIN held : \A j \in DOMAIN decodedFrames :
                        held[i] <= decodedFrames[j]

\* Each trigger id is raised by one thread at a time.
RaisedBy(t) ==
    CASE t = "live" -> IF live \in {"notify", "notifyStore"} THEN {"frameNotify"} ELSE {}
      [] OTHER -> IF pc[t] \in {"notify", "notifyStore"} THEN {"frameNotify"}
                  ELSE IF pc[t] \in {"alarm", "alarmStore"} THEN {"selfDestruct"} ELSE {}
OneThreadPerTrigger ==
    \A t, u \in Threads : t # u => RaisedBy(t) \cap RaisedBy(u) = {}

\* The closure of a capture is only reported after one of its workers failed.
ClosureMeansError == closed => failed

\* stopCapture joins both threads: the event loop is not held up for ever.
StopReturns == live \in {"joinDec", "joinEnc"} ~> live = "loop"

\* While a consumer waits, queued packets are worked off: it gets a NALU or
\* stops waiting, or (packets without a NALU) the queue becomes empty.
WaitingIsServed ==
    awaiting /\ encodedPackets # << >> ~> ~awaiting \/ encodedPackets = << >>

\* An error of a worker ends in a closure, or the consumer stops first.
ErrorClosesSource ==
    \A t \in Workers : pc[t] = "spin" /\ run[t] ~> closed \/ ~run[t]

=============================================================================
