------------------------- MODULE CaptureSourceProofs -------------------------
(***************************************************************************)
(* Proofs about CaptureSource, for every number of frames, captures and    *)
(* NALU splits.  The inductive invariant has three parts:                  *)
(*   Joining    which threads exist, and what their flags are, at each     *)
(*              place of the event-loop thread;                            *)
(*   Signalling an error that is waited on is pending or reported;         *)
(*   Waking     a request that waits while packets are queued has a        *)
(*              frameNotify coming.                                        *)
(* Joining holds of the code as built; the others need the trigger word    *)
(* to be updated atomically.                                               *)
(***************************************************************************)
EXTENDS CaptureSource, TLAPS

Stopping == live \in {"joinDec", "joinEnc"}

\* Outside a stop both threads exist exactly when "started" says so; during
\* a stop the decoding thread is joined before the encoding one.
Joining ==
    /\ ~Stopping => \A t \in Workers : started <=> pc[t] # "none"
    /\ ~Stopping /\ started => listening /\ \A t \in Workers : run[t]
    /\ live = "joinDec" => started /\ \A t \in Workers : pc[t] # "none"
    /\ live = "joinEnc" => started /\ pc["dec"] = "none" /\ pc["enc"] # "none"
    /\ Stopping => ~awaiting
    /\ live = "gone" => ~started

\* Where the event loop stands when nobody but a trigger will look at the
\* queue for the waiting consumer.
Unattended ==
    \/ live = "loop" /\ awaiting
    \/ live = "deliver" /\ (nalus = << >> \/ Head(nalus) = 0)

Waking ==
    Unattended /\ encodedPackets # << >>
        => "frameNotify" \in pending \/ pc["enc"] \in {"notify", "notifyStore"}

\* Only the first NALU that splitNalu finds in a packet can be empty.  The
\* loop looks ahead when it takes a packet, so an empty NALU behind another
\* one ends a request that nothing wakes again: TLC finds NoLostWakeup
\* violated for the splits <<0, 0>> and <<1, 0>>.
OnlyFirstIsEmpty == \A s \in NaluSplits : \A i \in DOMAIN s : i > 1 => s[i] # 0

\* Once the first NALU of a packet is delivered, no empty one is left.
RestNotEmpty ==
    \A i \in DOMAIN nalus :
        i > 1 \/ live \notin {"notify", "notifyStore", "deliver"} => nalus[i] # 0

-----------------------------------------------------------------------------

\* The initial state is well typed.
LEMMA InitType == Init => TypeOK
<1> SUFFICES ASSUME Init PROVE TypeOK
  OBVIOUS
<1>1. ControlOK
  BY DEF Init, ControlOK, LivePCs, WorkerPCs, Triggers, Workers
<1>2. QueuesOK
  BY DEF Init, QueuesOK
<1>3. QED
  BY <1>1, <1>2 DEF TypeOK

\* What a sequence of numbers is made of.
LEMMA SeqFacts ==
  ASSUME NEW s \in Seq(Nat)
  PROVE  /\ \A x \in Nat : Append(s, x) \in Seq(Nat)
         /\ s # << >> => Head(s) \in Nat /\ Tail(s) \in Seq(Nat)
         /\ << >> \in Seq(Nat)
OBVIOUS

\* A step of a worker keeps the control variables in their ranges.
LEMMA WorkerControl ==
  ASSUME ControlOK, NEW t \in Workers, WorkerStep(t)
  PROVE  ControlOK'
<1> DEFINE Rest == UNCHANGED <<liveVars, triggerVars>>
           Go(l) == Goto(t, l) /\ UNCHANGED <<retry, failed>>
           Stumble == Fail(t) /\ UNCHANGED retry
           Retried(b, l) == Goto(t, l) /\ retry' = [retry EXCEPT ![t] = b] /\ UNCHANGED failed
<1>a. Submit(t) => Rest /\ (Go("drain") \/ Retried(TRUE, "drain") \/ Stumble)
  BY DEF Submit
<1>b. DrainEnds(t) => Rest /\ (Go("submit") \/ Go("top") \/ Stumble)
  BY DEF DrainEnds, Fail
<1>c. SpinEnds(t) => Rest /\ Go("done")
  BY DEF SpinEnds
<1>d. t = "dec" /\ ReadFrame => Rest /\ (Go("top") \/ Stumble \/ Retried(FALSE, "submit"))
  BY DEF ReadFrame, Fail
<1> USE DEF ControlOK, WorkerPCs, Workers, Goto, Fail, liveVars, triggerVars
<1>e. ASSUME Rest, NEW l \in {"drain", "submit", "top", "done"}, Go(l)
      PROVE  ControlOK'
  BY <1>e
<1>f. Rest /\ Stumble => ControlOK'
  OBVIOUS
<1>g. ASSUME Rest, NEW b \in BOOLEAN, NEW l \in {"drain", "submit"}, Retried(b, l)
      PROVE  ControlOK'
  BY <1>g
<1> HIDE DEF Rest, Go, Stumble, Retried
<1>1. CASE LoopTop(t)       BY <1>1 DEF LoopTop
<1>2. CASE Submit(t)        BY <1>2, <1>a, <1>e, <1>f, <1>g
<1>3. CASE DrainEnds(t)     BY <1>3, <1>b, <1>e, <1>f
<1>4. CASE FreeContexts(t)  BY <1>4 DEF FreeContexts
<1>5. CASE TriggerLoad(t)
  BY <1>5 DEF TriggerLoad, LoadTriggers, Threads
<1>6. CASE AlarmStore(t)
  BY <1>6 DEF AlarmStore, StoreTriggers, StoredWord, Triggers, Threads
<1>7. CASE SpinEnds(t)      BY <1>7, <1>c, <1>e
<1>8. CASE t = "dec" /\ ReadFrame
  BY <1>8, <1>d, <1>e, <1>f, <1>g
<1>9. CASE PushFrame        BY <1>9 DEF PushFrame
<1>10. CASE TakeFrame       BY <1>10 DEF TakeFrame
<1>11. CASE PushPacket      BY <1>11 DEF PushPacket
<1>12. CASE NotifyStore
  BY <1>12 DEF NotifyStore, StoreTriggers, StoredWord, Triggers, Threads
<1>13. QED
  BY <1>1, <1>2, <1>3, <1>4, <1>5, <1>6, <1>7, <1>8, <1>9, <1>10, <1>11, <1>12
     DEF WorkerStep

\* A step of a worker keeps the queues and counters in their ranges.
LEMMA WorkerQueues ==
  ASSUME QueuesOK, NEW t \in Workers, WorkerStep(t)
  PROVE  QueuesOK'
<1> USE SeqFacts DEF QueuesOK, liveVars, queueVars
<1>1. CASE Submit(t)        BY <1>1 DEF Submit
<1>2. CASE FreeContexts(t)  BY <1>2 DEF FreeContexts
<1>3. CASE PushFrame        BY <1>3 DEF PushFrame
<1>4. CASE TakeFrame        BY <1>4 DEF TakeFrame
<1>5. CASE PushPacket       BY <1>5 DEF PushPacket
<1>6. CASE UNCHANGED <<queueVars, starts>>
  BY <1>6
<1>7. QED
  BY <1>1, <1>2, <1>3, <1>4, <1>5, <1>6
     DEF WorkerStep, LoopTop, DrainEnds, TriggerLoad, AlarmStore, SpinEnds,
         ReadFrame, NotifyStore

\* A step of the event loop or the consumer keeps the control variables in
\* their ranges.
LEMMA LiveControl ==
  ASSUME ControlOK,
         LiveStep \/ Consumer \/ \E id \in Triggers : TakeTrigger(id)
  PROVE  ControlOK'
<1> USE DEF ControlOK, LivePCs, Goto, triggerVars
<1>1. CASE Fetch              BY <1>1 DEF Fetch
<1>2. CASE SelfNotify
  BY <1>2 DEF SelfNotify, LoadTriggers, StoreTriggers, StoredWord, Triggers, Threads
<1>3. CASE Deliver            BY <1>3 DEF Deliver
<1>4. CASE JoinDecoding       BY <1>4 DEF JoinDecoding, Workers, WorkerPCs
<1>5. CASE JoinEncoding       BY <1>5 DEF JoinEncoding, Workers, WorkerPCs
<1>6. CASE HandleTrigger
  BY <1>6 DEF HandleTrigger, StoreTriggers, StoredWord, Threads
<1>7. CASE GetNextFrame       BY <1>7 DEF GetNextFrame, StartCapture, Workers, WorkerPCs
<1>8. CASE StopGettingFrames  BY <1>8 DEF StopGettingFrames, Workers
<1>9. CASE Destroy            BY <1>9 DEF Destroy
<1>10. ASSUME NEW id \in Triggers, TakeTrigger(id)
       PROVE  ControlOK'
  BY <1>10 DEF TakeTrigger, LoadTriggers, Threads
<1>11. QED
  BY <1>1, <1>2, <1>3, <1>4, <1>5, <1>6, <1>7, <1>8, <1>9, <1>10
     DEF LiveStep, Consumer

\* A step of the event loop or the consumer keeps the queues and counters in
\* their ranges.
LEMMA LiveQueues ==
  ASSUME QueuesOK,
         LiveStep \/ Consumer \/ \E id \in Triggers : TakeTrigger(id)
  PROVE  QueuesOK'
<1> USE SeqFacts DEF QueuesOK, queueVars
<1>1. CASE Fetch         BY <1>1, NaluAssumption DEF Fetch
<1>2. CASE Deliver       BY <1>2 DEF Deliver
<1>3. CASE GetNextFrame  BY <1>3 DEF GetNextFrame, StartCapture
<1>4. CASE UNCHANGED <<queueVars, starts>>
  BY <1>4
<1>5. QED
  BY <1>1, <1>2, <1>3, <1>4
     DEF LiveStep, Consumer, SelfNotify, JoinDecoding, JoinEncoding,
         HandleTrigger, StopGettingFrames, Destroy, TakeTrigger

\* Every step keeps the types.
LEMMA NextType == TypeOK /\ [Next]_vars => TypeOK'
<1> SUFFICES ASSUME TypeOK, [Next]_vars PROVE TypeOK'
  OBVIOUS
<1>1. CASE \E t \in Workers : WorkerStep(t)
  BY <1>1, WorkerControl, WorkerQueues DEF TypeOK
<1>2. CASE LiveStep \/ Consumer \/ \E id \in Triggers : TakeTrigger(id)
  BY <1>2, LiveControl, LiveQueues DEF TypeOK
<1>3. CASE UNCHANGED vars
  BY <1>3 DEF TypeOK, ControlOK, QueuesOK, vars, liveVars, triggerVars, queueVars
<1>4. QED
  BY <1>1, <1>2, <1>3 DEF Next, Gone

\* The variables of CaptureSource stay in their ranges in every behaviour.
THEOREM TypeCorrect == Spec => []TypeOK
BY InitType, NextType, PTL DEF Spec

-----------------------------------------------------------------------------
(* Threads and flags.                                                      *)

\* No step of a worker creates or joins a thread or touches a flag.
LEMMA WorkerKeepsThreads ==
  ASSUME ControlOK, NEW t \in Workers, WorkerStep(t)
  PROVE  /\ UNCHANGED liveVars
         /\ \A u \in Workers : pc'[u] = "none" <=> pc[u] = "none"
         /\ \A u \in Workers : u # t => pc'[u] = pc[u]
<1> USE DEF ControlOK, Workers, Goto, Fail
<1>1. CASE LoopTop(t)       BY <1>1 DEF LoopTop
<1>2. CASE Submit(t)
  <2>1. UNCHANGED liveVars /\ pc[t] = "submit"
    BY <1>2 DEF Submit
  <2>2. Goto(t, "drain") \/ Goto(t, "exit")
    BY <1>2 DEF Submit
  <2>3. QED
    BY <2>1, <2>2
<1>3. CASE DrainEnds(t)     BY <1>3 DEF DrainEnds
<1>4. CASE FreeContexts(t)  BY <1>4 DEF FreeContexts
<1>5. CASE TriggerLoad(t)   BY <1>5 DEF TriggerLoad
<1>6. CASE AlarmStore(t)    BY <1>6 DEF AlarmStore
<1>7. CASE SpinEnds(t)      BY <1>7 DEF SpinEnds
<1>8. CASE t = "dec" /\ ReadFrame    BY <1>8 DEF ReadFrame
<1>9. CASE t = "dec" /\ PushFrame    BY <1>9 DEF PushFrame
<1>10. CASE t = "enc" /\ TakeFrame
  <2>1. pc["enc"] = "input" /\ UNCHANGED liveVars
    BY <1>10 DEF TakeFrame
  <2>2. Goto("enc", "top") \/ Goto("enc", "submit")
    BY <1>10 DEF TakeFrame
  <2>3. QED
    BY <1>10, <2>1, <2>2
<1>11. CASE t = "enc" /\ PushPacket  BY <1>11 DEF PushPacket
<1>12. CASE t = "enc" /\ NotifyStore BY <1>12 DEF NotifyStore
<1>13. QED
  BY <1>1, <1>2, <1>3, <1>4, <1>5, <1>6, <1>7, <1>8, <1>9, <1>10, <1>11, <1>12
     DEF WorkerStep

\* Initially nothing is started and no thread is joinable.
LEMMA InitJoining == Init => Joining
BY DEF Init, Joining, Stopping, Workers

\* Every step keeps the threads' joinability in line with started.
LEMMA NextJoining == TypeOK /\ Joining /\ [Next]_vars => Joining'
<1> SUFFICES ASSUME ControlOK, Joining, [Next]_vars PROVE Joining'
  BY DEF TypeOK
<1> USE DEF Joining, Stopping, Workers
<1>1. ASSUME NEW t \in Workers, WorkerStep(t)
      PROVE  Joining'
  BY <1>1, WorkerKeepsThreads DEF liveVars
<1>2. CASE Fetch              BY <1>2 DEF Fetch
<1>3. CASE SelfNotify         BY <1>3 DEF SelfNotify
<1>4. CASE Deliver            BY <1>4 DEF Deliver
<1>5. CASE JoinDecoding       BY <1>5 DEF JoinDecoding, Goto, ControlOK
<1>6. CASE JoinEncoding       BY <1>6 DEF JoinEncoding, Goto, ControlOK
<1>7. CASE HandleTrigger      BY <1>7 DEF HandleTrigger
<1>8. CASE GetNextFrame       BY <1>8 DEF GetNextFrame, StartCapture
<1>9. CASE StopGettingFrames  BY <1>9 DEF StopGettingFrames, ControlOK
<1>10. CASE Destroy           BY <1>10 DEF Destroy
<1>11. ASSUME NEW id \in Triggers, TakeTrigger(id)
       PROVE  Joining'
  BY <1>11 DEF TakeTrigger
<1>12. CASE UNCHANGED vars    BY <1>12 DEF vars, liveVars
<1>13. QED
  BY <1>1, <1>2, <1>3, <1>4, <1>5, <1>6, <1>7, <1>8, <1>9, <1>10, <1>11, <1>12
     DEF Next, LiveStep, Consumer, Gone

\* Joining holds in every reachable state.
THEOREM ThreadsFollowStarted == Spec => []Joining
BY TypeCorrect, InitJoining, NextJoining, PTL DEF Spec

\* A thread object is never assigned to or destroyed while it is joinable,
\* so std::terminate is never called: for every behaviour of the consumer,
\* the camera, the codecs and the (racy) trigger word.
THEOREM NoTerminate == Spec => NeverTerminates
<1> DEFINE Safe == starts' # starts \/ (live # "gone" /\ live' = "gone")
                     => \A t \in Workers : pc[t] = "none"
<1>1. ASSUME TypeOK, Joining, [Next]_vars
      PROVE  Safe
  <2> USE DEF Joining, Stopping
  <2>1. ASSUME NEW t \in Workers, WorkerStep(t)
        PROVE  Safe
    BY <1>1, <2>1, WorkerKeepsThreads DEF TypeOK, liveVars
  <2>2. CASE GetNextFrame  BY <1>1, <2>2 DEF GetNextFrame
  <2>3. CASE Destroy       BY <1>1, <2>3 DEF Destroy
  <2>4. CASE LiveStep
    BY <2>4 DEF LiveStep, Fetch, SelfNotify, Deliver, JoinDecoding, JoinEncoding,
                HandleTrigger
  <2>5. CASE StopGettingFrames  BY <2>5 DEF StopGettingFrames
  <2>6. ASSUME NEW id \in Triggers, TakeTrigger(id)
        PROVE  Safe
    BY <2>6 DEF TakeTrigger
  <2>7. CASE UNCHANGED vars  BY <2>7 DEF vars, liveVars
  <2>8. QED
    BY <1>1, <2>1, <2>2, <2>3, <2>4, <2>5, <2>6, <2>7 DEF Next, Consumer, Gone
<1>2. TypeOK /\ Joining /\ [Next]_vars => [Safe]_vars
  BY <1>1
<1>3. QED
  BY <1>2, TypeCorrect, ThreadsFollowStarted, PTL DEF Spec, NeverTerminates

-----------------------------------------------------------------------------
(* Errors, when the trigger word is updated atomically.                    *)

\* An error that is being waited on stays signalled over every step.
LEMMA NextSignalled ==
  ASSUME AtomicTriggers = TRUE, TypeOK, Joining, ErrorIsSignalled, [Next]_vars
  PROVE  ErrorIsSignalled'
<1> USE DEF ErrorIsSignalled, Workers
<1>1. ASSUME NEW t \in Workers, WorkerStep(t)
      PROVE  ErrorIsSignalled'
  <2>1. UNCHANGED liveVars /\ \A u \in Workers : u # t => pc'[u] = pc[u]
    BY <1>1, WorkerKeepsThreads DEF TypeOK
  <2>2. pending \subseteq pending'
    BY <1>1 DEF WorkerStep, LoopTop, Submit, DrainEnds, FreeContexts, TriggerLoad,
                AlarmStore, SpinEnds, ReadFrame, PushFrame, TakeFrame, PushPacket,
                NotifyStore, LoadTriggers, StoreTriggers, StoredWord, triggerVars
  <2>3. pc'[t] = "spin" => "selfDestruct" \in pending'
    <3>1. CASE AlarmStore(t)
      BY <3>1 DEF AlarmStore, StoreTriggers
    <3>2. CASE Submit(t)
      <4>1. Goto(t, "drain") \/ Goto(t, "exit")
        BY <3>2 DEF Submit, Fail
      <4>2. QED
        BY <4>1 DEF Goto, TypeOK, ControlOK
    <3>3. CASE t = "enc" /\ TakeFrame
      <4>1. Goto("enc", "top") \/ Goto("enc", "submit")
        BY <3>3 DEF TakeFrame
      <4>2. QED
        BY <3>3, <4>1 DEF Goto, TypeOK, ControlOK
    <3>4. CASE LoopTop(t) \/ DrainEnds(t) \/ FreeContexts(t) \/ TriggerLoad(t) \/ SpinEnds(t)
      BY <3>4 DEF LoopTop, DrainEnds, FreeContexts, TriggerLoad, SpinEnds,
                  Goto, Fail, TypeOK, ControlOK
    <3>5. CASE t = "dec" /\ (ReadFrame \/ PushFrame)
      BY <3>5 DEF ReadFrame, PushFrame, Goto, Fail, TypeOK, ControlOK
    <3>6. CASE t = "enc" /\ (PushPacket \/ NotifyStore)
      BY <3>6 DEF PushPacket, NotifyStore, Goto, TypeOK, ControlOK
    <3>7. QED
      BY <1>1, <3>1, <3>2, <3>3, <3>4, <3>5, <3>6 DEF WorkerStep
  <2>4. QED
    BY <2>1, <2>2, <2>3 DEF liveVars
<1>2. CASE Fetch              BY <1>2 DEF OneBehind, Fetch, triggerVars
<1>3. CASE SelfNotify
  BY <1>3 DEF SelfNotify, LoadTriggers, StoreTriggers, StoredWord
<1>4. CASE Deliver            BY <1>4 DEF Deliver, triggerVars
<1>5. CASE JoinDecoding
  BY <1>5 DEF JoinDecoding, Goto, triggerVars, TypeOK, ControlOK
<1>6. CASE JoinEncoding
  BY <1>6 DEF JoinEncoding, Goto, triggerVars, TypeOK, ControlOK
<1>7. CASE HandleTrigger
  BY <1>7 DEF HandleTrigger, StoreTriggers, StoredWord, Joining, Stopping
<1>8. CASE GetNextFrame
  BY <1>8 DEF GetNextFrame, StartCapture, triggerVars
<1>9. CASE StopGettingFrames
  BY <1>9 DEF StopGettingFrames, triggerVars, TypeOK, ControlOK
<1>10. CASE Destroy
  BY <1>10 DEF Destroy, Joining, Stopping
<1>11. ASSUME NEW id \in Triggers, TakeTrigger(id)
       PROVE  ErrorIsSignalled'
  BY <1>11 DEF TakeTrigger, LoadTriggers
<1>12. CASE UNCHANGED vars
  BY <1>12 DEF vars, liveVars, triggerVars
<1>13. QED
  BY <1>1, <1>2, <1>3, <1>4, <1>5, <1>6, <1>7, <1>8, <1>9, <1>10, <1>11, <1>12
     DEF Next, LiveStep, Consumer, Gone

\* With an atomic trigger word, a worker that waits after an error has its
\* selfDestruct pending, or the closure was reported.
THEOREM ErrorsSignalled ==
  ASSUME AtomicTriggers = TRUE
  PROVE  Spec => []ErrorIsSignalled
<1>1. Init => ErrorIsSignalled
  BY DEF Init, ErrorIsSignalled, Workers
<1>2. TypeOK /\ Joining /\ ErrorIsSignalled /\ [Next]_vars => ErrorIsSignalled'
  BY NextSignalled
<1>3. QED
  BY <1>1, <1>2, TypeCorrect, ThreadsFollowStarted, PTL DEF Spec

-----------------------------------------------------------------------------
(* Wake-ups, when the trigger word is updated atomically.                  *)

\* A sequence whose elements past the first are positive has a positive tail.
LEMMA RestOfNalus ==
  ASSUME NEW s \in Seq(Nat), s # << >>, \A i \in DOMAIN s : i > 1 => s[i] # 0
  PROVE  \A i \in DOMAIN Tail(s) : Tail(s)[i] # 0
<1> SUFFICES ASSUME NEW i \in DOMAIN Tail(s) PROVE Tail(s)[i] # 0
  OBVIOUS
<1>1. i \in Nat /\ i >= 1 /\ i + 1 \in DOMAIN s /\ Tail(s)[i] = s[i + 1]
  OBVIOUS
<1>2. QED
  BY <1>1

\* Every step keeps the rest of a packet free of empty NALUs.
LEMMA NextNalus ==
  ASSUME OnlyFirstIsEmpty, TypeOK, RestNotEmpty, [Next]_vars
  PROVE  RestNotEmpty'
<1>1. CASE Fetch
  <2>1. CASE nalus' = nalus
    <3>1. \A i \in DOMAIN nalus : nalus[i] # 0
      BY <1>1 DEF Fetch, RestNotEmpty
    <3>2. QED
      BY <2>1, <3>1 DEF RestNotEmpty
  <2>2. CASE nalus' \in NaluSplits /\ live' \in {"notify", "deliver"}
    BY <2>2 DEF RestNotEmpty, OnlyFirstIsEmpty
  <2>3. QED
    BY <1>1, <2>1, <2>2 DEF Fetch
<1>2. CASE SelfNotify
  BY <1>2 DEF SelfNotify, RestNotEmpty, queueVars
<1>3. CASE Deliver
  <2>1. CASE nalus = << >>
    BY <1>3, <2>1 DEF Deliver, RestNotEmpty
  <2>2. CASE nalus # << >>
    <3>1. nalus \in Seq(Nat) /\ \A i \in DOMAIN nalus : i > 1 => nalus[i] # 0
      BY DEF TypeOK, QueuesOK, RestNotEmpty
    <3>2. \A i \in DOMAIN nalus' : nalus'[i] # 0
      BY <1>3, <2>2, <3>1, RestOfNalus DEF Deliver
    <3>3. QED
      BY <3>2 DEF RestNotEmpty
  <2>3. QED
    BY <2>1, <2>2
<1> DEFINE Apart == /\ nalus' = nalus
                    /\ live' = live \/ live \notin {"notify", "notifyStore", "deliver"}
<1>4. Apart => RestNotEmpty'
  BY DEF RestNotEmpty
<1>5. ASSUME NEW t \in Workers, WorkerStep(t)
      PROVE  Apart
  BY <1>5 DEF WorkerStep, LoopTop, Submit, DrainEnds, FreeContexts, TriggerLoad,
              AlarmStore, SpinEnds, ReadFrame, PushFrame, TakeFrame, PushPacket,
              NotifyStore, queueVars, liveVars
<1>6. CASE JoinDecoding \/ JoinEncoding \/ HandleTrigger
  <2>1. Apart
    BY <1>6 DEF JoinDecoding, JoinEncoding, HandleTrigger, queueVars
  <2>2. QED
    BY <1>4, <2>1
<1>7. CASE Consumer
  <2>1. Apart
    BY <1>7 DEF Consumer, GetNextFrame, StopGettingFrames, Destroy, queueVars
  <2>2. QED
    BY <1>4, <2>1
<1>8. ASSUME NEW id \in Triggers, TakeTrigger(id)
      PROVE  Apart
  BY <1>8 DEF TakeTrigger, queueVars
<1>9. CASE UNCHANGED vars
  <2>1. Apart
    BY <1>9 DEF vars, queueVars, liveVars
  <2>2. QED
    BY <1>4, <2>1
<1> HIDE DEF Apart
<1>10. QED
  BY <1>1, <1>2, <1>3, <1>4, <1>5, <1>6, <1>7, <1>8, <1>9 DEF Next, Gone, LiveStep

\* A wake-up stays due over every step of a worker.
LEMMA WorkerWaking ==
  ASSUME AtomicTriggers = TRUE, TypeOK, Waking, NEW t \in Workers, WorkerStep(t)
  PROVE  Waking'
<1> USE DEF TypeOK, ControlOK
<1>1. CASE t = "enc" /\ PushPacket
  BY <1>1 DEF PushPacket, Waking, Goto, Workers
<1>2. CASE t = "enc" /\ NotifyStore
  BY <1>2 DEF NotifyStore, Waking, StoreTriggers
<1>3. CASE ~(t = "enc" /\ (PushPacket \/ NotifyStore))
  <2>1. encodedPackets' = encodedPackets /\ nalus' = nalus
    BY <1>3 DEF WorkerStep, LoopTop, Submit, DrainEnds, FreeContexts, TriggerLoad,
                AlarmStore, SpinEnds, ReadFrame, PushFrame, TakeFrame, queueVars
  <2>2. UNCHANGED <<live, awaiting>>
    BY WorkerKeepsThreads DEF liveVars
  <2>3. pending \subseteq pending'
    BY <1>3 DEF WorkerStep, LoopTop, Submit, DrainEnds, FreeContexts, TriggerLoad,
                AlarmStore, SpinEnds, ReadFrame, PushFrame, TakeFrame,
                LoadTriggers, StoreTriggers, StoredWord, triggerVars
  <2>4. pc["enc"] \in {"notify", "notifyStore"} => pc'["enc"] \in {"notify", "notifyStore"}
    <3>1. CASE t = "dec"
      BY <3>1, WorkerKeepsThreads DEF Workers
    <3>2. CASE t = "enc" /\ pc["enc"] \in {"notify", "notifyStore"}
      <4>1. TriggerLoad("enc")
        BY <1>3, <3>2 DEF WorkerStep, LoopTop, Submit, DrainEnds, FreeContexts,
                          AlarmStore, SpinEnds, TakeFrame
      <4>2. QED
        BY <3>2, <4>1 DEF TriggerLoad, Goto, Workers
    <3>3. QED
      BY <3>1, <3>2 DEF Workers
  <2>5. QED
    BY <2>1, <2>2, <2>3, <2>4 DEF Waking, Unattended
<1>4. QED
  BY <1>1, <1>2, <1>3

\* A wake-up stays due over every step.
LEMMA NextWaking ==
  ASSUME AtomicTriggers = TRUE, TypeOK, Joining, RestNotEmpty, Waking, [Next]_vars
  PROVE  Waking'
<1> USE DEF Waking, Unattended
<1>1. ASSUME NEW t \in Workers, WorkerStep(t)
      PROVE  Waking'
  BY <1>1, WorkerWaking
<1>2. CASE Fetch
  <2>1. CASE nalus # << >>
    <3>1. Head(nalus) # 0 /\ nalus' = nalus /\ live' = "deliver"
      BY <1>2, <2>1 DEF Fetch, RestNotEmpty, TypeOK, QueuesOK
    <3>2. QED
      BY <2>1, <3>1
  <2>2. CASE nalus = << >>
    <3>1. CASE encodedPackets = << >>
      BY <1>2, <2>2, <3>1 DEF Fetch
    <3>2. CASE encodedPackets # << >> /\ OneBehind
      BY <1>2, <2>2, <3>2 DEF Fetch
    <3>3. CASE encodedPackets # << >> /\ ~OneBehind
      BY <1>2, <2>2, <3>3 DEF Fetch, OneBehind
    <3>4. QED
      BY <3>1, <3>2, <3>3
  <2>3. QED
    BY <2>1, <2>2
<1>3. CASE SelfNotify
  BY <1>3 DEF SelfNotify, StoreTriggers
<1>4. CASE Deliver
  <2>1. CASE nalus = << >>
    BY <1>4, <2>1 DEF Deliver, triggerVars
  <2>2. CASE nalus # << >>
    <3>1. CASE Head(nalus) = 0
      BY <1>4, <2>2, <3>1 DEF Deliver, triggerVars
    <3>2. CASE Head(nalus) # 0
      BY <1>4, <2>2, <3>2 DEF Deliver
    <3>3. QED
      BY <3>1, <3>2
  <2>3. QED
    BY <2>1, <2>2
<1>5. CASE JoinDecoding       BY <1>5 DEF JoinDecoding
<1>6. CASE JoinEncoding       BY <1>6 DEF JoinEncoding, Joining, Stopping
<1>7. CASE HandleTrigger      BY <1>7 DEF HandleTrigger
<1>8. CASE GetNextFrame
  BY <1>8 DEF GetNextFrame, triggerVars, queueVars
<1>9. CASE StopGettingFrames  BY <1>9 DEF StopGettingFrames
<1>10. CASE Destroy           BY <1>10 DEF Destroy
<1>11. ASSUME NEW id \in Triggers, TakeTrigger(id)
       PROVE  Waking'
  BY <1>11 DEF TakeTrigger
<1>12. CASE UNCHANGED vars
  BY <1>12 DEF vars, liveVars, triggerVars, queueVars
<1>13. QED
  BY <1>1, <1>2, <1>3, <1>4, <1>5, <1>6, <1>7, <1>8, <1>9, <1>10, <1>11, <1>12
     DEF Next, LiveStep, Consumer, Gone

\* With an atomic trigger word and no empty NALU behind another in a
\* packet, a consumer that waits while packets are queued has a wake-up coming.
THEOREM WakeupsKept ==
  ASSUME AtomicTriggers = TRUE, OnlyFirstIsEmpty
  PROVE  Spec => []NoLostWakeup
<1>1. Init => RestNotEmpty /\ Waking
  BY DEF Init, RestNotEmpty, Waking, Unattended
<1>2. TypeOK /\ Joining /\ RestNotEmpty /\ Waking /\ [Next]_vars
        => RestNotEmpty' /\ Waking'
  BY NextNalus, NextWaking
<1>3. Waking => NoLostWakeup
  <2> SUFFICES ASSUME Waking, live = "loop", awaiting, encodedPackets # << >>
               PROVE  "frameNotify" \in pending \/ pc["enc"] \in {"notify", "notifyStore"}
    BY DEF NoLostWakeup
  <2>1. Unattended
    BY DEF Unattended
  <2>2. QED
    BY <2>1 DEF Waking
<1>4. QED
  BY <1>1, <1>2, <1>3, TypeCorrect, ThreadsFollowStarted, PTL DEF Spec

-----------------------------------------------------------------------------
(* The order of captures: what is queued, in the encoder and on its way    *)
(* between the two never runs backwards.                                   *)

AtMost(s, n)  == \A i \in DOMAIN s : s[i] <= n
AtLeast(s, n) == \A i \in DOMAIN s : n <= s[i]
Before(s, t)  == \A i \in DOMAIN s : \A j \in DOMAIN t : s[i] <= t[j]

\* "current" is the last frame that went into the encoder, or the next: it
\* separates what has been through the encoder from what has not.
Chain ==
    /\ Ordered(encodedPackets) /\ Ordered(held) /\ Ordered(decodedFrames)
    /\ Before(encodedPackets, held)
    /\ AtMost(encodedPackets, current) /\ AtMost(held, current)
    /\ AtLeast(decodedFrames, current) /\ AtMost(decodedFrames, starts)
    /\ current <= starts

\* A sequence stays in order when it grows by something as large as all of it.
LEMMA OrderedAppend ==
  ASSUME NEW s \in Seq(Nat), NEW n \in Nat, Ordered(s), AtMost(s, n)
  PROVE  /\ Ordered(Append(s, n))
         /\ \A m \in Nat : m >= n => AtMost(Append(s, n), m)
         /\ \A m \in Nat : AtLeast(s, m) /\ m <= n => AtLeast(Append(s, n), m)
BY DEF Ordered, AtMost, AtLeast

\* What is left of a sequence in order is in order, and above its head.
LEMMA OrderedTail ==
  ASSUME NEW s \in Seq(Nat), s # << >>, Ordered(s)
  PROVE  /\ Ordered(Tail(s)) /\ AtLeast(Tail(s), Head(s))
         /\ \A i \in DOMAIN Tail(s) : i + 1 \in DOMAIN s /\ Tail(s)[i] = s[i + 1]
         /\ 1 \in DOMAIN s /\ Head(s) = s[1]
<1>1. \A i \in DOMAIN Tail(s) : i + 1 \in DOMAIN s /\ Tail(s)[i] = s[i + 1]
  OBVIOUS
<1>2. 1 \in DOMAIN s /\ Head(s) = s[1]
  OBVIOUS
<1>3. \A i \in DOMAIN Tail(s) : i \in Nat /\ 1 < i + 1
  OBVIOUS
<1>4. AtLeast(Tail(s), Head(s))
  BY <1>1, <1>2, <1>3 DEF Ordered, AtLeast
<1>5. Ordered(Tail(s))
  BY <1>1, <1>3 DEF Ordered
<1>6. QED
  BY <1>1, <1>2, <1>4, <1>5

\* Two sequences in order, the one before the other, are in order together.
LEMMA OrderedConcat ==
  ASSUME NEW s \in Seq(Nat), NEW t \in Seq(Nat), Ordered(s), Ordered(t), Before(s, t)
  PROVE  Ordered(s \o t)
<1> SUFFICES ASSUME NEW i \in DOMAIN (s \o t), NEW j \in DOMAIN (s \o t), i < j
             PROVE  (s \o t)[i] <= (s \o t)[j]
  BY DEF Ordered
<1>1. CASE j <= Len(s)
  BY <1>1 DEF Ordered
<1>2. CASE i <= Len(s) /\ j > Len(s)
  <2>1. (s \o t)[i] = s[i] /\ i \in DOMAIN s
    BY <1>2
  <2>2. (s \o t)[j] = t[j - Len(s)] /\ j - Len(s) \in DOMAIN t
    BY <1>2
  <2>3. QED
    BY <2>1, <2>2 DEF Before
<1>3. CASE i > Len(s)
  <2>1. (s \o t)[i] = t[i - Len(s)] /\ i - Len(s) \in DOMAIN t
    BY <1>3
  <2>2. (s \o t)[j] = t[j - Len(s)] /\ j - Len(s) \in DOMAIN t
    BY <1>3
  <2>3. QED
    BY <2>1, <2>2 DEF Ordered
<1>4. QED
  BY <1>1, <1>2, <1>3

\* What is below a number is before what is above it,
LEMMA BeforeAt ==
  ASSUME NEW s \in Seq(Nat), NEW t \in Seq(Nat), NEW n \in Nat, AtMost(s, n), AtLeast(t, n)
  PROVE  Before(s, t)
BY DEF Before, AtMost, AtLeast

\* and stays before what grows by that number.
LEMMA BeforeAppend ==
  ASSUME NEW s \in Seq(Nat), NEW t \in Seq(Nat), NEW n \in Nat, AtMost(s, n), Before(s, t)
  PROVE  Before(s, Append(t, n))
BY DEF Before, AtMost

\* The chain gives the order.
LEMMA ChainInOrder == QueuesOK /\ Chain => CapturesInOrder
<1> SUFFICES ASSUME QueuesOK, Chain PROVE CapturesInOrder
  OBVIOUS
<1>1. Ordered(encodedPackets \o held)
  BY OrderedConcat DEF QueuesOK, Chain
<1>2. ASSUME NEW i \in DOMAIN held, NEW j \in DOMAIN decodedFrames
      PROVE  held[i] <= decodedFrames[j]
  <2>1. held[i] \in Nat /\ decodedFrames[j] \in Nat /\ current \in Nat
    BY DEF QueuesOK
  <2>2. held[i] <= current /\ current <= decodedFrames[j]
    BY DEF Chain, AtMost, AtLeast
  <2>3. QED
    BY <2>1, <2>2
<1>3. QED
  BY <1>1, <1>2 DEF CapturesInOrder, Chain

\* What the steps do to the chain: they leave it, or do one of these.
ChainMoves ==
    \/ UNCHANGED <<decodedFrames, encodedPackets, current, held, starts>>
    \/ /\ decodedFrames' = Append(decodedFrames, starts)
       /\ UNCHANGED <<encodedPackets, current, held, starts>>
    \/ /\ decodedFrames # << >>
       /\ current' = Head(decodedFrames) /\ decodedFrames' = Tail(decodedFrames)
       /\ UNCHANGED <<encodedPackets, held, starts>>
    \/ held' = Append(held, current) /\ UNCHANGED <<decodedFrames, encodedPackets, current, starts>>
    \/ /\ held # << >>
       /\ encodedPackets' = Append(encodedPackets, Head(held)) /\ held' = Tail(held)
       /\ UNCHANGED <<decodedFrames, current, starts>>
    \/ held' = << >> /\ UNCHANGED <<decodedFrames, encodedPackets, current, starts>>
    \/ /\ encodedPackets # << >> /\ encodedPackets' = Tail(encodedPackets)
       /\ UNCHANGED <<decodedFrames, current, held, starts>>
    \/ starts' = starts + 1 /\ UNCHANGED <<decodedFrames, encodedPackets, current, held>>

LEMMA NextMoves == [Next]_vars => ChainMoves
BY DEF ChainMoves, Next, Gone, vars, LiveStep, Consumer, WorkerStep, LoopTop, Submit,
       DrainEnds, FreeContexts, TriggerLoad, AlarmStore, SpinEnds, ReadFrame, PushFrame,
       TakeFrame, PushPacket, NotifyStore, Fetch, SelfNotify, Deliver, JoinDecoding,
       JoinEncoding, HandleTrigger, GetNextFrame, StartCapture, StopGettingFrames,
       Destroy, TakeTrigger, queueVars, liveVars

\* Every step keeps the chain.
LEMMA NextChain == QueuesOK /\ Chain /\ [Next]_vars => Chain'
<1> SUFFICES ASSUME QueuesOK, Chain, ChainMoves PROVE Chain'
  BY NextMoves
<1> USE DEF QueuesOK, Chain
<1>1. CASE UNCHANGED <<decodedFrames, encodedPackets, current, held, starts>>
  BY <1>1
<1>2. CASE /\ decodedFrames' = Append(decodedFrames, starts)
           /\ UNCHANGED <<encodedPackets, current, held, starts>>
  BY <1>2, OrderedAppend
<1>3. CASE /\ decodedFrames # << >>
           /\ current' = Head(decodedFrames) /\ decodedFrames' = Tail(decodedFrames)
           /\ UNCHANGED <<encodedPackets, held, starts>>
  <2>1. Ordered(decodedFrames') /\ AtLeast(decodedFrames', current')
    BY <1>3, OrderedTail
  <2>2. AtMost(decodedFrames', starts)
    BY <1>3, OrderedTail DEF AtMost
  <2>3. current' \in Nat /\ current <= current' /\ current' <= starts
    BY <1>3, OrderedTail DEF AtMost, AtLeast
  <2>4. AtMost(encodedPackets, current') /\ AtMost(held, current')
    BY <2>3 DEF AtMost
  <2>5. QED
    BY <1>3, <2>1, <2>2, <2>3, <2>4
<1>4. CASE held' = Append(held, current) /\ UNCHANGED <<decodedFrames, encodedPackets, current, starts>>
  <2>1. Before(encodedPackets, held')
    BY <1>4, BeforeAppend
  <2>2. QED
    BY <1>4, <2>1, OrderedAppend
<1>5. CASE /\ held # << >>
           /\ encodedPackets' = Append(encodedPackets, Head(held)) /\ held' = Tail(held)
           /\ UNCHANGED <<decodedFrames, current, starts>>
  <2>1. /\ Head(held) \in Nat /\ Head(held) <= current
        /\ AtMost(encodedPackets, Head(held))
    <3>1. 1 \in DOMAIN held /\ Head(held) = held[1]
      BY <1>5, OrderedTail
    <3>2. Head(held) \in Nat
      BY <1>5, SeqFacts
    <3>3. AtMost(held, current) /\ Before(encodedPackets, held)
      OBVIOUS
    <3>4. QED
      BY <3>1, <3>2, <3>3 DEF AtMost, Before
  <2>2. Ordered(encodedPackets') /\ AtMost(encodedPackets', current)
    BY <1>5, <2>1, OrderedAppend
  <2>3. AtMost(encodedPackets', Head(held))
    BY <1>5, <2>1, OrderedAppend
  <2>4. Ordered(held') /\ AtLeast(held', Head(held)) /\ held' \in Seq(Nat)
    BY <1>5, OrderedTail
  <2>5. AtMost(held', current)
    BY <1>5, OrderedTail DEF AtMost
  <2>6. encodedPackets' \in Seq(Nat)
    BY <1>5, <2>1
  <2>7. Before(encodedPackets', held')
    BY <2>1, <2>3, <2>4, <2>6, BeforeAt
  <2>8. QED
    BY <1>5, <2>2, <2>4, <2>5, <2>7
<1>6. CASE held' = << >> /\ UNCHANGED <<decodedFrames, encodedPackets, current, starts>>
  BY <1>6 DEF Ordered, AtMost, Before
<1>7. CASE /\ encodedPackets # << >> /\ encodedPackets' = Tail(encodedPackets)
           /\ UNCHANGED <<decodedFrames, current, held, starts>>
  <2>1. Ordered(encodedPackets')
    BY <1>7, OrderedTail
  <2>2. Before(encodedPackets', held) /\ AtMost(encodedPackets', current)
    BY <1>7, OrderedTail DEF Before, AtMost
  <2>3. QED
    BY <1>7, <2>1, <2>2
<1>8. CASE starts' = starts + 1 /\ UNCHANGED <<decodedFrames, encodedPackets, current, held>>
  <2>1. AtMost(decodedFrames', starts')
    BY <1>8 DEF AtMost
  <2>2. QED
    BY <1>8, <2>1
<1>9. QED
  BY <1>1, <1>2, <1>3, <1>4, <1>5, <1>6, <1>7, <1>8 DEF ChainMoves

\* Whatever the codecs refuse and the triggers lose, and over any number of
\* restarts, no packet or frame is queued behind one of a later capture.
THEOREM CapturesOrdered == Spec => []CapturesInOrder
<1>1. Init => Chain
  BY DEF Init, Chain, Ordered, AtMost, AtLeast, Before
<1>2. TypeOK /\ Chain /\ [Next]_vars => Chain'
  BY NextChain DEF TypeOK
<1>3. TypeOK /\ Chain => CapturesInOrder
  BY ChainInOrder DEF TypeOK
<1>4. QED
  BY <1>1, <1>2, <1>3, TypeCorrect, PTL DEF Spec

=============================================================================
