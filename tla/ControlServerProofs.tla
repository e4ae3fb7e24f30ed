------------------------- MODULE ControlServerProofs -------------------------
(***************************************************************************)
(* What is proved of ControlServer for every set of clients, every pipe    *)
(* capacity and every number of starts and calls.                          *)
(*                                                                         *)
(*   TypeCorrect        the type invariant;                                *)
(*   ChannelImplemented the pipe, the buffer and the dispatch implement    *)
(*                      CommandChannel, read errors included;              *)
(*   ServerLifecycle    if reads do not fail, an inductive invariant that  *)
(*                      ties the flags, liveThread and the place of each   *)
(*                      thread together.  StopIsClean reads off that no    *)
(*                      join fails, that a stopped server can be started   *)
(*                      again and that it is destroyed at rest.            *)
(***************************************************************************)
EXTENDS ControlServer, SequenceTheorems, TLAPS

-----------------------------------------------------------------------------
(* Types.                                                                  *)

\* The control part of TypeOK, and its queues.
ControlTypes ==
    /\ app \in [Apps -> AppPCs]
    /\ live \in LivePCs /\ thread \in {"none", "joinable"}
    /\ start \in BOOLEAN /\ stopped \in BOOLEAN /\ selfdone \in BOOLEAN
    /\ failed \in BOOLEAN /\ nested \in BOOLEAN

ChannelTypes ==
    /\ pipe \in Seq(Nat) /\ Len(pipe) <= PipeCapacity
    /\ messageBuf \in Seq(Nat) /\ executed \in Seq(Nat)
    /\ posted \in Nat /\ controls \in Nat /\ starts \in Nat

\* The types hold initially.
LEMMA InitTypes == Init => ControlTypes /\ ChannelTypes
<1> SUFFICES ASSUME Init PROVE ControlTypes /\ ChannelTypes
  OBVIOUS
<1>1. ControlTypes
  BY DEF Init, ControlTypes, Apps, AppPCs, LivePCs
<1>2. Len(<< >>) <= PipeCapacity
  BY BoundsAssumption
<1>3. ChannelTypes
  BY <1>2 DEF Init, ChannelTypes
<1>4. QED
  BY <1>1, <1>3

\* Every step keeps the control variables in their ranges.
LEMMA NextControlTypes == ControlTypes /\ [Next]_vars => ControlTypes'
<1> SUFFICES ASSUME ControlTypes, [Next]_vars PROVE ControlTypes'
  OBVIOUS
<1> USE DEF ControlTypes, Apps, AppPCs, Goto, flags
<1>1. ASSUME NEW t \in Apps, CallControl(t) \/ Write(t)
      PROVE  ControlTypes'
  BY <1>1 DEF CallControl, Write
<1>2. CASE CallStart \/ StartFlag \/ Started
  BY <1>2 DEF CallStart, StartFlag, Started
<1>3. CASE Spawn
  BY <1>3 DEF Spawn, LivePCs
<1>4. CASE CallStop \/ StopFlag \/ StopJoinable
  BY <1>4 DEF CallStop, StopFlag, StopJoinable
<1>5. CASE SetFlag \/ StopControl \/ StopWrite
  BY <1>5 DEF SetFlag, StopControl, StopWrite
<1>6. CASE Join \/ AfterStop
  BY <1>6 DEF Join, AfterStop
<1>7. CASE LiveStep
  BY <1>7 DEF LiveStep, LivePCs, Boot, LoopTest, OtherEvent, NestedLoopEnds, EnterDispatch,
              Read, Parse, Detach, SelfStop, Tidy, ClearStart, ClearFlag
<1>8. CASE UNCHANGED vars
  BY <1>8 DEF vars
<1>9. QED
  BY <1>1, <1>2, <1>3, <1>4, <1>5, <1>6, <1>7, <1>8 DEF Next, MainGoesOn

\* What the steps do to a sequence of numbers.
LEMMA SeqFacts ==
  ASSUME NEW s \in Seq(Nat)
  PROVE  /\ \A x \in Nat : Append(s, x) \in Seq(Nat) /\ Len(Append(s, x)) = Len(s) + 1
         /\ s # << >> => /\ Head(s) \in Nat /\ Tail(s) \in Seq(Nat)
                         /\ Len(Tail(s)) <= Len(s)
         /\ << >> \in Seq(Nat)
OBVIOUS

\* A step that writes a packet, reads one, executes one or tidies up: what
\* the other steps leave alone is in "channel".
LEMMA ChannelSteps ==
  ASSUME [Next]_vars
  PROVE  \/ WritePacket /\ UNCHANGED <<messageBuf, executed, counts>>
         \/ Read /\ UNCHANGED counts
         \/ Parse /\ UNCHANGED counts
         \/ Tidy /\ UNCHANGED counts
         \/ UNCHANGED channel /\ counts' \in {counts, <<controls + 1, starts>>,
                                               <<controls, starts + 1>>}
<1>1. ASSUME NEW t \in Apps, CallControl(t) \/ Write(t)
      PROVE  \/ WritePacket /\ UNCHANGED <<messageBuf, executed, counts>>
             \/ UNCHANGED channel /\ counts' \in {counts, <<controls + 1, starts>>}
  BY <1>1 DEF CallControl, Write, counts
<1>2. CASE CallStart \/ CallStop \/ AfterStop
  BY <1>2 DEF CallStart, CallStop, AfterStop
<1>3. CASE StopWrite
  BY <1>3 DEF StopWrite
<1>4. CASE Spawn
  BY <1>4 DEF Spawn, counts
<1>5. CASE StartFlag \/ Started \/ StopFlag \/ StopJoinable \/ SetFlag \/ StopControl
           \/ Join
  BY <1>5 DEF StartFlag, Started, StopFlag, StopJoinable, SetFlag, StopControl, Join
<1>6. CASE Boot \/ LoopTest \/ OtherEvent \/ NestedLoopEnds \/ EnterDispatch \/ Detach
           \/ SelfStop \/ ClearStart \/ ClearFlag
  BY <1>6 DEF Boot, LoopTest, OtherEvent, NestedLoopEnds, EnterDispatch, Detach, SelfStop,
              ClearStart, ClearFlag
<1>7. CASE Read \/ Parse \/ Tidy
  BY <1>7 DEF Read, Parse, Tidy
<1>8. CASE UNCHANGED vars
  BY <1>8 DEF vars
<1>9. QED
  BY <1>1, <1>2, <1>3, <1>4, <1>5, <1>6, <1>7, <1>8 DEF Next, MainGoesOn, LiveStep

\* Every step keeps the queues and counters in their ranges.
LEMMA NextChannelTypes == ChannelTypes /\ [Next]_vars => ChannelTypes'
<1> SUFFICES ASSUME ChannelTypes, [Next]_vars PROVE ChannelTypes'
  OBVIOUS
<1> USE BoundsAssumption DEF ChannelTypes, counts, channel
<1>1. CASE WritePacket /\ UNCHANGED <<messageBuf, executed, counts>>
  BY <1>1, SeqFacts DEF WritePacket
<1>2. CASE Read /\ UNCHANGED counts
  <2>1. UNCHANGED <<executed, posted, counts>>
    BY <1>2 DEF Read
  <2>2. CASE pipe # << >> /\ messageBuf' = Append(messageBuf, Head(pipe)) /\ pipe' = Tail(pipe)
    BY <2>1, <2>2, SeqFacts
  <2>3. CASE UNCHANGED <<pipe, messageBuf>>
    BY <2>1, <2>3
  <2>4. QED
    BY <1>2, <2>2, <2>3 DEF Read
<1>3. CASE Parse /\ UNCHANGED counts
  BY <1>3, SeqFacts DEF Parse
<1>4. CASE Tidy /\ UNCHANGED counts
  BY <1>4, SeqFacts DEF Tidy
<1>5. CASE UNCHANGED channel /\ counts' \in {counts, <<controls + 1, starts>>,
                                             <<controls, starts + 1>>}
  BY <1>5
<1>6. QED
  BY <1>1, <1>2, <1>3, <1>4, <1>5, ChannelSteps

\* The type invariant: the pipe never holds more than it has room for.
THEOREM TypeCorrect == Spec => []TypeOK
<1>1. Init => ControlTypes /\ ChannelTypes
  BY InitTypes
<1>2. ControlTypes /\ ChannelTypes /\ [Next]_vars => (ControlTypes /\ ChannelTypes)'
  BY NextControlTypes, NextChannelTypes
<1>3. ControlTypes /\ ChannelTypes => TypeOK
  BY DEF ControlTypes, ChannelTypes, TypeOK
<1>4. QED
  BY <1>1, <1>2, <1>3, PTL DEF Spec

-----------------------------------------------------------------------------
(* The channel.                                                            *)

\* The buffer is empty wherever the dispatch may clear it.
Emptied == live \in {"dispatched", "selfStop", "tidy"} => messageBuf = << >>

\* Every packet written is in the pipe, in the buffer, or executed.
Counted == posted = Len(executed) + Len(messageBuf) + Len(pipe)

\* The buffer is emptied by the parser, and only a read fills it.
LEMMA EmptiedInvariant == Spec => []Emptied
<1>1. Init => Emptied
  BY DEF Init, Emptied
<1>2. Emptied /\ [Next]_vars => Emptied'
  <2> SUFFICES ASSUME Emptied, [Next]_vars PROVE Emptied'
    OBVIOUS
  <2> USE DEF Emptied, channel
  <2>1. ASSUME NEW t \in Apps, CallControl(t) \/ Write(t)
        PROVE  Emptied'
    BY <2>1 DEF CallControl, Write
  <2>2. CASE CallStart \/ CallStop \/ AfterStop \/ MainGoesOn
    BY <2>2 DEF CallStart, CallStop, AfterStop, MainGoesOn, StartFlag, Spawn, Started,
                StopFlag, StopJoinable, SetFlag, StopControl, StopWrite, Join
  <2>3. CASE LiveStep
    BY <2>3 DEF LiveStep, Boot, LoopTest, OtherEvent, NestedLoopEnds, EnterDispatch, Read,
                Parse, Detach, SelfStop, Tidy, ClearStart, ClearFlag
  <2>4. CASE UNCHANGED vars
    BY <2>4 DEF vars
  <2>5. QED
    BY <2>1, <2>2, <2>3, <2>4 DEF Next
<1>3. QED
  BY <1>1, <1>2, PTL DEF Spec

\* Writing extends the channel at its end.
LEMMA WriteFact ==
  ASSUME NEW b \in Seq(Nat), NEW p \in Seq(Nat), NEW n \in Nat
  PROVE  b \o Append(p, n) = Append(b \o p, n)
<1>1. Append(p, n) \in Seq(Nat) /\ Append(b \o p, n) \in Seq(Nat)
  BY ConcatProperties
<1>2. Len(b \o Append(p, n)) = Len(Append(b \o p, n))
  BY <1>1, ConcatProperties
<1>3. ASSUME NEW i \in 1..Len(b \o Append(p, n))
      PROVE  (b \o Append(p, n))[i] = Append(b \o p, n)[i]
  <2>1. /\ b \o p \in Seq(Nat) /\ Len(b \o p) = Len(b) + Len(p)
        /\ Len(b) \in Nat /\ Len(p) \in Nat /\ Len(Append(p, n)) = Len(p) + 1
    BY ConcatProperties
  <2>2. i \in 1..(Len(b) + Len(p) + 1)
    BY <1>1, <2>1, ConcatProperties
  <2>3. (b \o Append(p, n))[i] =
          IF i <= Len(b) THEN b[i] ELSE Append(p, n)[i - Len(b)]
    <3>1. i \in 1..(Len(b) + Len(Append(p, n)))
      BY <2>1, <2>2
    <3>2. QED
      BY <1>1, <3>1, ConcatProperties
  <2>4. i <= Len(b) + Len(p) =>
          (b \o p)[i] = IF i <= Len(b) THEN b[i] ELSE p[i - Len(b)]
    BY <2>1, <2>2, ConcatProperties
  <2>5. CASE i <= Len(b)
    BY <2>1, <2>2, <2>3, <2>4, <2>5
  <2>6. CASE i > Len(b) /\ i <= Len(b) + Len(p)
    BY <2>1, <2>2, <2>3, <2>4, <2>6
  <2>7. CASE i = Len(b) + Len(p) + 1
    BY <2>1, <2>3, <2>7
  <2>8. QED
    BY <2>1, <2>2, <2>5, <2>6, <2>7
<1>4. b \o Append(p, n) \in Seq(Nat)
  BY <1>1, ConcatProperties
<1>5. QED
  BY <1>1, <1>2, <1>3, <1>4, SeqEqual

\* Reading moves a packet from the pipe to the buffer: the channel as a
\* whole stays as it is.
LEMMA ReadFact ==
  ASSUME NEW b \in Seq(Nat), NEW p \in Seq(Nat), p # << >>
  PROVE  Append(b, Head(p)) \o Tail(p) = b \o p
<1>1. Head(p) \in Nat /\ Tail(p) \in Seq(Nat) /\ Append(b, Head(p)) \in Seq(Nat)
  BY SeqFacts
<1>2. Len(Tail(p)) = Len(p) - 1 /\ Len(Append(b, Head(p))) = Len(b) + 1
      /\ Len(p) \in Nat /\ Len(b) \in Nat
  BY HeadTailProperties
<1>3. Len(Append(b, Head(p)) \o Tail(p)) = Len(b \o p)
  BY <1>1, <1>2, ConcatProperties
<1>4. ASSUME NEW i \in 1..Len(b \o p)
      PROVE  (Append(b, Head(p)) \o Tail(p))[i] = (b \o p)[i]
  <2>1. Len(b \o p) = Len(b) + Len(p)
    BY ConcatProperties
  <2>2. (Append(b, Head(p)) \o Tail(p))[i] =
          IF i <= Len(b) + 1 THEN Append(b, Head(p))[i] ELSE Tail(p)[i - (Len(b) + 1)]
    BY <1>1, <1>2, <2>1, ConcatProperties
  <2>3. (b \o p)[i] = IF i <= Len(b) THEN b[i] ELSE p[i - Len(b)]
    BY <2>1, ConcatProperties
  <2>4. CASE i <= Len(b)
    BY <1>2, <2>2, <2>3, <2>4
  <2>5. CASE i = Len(b) + 1
    BY <1>2, <2>2, <2>3, <2>5
  <2>6. CASE i > Len(b) + 1
    BY <1>2, <2>1, <2>2, <2>3, <2>6, HeadTailProperties
  <2>7. QED
    BY <1>2, <2>1, <2>4, <2>5, <2>6
<1>5. Append(b, Head(p)) \o Tail(p) \in Seq(Nat) /\ b \o p \in Seq(Nat)
  BY <1>1, ConcatProperties
<1>6. QED
  BY <1>3, <1>4, <1>5, SeqEqual

\* Executing takes the head of the channel.
LEMMA ExecuteFact ==
  ASSUME NEW b \in Seq(Nat), NEW p \in Seq(Nat), b # << >>
  PROVE  b \o p # << >> /\ Head(b \o p) = Head(b) /\ Tail(b \o p) = Tail(b) \o p
<1>1. Len(b) \in Nat \ {0} /\ Len(p) \in Nat /\ Len(b \o p) = Len(b) + Len(p)
      /\ b \o p \in Seq(Nat)
  BY ConcatProperties, EmptySeq
<1>2. b \o p # << >>
  BY <1>1, ConcatEqualIffEmpty
<1>3. (b \o p)[1] = b[1]
  BY <1>1, ConcatProperties
<1>4. Head(b \o p) = Head(b)
  BY <1>1, <1>2, <1>3
<1>5. Tail(b) \in Seq(Nat) /\ Len(Tail(b)) = Len(b) - 1
      /\ Tail(b \o p) \in Seq(Nat) /\ Len(Tail(b \o p)) = Len(b) + Len(p) - 1
  BY <1>1, <1>2, HeadTailProperties
<1>6. Tail(b) \o p \in Seq(Nat) /\ Len(Tail(b) \o p) = Len(b) + Len(p) - 1
  BY <1>1, <1>5, ConcatProperties
<1>7. ASSUME NEW i \in 1..Len(Tail(b \o p))
      PROVE  Tail(b \o p)[i] = (Tail(b) \o p)[i]
  <2>1. Tail(b \o p)[i] = (b \o p)[i + 1]
    BY <1>1, <1>2, HeadTailProperties
  <2>2. (b \o p)[i + 1] = IF i + 1 <= Len(b) THEN b[i + 1] ELSE p[i + 1 - Len(b)]
    BY <1>1, <1>5, ConcatProperties
  <2>3. (Tail(b) \o p)[i] = IF i <= Len(b) - 1 THEN Tail(b)[i] ELSE p[i - (Len(b) - 1)]
    BY <1>1, <1>5, ConcatProperties
  <2>4. i <= Len(b) - 1 => Tail(b)[i] = b[i + 1]
    BY <1>1, <1>5, HeadTailProperties
  <2>5. i + 1 - Len(b) = i - (Len(b) - 1)
    BY <1>1, <1>5
  <2>6. QED
    BY <1>1, <1>5, <2>1, <2>2, <2>3, <2>4, <2>5
<1>8. Tail(b \o p) = Tail(b) \o p
  BY <1>5, <1>6, <1>7, SeqEqual
<1>9. QED
  BY <1>2, <1>4, <1>8

\* Counted is inductive: no step creates or drops a packet.
LEMMA CountedInvariant == Spec => []Counted
<1>1. Init => Counted
  BY DEF Init, Counted
<1>2. ChannelTypes /\ Emptied /\ Counted /\ [Next]_vars => Counted'
  <2> SUFFICES ASSUME ChannelTypes, Emptied, Counted, [Next]_vars PROVE Counted'
    OBVIOUS
  <2> USE DEF ChannelTypes, Counted
  <2>1. CASE WritePacket /\ UNCHANGED <<messageBuf, executed, counts>>
    BY <2>1 DEF WritePacket
  <2>2. CASE Read
    <3>1. UNCHANGED <<executed, posted>>
      BY <2>2 DEF Read
    <3>2. CASE pipe # << >> /\ messageBuf' = Append(messageBuf, Head(pipe)) /\ pipe' = Tail(pipe)
      BY <3>1, <3>2, HeadTailProperties
    <3>3. CASE UNCHANGED <<pipe, messageBuf>>
      BY <3>1, <3>3
    <3>4. QED
      BY <2>2, <3>2, <3>3 DEF Read
  <2>3. CASE Parse
    <3>1. UNCHANGED <<pipe, posted>>
      BY <2>3 DEF Parse
    <3>2. CASE messageBuf = << >>
      BY <2>3, <3>1, <3>2 DEF Parse
    <3>3. CASE messageBuf # << >>
      <4>1. /\ executed' = Append(executed, Head(messageBuf))
            /\ messageBuf' = Tail(messageBuf)
        BY <2>3, <3>3 DEF Parse
      <4>2. Head(messageBuf) \in Nat /\ Len(Tail(messageBuf)) = Len(messageBuf) - 1
        BY <3>3, HeadTailProperties
      <4>3. Len(executed') = Len(executed) + 1
        BY <4>1, <4>2
      <4>4. /\ posted' = posted /\ Len(pipe') = Len(pipe)
            /\ Len(messageBuf') = Len(messageBuf) - 1
        BY <3>1, <4>1, <4>2
      <4>5. /\ Len(executed) \in Nat /\ Len(messageBuf) \in Nat /\ Len(pipe) \in Nat
        OBVIOUS
      <4>6. QED
        BY <4>3, <4>4, <4>5
    <3>4. QED
      BY <3>2, <3>3
  <2>4. CASE Tidy
    BY <2>4 DEF Tidy, Emptied
  <2>5. CASE UNCHANGED channel
    BY <2>5 DEF channel
  <2>6. QED
    BY <2>1, <2>2, <2>3, <2>4, <2>5, ChannelSteps
<1>3. Spec => []ChannelTypes
  BY InitTypes, NextChannelTypes, PTL DEF Spec
<1>4. QED
  BY <1>1, <1>2, <1>3, EmptiedInvariant, PTL DEF Spec

\* Every step of the server is a step of the abstract channel, or none of it.
LEMMA ChannelStep ==
  ASSUME ChannelTypes, Emptied, Counted, [Next]_vars
  PROVE  [Channel!Next]_<<messageBuf \o pipe, executed>>
<1> USE DEF ChannelTypes
<1>1. CASE WritePacket /\ UNCHANGED <<messageBuf, executed, counts>>
  <2>1. posted + 1 = Len(executed) + Len(messageBuf \o pipe) + 1
    BY ConcatProperties DEF Counted
  <2>2. messageBuf' \o pipe' = Append(messageBuf \o pipe, posted + 1)
    BY <1>1, WriteFact DEF WritePacket
  <2>3. Channel!Accept
    BY <1>1, <2>1, <2>2 DEF Channel!Accept
  <2>4. QED
    BY <2>3 DEF Channel!Next
<1>2. CASE Read
  <2>1. executed' = executed
    BY <1>2 DEF Read
  <2>2. messageBuf' \o pipe' = messageBuf \o pipe
    BY <1>2, ReadFact DEF Read
  <2>3. QED
    BY <2>1, <2>2
<1>3. CASE Parse
  <2>1. CASE messageBuf = << >>
    BY <1>3, <2>1 DEF Parse
  <2>2. CASE messageBuf # << >>
    <3>1. /\ executed' = Append(executed, Head(messageBuf))
          /\ messageBuf' = Tail(messageBuf) /\ pipe' = pipe
      BY <1>3, <2>2 DEF Parse
    <3>2. Channel!Execute
      BY <2>2, <3>1, ExecuteFact DEF Channel!Execute
    <3>3. QED
      BY <3>2 DEF Channel!Next
  <2>3. QED
    BY <2>1, <2>2
<1>4. CASE Tidy
  BY <1>4 DEF Tidy, Emptied
<1>5. CASE UNCHANGED channel
  BY <1>5 DEF channel
<1>6. QED
  BY <1>1, <1>2, <1>3, <1>4, <1>5, ChannelSteps

\* The refinement: accepted commands are executed once each and in order,
\* whatever starts, stops and failing reads come in between.
THEOREM ChannelImplemented == Spec => ImplementsChannel
<1>1. Init => Channel!Init
  BY DEF Init, Channel!Init
<1>2. ChannelTypes /\ Emptied /\ Counted /\ [Next]_vars
        => [Channel!Next]_<<messageBuf \o pipe, executed>>
  BY ChannelStep
<1>3. Spec => []ChannelTypes
  BY InitTypes, NextChannelTypes, PTL DEF Spec
<1>4. QED
  BY <1>1, <1>2, <1>3, EmptiedInvariant, CountedInvariant, PTL
     DEF Spec, ImplementsChannel, Channel!Spec

-----------------------------------------------------------------------------
(* The life of the event-loop thread, until a read fails.                  *)

\* What the flags, liveThread and the places of the threads say about each
\* other.  main is inside the second half of Stop exactly while stoppedFlag
\* may be up, so a loop that ends always finds main on its way to the join.
Stopping == app["main"] \in {"stopControl", "stopWrite", "join"}

Lifecycle ==
    /\ ~selfdone /\ live # "selfStop"
    /\ start <=> live \notin {"boot", "clearFlag", "ended"}
    /\ live = "boot" => app["main"] = "waitStart"
    /\ live \in {"clearStart", "clearFlag"} => stopped
    /\ live = "ended" => ~stopped
    /\ stopped => Stopping
    /\ live # "ended" => thread = "joinable"
    /\ app["main"] \in {"waitStart", "stopFlag", "joinable", "setFlag"} => live # "ended"
    /\ Stopping => thread = "joinable"
    /\ app["main"] \in {"startFlag", "spawn", "stopped", "gone"} => live = "ended"
    /\ live = "ended" => thread = "none" \/ Stopping
    /\ app["main"] # "terminated"

\* Lifecycle holds initially.
LEMMA InitLifecycle == Init => Lifecycle
BY DEF Init, Lifecycle, Stopping, Apps

\* A client's call, and main's, leave the event loop alone.
LEMMA AppKeepsLifecycle ==
  ASSUME ControlTypes, Lifecycle,
         \/ \E t \in Apps : CallControl(t) \/ Write(t)
         \/ CallStart \/ CallStop \/ MainGoesOn \/ AfterStop
  PROVE  Lifecycle'
<1> USE DEF ControlTypes, Lifecycle, Stopping, Apps, Goto, flags
<1>1. ASSUME NEW t \in Apps, CallControl(t) \/ Write(t)
      PROVE  Lifecycle'
  BY <1>1 DEF CallControl, Write
<1>2. CASE CallStart  BY <1>2 DEF CallStart
<1>3. CASE StartFlag  BY <1>3 DEF StartFlag
<1>4. CASE Spawn      BY <1>4 DEF Spawn
<1>5. CASE Started    BY <1>5 DEF Started
<1>6. CASE CallStop   BY <1>6 DEF CallStop
<1>7. CASE StopFlag   BY <1>7 DEF StopFlag
<1>8. CASE StopJoinable  BY <1>8 DEF StopJoinable
<1>9. CASE SetFlag    BY <1>9 DEF SetFlag
<1>10. CASE StopControl  BY <1>10 DEF StopControl
<1>11. CASE StopWrite BY <1>11 DEF StopWrite
<1>12. CASE Join      BY <1>12 DEF Join
<1>13. CASE AfterStop BY <1>13 DEF AfterStop
<1>14. QED
  BY <1>1, <1>2, <1>3, <1>4, <1>5, <1>6, <1>7, <1>8, <1>9, <1>10, <1>11, <1>12, <1>13
     DEF MainGoesOn

\* The event loop only ends after Stop has raised stoppedFlag.
LEMMA LiveKeepsLifecycle ==
  ASSUME ControlTypes, Lifecycle, LiveStep, ~failed'
  PROVE  Lifecycle'
<1> USE DEF ControlTypes, Lifecycle, Stopping, flags
<1>1. CASE Boot          BY <1>1 DEF Boot
<1>2. CASE LoopTest      BY <1>2 DEF LoopTest
<1>3. CASE OtherEvent    BY <1>3 DEF OtherEvent
<1>4. CASE EnterDispatch BY <1>4 DEF EnterDispatch
<1>5. CASE Read          BY <1>5 DEF Read
<1>6. CASE Parse         BY <1>6 DEF Parse
<1>7. CASE Detach        BY <1>7 DEF Detach
<1>8. CASE SelfStop      BY <1>8 DEF SelfStop
<1>9. CASE Tidy          BY <1>9 DEF Tidy
<1>10. CASE ClearStart   BY <1>10 DEF ClearStart
<1>11. CASE ClearFlag    BY <1>11 DEF ClearFlag
<1>12. CASE NestedLoopEnds  BY <1>12 DEF NestedLoopEnds
<1>13. QED
  BY <1>1, <1>2, <1>3, <1>4, <1>5, <1>6, <1>7, <1>8, <1>9, <1>10, <1>11, <1>12 DEF LiveStep

\* What a step changes once a read has failed does not matter.
LEMMA FailedForGood == ControlTypes /\ failed /\ [Next]_vars => failed'
<1> SUFFICES ASSUME ControlTypes, failed, [Next]_vars PROVE failed'
  OBVIOUS
<1>1. CASE \E t \in Apps : CallControl(t) \/ Write(t)
  BY <1>1 DEF CallControl, Write
<1>2. CASE CallStart \/ CallStop \/ AfterStop
  BY <1>2 DEF CallStart, CallStop, AfterStop
<1>3. CASE MainGoesOn
  BY <1>3 DEF MainGoesOn, StartFlag, Spawn, Started, StopFlag, StopJoinable, SetFlag,
              StopControl, StopWrite, Join
<1>4. CASE LiveStep
  BY <1>4 DEF LiveStep, Boot, LoopTest, OtherEvent, NestedLoopEnds, EnterDispatch, Read, Parse,
              Detach, SelfStop, Tidy, ClearStart, ClearFlag
<1>5. CASE UNCHANGED vars
  BY <1>5 DEF vars
<1>6. QED
  BY <1>1, <1>2, <1>3, <1>4, <1>5 DEF Next

\* Lifecycle holds until a read fails.
THEOREM ServerLifecycle == Spec => [](failed \/ Lifecycle)
<1>1. ControlTypes /\ (failed \/ Lifecycle) /\ [Next]_vars => (failed \/ Lifecycle)'
  <2> SUFFICES ASSUME ControlTypes, Lifecycle, [Next]_vars, ~failed' PROVE Lifecycle'
    BY FailedForGood
  <2>1. CASE LiveStep
    BY <2>1, LiveKeepsLifecycle
  <2>2. CASE UNCHANGED vars
    BY <2>2 DEF vars, flags, Lifecycle, Stopping
  <2>3. QED
    BY <2>1, <2>2, AppKeepsLifecycle DEF Next
<1>2. Spec => []ControlTypes
  BY InitTypes, NextControlTypes, PTL DEF Spec
<1>3. QED
  BY <1>1, <1>2, InitLifecycle, PTL DEF Spec

\* Stop never joins a thread that cannot be joined, for every set of clients and
\* every capacity: as long as no read fails, std::terminate is out of reach.
THEOREM StopTerminatesNothing == Spec => []NeverTerminates
<1>1. failed \/ Lifecycle => NeverTerminates
  BY DEF Lifecycle, Stopping, NeverTerminates
<1>2. QED
  BY <1>1, ServerLifecycle, PTL

\* Until a read fails Stop is clean: no flag that would refuse the next Start,
\* and no destruction under a running event loop.
THEOREM StopIsClean == Spec => []CleanAtRest
<1>1. failed \/ Lifecycle => CleanAtRest
  BY DEF Lifecycle, Stopping, CleanAtRest
<1>2. QED
  BY <1>1, ServerLifecycle, PTL

-----------------------------------------------------------------------------
(* One event loop, also when reads fail.                                   *)

\* A flag that is up belongs to a Stop, or to a loop that has let go of its thread;
\* a loop whose thread can be joined ends only for a Stop that will join it.
Alone ==
    /\ start <=> live \notin {"boot", "clearFlag", "ended"}
    /\ live = "boot" => app["main"] = "waitStart"
    /\ live \in {"clearStart", "clearFlag"} => stopped
    /\ live = "selfStop" => thread = "none"
    /\ stopped /\ thread = "joinable" => Stopping
    /\ live = "ended" /\ thread = "joinable" => Stopping
    /\ app["main"] = "startFlag" => live \in {"clearFlag", "ended"}
    /\ app["main"] = "spawn" => live = "ended" /\ ~stopped

LEMMA AppKeepsAlone ==
  ASSUME ControlTypes, Alone,
         \/ \E t \in Apps : CallControl(t) \/ Write(t)
         \/ CallStart \/ CallStop \/ MainGoesOn \/ AfterStop
  PROVE  Alone'
<1> USE DEF ControlTypes, Alone, Stopping, Apps, Goto, flags
<1>1. ASSUME NEW t \in Apps, CallControl(t) \/ Write(t)
      PROVE  Alone'
  BY <1>1 DEF CallControl, Write
<1>2. CASE CallStart    BY <1>2 DEF CallStart
<1>3. CASE StartFlag    BY <1>3 DEF StartFlag
<1>4. CASE Spawn        BY <1>4 DEF Spawn
<1>5. CASE Started      BY <1>5 DEF Started
<1>6. CASE CallStop     BY <1>6 DEF CallStop
<1>7. CASE StopFlag     BY <1>7 DEF StopFlag
<1>8. CASE StopJoinable BY <1>8 DEF StopJoinable
<1>9. CASE SetFlag      BY <1>9 DEF SetFlag
<1>10. CASE StopControl BY <1>10 DEF StopControl
<1>11. CASE StopWrite   BY <1>11 DEF StopWrite
<1>12. CASE Join        BY <1>12 DEF Join
<1>13. CASE AfterStop   BY <1>13 DEF AfterStop
<1>14. QED
  BY <1>1, <1>2, <1>3, <1>4, <1>5, <1>6, <1>7, <1>8, <1>9, <1>10, <1>11, <1>12, <1>13
     DEF MainGoesOn

LEMMA LiveKeepsAlone ==
  ASSUME ControlTypes, Alone, LiveStep
  PROVE  Alone'
<1> USE DEF ControlTypes, Alone, Stopping, flags
<1>1. CASE Boot          BY <1>1 DEF Boot
<1>2. CASE LoopTest      BY <1>2 DEF LoopTest
<1>3. CASE OtherEvent    BY <1>3 DEF OtherEvent
<1>4. CASE EnterDispatch BY <1>4 DEF EnterDispatch
<1>5. CASE Read          BY <1>5 DEF Read
<1>6. CASE Parse         BY <1>6 DEF Parse
<1>7. CASE Detach
  <2>1. CASE selfdone /\ thread = "none"
    <3>1. live' = "threw" /\ app'["main"] = "terminated" /\ thread' = "none"
      BY <1>7, <2>1 DEF Detach, Apps
    <3>2. UNCHANGED <<start, stopped>> /\ start
      BY <1>7 DEF Detach
    <3>3. QED
      BY <3>1, <3>2
  <2>2. CASE selfdone /\ thread = "joinable"
    <3>1. live' = "selfStop" /\ thread' = "none" /\ UNCHANGED <<app, start, stopped>> /\ start
      BY <1>7, <2>2 DEF Detach
    <3>2. app["main"] \notin {"startFlag", "spawn"}
      BY <1>7 DEF Detach
    <3>3. QED
      BY <3>1, <3>2
  <2>3. CASE ~selfdone
    BY <1>7, <2>3 DEF Detach
  <2>4. QED
    BY <2>1, <2>2, <2>3
<1>8. CASE SelfStop      BY <1>8 DEF SelfStop
<1>9. CASE Tidy          BY <1>9 DEF Tidy
<1>10. CASE ClearStart   BY <1>10 DEF ClearStart
<1>11. CASE ClearFlag    BY <1>11 DEF ClearFlag
<1>12. CASE NestedLoopEnds  BY <1>12 DEF NestedLoopEnds
<1>13. QED
  BY <1>1, <1>2, <1>3, <1>4, <1>5, <1>6, <1>7, <1>8, <1>9, <1>10, <1>11, <1>12 DEF LiveStep

\* No second event loop, for every set of clients and every capacity, and with
\* failing reads: Start spawns a thread only when the previous one has run to its
\* end and its thread object is free.
THEOREM OneLoop == Spec => OneEventLoop
<1>1. Init => Alone
  BY DEF Init, Alone, Stopping, Apps
<1>2. ControlTypes /\ Alone /\ [Next]_vars => Alone'
  <2> SUFFICES ASSUME ControlTypes, Alone, [Next]_vars PROVE Alone'
    OBVIOUS
  <2>1. CASE UNCHANGED vars
    BY <2>1 DEF vars, flags, Alone, Stopping
  <2>2. QED
    BY <2>1, AppKeepsAlone, LiveKeepsAlone DEF Next
<1>3. ControlTypes /\ Alone
        => (app["main"] = "spawn" => live = "ended" /\ thread = "none")
  BY DEF ControlTypes, Alone, Stopping
<1>4. Spec => []ControlTypes
  BY InitTypes, NextControlTypes, PTL DEF Spec
<1>5. ControlTypes /\ Alone /\ [Next]_vars
        => [app["main"] = "spawn" /\ starts' # starts
              => live = "ended" /\ thread = "none"]_vars
  BY <1>3
<1>6. QED
  BY <1>1, <1>2, <1>4, <1>5, PTL DEF Spec, OneEventLoop
=============================================================================
