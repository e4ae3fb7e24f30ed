----------------------- MODULE ClientConnectionsProofs -----------------------
(***************************************************************************)
(* Proofs about SdpPolling and ClientConnections, for any number of        *)
(* clients, requests, subsessions, polls and nested loops: no poll         *)
(* outlives the dummy sink it looks at, and all nested DESCRIBEs tell the  *)
(* same; however requests nest, connections use the SDP polling as module  *)
(* SdpPolling describes it; no call is made on a connection that is gone;  *)
(* sockets are owned and answers come in order, whoever else connects,     *)
(* ends, nests, or spoils its own answers meanwhile.                       *)
(***************************************************************************)
EXTENDS ClientConnections, SequenceTheorems, FiniteSetTheorems, WellFoundedInduction, TLAPS

(***************************************************************************)
(* The SDP polling.                                                        *)
(***************************************************************************)

\* While a poll is scheduled nothing has been decided: no flag, no line and no
\* answer, and the call that owns the sink is in its loop.
Undecided(s) ==
    nextTask[s] => /\ ~pollingDoneFlag[s] /\ ~auxSDPLine[s] /\ fSDPLines[s] = "null"
                   /\ dummyRTPSink[s] = "playing" /\ Playing(s)

\* The pointer to a dummy sink is only given up for the line: a flag that is up,
\* or an owner in its loop, has one or the other.
SinkOrLine(s) ==
    pollingDoneFlag[s] \/ Playing(s) => auxSDPLine[s] \/ dummyRTPSink[s] # "NULL"

SameLines(s) == fSDPLines[s] # "null" => (fSDPLines[s] = "full" <=> auxSDPLine[s])

\* Polls are counted from zero for a sink that is yet to be made.
FreshCount(s) == dummyRTPSink[s] = "NULL" => pollingCount[s] = 0

Settled(s) == Undecided(s) /\ SinkOrLine(s) /\ SameLines(s) /\ FreshCount(s)

PollInv == PollingTypeOK /\ \A s \in Subsessions : Settled(s)

-----------------------------------------------------------------------------
LoopRecords == [sub : Subsessions, owner : BOOLEAN]

\* Named records for the loops.
LEMMA LoopsTyped ==
  ASSUME PollInv
  PROVE  loops \in Seq(LoopRecords) /\ Len(loops) \in Nat /\ Len(loops) <= MaxNesting
BY DEF LoopRecords, PollInv, PollingTypeOK

\* A loop that is entered waits, besides those that wait already.
LEMMA LoopEntered ==
  ASSUME NEW r \in LoopRecords, loops \in Seq(LoopRecords), loops' = Append(loops, r)
  PROVE  /\ loops' \in Seq(LoopRecords) /\ Len(loops') = Len(loops) + 1
         /\ \A u \in Subsessions : Playing(u)' <=> Playing(u) \/ (u = r.sub /\ r.owner)
<1>1. loops' \in Seq(LoopRecords) /\ Len(loops') = Len(loops) + 1
  BY DEF LoopRecords
<1>2. /\ \A k \in DOMAIN loops : k \in DOMAIN loops' /\ loops'[k] = loops[k]
      /\ Len(loops') \in DOMAIN loops' /\ loops'[Len(loops')] = r
      /\ \A k \in DOMAIN loops' : k \in DOMAIN loops \/ k = Len(loops')
  BY <1>1
<1>3. ASSUME NEW u \in Subsessions
      PROVE  Playing(u)' <=> Playing(u) \/ (u = r.sub /\ r.owner)
  BY <1>2 DEF Playing, WaitersFor
<1>4. QED
  BY <1>1, <1>3

\* A loop that returns leaves the others as they were.
LEMMA LoopLeft ==
  ASSUME loops \in Seq(LoopRecords), loops # << >>,
         loops' = SubSeq(loops, 1, Len(loops) - 1)
  PROVE  /\ loops' \in Seq(LoopRecords) /\ Len(loops') = Len(loops) - 1
         /\ Innermost \in LoopRecords
         /\ \A u \in Subsessions : u # Innermost.sub => (Playing(u)' <=> Playing(u))
         /\ \A u \in Subsessions : Playing(u)' => Playing(u)
<1>1. Len(loops) \in Nat /\ Len(loops) >= 1
  OBVIOUS
<1> DEFINE n == Len(loops) - 1
<1>0. n \in Int /\ 1 \in Int /\ \A i \in 1..n : loops[i] \in LoopRecords
  BY <1>1, ElementOfSeq
<1>2. /\ loops' \in Seq(LoopRecords) /\ Len(loops') = Len(loops) - 1
      /\ \A i \in 1..n : loops'[i] = loops[i]
  <2> HIDE DEF n
  <2>1. /\ SubSeq(loops, 1, n) \in Seq(LoopRecords)
        /\ Len(SubSeq(loops, 1, n)) = IF 1 <= n THEN n - 1 + 1 ELSE 0
        /\ \A i \in 1..(n - 1 + 1) : SubSeq(loops, 1, n)[i] = loops[1 + i - 1]
    BY <1>0, SubSeqProperties
  <2>2. loops' = SubSeq(loops, 1, n)
    BY DEF n
  <2>3. n \in Nat /\ n = Len(loops) - 1
    BY <1>1 DEF n
  <2>4. QED
    BY <2>1, <2>2, <2>3
<1>3. Innermost \in LoopRecords
  BY <1>1, ElementOfSeq DEF Innermost
<1>4. /\ \A k \in DOMAIN loops' : k \in DOMAIN loops /\ loops'[k] = loops[k]
      /\ \A k \in DOMAIN loops : k \in DOMAIN loops' \/ k = Len(loops)
  BY <1>1, <1>2
<1>5. ASSUME NEW u \in Subsessions
      PROVE  (u # Innermost.sub => (Playing(u)' <=> Playing(u))) /\ (Playing(u)' => Playing(u))
  BY <1>4 DEF Playing, WaitersFor, Innermost
<1>6. QED
  BY <1>2, <1>3, <1>5

\* Where no loop is entered or left, the same calls own sinks.
LEMMA LoopsKept == loops' = loops => \A u : Playing(u)' <=> Playing(u)
BY DEF Playing, WaitersFor

\* Nothing changes for a subsession whose variables do not.
LEMMA OthersKept ==
  ASSUME PollInv, NEW u \in Subsessions, Playing(u)' <=> Playing(u),
         nextTask'[u] = nextTask[u], pollingDoneFlag'[u] = pollingDoneFlag[u],
         auxSDPLine'[u] = auxSDPLine[u], fSDPLines'[u] = fSDPLines[u],
         dummyRTPSink'[u] = dummyRTPSink[u], pollingCount'[u] = pollingCount[u]
  PROVE  Settled(u)'
BY DEF PollInv, Settled, Undecided, SinkOrLine, SameLines, FreshCount

-----------------------------------------------------------------------------
\* Initially nothing is scheduled and nobody waits.
LEMMA InitInv == PollingInit => PollInv
BY PollingAssumption DEF PollingInit, PollInv, PollingTypeOK, Settled, Undecided,
                         SinkOrLine, SameLines,
   FreshCount, Playing, WaitersFor

\* A poll.
LEMMA PollKeeps ==
  ASSUME PollInv, NEW s \in Subsessions, PollingAuxSDPLine(s)
  PROVE  PollInv'
<1>1. /\ nextTask[s] /\ ~auxSDPLine[s] /\ ~pollingDoneFlag[s] /\ fSDPLines[s] = "null"
      /\ dummyRTPSink[s] = "playing" /\ Playing(s)
      /\ UNCHANGED <<fSDPLines, camera, loops>>
  BY DEF PollingAuxSDPLine, PollInv, Settled, Undecided
<1>2. \A u \in Subsessions : Playing(u)' <=> Playing(u)
  BY <1>1, LoopsKept
<1>3. LineFound(s) \/ NothingFound(s)
  BY <1>1 DEF PollingAuxSDPLine
<1>4. PollingTypeOK'
  <2>1. CASE LineFound(s)
    BY <1>1, <2>1, PollingAssumption DEF LineFound, SetDoneFlag, PollInv, PollingTypeOK
  <2>2. CASE NothingFound(s) /\ pollingCount[s] >= MaxPolls
    <3>1. /\ nextTask' = [nextTask EXCEPT ![s] = FALSE]
          /\ UNCHANGED <<auxSDPLine, dummyRTPSink>>
          /\ SetDoneFlag(s)
      BY <2>2 DEF NothingFound
    <3>2. QED
      BY <1>1, <3>1, PollingAssumption DEF SetDoneFlag, PollInv, PollingTypeOK
  <2>3. CASE NothingFound(s) /\ ~(pollingCount[s] >= MaxPolls)
    <3>1. pollingCount[s] + 1 \in 0..MaxPolls
      BY <2>3, PollingAssumption DEF PollInv, PollingTypeOK
    <3>2. QED
      BY <1>1, <2>3, <3>1 DEF NothingFound, PollInv, PollingTypeOK
  <2>4. QED
    BY <1>3, <2>1, <2>2, <2>3
<1>5. ASSUME NEW u \in Subsessions, u # s
      PROVE  Settled(u)'
  BY <1>1, <1>2, <1>3, <1>5, OthersKept
     DEF LineFound, NothingFound, SetDoneFlag, PollInv, PollingTypeOK
<1>6. Settled(s)'
  BY <1>1, <1>2, <1>3
     DEF LineFound, NothingFound, SetDoneFlag, Settled, Undecided, SinkOrLine,
         SameLines, FreshCount, PollInv,
         PollingTypeOK
<1>7. QED
  BY <1>4, <1>5, <1>6 DEF PollInv

\* What the camera does.
LEMMA CameraKeeps ==
  ASSUME PollInv, NEW s \in Subsessions, ParametersArrive(s) \/ AfterPlayingDummy(s)
  PROVE  PollInv'
<1>1. Playing(s) /\ UNCHANGED <<fSDPLines, auxSDPLine, dummyRTPSink, loops>>
  BY DEF ParametersArrive, AfterPlayingDummy, polling
<1>2. \A u \in Subsessions : Playing(u)' <=> Playing(u)
  BY <1>1, LoopsKept
<1>3. CASE ParametersArrive(s)
  <2>1. UNCHANGED <<nextTask, pollingDoneFlag, pollingCount>>
        /\ camera' = [camera EXCEPT ![s] = "parameters"]
    BY <1>3 DEF ParametersArrive, polling
  <2>2. PollingTypeOK'
    BY <1>1, <2>1 DEF PollInv, PollingTypeOK
  <2>3. \A u \in Subsessions : Settled(u)'
    BY <1>1, <1>2, <2>1, OthersKept
  <2>4. QED
    BY <2>2, <2>3 DEF PollInv
<1>4. CASE AfterPlayingDummy(s)
  <2>1. /\ camera' = [camera EXCEPT ![s] = "closed"]
        /\ nextTask' = [nextTask EXCEPT ![s] = FALSE]
        /\ SetDoneFlag(s)
    BY <1>4 DEF AfterPlayingDummy, NoFurtherPoll
  <2>2. PollingTypeOK'
    BY <1>1, <2>1, PollingAssumption DEF SetDoneFlag, PollInv, PollingTypeOK
  <2>3. ASSUME NEW u \in Subsessions, u # s
        PROVE  Settled(u)'
    BY <1>1, <1>2, <2>1, <2>3, OthersKept DEF SetDoneFlag, PollInv, PollingTypeOK
  <2>4. Settled(s)'
    BY <1>1, <1>2, <2>1
       DEF SetDoneFlag, Settled, Undecided, SinkOrLine, SameLines, FreshCount, PollInv,
           PollingTypeOK
  <2>5. QED
    BY <2>2, <2>3, <2>4 DEF PollInv
<1>5. QED
  BY <1>3, <1>4

\* A DESCRIBE that makes SDP lines: at once,
LEMMA AtOnceKeeps ==
  ASSUME PollInv, NEW s \in Subsessions, SdpLinesAtOnce(s)
  PROVE  PollInv'
<1>1. /\ UNCHANGED <<auxSDPLine, pollingDoneFlag, pollingCount, dummyRTPSink, nextTask,
                     camera, loops>>
      /\ auxSDPLine[s] \/ pollingDoneFlag[s]
      /\ SetSDPLinesFromRTPSink(s)
  BY DEF SdpLinesAtOnce, polling
<1>2. \A u \in Subsessions : Playing(u)' <=> Playing(u)
  BY <1>1, LoopsKept
<1>3. PollingTypeOK'
  BY <1>1 DEF SetSDPLinesFromRTPSink, PollInv, PollingTypeOK
<1>4. ASSUME NEW u \in Subsessions, u # s
      PROVE  Settled(u)'
  BY <1>1, <1>2, <1>4, OthersKept DEF SetSDPLinesFromRTPSink, PollInv, PollingTypeOK
<1>5. Settled(s)'
  BY <1>1, <1>2
     DEF SetSDPLinesFromRTPSink, Settled, Undecided, SinkOrLine, SameLines, FreshCount,
         PollInv, PollingTypeOK
<1>6. QED
  BY <1>3, <1>4, <1>5 DEF PollInv

\* as the first, who plays a sink,
LEMMA FirstKeeps ==
  ASSUME PollInv, NEW s \in Subsessions, fSDPLines[s] = "null", SdpLinesFirst(s)
  PROVE  PollInv'
<1>1. /\ ~auxSDPLine[s] /\ dummyRTPSink[s] = "NULL" /\ ~pollingDoneFlag[s] /\ ~Playing(s)
      /\ ~nextTask[s] /\ UNCHANGED auxSDPLine
  BY DEF SdpLinesFirst, PollInv, Settled, SinkOrLine, Undecided
<1>2. CASE /\ dummyRTPSink' = [dummyRTPSink EXCEPT ![s] = "freed"]
           /\ camera' = [camera EXCEPT ![s] = "closed"]
           /\ SetDoneFlag(s)
           /\ SetSDPLinesFromRTPSink(s)
           /\ UNCHANGED <<nextTask, loops>>
  <2>1. \A u \in Subsessions : Playing(u)' <=> Playing(u)
    BY <1>2, LoopsKept
  <2>2. PollingTypeOK'
    BY <1>1, <1>2, PollingAssumption
       DEF SetDoneFlag, SetSDPLinesFromRTPSink, PollInv, PollingTypeOK
  <2>3. ASSUME NEW u \in Subsessions, u # s
        PROVE  Settled(u)'
    BY <1>1, <1>2, <2>1, <2>3, OthersKept
       DEF SetDoneFlag, SetSDPLinesFromRTPSink, PollInv, PollingTypeOK
  <2>4. Settled(s)'
    BY <1>1, <1>2
       DEF SetDoneFlag, SetSDPLinesFromRTPSink, Settled, Undecided, SinkOrLine,
           SameLines, FreshCount, PollInv,
           PollingTypeOK
  <2>5. QED
    BY <2>2, <2>3, <2>4 DEF PollInv
<1>3. CASE /\ Len(loops) < MaxNesting
           /\ dummyRTPSink' = [dummyRTPSink EXCEPT ![s] = "playing"]
           /\ pollingCount' = [pollingCount EXCEPT ![s] = @ + 1]
           /\ nextTask' = [nextTask EXCEPT ![s] = TRUE]
           /\ loops' = Append(loops, [sub |-> s, owner |-> TRUE])
           /\ UNCHANGED <<fSDPLines, pollingDoneFlag, camera>>
  <2>1. /\ loops' \in Seq(LoopRecords) /\ Len(loops') <= MaxNesting
        /\ \A u \in Subsessions : Playing(u)' <=> Playing(u) \/ u = s
    <3>1. /\ [sub |-> s, owner |-> TRUE] \in LoopRecords
          /\ [sub |-> s, owner |-> TRUE].sub = s /\ [sub |-> s, owner |-> TRUE].owner
      BY DEF LoopRecords
    <3>2. QED
      BY <1>3, <3>1, LoopsTyped, LoopEntered, PollingAssumption
  <2>2. pollingCount[s] + 1 \in 0..MaxPolls
    BY <1>1, PollingAssumption DEF PollInv, PollingTypeOK, Settled, FreshCount
  <2>3. PollingTypeOK'
    BY <1>1, <1>3, <2>1, <2>2 DEF LoopRecords, PollInv, PollingTypeOK
  <2>4. ASSUME NEW u \in Subsessions, u # s
        PROVE  Settled(u)'
    BY <1>1, <1>3, <2>1, <2>4, OthersKept DEF PollInv, PollingTypeOK
  <2>5. Settled(s)'
    BY <1>1, <1>3, <2>1 DEF Settled, Undecided, SinkOrLine, SameLines, FreshCount,
                            PollInv, PollingTypeOK
  <2>6. QED
    BY <2>3, <2>4, <2>5 DEF PollInv
<1>4. QED
  BY <1>2, <1>3 DEF SdpLinesFirst

\* or as another, who waits with the first.
LEMMA WaitKeeps ==
  ASSUME PollInv, NEW s \in Subsessions, SdpLinesNext(s)
  PROVE  PollInv'
<1>1. /\ loops' = Append(loops, [sub |-> s, owner |-> FALSE]) /\ Len(loops) < MaxNesting
      /\ UNCHANGED <<fSDPLines, auxSDPLine, pollingDoneFlag, pollingCount, dummyRTPSink,
                     nextTask, camera>>
  BY DEF SdpLinesNext, polling
<1>2. /\ loops' \in Seq(LoopRecords) /\ Len(loops') <= MaxNesting
      /\ \A u \in Subsessions : Playing(u)' <=> Playing(u)
  <2>1. [sub |-> s, owner |-> FALSE] \in LoopRecords /\ ~[sub |-> s, owner |-> FALSE].owner
    BY DEF LoopRecords
  <2>2. QED
    BY <1>1, <2>1, LoopsTyped, LoopEntered, PollingAssumption
<1>3. PollingTypeOK'
  BY <1>1, <1>2 DEF LoopRecords, PollInv, PollingTypeOK
<1>4. ASSUME NEW u \in Subsessions
      PROVE  Settled(u)'
  BY <1>1, <1>2, OthersKept
<1>5. QED
  BY <1>3, <1>4 DEF PollInv

\* A DESCRIBE that leaves its loop.
LEMMA ReturnKeeps ==
  ASSUME PollInv, LoopReturns
  PROVE  PollInv'
<1>1. /\ loops' \in Seq(LoopRecords) /\ Len(loops') <= MaxNesting
      /\ Innermost \in LoopRecords
      /\ \A u \in Subsessions : u # Innermost.sub => (Playing(u)' <=> Playing(u))
      /\ \A u \in Subsessions : Playing(u)' => Playing(u)
  BY LoopsTyped, LoopLeft, PollingAssumption DEF LoopReturns
<1> PICK s \in Subsessions : s = Innermost.sub
  BY <1>1 DEF LoopRecords
<1>2. /\ pollingDoneFlag[s]
      /\ \A u \in Subsessions : u # s => (Playing(u)' <=> Playing(u))
  BY <1>1 DEF LoopReturns
<1>3. ~nextTask[s]
  BY <1>2 DEF PollInv, Settled, Undecided
<1>4. PICK p \in {"NULL", "playing", "freed"} :
        /\ dummyRTPSink' = [dummyRTPSink EXCEPT ![s] = p]
        /\ p = "NULL" <=> dummyRTPSink[s] = "NULL"
  BY <1>2 DEF LoopReturns, PollInv, PollingTypeOK
<1>5. /\ UNCHANGED <<auxSDPLine, pollingDoneFlag, pollingCount, nextTask, camera>>
      /\ SetSDPLinesFromRTPSink(s)
  BY DEF LoopReturns, SetSDPLinesFromRTPSink
<1>6. PollingTypeOK'
  BY <1>1, <1>2, <1>4, <1>5 DEF SetSDPLinesFromRTPSink, LoopRecords, PollInv,
                                PollingTypeOK
<1>7. ASSUME NEW u \in Subsessions, u # s
      PROVE  Settled(u)'
  BY <1>1, <1>2, <1>4, <1>5, <1>7, OthersKept DEF SetSDPLinesFromRTPSink, PollInv,
                                                  PollingTypeOK
<1>8. Settled(s)'
  BY <1>1, <1>2, <1>3, <1>4, <1>5
     DEF SetSDPLinesFromRTPSink, Settled, Undecided, SinkOrLine, SameLines, FreshCount,
         PollInv,
         PollingTypeOK
<1>9. QED
  BY <1>2, <1>6, <1>7, <1>8 DEF PollInv

\* Every step keeps the invariant.
LEMMA NextInv == PollInv /\ [PollingNext]_pollingVars => PollInv'
<1> SUFFICES ASSUME PollInv, [PollingNext]_pollingVars PROVE PollInv'
  OBVIOUS
<1>1. CASE LoopReturns
  BY <1>1, ReturnKeeps
<1>2. ASSUME NEW s \in Subsessions,
             PollingAuxSDPLine(s) \/ ParametersArrive(s) \/ AfterPlayingDummy(s)
             \/ (fSDPLines[s] = "null" /\ SdpLines(s))
      PROVE  PollInv'
  BY <1>2, PollKeeps, CameraKeeps, AtOnceKeeps, FirstKeeps, WaitKeeps DEF SdpLines
<1>3. CASE UNCHANGED pollingVars
  BY <1>3, LoopsKept DEF pollingVars, polling, PollInv, PollingTypeOK, Settled,
                         Undecided,
                         SinkOrLine, SameLines, FreshCount
<1>4. QED
  BY <1>1, <1>2, <1>3 DEF PollingNext

\* The invariant holds in every behaviour.
THEOREM PollingInvariant == PollingSpec => []PollInv
BY InitInv, NextInv, PTL DEF PollingSpec

\* No poll is scheduled once the call that made the dummy sink has closed it.
THEOREM PollingSinkSafe == PollingSpec => []SinkOutlivesPolls
<1>1. PollInv => SinkOutlivesPolls
  BY DEF PollInv, Settled, Undecided, SinkOutlivesPolls
<1>2. QED
  BY <1>1, PollingInvariant, PTL

\* All nested DESCRIBEs of a subsession write the same lines.
THEOREM PollingSdpConsistent == PollingSpec => []SdpTellsAll
<1>1. PollInv => SdpTellsAll
  BY DEF PollInv, Settled, SameLines, SdpTellsAll
<1>2. QED
  BY <1>1, PollingInvariant, PTL

(***************************************************************************)
(* The connections.                                                        *)
(***************************************************************************)

Pieces == [request : Nat, kind : Subsessions \cup {None}, end : BOOLEAN]

CallRecords == [conn : Connections, at : {"bytes", "loop"}]

FramingTypeOK ==
    /\ sent \in [Connections -> Nat]
    /\ inbox \in [Connections -> Seq(Pieces)]
    /\ fRequestBuffer \in [Connections -> Seq(Pieces)]
    /\ fLastCRLF \in [Connections -> Nat]
    /\ calls \in Seq(CallRecords)

\* Where a request ends is within the buffer: a nested call that has emptied
\* the buffer has forgotten it as well.
EndInBuffer == \A c \in Connections : fLastCRLF[c] <= Len(fRequestBuffer[c])

\* Only the innermost call handles a request, and it has one.
HasRequest ==
    \A k \in DOMAIN calls : calls[k].at = "bytes" =>
        /\ k = Len(calls)
        /\ Ends(fRequestBuffer[calls[k].conn], fLastCRLF[calls[k].conn]) # {}

FramingInv == FramingTypeOK /\ EndInBuffer /\ HasRequest

-----------------------------------------------------------------------------
\* Initially there are no bytes and no calls.
LEMMA FramingInit == Init => FramingInv
BY DEF Init, FramingInv, FramingTypeOK, EndInBuffer, HasRequest

\* A client's request.
LEMMA SendKeepsFraming ==
  ASSUME FramingInv, NEW c \in Connections, Send(c)
  PROVE  FramingInv'
<1> DEFINE n == sent[c] + 1
           new == <<[request |-> n, kind |-> Asks[c][n], end |-> FALSE],
                    [request |-> n, kind |-> Asks[c][n], end |-> TRUE]>>
<1>1. n \in Nat /\ Asks[c][n] \in Subsessions \cup {None}
  <2>1. n \in Nat /\ n \in DOMAIN Asks[c]
    BY DEF Send, FramingInv, FramingTypeOK
  <2>2. Asks[c] \in Seq(Subsessions \cup {None})
    BY ConnectionsAssumption
  <2>3. QED
    BY <2>1, <2>2, ElementOfSeq, LenProperties
<1>2. new \in Seq(Pieces)
  BY <1>1 DEF Pieces
<1>3. inbox[c] \o new \in Seq(Pieces)
  BY <1>2, ConcatProperties DEF FramingInv, FramingTypeOK
<1>4. /\ sent' = [sent EXCEPT ![c] = n]
      /\ inbox' = [inbox EXCEPT ![c] = inbox[c] \o new]
      /\ UNCHANGED <<fRequestBuffer, fLastCRLF, calls>>
  BY DEF Send, buffer
<1>5. FramingTypeOK'
  <2> HIDE DEF n, new
  <2>1. QED
    BY <1>1, <1>3, <1>4 DEF FramingInv, FramingTypeOK
<1>6. EndInBuffer' /\ HasRequest'
  BY <1>4 DEF FramingInv, EndInBuffer, HasRequest
<1>7. QED
  BY <1>5, <1>6 DEF FramingInv

\* In an event loop no call is handling a request.
LEMMA LoopHandlesNone ==
  ASSUME FramingInv, InEventLoop
  PROVE  \A k \in DOMAIN calls : calls[k].at # "bytes"
BY DEF FramingInv, FramingTypeOK, HasRequest, InEventLoop, Top

\* A call that begins is innermost.
LEMMA CallBegun ==
  ASSUME NEW r \in CallRecords, calls \in Seq(CallRecords), calls' = Append(calls, r)
  PROVE  /\ calls' \in Seq(CallRecords)
         /\ \A k \in DOMAIN calls' : \/ k \in DOMAIN calls /\ calls'[k] = calls[k]
                                     \/ k = Len(calls') /\ calls'[k] = r
<1>1. calls' \in Seq(CallRecords) /\ Len(calls') = Len(calls) + 1
  OBVIOUS
<1>2. /\ \A k \in DOMAIN calls : k \in DOMAIN calls' /\ calls'[k] = calls[k]
      /\ calls'[Len(calls')] = r
      /\ \A k \in DOMAIN calls' : k \in DOMAIN calls \/ k = Len(calls')
  BY <1>1
<1>3. \A k \in DOMAIN calls' : \/ k \in DOMAIN calls /\ calls'[k] = calls[k]
                               \/ k = Len(calls') /\ calls'[k] = r
  BY <1>2, Zenon
<1>4. QED
  BY <1>1, <1>3, Zenon

\* Bytes are read, and a call begins if they end a request.
LEMMA ReadKeepsFraming ==
  ASSUME FramingInv, NEW c \in Connections, ReadBytes(c)
  PROVE  FramingInv'
<1>1. /\ InEventLoop /\ UNCHANGED <<fLastCRLF, sent>>
      /\ IF Ends(fRequestBuffer'[c], fLastCRLF[c]) = {}
         THEN calls' = calls
         ELSE calls' = Append(calls, [conn |-> c, at |-> "bytes"])
  BY DEF ReadBytes, Readable
<1>2. PICK m \in 1..Len(inbox[c]) :
          /\ fRequestBuffer' = [fRequestBuffer EXCEPT ![c] = @ \o SubSeq(inbox[c], 1, m)]
          /\ inbox' = [inbox EXCEPT ![c] = SubSeq(@, m + 1, Len(@))]
  BY DEF ReadBytes
<1>3. /\ inbox[c] \in Seq(Pieces) /\ fRequestBuffer[c] \in Seq(Pieces)
      /\ Len(inbox[c]) \in Nat /\ m \in Int /\ m <= Len(inbox[c]) /\ 1 <= m
      /\ \A i \in 1..Len(inbox[c]) : inbox[c][i] \in Pieces
  BY ElementOfSeq DEF FramingInv, FramingTypeOK
<1>4. SubSeq(inbox[c], 1, m) \in Seq(Pieces)
  BY <1>3, SubSeqProperties
<1>5. SubSeq(inbox[c], m + 1, Len(inbox[c])) \in Seq(Pieces)
  BY <1>3, SubSeqProperties
<1>6. /\ fRequestBuffer[c] \o SubSeq(inbox[c], 1, m) \in Seq(Pieces)
      /\ Len(fRequestBuffer[c]) <= Len(fRequestBuffer[c] \o SubSeq(inbox[c], 1, m))
  BY <1>3, <1>4, ConcatProperties
<1>7. [conn |-> c, at |-> "bytes"] \in CallRecords
  BY DEF CallRecords
<1>8. FramingTypeOK'
  <2>1. calls' \in Seq(CallRecords)
    <3>1. calls \in Seq(CallRecords)
      BY DEF FramingInv, FramingTypeOK
    <3>2. CASE calls' = calls
      BY <3>1, <3>2
    <3>3. CASE calls' = Append(calls, [conn |-> c, at |-> "bytes"])
      BY <3>1, <3>3, <1>7, CallBegun
    <3>4. QED
      BY <1>1, <3>2, <3>3
  <2> DEFINE read == fRequestBuffer[c] \o SubSeq(inbox[c], 1, m)
  <2>2. fRequestBuffer' \in [Connections -> Seq(Pieces)]
    <3>1. fRequestBuffer' = [fRequestBuffer EXCEPT ![c] = read]
      BY <1>2
    <3>2. read \in Seq(Pieces)
      BY <1>6
    <3>3. fRequestBuffer \in [Connections -> Seq(Pieces)]
      BY DEF FramingInv, FramingTypeOK
    <3>4. QED
      <4> HIDE DEF read
      <4>1. QED
        BY <3>1, <3>2, <3>3
  <2>3. inbox' \in [Connections -> Seq(Pieces)]
    BY <1>2, <1>5 DEF FramingInv, FramingTypeOK
  <2>4. QED
    BY <1>1, <2>1, <2>2, <2>3 DEF FramingInv, FramingTypeOK
<1>9. EndInBuffer'
  <2>1. ASSUME NEW d \in Connections
        PROVE  fLastCRLF'[d] <= Len(fRequestBuffer'[d])
    <3>1. fLastCRLF[d] \in Nat /\ fLastCRLF[d] <= Len(fRequestBuffer[d])
          /\ Len(fRequestBuffer[d]) \in Nat /\ Len(fRequestBuffer'[d]) \in Nat
      BY <1>8 DEF FramingInv, FramingTypeOK, EndInBuffer
    <3>2. Len(fRequestBuffer[d]) <= Len(fRequestBuffer'[d])
      BY <1>2, <1>6, <3>1 DEF FramingInv, FramingTypeOK
    <3>3. QED
      BY <1>1, <3>1, <3>2
  <2>2. QED
    BY <2>1 DEF EndInBuffer
<1>10. HasRequest'
  <2>1. \A k \in DOMAIN calls : calls[k].at # "bytes"
    BY <1>1, LoopHandlesNone
  <2>2. CASE calls' = calls
    BY <2>1, <2>2 DEF HasRequest
  <2>3. CASE /\ calls' = Append(calls, [conn |-> c, at |-> "bytes"])
             /\ Ends(fRequestBuffer'[c], fLastCRLF'[c]) # {}
    <3>1. \A k \in DOMAIN calls' : \/ k \in DOMAIN calls /\ calls'[k] = calls[k]
                                   \/ k = Len(calls') /\ calls'[k] = [conn |-> c, at |-> "bytes"]
      BY <1>7, <2>3, CallBegun DEF FramingInv, FramingTypeOK
    <3>2. ASSUME NEW k \in DOMAIN calls', calls'[k].at = "bytes"
          PROVE  k = Len(calls') /\ calls'[k].conn = c
      BY <2>1, <3>1, <3>2
    <3>3. QED
      BY <2>3, <3>2 DEF HasRequest
  <2>4. QED
    BY <1>1, <2>2, <2>3
<1>11. QED
  BY <1>8, <1>9, <1>10 DEF FramingInv
\* A request has been answered: the rest of the buffer holds the next, or the
\* call returns.
LEMMA AnswerKeepsFraming ==
  ASSUME FramingInv, NEW c \in Connections, NEW cseq, NEW last \in Nat,
         calls # << >>, c = Top.conn, Answer(c, cseq, last)
  PROVE  FramingInv'
<1> DEFINE size == IF last = 0 THEN 1 ELSE last
<1>1. PICK rest \in Seq(Pieces) :
        /\ fRequestBuffer' = [fRequestBuffer EXCEPT ![c] = rest]
        /\ IF Ends(rest, 0) = {} THEN calls' = SubSeq(calls, 1, Len(calls) - 1)
                                 ELSE calls' = [calls EXCEPT ![Len(calls)].at = "bytes"]
  <2> DEFINE n == Len(fRequestBuffer[c])
  <2>1. fRequestBuffer[c] \in Seq(Pieces) /\ n \in Nat /\ size \in Nat /\ size >= 1
    BY DEF FramingInv, FramingTypeOK
  <2>2. SubSeq(fRequestBuffer[c], size + 1, n) \in Seq(Pieces)
    <3> HIDE DEF n, size
    <3>1. /\ size + 1 \in Int /\ n \in Int
          /\ \A i \in (size + 1)..n : i \in 1..n
      BY <2>1
    <3>2. \A i \in 1..n : fRequestBuffer[c][i] \in Pieces
      BY <2>1, ElementOfSeq DEF n
    <3>3. QED
      BY <3>1, <3>2, SubSeqProperties
  <2>3. QED
    BY <2>2 DEF Answer, ResetRequestBuffer
<1>2. fLastCRLF' = [fLastCRLF EXCEPT ![c] = 0] /\ sent' = sent /\ inbox' = inbox
  BY DEF Answer, ResetRequestBuffer
<1>3. /\ calls \in Seq(CallRecords) /\ Len(calls) \in Nat /\ Len(calls) >= 1
      /\ \A k \in 1..Len(calls) : calls[k] \in CallRecords
      /\ \A k \in 1..(Len(calls) - 1) : calls[k].at # "bytes"
  BY ElementOfSeq DEF FramingInv, FramingTypeOK, HasRequest
<1>4. CASE Ends(rest, 0) = {}
  <2>1. /\ calls' \in Seq(CallRecords) /\ DOMAIN calls' = 1..(Len(calls) - 1)
        /\ \A k \in 1..(Len(calls) - 1) : calls'[k] = calls[k]
    <3> DEFINE n == Len(calls) - 1
    <3>1. n \in Nat /\ 1 \in Int /\ \A k \in 1..n : calls[k] \in CallRecords
      BY <1>3
    <3>2. calls' = SubSeq(calls, 1, n)
      BY <1>1, <1>4
    <3>3. /\ SubSeq(calls, 1, n) \in Seq(CallRecords)
          /\ Len(SubSeq(calls, 1, n)) = n
          /\ \A k \in 1..n : SubSeq(calls, 1, n)[k] = calls[k]
      <4> HIDE DEF n
      <4>1. /\ SubSeq(calls, 1, n) \in Seq(CallRecords)
            /\ Len(SubSeq(calls, 1, n)) = IF 1 <= n THEN n - 1 + 1 ELSE 0
            /\ \A k \in 1..(n - 1 + 1) : SubSeq(calls, 1, n)[k] = calls[1 + k - 1]
        BY <3>1, SubSeqProperties
      <4>2. QED
        BY <3>1, <4>1
    <3>4. QED
      <4> HIDE DEF n
      <4>1. n = Len(calls) - 1
        BY DEF n
      <4>2. QED
        BY <3>2, <3>3, <4>1, LenProperties
  <2>2. HasRequest'
    BY <1>3, <2>1 DEF HasRequest
  <2>3. QED
    BY <1>1, <1>2, <2>1, <2>2 DEF FramingInv, FramingTypeOK, EndInBuffer
<1>5. CASE Ends(rest, 0) # {}
  <2>1. /\ calls' \in Seq(CallRecords) /\ Len(calls') = Len(calls)
        /\ \A k \in 1..(Len(calls) - 1) : calls'[k] = calls[k]
        /\ calls'[Len(calls)].conn = c
    <3>1. calls' = [calls EXCEPT ![Len(calls)] = [calls[Len(calls)] EXCEPT !.at = "bytes"]]
      BY <1>1, <1>5
    <3>2. calls[Len(calls)] \in CallRecords /\ calls[Len(calls)].conn = c
      BY <1>3 DEF Top
    <3>3. PICK r \in CallRecords : r.conn = c /\ calls' = [calls EXCEPT ![Len(calls)] = r]
      BY <3>1, <3>2 DEF CallRecords
    <3>4. QED
      BY <1>3, <3>3, ExceptSeq
  <2>2. fLastCRLF'[c] = 0 /\ fRequestBuffer'[c] = rest
    BY <1>1, <1>2 DEF FramingInv, FramingTypeOK
  <2>3. HasRequest'
    <3>1. ASSUME NEW k \in DOMAIN calls', calls'[k].at = "bytes"
          PROVE  k = Len(calls') /\ calls'[k].conn = c
      BY <1>3, <2>1, <3>1
    <3>2. Ends(fRequestBuffer'[c], fLastCRLF'[c]) # {}
      BY <1>5, <2>2
    <3>3. QED
      BY <3>1, <3>2 DEF HasRequest
  <2>4. QED
    BY <1>1, <1>2, <2>1, <2>3 DEF FramingInv, FramingTypeOK, EndInBuffer
<1>6. QED
  BY <1>4, <1>5

\* The request that is handled ends within the buffer.
LEMMA RequestEnds ==
  ASSUME FramingInv, calls # << >>, Top.at = "bytes", NEW c \in Connections, c = Top.conn
  PROVE  Ends(fRequestBuffer[c], fLastCRLF[c]) \subseteq 1..Len(fRequestBuffer[c])
         /\ Ends(fRequestBuffer[c], fLastCRLF[c]) # {}
<1>1. Ends(fRequestBuffer[c], fLastCRLF[c]) # {}
  <2>1. Len(calls) \in DOMAIN calls
    BY DEF FramingInv, FramingTypeOK
  <2>2. QED
    BY <2>1 DEF FramingInv, HasRequest, Top
<1>2. Ends(fRequestBuffer[c], fLastCRLF[c]) \subseteq 1..Len(fRequestBuffer[c])
  <2>1. /\ fRequestBuffer[c] \in Seq(Pieces) /\ fLastCRLF[c] \in Nat
        /\ fLastCRLF[c] <= Len(fRequestBuffer[c]) /\ Len(fRequestBuffer[c]) \in Nat
    BY DEF FramingInv, FramingTypeOK, EndInBuffer
  <2>2. QED
    BY <2>1 DEF Ends
<1>3. QED
  BY <1>1, <1>2

\* Numbers that are not none have a least among them.
LEMMA HasLeast ==
  ASSUME NEW S, S \subseteq Nat, S # {}
  PROVE  \E i \in S : \A j \in S : i <= j
<1>1. PICK i \in S : \A j \in S : <<j, i>> \notin OpToRel(<, Nat)
  BY WFMin, NatLessThanWellFounded
<1>2. ASSUME NEW j \in S
      PROVE  i <= j
  <2>1. i \in Nat /\ j \in Nat /\ <<j, i>> \notin {ss \in Nat \X Nat : ss[1] < ss[2]}
    BY <1>1 DEF OpToRel
  <2>2. ~(j < i)
    BY <2>1
  <2>3. QED
    BY <2>1, <2>2
<1>3. QED
  BY <1>2

\* What HandleRequest does, with the connection, the end of the request and what
\* it was parsed to named.
LEMMA RequestHandled ==
  ASSUME FramingInv, HandleRequest
  PROVE  \E c \in Connections, end \in Nat, r \in Pieces :
           /\ calls # << >> /\ c = Top.conn /\ Top.at = "bytes"
           /\ end \in Ends(fRequestBuffer[c], fLastCRLF[c])
           /\ end \in 1..Len(fRequestBuffer[c])
           /\ \A i \in Ends(fRequestBuffer[c], fLastCRLF[c]) : end <= i
           /\ r = Parsed(c, end)
           /\ fCurrentCSeq' = IF r = NoRequest THEN fCurrentCSeq
                              ELSE [fCurrentCSeq EXCEPT ![c] =
                                      [request |-> r.request, call |-> Len(calls)]]
           /\ IF r.kind # None /\ fSDPLines[r.kind] = "null" THEN SdpLines(r.kind)
                                                         ELSE UNCHANGED pollingVars
           /\ \/ /\ calls' = [calls EXCEPT ![Len(calls)].at = "loop"]
                 /\ fLastCRLF' = [fLastCRLF EXCEPT ![c] = end]
                 /\ UNCHANGED <<objects, fRequestBuffer, sockets, client, history>>
              \/ Answer(c, r.request, end)
<1> DEFINE c == Top.conn
           ends == Ends(fRequestBuffer[c], fLastCRLF[c])
           end == CHOOSE i \in ends : \A j \in ends : i <= j
           parsed == Parsed(c, end)
<1>1. calls # << >> /\ Top.at = "bytes" /\ c \in Connections
  <2>1. calls # << >> /\ Top.at = "bytes"
    BY DEF HandleRequest
  <2>2. Top \in CallRecords
    BY <2>1, ElementOfSeq DEF FramingInv, FramingTypeOK, Top
  <2>3. QED
    BY <2>1, <2>2 DEF CallRecords
<1>2. ends # {} /\ ends \subseteq 1..Len(fRequestBuffer[c])
  <2> HIDE DEF c
  <2>1. c = Top.conn
    BY DEF c
  <2>2. QED
    BY <1>1, <2>1, RequestEnds
<1>3. end \in ends /\ \A i \in ends : end <= i
  <2>1. \E i \in ends : \A j \in ends : i <= j
    BY <1>2, HasLeast
  <2>2. QED
    BY <2>1
<1>4. end \in Nat /\ end \in 1..Len(fRequestBuffer[c])
  <2>1. fRequestBuffer[c] \in Seq(Pieces)
    BY <1>1 DEF FramingInv, FramingTypeOK
  <2>2. QED
    BY <1>2, <1>3, <2>1
<1>5. parsed \in Pieces
  <2>1. CASE end = 2
    <3>1. 1 \in 1..Len(fRequestBuffer[c]) /\ fRequestBuffer[c] \in Seq(Pieces)
      BY <1>1, <1>4, <2>1 DEF FramingInv, FramingTypeOK
    <3>2. fRequestBuffer[c][1] \in Pieces
      BY <3>1, ElementOfSeq
    <3>3. QED
      BY <2>1, <3>2 DEF Parsed
  <2>2. CASE end # 2
    BY <2>2 DEF Parsed, NoRequest, Pieces
  <2>3. QED
    BY <2>1, <2>2
<1>6. /\ fCurrentCSeq' = IF parsed = NoRequest THEN fCurrentCSeq
                         ELSE [fCurrentCSeq EXCEPT ![c] =
                                 [request |-> parsed.request, call |-> Len(calls)]]
      /\ IF parsed.kind # None /\ fSDPLines[parsed.kind] = "null" THEN SdpLines(parsed.kind)
                                                              ELSE UNCHANGED pollingVars
      /\ \/ /\ calls' = [calls EXCEPT ![Len(calls)].at = "loop"]
            /\ fLastCRLF' = [fLastCRLF EXCEPT ![c] = end]
            /\ UNCHANGED <<objects, fRequestBuffer, sockets, client, history>>
         \/ Answer(c, parsed.request, end)
  <2>1. HandleRequest =>
        /\ fCurrentCSeq' = IF parsed = NoRequest THEN fCurrentCSeq
                           ELSE [fCurrentCSeq EXCEPT ![c] =
                                   [request |-> parsed.request, call |-> Len(calls)]]
        /\ IF parsed.kind # None /\ fSDPLines[parsed.kind] = "null" THEN SdpLines(parsed.kind)
                                                                ELSE UNCHANGED pollingVars
        /\ IF Len(loops') > Len(loops)
           THEN /\ calls' = [calls EXCEPT ![Len(calls)].at = "loop"]
                /\ fLastCRLF' = [fLastCRLF EXCEPT ![c] = end]
                /\ UNCHANGED <<objects, fRequestBuffer, sockets, client, history>>
           ELSE Answer(c, parsed.request, end)
    BY Zenon DEF HandleRequest
  <2>2. QED
    <3> HIDE DEF c, end, parsed
    <3>1. QED
      BY <2>1
<1>7. QED
  <2> USE <1>1, <1>4, <1>5
  <2> WITNESS c \in Connections, end \in Nat, parsed \in Pieces
  <2>1. QED
    BY <1>3, <1>6, Zenon

\* A request is handled: the call waits in a loop, or it answers.
LEMMA HandleKeepsFraming ==
  ASSUME FramingInv, HandleRequest
  PROVE  FramingInv'
<1>1. PICK c \in Connections, end \in Nat :
           /\ calls # << >> /\ c = Top.conn /\ Top.at = "bytes"
           /\ end \in 1..Len(fRequestBuffer[c])
           /\ \/ /\ calls' = [calls EXCEPT ![Len(calls)].at = "loop"]
                 /\ fLastCRLF' = [fLastCRLF EXCEPT ![c] = end]
                 /\ UNCHANGED <<fRequestBuffer, sent, inbox>>
              \/ \E cseq : Answer(c, cseq, end)
  BY RequestHandled DEF client
<1>2. CASE \E cseq : Answer(c, cseq, end)
  BY <1>1, <1>2, AnswerKeepsFraming
<1>3. CASE /\ calls' = [calls EXCEPT ![Len(calls)].at = "loop"]
           /\ fLastCRLF' = [fLastCRLF EXCEPT ![c] = end]
           /\ UNCHANGED <<fRequestBuffer, sent, inbox>>
  <2>1. /\ calls \in Seq(CallRecords) /\ Len(calls) \in 1..Len(calls)
        /\ calls[Len(calls)] \in CallRecords
        /\ \A k \in 1..Len(calls) : k # Len(calls) => calls[k].at # "bytes"
    BY <1>1, ElementOfSeq DEF FramingInv, FramingTypeOK, HasRequest
  <2>2. PICK r \in CallRecords : r.at = "loop" /\ calls' = [calls EXCEPT ![Len(calls)] = r]
    <3>1. calls' = [calls EXCEPT ![Len(calls)] = [calls[Len(calls)] EXCEPT !.at = "loop"]]
      BY <1>3
    <3>2. QED
      BY <2>1, <3>1 DEF CallRecords
  <2>3. /\ calls' \in Seq(CallRecords) /\ Len(calls') = Len(calls)
        /\ \A k \in 1..Len(calls) : calls'[k].at # "bytes"
    BY <2>1, <2>2, ExceptSeq
  <2>4. HasRequest'
    BY <2>3 DEF HasRequest
  <2>5. FramingTypeOK' /\ EndInBuffer'
    BY <1>1, <1>3, <2>3 DEF FramingInv, FramingTypeOK, EndInBuffer
  <2>6. QED
    BY <2>4, <2>5 DEF FramingInv
<1>4. QED
  BY <1>1, <1>2, <1>3

\* A DESCRIBE is answered when its loop has returned.
LEMMA DescribedKeepsFraming ==
  ASSUME FramingInv, Described
  PROVE  FramingInv'
<1>1. calls # << >>
  BY DEF Described
<1>2. PICK c \in Connections : c = Top.conn
  <2>1. Top \in CallRecords
    BY <1>1, ElementOfSeq DEF FramingInv, FramingTypeOK, Top
  <2>2. QED
    BY <2>1 DEF CallRecords
<1>3. \E n : Answer(c, n, fLastCRLF[c])
  BY <1>2 DEF Described
<1>4. QED
  BY <1>1, <1>2, <1>3, AnswerKeepsFraming DEF FramingInv, FramingTypeOK

\* Every step keeps the invariant.
LEMMA FramingNext == FramingInv /\ [Next]_vars => FramingInv'
<1> SUFFICES ASSUME FramingInv, [Next]_vars PROVE FramingInv'
  OBVIOUS
<1>1. CASE UNCHANGED <<sent, inbox, fRequestBuffer, fLastCRLF, calls>>
  BY <1>1 DEF FramingInv, FramingTypeOK, EndInBuffer, HasRequest
<1>2. ASSUME NEW c \in Connections, Connect(c) \/ Send(c) \/ Leave(c) \/ Read(c)
      PROVE  FramingInv'
  <2>1. CASE Connect(c) \/ Leave(c) \/ ReadEnd(c)
    BY <1>1, <2>1 DEF Connect, Leave, ReadEnd, buffer, client
  <2>2. QED
    BY <1>2, <2>1, SendKeepsFraming, ReadKeepsFraming DEF Read
<1>3. CASE PollIsMade \/ CameraActs \/ UNCHANGED vars
  BY <1>1, <1>3 DEF PollIsMade, CameraActs, vars, buffer, client
<1>4. CASE CallGoesOn
  BY <1>4, HandleKeepsFraming, DescribedKeepsFraming DEF CallGoesOn
<1>5. QED
  BY <1>2, <1>3, <1>4 DEF Next

\* However calls nest, only the innermost handles a request, it has one whole,
\* and where that ends is within the buffer.
THEOREM FramingInvariant == Spec => []FramingInv
BY FramingInit, FramingNext, PTL DEF Spec

-----------------------------------------------------------------------------
\* The requests, however they nest, do with the SDP lines and their polling what
\* module SdpPolling says, and nothing else.
THEOREM ComposesPolling == Spec => PollingSpec
<1>1. Init => PollingInit
  BY DEF Init
<1>2. FramingInv /\ [Next]_vars => [PollingNext]_pollingVars
  <2> SUFFICES ASSUME FramingInv, [Next]_vars PROVE [PollingNext]_pollingVars
    OBVIOUS
  <2>1. CASE HandleRequest
    <3>1. \E kind \in Subsessions \cup {None} :
            IF kind # None /\ fSDPLines[kind] = "null" THEN SdpLines(kind)
                                                      ELSE UNCHANGED pollingVars
      BY <2>1, RequestHandled DEF Pieces
    <3>2. QED
      BY <3>1 DEF PollingNext
  <2>2. CASE Described \/ PollIsMade \/ CameraActs
    BY <2>2 DEF Described, PollIsMade, CameraActs, PollingNext
  <2>3. CASE \/ \E c \in Connections : Connect(c) \/ Send(c) \/ Leave(c) \/ Read(c)
             \/ UNCHANGED vars
    <3>1. UNCHANGED pollingVars
      BY <2>3 DEF Connect, Send, Leave, Read, ReadBytes, ReadEnd, vars
    <3>2. QED
      BY <3>1
  <2>4. QED
    BY <2>1, <2>2, <2>3 DEF CallGoesOn, Next
<1>3. QED
  BY <1>1, <1>2, FramingInvariant, PTL DEF Spec, PollingSpec

\* With any number of clients no poll looks at a dummy sink that its DESCRIBE has
\* closed.
THEOREM SinkSafe == Spec => []SinkOutlivesPolls
BY ComposesPolling, PollingSinkSafe, PTL

\* With any number of clients all DESCRIBEs of a subsession tell the same.
THEOREM SdpConsistent == Spec => []SdpTellsAll
BY ComposesPolling, PollingSdpConsistent, PTL

-----------------------------------------------------------------------------
(* The calls on a connection, and the count it keeps of them.              *)

CallsOf(c) == {k \in DOMAIN calls : calls[k].conn = c}

ObjectsTypeOK ==
    /\ exists \in [Connections -> {"no", "yes", "deleted"}]
    /\ fOurSocket \in [Connections -> SocketNums \cup {-1}]
    /\ fClientOutputSocket \in [Connections -> SocketNums \cup {-1}]
    /\ fIsActive \in [Connections -> BOOLEAN]
    /\ fRecursionCount \in [Connections -> Nat]
    /\ sockets \in [SocketNums -> Connections \cup {None}]

\* An object counts the calls on it.
Counted == \A c \in Connections : fRecursionCount[c] = Cardinality(CallsOf(c))

CallsInv == ObjectsTypeOK /\ Counted /\ CallsAlive

\* Where the calls are as they were, so are those of each connection.
LEMMA CallsKept == calls' = calls => \A c : CallsOf(c)' = CallsOf(c)
BY DEF CallsOf

\* The calls on a connection are finitely many.
LEMMA CallsFinite ==
  ASSUME calls \in Seq(CallRecords), NEW c
  PROVE  IsFiniteSet(CallsOf(c)) /\ Cardinality(CallsOf(c)) \in Nat
<1>1. Len(calls) \in Nat /\ CallsOf(c) \subseteq 1..Len(calls)
  BY DEF CallsOf
<1>2. IsFiniteSet(1..Len(calls))
  BY <1>1, FS_Interval
<1>3. QED
  BY <1>1, <1>2, FS_Subset, FS_CardinalityType

\* A call that begins is one more of its connection.
LEMMA CallAdded ==
  ASSUME calls \in Seq(CallRecords), NEW r \in CallRecords, calls' = Append(calls, r), NEW c
  PROVE  CallsOf(c)' = IF c = r.conn THEN CallsOf(c) \cup {Len(calls) + 1} ELSE CallsOf(c)
<1>1. /\ Len(calls) \in Nat /\ DOMAIN calls = 1..Len(calls)
      /\ DOMAIN calls' = 1..(Len(calls) + 1)
      /\ \A k \in 1..Len(calls) : calls'[k] = calls[k]
      /\ calls'[Len(calls) + 1] = r
  OBVIOUS
<1>2. QED
  BY <1>1 DEF CallsOf

\* The innermost call returns: the others are as they were.
LEMMA CallReturned ==
  ASSUME calls \in Seq(CallRecords), calls # << >>,
         calls' = SubSeq(calls, 1, Len(calls) - 1)
  PROVE  /\ calls' \in Seq(CallRecords) /\ Len(calls') = Len(calls) - 1
         /\ \A k \in DOMAIN calls' : k \in DOMAIN calls /\ calls'[k] = calls[k]
<1>1. /\ Len(calls) \in Nat /\ DOMAIN calls = 1..Len(calls) /\ Len(calls) >= 1
      /\ \A k \in 1..Len(calls) : calls[k] \in CallRecords
  BY ElementOfSeq
<1>2. PICK n \in Nat : n = Len(calls) - 1
  <2>1. Len(calls) - 1 \in Nat
    BY <1>1
  <2>2. QED
    BY <2>1
<1>3. \A k \in 1..n : calls[k] \in CallRecords
  BY <1>1, <1>2
<1>4. /\ SubSeq(calls, 1, n) \in Seq(CallRecords)
      /\ Len(SubSeq(calls, 1, n)) = IF 1 <= n THEN n - 1 + 1 ELSE 0
      /\ \A k \in 1..(n - 1 + 1) : SubSeq(calls, 1, n)[k] = calls[1 + k - 1]
  BY <1>3, SubSeqProperties
<1>5. /\ calls' \in Seq(CallRecords) /\ Len(calls') = n /\ DOMAIN calls' = 1..n
      /\ \A k \in 1..n : calls'[k] = calls[k]
  BY <1>2, <1>4
<1>6. QED
  BY <1>1, <1>2, <1>5

\* It is one less of its connection.
LEMMA CallRemoved ==
  ASSUME calls \in Seq(CallRecords), calls # << >>,
         calls' = SubSeq(calls, 1, Len(calls) - 1), NEW c
  PROVE  CallsOf(c)' = CallsOf(c) \ {Len(calls)}
<1>1. /\ Len(calls) \in Nat /\ DOMAIN calls = 1..Len(calls)
      /\ Len(calls') = Len(calls) - 1 /\ DOMAIN calls' = 1..Len(calls')
      /\ \A k \in DOMAIN calls' : calls'[k] = calls[k]
  BY CallReturned
<1>2. QED
  BY <1>1 DEF CallsOf

\* A call that changes its state stays where it is.
LEMMA CallMoved ==
  ASSUME calls \in Seq(CallRecords), calls # << >>, NEW a,
         calls' = [calls EXCEPT ![Len(calls)].at = a], NEW c
  PROVE  /\ CallsOf(c)' = CallsOf(c) /\ Len(calls') = Len(calls)
         /\ calls'[Len(calls)].at = a
         /\ \A k \in DOMAIN calls' : k # Len(calls) => calls'[k] = calls[k]
<1>1. /\ Len(calls) \in 1..Len(calls) /\ DOMAIN calls = 1..Len(calls)
      /\ calls[Len(calls)] \in CallRecords
  BY ElementOfSeq
<1>2. PICK r : r = [calls[Len(calls)] EXCEPT !.at = a]
  OBVIOUS
<1>3. /\ r.conn = calls[Len(calls)].conn /\ r.at = a
      /\ calls' = [calls EXCEPT ![Len(calls)] = r]
  BY <1>1, <1>2 DEF CallRecords
<1>4. DOMAIN calls' = DOMAIN calls /\ \A k \in DOMAIN calls : calls'[k].conn = calls[k].conn
  BY <1>1, <1>3
<1>5. QED
  BY <1>1, <1>4 DEF CallsOf

\* The innermost call is one of its connection's.
LEMMA TopIsCall ==
  ASSUME calls \in Seq(CallRecords), calls # << >>
  PROVE  /\ Top.conn \in Connections /\ Len(calls) \in DOMAIN calls
         /\ \A c : Len(calls) \in CallsOf(c) <=> c = Top.conn
<1>1. Len(calls) \in 1..Len(calls) /\ calls[Len(calls)] \in CallRecords
  BY ElementOfSeq
<1>2. QED
  BY <1>1 DEF CallsOf, Top, CallRecords

\* The lowest socket number that is free is one.
LEMMA LowestFree ==
  ASSUME NEW free, free \subseteq SocketNums, free # {}
  PROVE  (CHOOSE n \in free : \A m \in free : n <= m) \in free
<1>1. SocketNums \subseteq Nat
  BY DEF SocketNums
<1>2. \E n \in free : \A m \in free : n <= m
  BY <1>1, HasLeast
<1>3. QED
  BY <1>2

\* What Connect does, with the socket named.
LEMMA Connected ==
  ASSUME NEW c \in Connections, Connect(c)
  PROVE  \E f \in SocketNums :
           /\ sockets[f] = None /\ exists[c] = "no"
           /\ sockets' = [sockets EXCEPT ![f] = c]
           /\ exists' = [exists EXCEPT ![c] = "yes"]
           /\ fOurSocket' = [fOurSocket EXCEPT ![c] = f]
           /\ fClientOutputSocket' = [fClientOutputSocket EXCEPT ![c] = f]
           /\ inherited' = [inherited EXCEPT ![c] =
                 \E d \in Connections : f \in {fOurSocket[d], fClientOutputSocket[d]}]
           /\ UNCHANGED <<fIsActive, fRecursionCount, calls>>
<1> DEFINE free == {f \in SocketNums : sockets[f] = None}
           f == CHOOSE n \in free : \A m \in free : n <= m
<1>1. free \subseteq SocketNums /\ free # {}
  BY DEF Connect
<1>2. f \in free
  <2> HIDE DEF free
  <2>1. QED
    BY <1>1, LowestFree
<1>3. f \in SocketNums /\ sockets[f] = None
  BY <1>2
<1>4. /\ exists[c] = "no"
      /\ sockets' = [sockets EXCEPT ![f] = c]
      /\ exists' = [exists EXCEPT ![c] = "yes"]
      /\ fOurSocket' = [fOurSocket EXCEPT ![c] = f]
      /\ fClientOutputSocket' = [fClientOutputSocket EXCEPT ![c] = f]
      /\ inherited' = [inherited EXCEPT ![c] =
            \E d \in Connections : f \in {fOurSocket[d], fClientOutputSocket[d]}]
      /\ UNCHANGED <<fIsActive, fRecursionCount, calls>>
  BY DEF Connect
<1>5. QED
  <2> HIDE DEF f
  <2>1. QED
    BY <1>3, <1>4

\* A call that returns keeps the types; only an outermost call deletes.
LEMMA GoAwayDeletes ==
  ASSUME ObjectsTypeOK, NEW c \in Connections, GoAway(c),
         fIsActive' \in [Connections -> BOOLEAN], fRecursionCount' \in [Connections -> Nat]
  PROVE  /\ ObjectsTypeOK'
         /\ \A d \in Connections : exists[d] = "yes" =>
              exists'[d] = "yes" \/ (d = c /\ fRecursionCount'[c] = 0)
<1>1. fRecursionCount'[c] \in Nat
  OBVIOUS
<1>2. CASE UNCHANGED <<exists, fOurSocket, fClientOutputSocket, sockets>>
  BY <1>2 DEF ObjectsTypeOK
<1>3. CASE CloseSockets(c)
  BY <1>3 DEF CloseSockets, Closed, ObjectsTypeOK
<1>4. CASE Delete(c) /\ fRecursionCount'[c] = 0
  BY <1>4 DEF Delete, Closed, ObjectsTypeOK
<1>5. QED
  BY <1>1, <1>2, <1>3, <1>4 DEF GoAway

\* A response is sent: the call returns, or takes up the next request.
LEMMA AnswerReturns ==
  ASSUME NEW c, NEW cseq, NEW last, Answer(c, cseq, last)
  PROVE  /\ UNCHANGED <<fIsActive, sent, inbox, left, history>>
         /\ \/ /\ calls' = SubSeq(calls, 1, Len(calls) - 1)
               /\ fRecursionCount' = [fRecursionCount EXCEPT ![c] = @ - 1]
               /\ GoAway(c)
            \/ /\ calls' = [calls EXCEPT ![Len(calls)].at = "bytes"]
               /\ UNCHANGED <<fRecursionCount, exists, fOurSocket, fClientOutputSocket, sockets>>
BY Zenon DEF Answer

-----------------------------------------------------------------------------
(* No object is deleted under a call on it.                                *)

LEMMA CallsInit == Init => CallsInv
<1> SUFFICES ASSUME Init PROVE CallsInv
  OBVIOUS
<1>1. \A c \in Connections : CallsOf(c) = {}
  BY DEF Init, CallsOf
<1>2. Counted
  BY <1>1, FS_EmptySet DEF Init, Counted
<1>3. ObjectsTypeOK /\ CallsAlive
  BY DEF Init, ObjectsTypeOK, CallsAlive
<1>4. QED
  BY <1>2, <1>3 DEF CallsInv

\* Objects live on as long as they are counted: the calls and the counts decide.
LEMMA AliveKept ==
  ASSUME FramingInv', Counted',
         \A k \in DOMAIN calls' : exists[calls'[k].conn] = "yes",
         \A d \in Connections : exists[d] = "yes" =>
           exists'[d] = "yes" \/ fRecursionCount'[d] = 0
  PROVE  CallsAlive'
<1>1. ASSUME NEW k \in DOMAIN calls'
      PROVE  exists'[calls'[k].conn] = "yes"
  <2>1. PICK d \in Connections : d = calls'[k].conn
    <3>1. calls' \in Seq(CallRecords)
      BY DEF FramingInv, FramingTypeOK
    <3>2. calls'[k] \in CallRecords
      BY <1>1, <3>1, ElementOfSeq
    <3>3. QED
      BY <3>2 DEF CallRecords
  <2>2. PICK S : S = CallsOf(d)'
    OBVIOUS
  <2>3. k \in S /\ IsFiniteSet(S)
    <3>1. calls' \in Seq(CallRecords)
      BY DEF FramingInv, FramingTypeOK
    <3>2. Len(calls') \in Nat /\ DOMAIN calls' = 1..Len(calls')
      BY <3>1
    <3>3. IsFiniteSet(1..Len(calls')) /\ S \subseteq 1..Len(calls')
      BY <2>2, <3>2, FS_Interval DEF CallsOf
    <3>4. QED
      BY <2>1, <2>2, <3>3, FS_Subset DEF CallsOf
  <2>4. Cardinality(S) # 0
    BY <2>3, FS_EmptySet
  <2>5. fRecursionCount'[d] # 0
    BY <2>2, <2>4 DEF Counted
  <2>6. QED
    BY <2>1, <2>5
<1>2. QED
  BY <1>1 DEF CallsAlive

LEMMA ConnectKeepsCalls ==
  ASSUME CallsInv, NEW c \in Connections, Connect(c)
  PROVE  CallsInv'
<1>1. PICK f \in SocketNums :
           /\ sockets[f] = None /\ exists[c] = "no"
           /\ sockets' = [sockets EXCEPT ![f] = c]
           /\ exists' = [exists EXCEPT ![c] = "yes"]
           /\ fOurSocket' = [fOurSocket EXCEPT ![c] = f]
           /\ fClientOutputSocket' = [fClientOutputSocket EXCEPT ![c] = f]
           /\ UNCHANGED <<fIsActive, fRecursionCount, calls>>
  BY Connected
<1>2. ObjectsTypeOK'
  BY <1>1 DEF CallsInv, ObjectsTypeOK
<1>3. Counted' /\ CallsAlive'
  BY <1>1, CallsKept DEF CallsInv, Counted, CallsAlive, ObjectsTypeOK
<1>4. QED
  BY <1>2, <1>3 DEF CallsInv

LEMMA BytesKeepCalls ==
  ASSUME FramingInv, FramingInv', CallsInv, NEW c \in Connections, ReadBytes(c)
  PROVE  CallsInv'
<1>1. /\ exists[c] = "yes"
      /\ UNCHANGED <<exists, fOurSocket, fClientOutputSocket, fIsActive, sockets>>
      /\ \/ UNCHANGED <<calls, fRecursionCount>>
         \/ /\ calls' = Append(calls, [conn |-> c, at |-> "bytes"])
            /\ fRecursionCount' = [fRecursionCount EXCEPT ![c] = @ + 1]
  BY DEF ReadBytes, Readable
<1>2. calls \in Seq(CallRecords)
  BY DEF FramingInv, FramingTypeOK
<1>3. CASE UNCHANGED <<calls, fRecursionCount>>
  BY <1>1, <1>3, CallsKept DEF CallsInv, ObjectsTypeOK, Counted, CallsAlive
<1>4. CASE /\ calls' = Append(calls, [conn |-> c, at |-> "bytes"])
           /\ fRecursionCount' = [fRecursionCount EXCEPT ![c] = @ + 1]
  <2>1. PICK r \in CallRecords : r = [conn |-> c, at |-> "bytes"]
    BY DEF CallRecords
  <2>2. ObjectsTypeOK'
    BY <1>1, <1>4 DEF CallsInv, ObjectsTypeOK
  <2>3. ASSUME NEW d \in Connections
        PROVE  fRecursionCount'[d] = Cardinality(CallsOf(d)')
    <3>1. PICK S : S = CallsOf(d)
      OBVIOUS
    <3>2. /\ IsFiniteSet(S) /\ Cardinality(S) \in Nat /\ fRecursionCount[d] = Cardinality(S)
          /\ Len(calls) + 1 \notin S
      <4>1. Len(calls) \in Nat /\ Len(calls) + 1 \notin DOMAIN calls
        BY <1>2
      <4>2. QED
        BY <1>2, <3>1, <4>1, CallsFinite DEF CallsInv, Counted, CallsOf
    <3>3. CallsOf(d)' = IF d = c THEN S \cup {Len(calls) + 1} ELSE S
      BY <1>2, <1>4, <2>1, <3>1, CallAdded
    <3>4. Cardinality(S \cup {Len(calls) + 1}) = Cardinality(S) + 1
      BY <3>2, FS_AddElement
    <3>5. fRecursionCount'[d] = IF d = c THEN fRecursionCount[d] + 1 ELSE fRecursionCount[d]
      BY <1>4 DEF CallsInv, ObjectsTypeOK
    <3>6. QED
      BY <3>2, <3>3, <3>4, <3>5
  <2>4. CallsAlive'
    <3>1. \A k \in DOMAIN calls' : (k \in DOMAIN calls /\ calls'[k] = calls[k]) \/ calls'[k] = r
      BY <1>2, <1>4, <2>1, CallBegun
    <3>2. QED
      BY <1>1, <2>1, <3>1 DEF CallsInv, CallsAlive
  <2>5. QED
    BY <2>2, <2>3, <2>4 DEF CallsInv, Counted
<1>5. QED
  BY <1>1, <1>3, <1>4

LEMMA EndKeepsCalls ==
  ASSUME FramingInv, FramingInv', CallsInv, NEW c \in Connections, ReadEnd(c)
  PROVE  CallsInv'
<1>1. /\ fIsActive' = [fIsActive EXCEPT ![c] = FALSE]
      /\ UNCHANGED <<fRecursionCount, calls>> /\ GoAway(c)
  BY DEF ReadEnd
<1>2. /\ fIsActive' \in [Connections -> BOOLEAN] /\ fRecursionCount' \in [Connections -> Nat]
  BY <1>1 DEF CallsInv, ObjectsTypeOK
<1>3. /\ ObjectsTypeOK'
      /\ \A d \in Connections : exists[d] = "yes" =>
           exists'[d] = "yes" \/ (d = c /\ fRecursionCount'[c] = 0)
  BY <1>1, <1>2, GoAwayDeletes DEF CallsInv
<1>4. Counted'
  BY <1>1, CallsKept DEF CallsInv, Counted
<1>5. CallsAlive'
  <2>1. \A k \in DOMAIN calls' : exists[calls'[k].conn] = "yes"
    BY <1>1 DEF CallsInv, CallsAlive
  <2>2. QED
    BY <1>3, <1>4, <2>1, AliveKept
<1>6. QED
  BY <1>3, <1>4, <1>5 DEF CallsInv

\* A call that goes on, in a loop or with the next request.
LEMMA MoveKeepsCalls ==
  ASSUME calls \in Seq(CallRecords), CallsInv, calls # << >>, NEW a,
         calls' = [calls EXCEPT ![Len(calls)].at = a], UNCHANGED <<objects, sockets>>
  PROVE  CallsInv'
<1>1. \A c : CallsOf(c)' = CallsOf(c)
  BY CallMoved
<1>2. ObjectsTypeOK' /\ Counted'
  BY <1>1 DEF CallsInv, ObjectsTypeOK, Counted, objects
<1>3. CallsAlive'
  BY <1>1 DEF CallsInv, CallsAlive, CallsOf, objects
<1>4. QED
  BY <1>2, <1>3 DEF CallsInv

LEMMA AnswerKeepsCalls ==
  ASSUME FramingInv, FramingInv', CallsInv, NEW c \in Connections, NEW cseq, NEW last,
         calls # << >>, c = Top.conn, Answer(c, cseq, last)
  PROVE  CallsInv'
<1>1. calls \in Seq(CallRecords) /\ UNCHANGED fIsActive
  BY AnswerReturns DEF FramingInv, FramingTypeOK
<1>2. CASE /\ calls' = SubSeq(calls, 1, Len(calls) - 1)
           /\ fRecursionCount' = [fRecursionCount EXCEPT ![c] = @ - 1]
           /\ GoAway(c)
  <2>1. ASSUME NEW d \in Connections
        PROVE  fRecursionCount'[d] \in Nat /\ fRecursionCount'[d] = Cardinality(CallsOf(d)')
    <3>1. PICK S : S = CallsOf(d)
      OBVIOUS
    <3>2. /\ IsFiniteSet(S) /\ fRecursionCount[d] = Cardinality(S)
          /\ Len(calls) \in S <=> d = c
      BY <1>1, <3>1, CallsFinite, TopIsCall DEF CallsInv, Counted
    <3>3. CallsOf(d)' = S \ {Len(calls)}
      BY <1>1, <1>2, <3>1, CallRemoved
    <3>4. /\ IsFiniteSet(S \ {Len(calls)})
          /\ Cardinality(S \ {Len(calls)})
               = IF d = c THEN Cardinality(S) - 1 ELSE Cardinality(S)
      BY <3>2, FS_RemoveElement
    <3>5. Cardinality(S \ {Len(calls)}) \in Nat
      BY <3>4, FS_CardinalityType
    <3>6. fRecursionCount'[d] = IF d = c THEN fRecursionCount[d] - 1 ELSE fRecursionCount[d]
      BY <1>2 DEF CallsInv, ObjectsTypeOK
    <3>7. QED
      BY <3>2, <3>3, <3>4, <3>5, <3>6
  <2>2. fRecursionCount' \in [Connections -> Nat] /\ fIsActive' \in [Connections -> BOOLEAN]
    BY <1>1, <1>2, <2>1 DEF CallsInv, ObjectsTypeOK
  <2>3. /\ ObjectsTypeOK'
        /\ \A d \in Connections : exists[d] = "yes" =>
             exists'[d] = "yes" \/ (d = c /\ fRecursionCount'[c] = 0)
    BY <1>2, <2>2, GoAwayDeletes DEF CallsInv
  <2>4. Counted'
    BY <2>1 DEF Counted
  <2>5. CallsAlive'
    <3>1. ASSUME NEW k \in DOMAIN calls'
          PROVE  exists[calls'[k].conn] = "yes"
      <4>1. k \in DOMAIN calls /\ calls'[k] = calls[k]
        BY <1>1, <1>2, CallReturned
      <4>2. QED
        BY <4>1 DEF CallsInv, CallsAlive
    <3>2. QED
      BY <2>3, <2>4, <3>1, AliveKept
  <2>6. QED
    BY <2>3, <2>4, <2>5 DEF CallsInv
<1>3. CASE /\ calls' = [calls EXCEPT ![Len(calls)].at = "bytes"]
           /\ UNCHANGED <<fRecursionCount, exists, fOurSocket, fClientOutputSocket, sockets>>
  BY <1>1, <1>3, MoveKeepsCalls DEF objects
<1>4. QED
  BY <1>2, <1>3, AnswerReturns

LEMMA HandleKeepsCalls ==
  ASSUME FramingInv, FramingInv', CallsInv, HandleRequest
  PROVE  CallsInv'
<1>1. PICK c \in Connections, end \in Nat :
           /\ calls # << >> /\ c = Top.conn
           /\ \/ /\ calls' = [calls EXCEPT ![Len(calls)].at = "loop"]
                 /\ UNCHANGED <<objects, sockets>>
              \/ \E cseq : Answer(c, cseq, end)
  BY RequestHandled
<1>2. calls \in Seq(CallRecords)
  BY DEF FramingInv, FramingTypeOK
<1>3. QED
  BY <1>1, <1>2, AnswerKeepsCalls, MoveKeepsCalls

LEMMA DescribedKeepsCalls ==
  ASSUME FramingInv, FramingInv', CallsInv, Described
  PROVE  CallsInv'
<1>1. calls # << >> /\ calls \in Seq(CallRecords)
  BY DEF Described, FramingInv, FramingTypeOK
<1>2. PICK c \in Connections : c = Top.conn
  BY <1>1, TopIsCall
<1>3. \E n : Answer(c, n, fLastCRLF[c])
  BY <1>2 DEF Described
<1>4. QED
  BY <1>1, <1>2, <1>3, AnswerKeepsCalls

LEMMA CallsNext == FramingInv /\ FramingInv' /\ CallsInv /\ [Next]_vars => CallsInv'
<1> SUFFICES ASSUME FramingInv, FramingInv', CallsInv, [Next]_vars PROVE CallsInv'
  OBVIOUS
<1>1. CASE UNCHANGED <<objects, sockets, calls>>
  BY <1>1, CallsKept DEF CallsInv, ObjectsTypeOK, Counted, CallsAlive, objects
<1>2. ASSUME NEW c \in Connections, Connect(c) \/ Send(c) \/ Leave(c) \/ Read(c)
      PROVE  CallsInv'
  BY <1>1, <1>2, ConnectKeepsCalls, BytesKeepCalls, EndKeepsCalls DEF Send, Leave, Read
<1>3. CASE PollIsMade \/ CameraActs \/ UNCHANGED vars
  BY <1>1, <1>3 DEF PollIsMade, CameraActs, vars
<1>4. CASE CallGoesOn
  BY <1>4, HandleKeepsCalls, DescribedKeepsCalls DEF CallGoesOn
<1>5. QED
  BY <1>2, <1>3, <1>4 DEF Next

THEOREM CallsInvariant == Spec => []CallsInv
BY CallsInit, CallsNext, FramingInvariant, PTL DEF Spec

\* However deep the calls nest, over any number of connections, whenever clients
\* send and connect: no connection is deleted under a call on it.
THEOREM NoCallOnDeleted == Spec => []CallsAlive
<1>1. CallsInv => CallsAlive
  BY DEF CallsInv
<1>2. QED
  BY <1>1, CallsInvariant, PTL

-----------------------------------------------------------------------------
(* Sockets.                                                                *)

\* A connection has its client's socket, and nobody else keeps its number,
Held(c) ==
    /\ fIsActive[c] /\ fOurSocket[c] \in SocketNums
    /\ fClientOutputSocket[c] = fOurSocket[c] /\ sockets[fOurSocket[c]] = c
    /\ \A d \in Connections \ {c} :
          fOurSocket[d] # fOurSocket[c] /\ fClientOutputSocket[d] # fOurSocket[c]

\* or an inner call has closed that, and the outermost has the number of the
\* output socket, which may be another's by now, still to close;
LetGo(c) == ~fIsActive[c] /\ fOurSocket[c] = -1

\* where there is no connection there is no socket.
Gone(c) == fOurSocket[c] = -1 /\ fClientOutputSocket[c] = -1

\* Whatever becomes of a client that has inherited its number.
Placed(c) ==
    /\ exists[c] = "yes" /\ ~inherited[c] => Held(c) \/ LetGo(c)
    /\ exists[c] # "yes" => Gone(c)
    /\ exists[c] = "no" => fIsActive[c] /\ ~inherited[c]

SocketInv ==
    /\ inherited \in [Connections -> BOOLEAN]
    /\ \A c \in Connections : Placed(c)
    /\ \A f \in SocketNums : sockets[f] # None => fOurSocket[sockets[f]] = f

\* A connection of which nothing changes stays as it is.
SameObject(d) ==
    /\ exists'[d] = exists[d] /\ fIsActive'[d] = fIsActive[d]
    /\ fOurSocket'[d] = fOurSocket[d] /\ fClientOutputSocket'[d] = fClientOutputSocket[d]

\* Socket numbers are not -1.
LEMMA SocketNumbers == SocketNums \subseteq Nat /\ -1 \notin SocketNums
<1>1. SocketNums \subseteq Nat
  BY DEF SocketNums
<1>2. QED
  BY <1>1

\* When c closes numbers that it keeps, and gives up its own, the sockets that
\* stay open are the others', and the others' places are as they were.
LEMMA OthersPlaced ==
  ASSUME ObjectsTypeOK, SocketInv, NEW c \in Connections, UNCHANGED inherited,
         NEW numbers, fOurSocket[c] \in numbers,
         numbers \subseteq {fOurSocket[c], fClientOutputSocket[c]},
         sockets' = [f \in SocketNums |-> IF f \in numbers THEN None ELSE sockets[f]],
         fOurSocket' = [fOurSocket EXCEPT ![c] = -1],
         fClientOutputSocket'[c] \in {fClientOutputSocket[c], -1},
         \A d \in Connections : d # c => SameObject(d)
  PROVE  /\ \A d \in Connections : d # c => Placed(d)'
         /\ \A f \in SocketNums : sockets'[f] # None => fOurSocket'[sockets'[f]] = f
<1>1. ASSUME NEW f \in SocketNums, sockets'[f] # None
      PROVE  sockets'[f] = sockets[f] /\ sockets[f] \in Connections /\ sockets[f] # c
  <2>1. sockets'[f] = sockets[f] /\ f \notin numbers
    BY <1>1
  <2>2. sockets[f] \in Connections /\ fOurSocket[sockets[f]] = f
    BY <1>1, <2>1 DEF SocketInv, ObjectsTypeOK
  <2>3. QED
    BY <2>1, <2>2
<1>2. ASSUME NEW f \in SocketNums, sockets'[f] # None
      PROVE  fOurSocket'[sockets'[f]] = f
  <2>1. sockets'[f] = sockets[f] /\ sockets[f] \in Connections /\ sockets[f] # c
    BY <1>1, <1>2
  <2>2. fOurSocket[sockets[f]] = f
    BY <1>2, <2>1 DEF SocketInv
  <2>3. QED
    BY <2>1, <2>2 DEF ObjectsTypeOK
<1>3. ASSUME NEW d \in Connections, d # c
      PROVE  Placed(d)'
  <2>1. Placed(d) /\ SameObject(d) /\ inherited'[d] = inherited[d]
    BY <1>3 DEF SocketInv
  <2>2. CASE Held(d)
    <3>1. fOurSocket[d] \notin numbers /\ sockets'[fOurSocket[d]] = d
      BY <1>3, <2>2 DEF Held
    <3>2. /\ fOurSocket'[d] = fOurSocket[d] /\ fOurSocket'[d] # -1
          /\ fClientOutputSocket'[d] = fOurSocket[d] /\ fIsActive'[d]
      BY <2>1, <2>2, SocketNumbers DEF SameObject, Held
    <3>3. ASSUME NEW e \in Connections \ {d}
          PROVE  fOurSocket'[e] # fOurSocket'[d] /\ fClientOutputSocket'[e] # fOurSocket'[d]
      <4>1. fOurSocket[e] # fOurSocket[d] /\ fClientOutputSocket[e] # fOurSocket[d]
        BY <2>2 DEF Held
      <4>2. CASE e = c
        BY <3>2, <4>1, <4>2 DEF ObjectsTypeOK
      <4>3. CASE e # c
        BY <3>2, <4>1, <4>3 DEF SameObject
      <4>4. QED
        BY <4>2, <4>3
    <3>4. Held(d)'
      BY <2>2, <3>1, <3>2, <3>3 DEF Held
    <3>5. exists[d] = "yes"
      BY <2>1, <2>2, SocketNumbers DEF Placed, Gone, Held
    <3>6. QED
      BY <2>1, <3>4, <3>5 DEF Placed, SameObject
  <2>3. CASE ~Held(d)
    <3>1. /\ LetGo(d)' <=> LetGo(d)
          /\ Gone(d)' <=> Gone(d)
      BY <2>1 DEF SameObject, LetGo, Gone
    <3>2. QED
      BY <2>1, <2>3, <3>1 DEF Placed, SameObject
  <2>4. QED
    BY <2>2, <2>3
<1>4. QED
  BY <1>2, <1>3

\* A call that returns closes what its own connection keeps, and no socket of a
\* client that has its number to itself.
LEMMA GoAwayKeepsSockets ==
  ASSUME ObjectsTypeOK, SocketInv, NEW c \in Connections, exists[c] = "yes", GoAway(c),
         UNCHANGED inherited,
         fIsActive' \in [Connections -> BOOLEAN],
         fIsActive'[c] => fIsActive[c],
         \A d \in Connections : d # c => fIsActive'[d] = fIsActive[d]
  PROVE  SocketInv'
<1>1. Placed(c)
  BY DEF SocketInv
<1>2. CASE fIsActive'[c]
  <2>1. UNCHANGED <<exists, fOurSocket, fClientOutputSocket, sockets>>
    BY <1>2 DEF GoAway
  <2>2. \A d \in Connections : SameObject(d)
    BY <1>2, <2>1 DEF SameObject
  <2>3. ASSUME NEW d \in Connections
        PROVE  Placed(d)'
    BY <2>1, <2>2 DEF SocketInv, SameObject, Placed, Held, LetGo, Gone
  <2>4. QED
    BY <2>1, <2>3 DEF SocketInv
<1>3. CASE ~fIsActive'[c] /\ CloseSockets(c)
  <2>1. /\ sockets' = [f \in SocketNums |-> IF f \in {fOurSocket[c]} THEN None ELSE sockets[f]]
        /\ fOurSocket' = [fOurSocket EXCEPT ![c] = -1]
        /\ UNCHANGED <<exists, fClientOutputSocket>>
    BY <1>3 DEF CloseSockets, Closed
  <2>2. \A d \in Connections : d # c => SameObject(d)
    BY <2>1 DEF SameObject, ObjectsTypeOK
  <2>3. PICK numbers : numbers = {fOurSocket[c]}
    OBVIOUS
  <2>4. /\ sockets' = [f \in SocketNums |-> IF f \in numbers THEN None ELSE sockets[f]]
        /\ fOurSocket[c] \in numbers /\ numbers \subseteq {fOurSocket[c], fClientOutputSocket[c]}
        /\ fClientOutputSocket'[c] \in {fClientOutputSocket[c], -1}
    BY <2>1, <2>3
  <2>5. /\ \A d \in Connections : d # c => Placed(d)'
        /\ \A f \in SocketNums : sockets'[f] # None => fOurSocket'[sockets'[f]] = f
    BY <2>1, <2>2, <2>4, OthersPlaced
  <2>6. exists'[c] = "yes" /\ LetGo(c)'
    BY <1>3, <2>1 DEF LetGo, ObjectsTypeOK
  <2>7. Placed(c)'
    BY <2>6 DEF Placed
  <2>8. QED
    BY <2>5, <2>7 DEF SocketInv
<1>4. CASE ~fIsActive'[c] /\ Delete(c)
  <2>1. /\ sockets' = [f \in SocketNums |-> IF f \in {fClientOutputSocket[c], fOurSocket[c]}
                                            THEN None ELSE sockets[f]]
        /\ exists' = [exists EXCEPT ![c] = "deleted"]
        /\ fOurSocket' = [fOurSocket EXCEPT ![c] = -1]
        /\ fClientOutputSocket' = [fClientOutputSocket EXCEPT ![c] = -1]
    BY <1>4 DEF Delete, Closed
  <2>2. \A d \in Connections : d # c => SameObject(d)
    BY <2>1 DEF SameObject, ObjectsTypeOK
  <2>3. PICK numbers : numbers = {fClientOutputSocket[c], fOurSocket[c]}
    OBVIOUS
  <2>4. /\ sockets' = [f \in SocketNums |-> IF f \in numbers THEN None ELSE sockets[f]]
        /\ fOurSocket[c] \in numbers /\ numbers \subseteq {fOurSocket[c], fClientOutputSocket[c]}
    BY <2>1, <2>3
  <2>5. fClientOutputSocket'[c] = -1
    BY <2>1 DEF ObjectsTypeOK
  <2>6. /\ \A d \in Connections : d # c => Placed(d)'
        /\ \A f \in SocketNums : sockets'[f] # None => fOurSocket'[sockets'[f]] = f
    BY <2>1, <2>2, <2>4, <2>5, OthersPlaced
  <2>7. exists'[c] = "deleted" /\ Gone(c)'
    BY <2>1 DEF Gone, ObjectsTypeOK
  <2>8. Placed(c)'
    BY <2>7 DEF Placed
  <2>9. QED
    BY <2>6, <2>8 DEF SocketInv
<1>5. QED
  BY <1>2, <1>3, <1>4 DEF GoAway

\* A client gets a socket of its own, or of a number that somebody still keeps.
LEMMA ConnectKeepsSockets ==
  ASSUME CallsInv, SocketInv, NEW c \in Connections, Connect(c)
  PROVE  SocketInv'
<1>1. PICK f \in SocketNums :
           /\ sockets[f] = None /\ exists[c] = "no"
           /\ sockets' = [sockets EXCEPT ![f] = c]
           /\ exists' = [exists EXCEPT ![c] = "yes"]
           /\ fOurSocket' = [fOurSocket EXCEPT ![c] = f]
           /\ fClientOutputSocket' = [fClientOutputSocket EXCEPT ![c] = f]
           /\ inherited' = [inherited EXCEPT ![c] =
                 \E d \in Connections : f \in {fOurSocket[d], fClientOutputSocket[d]}]
           /\ UNCHANGED <<fIsActive, fRecursionCount, calls>>
  BY Connected
<1>2. ObjectsTypeOK /\ inherited \in [Connections -> BOOLEAN]
  BY DEF CallsInv, SocketInv
<1>3. Placed(c)'
  <2>1. exists'[c] = "yes" /\ fIsActive'[c] /\ fOurSocket'[c] = f /\ fClientOutputSocket'[c] = f
    BY <1>1, <1>2 DEF SocketInv, Placed, ObjectsTypeOK
  <2>2. CASE ~inherited'[c]
    <3>1. \A d \in Connections : fOurSocket[d] # f /\ fClientOutputSocket[d] # f
      BY <1>1, <1>2, <2>2
    <3>2. \A d \in Connections \ {c} : fOurSocket'[d] # f /\ fClientOutputSocket'[d] # f
      BY <1>1, <1>2, <3>1 DEF ObjectsTypeOK
    <3>3. sockets'[f] = c
      BY <1>1, <1>2 DEF ObjectsTypeOK
    <3>4. Held(c)'
      BY <2>1, <3>2, <3>3 DEF Held
    <3>5. QED
      BY <2>1, <3>4 DEF Placed
  <2>3. QED
    BY <2>1, <2>2 DEF Placed
<1>4. ASSUME NEW d \in Connections, d # c
      PROVE  Placed(d)'
  <2>1. /\ Placed(d) /\ SameObject(d) /\ inherited'[d] = inherited[d]
        /\ fOurSocket'[c] = f /\ fClientOutputSocket'[c] = f
    BY <1>1, <1>2, <1>4 DEF SocketInv, SameObject, ObjectsTypeOK
  <2>2. CASE Held(d)
    <3>1. fOurSocket[d] # f /\ sockets'[fOurSocket[d]] = d
      BY <1>1, <1>2, <2>2, ConnectionsAssumption DEF Held, ObjectsTypeOK
    <3>2. \A e \in Connections \ {c} : /\ fOurSocket'[e] = fOurSocket[e]
                                       /\ fClientOutputSocket'[e] = fClientOutputSocket[e]
      BY <1>1, <1>2 DEF ObjectsTypeOK
    <3>3. Held(d)'
      BY <1>4, <2>1, <2>2, <3>1, <3>2 DEF Held, SameObject
    <3>4. exists[d] = "yes"
      BY <2>1, <2>2, SocketNumbers DEF Placed, Gone, Held
    <3>5. QED
      BY <2>1, <3>3, <3>4 DEF Placed, SameObject
  <2>3. CASE ~Held(d)
    <3>1. /\ LetGo(d)' <=> LetGo(d)
          /\ Gone(d)' <=> Gone(d)
      BY <2>1 DEF SameObject, LetGo, Gone
    <3>2. QED
      BY <2>1, <2>3, <3>1 DEF Placed, SameObject
  <2>4. QED
    BY <2>2, <2>3
<1>5. ASSUME NEW n \in SocketNums, sockets'[n] # None
      PROVE  fOurSocket'[sockets'[n]] = n
  <2>1. CASE n = f
    BY <1>1, <1>2, <2>1 DEF ObjectsTypeOK
  <2>2. CASE n # f
    <3>1. sockets'[n] = sockets[n] /\ sockets[n] \in Connections /\ fOurSocket[sockets[n]] = n
      BY <1>1, <1>2, <1>5, <2>2 DEF ObjectsTypeOK, SocketInv
    <3>2. sockets[n] # c
      BY <1>1, <3>1, SocketNumbers DEF SocketInv, Placed, Gone
    <3>3. QED
      BY <1>1, <1>2, <3>1, <3>2 DEF ObjectsTypeOK
  <2>3. QED
    BY <2>1, <2>2
<1>6. inherited' \in [Connections -> BOOLEAN]
  BY <1>1, <1>2
<1>7. QED
  BY <1>3, <1>4, <1>5, <1>6 DEF SocketInv

\* Where objects and sockets are as they were.
LEMMA SameSockets ==
  ASSUME SocketInv,
         UNCHANGED <<exists, fOurSocket, fClientOutputSocket, fIsActive, sockets, inherited>>
  PROVE  SocketInv'
BY DEF SocketInv, Placed, Held, LetGo, Gone

LEMMA EndKeepsSockets ==
  ASSUME CallsInv, CallsInv', SocketInv, NEW c \in Connections, ReadEnd(c)
  PROVE  SocketInv'
<1>1. /\ fIsActive' = [fIsActive EXCEPT ![c] = FALSE] /\ exists[c] = "yes"
      /\ UNCHANGED inherited /\ GoAway(c)
  BY DEF ReadEnd, Readable, history
<1>2. ObjectsTypeOK /\ fIsActive' \in [Connections -> BOOLEAN]
  BY DEF CallsInv, ObjectsTypeOK
<1>3. ~fIsActive'[c] /\ \A d \in Connections : d # c => fIsActive'[d] = fIsActive[d]
  BY <1>1, <1>2 DEF ObjectsTypeOK
<1>4. QED
  BY <1>1, <1>2, <1>3, GoAwayKeepsSockets

LEMMA AnswerKeepsSockets ==
  ASSUME FramingInv, CallsInv, CallsInv', SocketInv, NEW c \in Connections, NEW cseq, NEW last,
         calls # << >>, c = Top.conn, Answer(c, cseq, last)
  PROVE  SocketInv'
<1>1. /\ ObjectsTypeOK /\ UNCHANGED <<fIsActive, inherited>>
      /\ fIsActive' \in [Connections -> BOOLEAN]
  BY AnswerReturns DEF CallsInv, ObjectsTypeOK, history
<1>2. CASE GoAway(c)
  <2>1. exists[c] = "yes"
    BY TopIsCall DEF FramingInv, FramingTypeOK, CallsInv, CallsAlive, Top
  <2>2. QED
    BY <1>1, <1>2, <2>1, GoAwayKeepsSockets
<1>3. CASE UNCHANGED <<exists, fOurSocket, fClientOutputSocket, sockets>>
  BY <1>1, <1>3, SameSockets
<1>4. QED
  BY <1>2, <1>3, AnswerReturns

LEMMA SocketsNext ==
  FramingInv /\ CallsInv /\ CallsInv' /\ SocketInv /\ [Next]_vars => SocketInv'
<1> SUFFICES ASSUME FramingInv, CallsInv, CallsInv', SocketInv, [Next]_vars
             PROVE  SocketInv'
  OBVIOUS
<1>1. CASE UNCHANGED <<exists, fOurSocket, fClientOutputSocket, fIsActive, sockets, inherited>>
  BY <1>1, SameSockets
<1>2. ASSUME NEW c \in Connections, Connect(c) \/ Send(c) \/ Leave(c) \/ Read(c)
      PROVE  SocketInv'
  <2>1. CASE Send(c) \/ Leave(c) \/ ReadBytes(c)
    BY <1>1, <2>1 DEF Send, Leave, ReadBytes, objects, history
  <2>2. QED
    BY <1>2, <2>1, ConnectKeepsSockets, EndKeepsSockets DEF Read
<1>3. CASE PollIsMade \/ CameraActs \/ UNCHANGED vars
  BY <1>1, <1>3 DEF PollIsMade, CameraActs, vars, objects, history
<1>4. CASE HandleRequest
  <2>1. PICK c \in Connections, end \in Nat :
           /\ calls # << >> /\ c = Top.conn
           /\ UNCHANGED <<objects, sockets, history>> \/ \E cseq : Answer(c, cseq, end)
    BY <1>4, RequestHandled
  <2>2. QED
    BY <1>1, <2>1, AnswerKeepsSockets DEF objects, history
<1>5. CASE Described
  <2>1. calls # << >> /\ calls \in Seq(CallRecords)
    BY <1>5 DEF Described, FramingInv, FramingTypeOK
  <2>2. PICK c \in Connections : c = Top.conn
    BY <2>1, TopIsCall
  <2>3. \E n : Answer(c, n, fLastCRLF[c])
    BY <1>5, <2>2 DEF Described
  <2>4. QED
    BY <2>1, <2>2, <2>3, AnswerKeepsSockets
<1>6. QED
  BY <1>2, <1>3, <1>4, <1>5 DEF Next, CallGoesOn

LEMMA SocketsInit == Init => SocketInv
BY DEF Init, SocketInv, Placed, Held, LetGo, Gone

THEOREM SocketInvariant == Spec => []SocketInv
BY SocketsInit, SocketsNext, FramingInvariant, CallsInvariant, PTL DEF Spec

\* For any number of clients, whenever they connect and however their calls nest:
\* a connection reads from its own client's socket, which nobody else closes,
\* unless that socket got a number that another connection still kept.
THEOREM SocketsAreOwned == Spec => []SocketsOwned
<1>1. CallsInv /\ SocketInv => SocketsOwned
  BY DEF CallsInv, ObjectsTypeOK, SocketInv, SocketsOwned, Placed, Held, LetGo, Gone
<1>2. QED
  BY <1>1, CallsInvariant, SocketInvariant, PTL

-----------------------------------------------------------------------------
(* Answers.  What has been sent and is not answered is in the buffer and   *)
(* on its way, in order; the one call on the connection is at the first.   *)

\* The p-th of the pieces in the buffer and on their way.
Piece(c, p) == IF p <= Len(fRequestBuffer[c]) THEN fRequestBuffer[c][p]
               ELSE inbox[c][p - Len(fRequestBuffer[c])]

\* They are the requests that follow the n-th, two pieces each.
Follow(c, n) ==
    /\ n \in Nat /\ n <= sent[c]
    /\ Len(fRequestBuffer[c]) + Len(inbox[c]) = 2 * (sent[c] - n)
    /\ \A i \in 1..(sent[c] - n) :
          /\ Piece(c, 2 * i - 1).request = n + i
          /\ ~Piece(c, 2 * i - 1).end /\ Piece(c, 2 * i).end

\* The one call there may be knows, in a nested loop, where the first of them
\* ends, and the CSeq is its own.
OneCall(c, n) ==
    \A k \in CallsOf(c) :
        /\ CallsOf(c) = {k}
        /\ calls[k].at = "loop" =>
              /\ fLastCRLF[c] = 2 /\ Len(fRequestBuffer[c]) >= 2
              /\ fCurrentCSeq[c] = [request |-> n + 1, call |-> k]

\* Without a nested loop it is not known where a request ends.
EndForgotten(c) == (\A k \in CallsOf(c) : calls[k].at = "bytes") => fLastCRLF[c] = 0

InStep(c) ==
    /\ \A i \in DOMAIN answers[c] : answers[c][i] = i
    /\ Follow(c, Len(answers[c])) /\ OneCall(c, Len(answers[c])) /\ EndForgotten(c)

\* A client that has left has no answers any more.
Stays(c) == Undisturbed(c) /\ ~left[c]

OrderTypeOK ==
    /\ answers \in [Connections -> Seq(Nat)]
    /\ left \in [Connections -> BOOLEAN] /\ reentered \in [Connections -> BOOLEAN]
    /\ fCurrentCSeq \in [Connections -> [request : Nat, call : Nat]]

\* Only the client's end makes a connection inactive.
EndedByClient == \A c \in Connections : ~fIsActive[c] => left[c]

OrderInv ==
    /\ OrderTypeOK /\ EndedByClient
    /\ \A c \in Connections : left[c] => answers[c] = << >>
    /\ \A c \in Connections : Stays(c) => InStep(c)

\* A connection stays in step if nothing of it changes.
LEMMA InStepKept ==
  ASSUME NEW d \in Connections, InStep(d), CallsOf(d)' = CallsOf(d),
         sent'[d] = sent[d], inbox'[d] = inbox[d], fRequestBuffer'[d] = fRequestBuffer[d],
         fLastCRLF'[d] = fLastCRLF[d], fCurrentCSeq'[d] = fCurrentCSeq[d],
         answers'[d] = answers[d],
         \A k \in CallsOf(d)' : calls'[k].at = calls[k].at
  PROVE  InStep(d)'
<1>1. \A p : Piece(d, p)' = Piece(d, p)
  BY DEF Piece
<1>2. Follow(d, Len(answers[d]))'
  BY <1>1 DEF InStep, Follow
<1>3. OneCall(d, Len(answers[d]))' /\ EndForgotten(d)'
  BY DEF InStep, OneCall, EndForgotten
<1>4. QED
  BY <1>2, <1>3 DEF InStep

\* Where only calls on c begin, move or return, the others' calls are as they were.
OthersCalls(c) ==
    \A d \in Connections : d # c =>
        CallsOf(d)' = CallsOf(d) /\ \A k \in CallsOf(d) : calls'[k].at = calls[k].at

LEMMA OrderInit == Init => OrderInv
<1> SUFFICES ASSUME Init PROVE OrderInv
  OBVIOUS
<1>1. ASSUME NEW c \in Connections
      PROVE  InStep(c)
  <2>1. CallsOf(c) = {} /\ answers[c] = << >> /\ fLastCRLF[c] = 0
    BY DEF Init, CallsOf
  <2>2. /\ sent[c] = 0 /\ Len(fRequestBuffer[c]) = 0 /\ Len(inbox[c]) = 0
        /\ Len(answers[c]) = 0
    BY DEF Init
  <2>3. Follow(c, Len(answers[c]))
    BY <2>2 DEF Follow
  <2>4. QED
    BY <2>1, <2>3 DEF InStep, OneCall, EndForgotten
<1>2. QED
  BY <1>1 DEF Init, OrderInv, OrderTypeOK, EndedByClient

\* What a client sends follows what it has sent before.
LEMMA SendKeepsOrder ==
  ASSUME FramingInv, OrderInv, NEW c \in Connections, Send(c)
  PROVE  OrderInv'
<1> DEFINE m == sent[c] + 1
           first == [request |-> m, kind |-> Asks[c][m], end |-> FALSE]
           second == [request |-> m, kind |-> Asks[c][m], end |-> TRUE]
<1>1. /\ sent' = [sent EXCEPT ![c] = m]
      /\ inbox' = [inbox EXCEPT ![c] = @ \o <<first, second>>]
      /\ UNCHANGED <<fIsActive, fRequestBuffer, fLastCRLF, fCurrentCSeq, calls, answers,
                     left, reentered, inherited>>
  BY DEF Send, buffer, objects, history
<1>2. /\ sent[c] \in Nat /\ sent \in [Connections -> Nat] /\ m \in Nat
      /\ inbox \in [Connections -> Seq(Pieces)] /\ inbox[c] \in Seq(Pieces)
      /\ fRequestBuffer[c] \in Seq(Pieces)
  BY DEF FramingInv, FramingTypeOK
<1>3. first.request = m /\ ~first.end /\ second.end
  OBVIOUS
<1> HIDE DEF first, second
<1>4. /\ sent'[c] = sent[c] + 1 /\ fRequestBuffer'[c] = fRequestBuffer[c]
      /\ inbox'[c] = inbox[c] \o <<first, second>>
  BY <1>1, <1>2
<1>5. ASSUME Stays(c)
      PROVE  InStep(c)'
  <2>1. InStep(c)
    BY <1>5 DEF OrderInv
  <2>2. PICK n \in Nat, b \in Nat, x \in Nat, k \in Nat :
           /\ n = Len(answers[c]) /\ b = Len(fRequestBuffer[c]) /\ x = Len(inbox[c])
           /\ sent[c] = n + k /\ b + x = 2 * k
    <3>1. /\ Len(answers[c]) \in Nat /\ Len(fRequestBuffer[c]) \in Nat /\ Len(inbox[c]) \in Nat
          /\ Len(answers[c]) <= sent[c]
          /\ Len(fRequestBuffer[c]) + Len(inbox[c]) = 2 * (sent[c] - Len(answers[c]))
      BY <1>2, <2>1 DEF InStep, Follow
    <3>2. PICK k \in Nat : k = sent[c] - Len(answers[c])
      BY <1>2, <3>1
    <3>3. sent[c] = Len(answers[c]) + k /\ sent[c] - Len(answers[c]) = k
      BY <1>2, <3>1, <3>2
    <3>4. Len(fRequestBuffer[c]) + Len(inbox[c]) = 2 * k
      BY <3>1, <3>3
    <3>5. QED
      BY <3>1, <3>3, <3>4
  <2>0. b + x = 2 * k
    BY <2>2
  <2>10. b = Len(fRequestBuffer[c])
    BY <2>2
  <2>11. \A p : /\ Piece(c, p) = IF p <= b THEN fRequestBuffer[c][p] ELSE inbox[c][p - b]
                /\ Piece(c, p)' = IF p <= b THEN fRequestBuffer[c][p] ELSE inbox'[c][p - b]
    BY <1>4, <2>10 DEF Piece
  <2>3. /\ Len(inbox'[c]) = x + 2
        /\ \A p \in 1..x : inbox'[c][p] = inbox[c][p]
        /\ inbox'[c][x + 1] = first /\ inbox'[c][x + 2] = second
    <3>1. PICK s \in Seq(Pieces) : s = inbox[c]
      BY <1>2
    <3>2. /\ Len(s \o <<first, second>>) = Len(s) + 2
          /\ \A p \in 1..Len(s) : (s \o <<first, second>>)[p] = s[p]
          /\ (s \o <<first, second>>)[Len(s) + 1] = first
          /\ (s \o <<first, second>>)[Len(s) + 2] = second
      OBVIOUS
    <3>3. QED
      BY <1>4, <2>2, <3>1, <3>2
  <2>4. \A p \in 1..(b + x) : Piece(c, p)' = Piece(c, p)
    <3> SUFFICES ASSUME NEW p \in 1..(b + x)
                 PROVE  Piece(c, p)' = Piece(c, p)
      OBVIOUS
    <3>1. CASE p <= b
      BY <2>11, <3>1
    <3>2. CASE ~(p <= b)
      <4>1. p - b \in 1..x
        BY <3>2
      <4>2. QED
        BY <2>3, <2>11, <3>2, <4>1
    <3>3. QED
      BY <3>1, <3>2
  <2>5. Piece(c, b + x + 1)' = first /\ Piece(c, b + x + 2)' = second
    <3>1. /\ ~(b + x + 1 <= b) /\ ~(b + x + 2 <= b)
          /\ b + x + 1 - b = x + 1 /\ b + x + 2 - b = x + 2
      OBVIOUS
    <3>2. /\ Piece(c, b + x + 1)' = inbox'[c][b + x + 1 - b]
          /\ Piece(c, b + x + 2)' = inbox'[c][b + x + 2 - b]
      BY <2>11, <3>1
    <3>3. QED
      BY <2>3, <3>1, <3>2
  <2>6. Follow(c, n)'
    <3>1. ASSUME NEW i \in 1..(k + 1)
          PROVE  /\ Piece(c, 2 * i - 1)'.request = n + i
                 /\ ~Piece(c, 2 * i - 1)'.end /\ Piece(c, 2 * i)'.end
      <4>1. CASE i = k + 1
        <5>1. 2 * i - 1 = b + x + 1 /\ 2 * i = b + x + 2
          BY <2>0, <4>1
        <5>4. n + i = m
          <6>1. sent[c] = n + k
            BY <2>2
          <6>2. n + i = n + k + 1
            BY <4>1
          <6>3. QED
            BY <6>1, <6>2
        <5>2. Piece(c, 2 * i - 1)' = first /\ Piece(c, 2 * i)' = second
          BY <2>5, <5>1
        <5>3. QED
          BY <1>3, <5>2, <5>4
      <4>2. CASE i # k + 1
        <5>1. i \in 1..k /\ 2 * i - 1 \in 1..(b + x) /\ 2 * i \in 1..(b + x)
          BY <2>0, <4>2
        <5>2. /\ Piece(c, 2 * i - 1).request = n + i
              /\ ~Piece(c, 2 * i - 1).end /\ Piece(c, 2 * i).end
          <6>1. sent[c] - n = k
            BY <2>2
          <6>2. QED
            BY <2>1, <2>2, <5>1, <6>1 DEF InStep, Follow
        <5>3. /\ Piece(c, 2 * i - 1)' = Piece(c, 2 * i - 1)
              /\ Piece(c, 2 * i)' = Piece(c, 2 * i)
          BY <2>4, <5>1
        <5>4. QED
          BY <5>2, <5>3
      <4>3. QED
        BY <4>1, <4>2
    <3>4. sent'[c] = n + k + 1
      BY <1>4, <2>2
    <3>5. sent'[c] - n = k + 1 /\ n <= sent'[c]
      BY <3>4
    <3>6. Len(fRequestBuffer'[c]) + Len(inbox'[c]) = b + (x + 2)
      BY <1>4, <2>2, <2>3
    <3>7. b + (x + 2) = 2 * (k + 1)
      BY <2>0
    <3>2. /\ sent'[c] - n = k + 1 /\ n <= sent'[c]
          /\ Len(fRequestBuffer'[c]) + Len(inbox'[c]) = 2 * (sent'[c] - n)
      BY <3>5, <3>6, <3>7
    <3>3. QED
      BY <1>1, <2>2, <3>1, <3>2 DEF Follow
  <2>7. CallsOf(c)' = CallsOf(c)
    BY <1>1, CallsKept
  <2>8. OneCall(c, n)' /\ EndForgotten(c)'
    BY <1>1, <1>4, <2>1, <2>2, <2>7 DEF InStep, OneCall, EndForgotten
  <2>9. QED
    BY <1>1, <2>1, <2>2, <2>6, <2>8 DEF InStep
<1>6. ASSUME NEW d \in Connections, d # c, Stays(d)
      PROVE  InStep(d)'
  <2>1. InStep(d)
    BY <1>6 DEF OrderInv
  <2>2. sent'[d] = sent[d] /\ inbox'[d] = inbox[d]
    BY <1>1, <1>2, <1>6
  <2>3. CallsOf(d)' = CallsOf(d)
    BY <1>1, CallsKept
  <2>4. QED
    BY <1>1, <2>1, <2>2, <2>3, InStepKept
<1>7. \A d \in Connections : Stays(d)' => Stays(d)
  BY <1>1 DEF Stays, Undisturbed
<1>8. QED
  BY <1>1, <1>5, <1>6, <1>7 DEF OrderInv, OrderTypeOK, EndedByClient

\* A connection on which no call is counted has none.
LEMMA NoneCounted ==
  ASSUME FramingInv, CallsInv, NEW c \in Connections, ~(fRecursionCount[c] > 0)
  PROVE  CallsOf(c) = {}
<1>1. fRecursionCount[c] = Cardinality(CallsOf(c)) /\ fRecursionCount[c] = 0
  BY DEF CallsInv, Counted, ObjectsTypeOK
<1>2. IsFiniteSet(CallsOf(c))
  BY CallsFinite DEF FramingInv, FramingTypeOK
<1>3. QED
  BY <1>1, <1>2, FS_EmptySet

\* Reading moves pieces, and nothing of their order.
LEMMA PiecesMoved ==
  ASSUME FramingInv, NEW c \in Connections, ReadBytes(c)
  PROVE  /\ Len(fRequestBuffer'[c]) + Len(inbox'[c]) = Len(fRequestBuffer[c]) + Len(inbox[c])
         /\ \A p \in 1..(Len(fRequestBuffer[c]) + Len(inbox[c])) : Piece(c, p)' = Piece(c, p)
         /\ \A d \in Connections : d # c =>
              fRequestBuffer'[d] = fRequestBuffer[d] /\ inbox'[d] = inbox[d]
<1>1. PICK m \in 1..Len(inbox[c]) :
          /\ fRequestBuffer' = [fRequestBuffer EXCEPT ![c] = @ \o SubSeq(inbox[c], 1, m)]
          /\ inbox' = [inbox EXCEPT ![c] = SubSeq(@, m + 1, Len(@))]
  BY DEF ReadBytes
<1>2. inbox \in [Connections -> Seq(Pieces)] /\ fRequestBuffer \in [Connections -> Seq(Pieces)]
  BY DEF FramingInv, FramingTypeOK
<1>3. /\ fRequestBuffer'[c] = fRequestBuffer[c] \o SubSeq(inbox[c], 1, m)
      /\ inbox'[c] = SubSeq(inbox[c], m + 1, Len(inbox[c]))
      /\ \A d \in Connections : d # c =>
           fRequestBuffer'[d] = fRequestBuffer[d] /\ inbox'[d] = inbox[d]
  BY <1>1, <1>2
<1>4. PICK s \in Seq(Pieces), t \in Seq(Pieces) : s = fRequestBuffer[c] /\ t = inbox[c]
  BY <1>2
<1>5. PICK u, v : u = SubSeq(t, 1, m) /\ v = SubSeq(t, m + 1, Len(t))
  OBVIOUS
<1>6. Len(s) \in Nat /\ Len(t) \in Nat /\ m \in Int /\ 1 <= m /\ m <= Len(t)
  BY <1>1, <1>4
<1>7. u \in Seq(Pieces) /\ Len(u) = m /\ \A i \in 1..m : u[i] = t[i]
  <2>1. \A i \in 1..m : t[i] \in Pieces
    BY <1>4, <1>6, ElementOfSeq
  <2>2. /\ SubSeq(t, 1, m) \in Seq(Pieces)
        /\ Len(SubSeq(t, 1, m)) = IF 1 <= m THEN m - 1 + 1 ELSE 0
        /\ \A i \in 1..(m - 1 + 1) : SubSeq(t, 1, m)[i] = t[1 + i - 1]
    BY <1>6, <2>1, SubSeqProperties
  <2>3. QED
    BY <1>5, <1>6, <2>2
<1>8. Len(v) = Len(t) - m /\ \A i \in 1..(Len(t) - m) : v[i] = t[m + i]
  <2>1. \A i \in (m + 1)..Len(t) : t[i] \in Pieces
    BY <1>4, <1>6, ElementOfSeq
  <2>2. /\ Len(SubSeq(t, m + 1, Len(t))) =
               IF m + 1 <= Len(t) THEN Len(t) - (m + 1) + 1 ELSE 0
        /\ \A i \in 1..(Len(t) - (m + 1) + 1) :
               SubSeq(t, m + 1, Len(t))[i] = t[(m + 1) + i - 1]
    BY <1>6, <2>1, SubSeqProperties
  <2>3. QED
    BY <1>5, <1>6, <2>2
<1>9. /\ Len(s \o u) = Len(s) + m
      /\ \A i \in 1..Len(s) : (s \o u)[i] = s[i]
      /\ \A i \in 1..m : (s \o u)[Len(s) + i] = t[i]
  BY <1>4, <1>6, <1>7, ConcatProperties
<1>10. /\ Len(fRequestBuffer'[c]) = Len(s) + m /\ Len(inbox'[c]) = Len(t) - m
       /\ \A i \in 1..Len(s) : fRequestBuffer'[c][i] = s[i]
       /\ \A i \in 1..m : fRequestBuffer'[c][Len(s) + i] = t[i]
       /\ \A i \in 1..(Len(t) - m) : inbox'[c][i] = t[m + i]
  BY <1>3, <1>4, <1>5, <1>8, <1>9
<1>11. ASSUME NEW p \in 1..(Len(s) + Len(t))
       PROVE  Piece(c, p)' = Piece(c, p)
  <2>1. Piece(c, p)' = IF p <= Len(s) + m THEN fRequestBuffer'[c][p]
                       ELSE inbox'[c][p - (Len(s) + m)]
    BY <1>10 DEF Piece
  <2>2. Piece(c, p) = IF p <= Len(s) THEN s[p] ELSE t[p - Len(s)]
    BY <1>4 DEF Piece
  <2>3. CASE p <= Len(s)
    BY <1>6, <1>10, <2>1, <2>2, <2>3
  <2>4. CASE ~(p <= Len(s)) /\ p <= Len(s) + m
    <3>1. PICK i \in 1..m : p = Len(s) + i
      <4>1. p - Len(s) \in 1..m /\ p = Len(s) + (p - Len(s))
        BY <1>6, <2>4
      <4>2. QED
        BY <4>1
    <3>2. p - Len(s) = i
      BY <1>6, <3>1
    <3>3. QED
      BY <1>10, <2>1, <2>2, <2>4, <3>1, <3>2
  <2>5. CASE ~(p <= Len(s) + m)
    <3>1. PICK i \in 1..(Len(t) - m) : p = Len(s) + m + i
      <4>1. p - (Len(s) + m) \in 1..(Len(t) - m) /\ p = Len(s) + m + (p - (Len(s) + m))
        BY <1>6, <2>5
      <4>2. QED
        BY <4>1
    <3>2. p - (Len(s) + m) = i /\ p - Len(s) = m + i /\ ~(p <= Len(s))
      BY <1>6, <3>1
    <3>3. QED
      BY <1>10, <2>1, <2>2, <2>5, <3>1, <3>2
  <2>6. QED
    BY <2>3, <2>4, <2>5
<1>12. Len(fRequestBuffer'[c]) + Len(inbox'[c]) = Len(s) + Len(t)
  BY <1>6, <1>10
<1>13. QED
  BY <1>3, <1>4, <1>11, <1>12

\* Bytes are read; a call that begins is the only one, or the connection is read
\* from in its own loop.
LEMMA BytesKeepOrder ==
  ASSUME FramingInv, CallsInv, OrderInv, NEW c \in Connections, ReadBytes(c)
  PROVE  OrderInv'
<1>1. /\ UNCHANGED <<fIsActive, fLastCRLF, fCurrentCSeq, sent, answers, left, inherited>>
      /\ reentered' = [reentered EXCEPT ![c] = @ \/ fRecursionCount[c] > 0]
      /\ calls' = calls \/ calls' = Append(calls, [conn |-> c, at |-> "bytes"])
  BY DEF ReadBytes
<1>2. calls \in Seq(CallRecords)
  BY DEF FramingInv, FramingTypeOK
<1>3. PICK r \in CallRecords : r = [conn |-> c, at |-> "bytes"]
  BY DEF CallRecords
<1>4. OthersCalls(c)
  <2>1. CASE calls' = calls
    BY <2>1, CallsKept DEF OthersCalls
  <2>2. CASE calls' = Append(calls, r)
    <3>1. \A k \in DOMAIN calls : calls'[k] = calls[k]
      BY <1>2, <2>2
    <3>2. QED
      BY <1>2, <1>3, <2>2, <3>1, CallAdded DEF OthersCalls, CallsOf
  <2>3. QED
    BY <1>1, <1>3, <2>1, <2>2
<1>5. ASSUME Stays(c)'
      PROVE  InStep(c)'
  <2>1. Stays(c) /\ ~(fRecursionCount[c] > 0)
    BY <1>1, <1>5 DEF Stays, Undisturbed, OrderInv, OrderTypeOK
  <2>2. InStep(c) /\ CallsOf(c) = {}
    BY <2>1, NoneCounted DEF OrderInv
  <2> DEFINE n == Len(answers[c])
  <2>3. Follow(c, n)'
    <3>1. PICK y \in Nat, k \in Nat :
             /\ n <= sent[c] /\ sent[c] - n = k /\ y = 2 * k
             /\ Len(fRequestBuffer[c]) + Len(inbox[c]) = y
      <4>1. /\ n \in Nat /\ sent[c] \in Nat /\ n <= sent[c]
            /\ Len(fRequestBuffer[c]) + Len(inbox[c]) = 2 * (sent[c] - n)
        BY <2>2 DEF InStep, Follow, FramingInv, FramingTypeOK
      <4>2. PICK k \in Nat : sent[c] - n = k
        BY <4>1
      <4>3. 2 * k \in Nat
        OBVIOUS
      <4>4. QED
        BY <4>1, <4>2, <4>3
    <3>5. y = 2 * k
      BY <3>1
    <3>2. ASSUME NEW i \in 1..(sent[c] - n)
          PROVE  /\ Piece(c, 2 * i - 1)'.request = n + i
                 /\ ~Piece(c, 2 * i - 1)'.end /\ Piece(c, 2 * i)'.end
      <4>0. i \in 1..k
        BY <3>1
      <4>1. 2 * i - 1 \in 1..y /\ 2 * i \in 1..y
        BY <3>5, <4>0
      <4>2. /\ Piece(c, 2 * i - 1).request = n + i
            /\ ~Piece(c, 2 * i - 1).end /\ Piece(c, 2 * i).end
        BY <2>2 DEF InStep, Follow
      <4>3. Piece(c, 2 * i - 1)' = Piece(c, 2 * i - 1) /\ Piece(c, 2 * i)' = Piece(c, 2 * i)
        BY <3>1, <4>1, PiecesMoved
      <4>4. QED
        BY <4>2, <4>3
    <3>3. Len(fRequestBuffer'[c]) + Len(inbox'[c]) = 2 * (sent[c] - n)
      BY <3>1, PiecesMoved
    <3>4. n \in Nat /\ sent'[c] = sent[c] /\ answers'[c] = answers[c]
      BY <1>1, <2>2 DEF InStep, Follow
    <3>6. QED
      BY <3>1, <3>2, <3>3, <3>4 DEF Follow
  <2>4. fLastCRLF'[c] = 0
    BY <1>1, <2>2 DEF InStep, EndForgotten
  <2>5. \A k \in CallsOf(c)' : CallsOf(c)' = {k} /\ calls'[k].at = "bytes"
    <3>1. CASE calls' = calls
      BY <2>2, <3>1, CallsKept
    <3>2. CASE calls' = Append(calls, r)
      <4>1. CallsOf(c)' = {Len(calls) + 1}
        BY <1>2, <1>3, <2>2, <3>2, CallAdded
      <4>2. calls'[Len(calls) + 1] = r
        BY <1>2, <3>2
      <4>3. QED
        BY <1>3, <4>1, <4>2
    <3>3. QED
      BY <1>1, <1>3, <3>1, <3>2
  <2>6. QED
    BY <1>1, <2>2, <2>3, <2>4, <2>5 DEF InStep, OneCall, EndForgotten
<1>6. ASSUME NEW d \in Connections, d # c, Stays(d)'
      PROVE  InStep(d)'
  <2>1. Stays(d)
    BY <1>1, <1>6 DEF Stays, Undisturbed, OrderInv, OrderTypeOK
  <2>2. InStep(d)
    BY <2>1 DEF OrderInv
  <2>3. fRequestBuffer'[d] = fRequestBuffer[d] /\ inbox'[d] = inbox[d]
    BY <1>6, PiecesMoved
  <2>4. QED
    BY <1>1, <1>4, <1>6, <2>2, <2>3, InStepKept DEF OthersCalls
<1>7. reentered' \in [Connections -> BOOLEAN]
  BY <1>1 DEF OrderInv, OrderTypeOK, CallsInv, ObjectsTypeOK
<1>8. QED
  BY <1>1, <1>5, <1>6, <1>7 DEF OrderInv, OrderTypeOK, EndedByClient

LEMMA EndKeepsOrder ==
  ASSUME CallsInv, OrderInv, NEW c \in Connections, ReadEnd(c)
  PROVE  OrderInv'
<1>1. /\ fIsActive' = [fIsActive EXCEPT ![c] = FALSE] /\ left[c]
      /\ UNCHANGED <<fRequestBuffer, fLastCRLF, fCurrentCSeq, calls, sent, inbox, answers,
                     left, reentered, inherited>>
  BY DEF ReadEnd, buffer, client, history
<1>2. EndedByClient'
  BY <1>1 DEF OrderInv, EndedByClient, CallsInv, ObjectsTypeOK
<1>3. ASSUME NEW d \in Connections, Stays(d)'
      PROVE  InStep(d)'
  <2>1. InStep(d)
    BY <1>1, <1>3 DEF OrderInv, Stays, Undisturbed
  <2>2. CallsOf(d)' = CallsOf(d)
    BY <1>1, CallsKept
  <2>3. QED
    BY <1>1, <2>1, <2>2, InStepKept
<1>4. QED
  BY <1>1, <1>2, <1>3 DEF OrderInv, OrderTypeOK

\* Where a response on c goes.
Reached(c) == IF fClientOutputSocket[c] = -1 THEN None ELSE sockets[fClientOutputSocket[c]]

\* No client that is undisturbed and stays gets the response to another, and it
\* gets its own.
LEMMA ReachesClient ==
  ASSUME CallsInv, SocketInv, OrderInv, NEW c \in Connections, exists[c] = "yes",
         NEW d \in Connections, Stays(d)
  PROVE  Reached(c) = d <=> c = d
<1>1. fIsActive[d] /\ ~inherited[d]
  BY DEF OrderInv, EndedByClient, Stays, Undisturbed, CallsInv, ObjectsTypeOK
<1>2. Placed(d) /\ exists[d] \in {"no", "yes", "deleted"}
  BY DEF SocketInv, CallsInv, ObjectsTypeOK
<1>3. ASSUME Reached(c) = d
      PROVE  c = d
  <2>1. /\ fClientOutputSocket[c] \in SocketNums
        /\ sockets[fClientOutputSocket[c]] = d /\ fOurSocket[d] = fClientOutputSocket[c]
    BY <1>3, ConnectionsAssumption DEF Reached, CallsInv, ObjectsTypeOK, SocketInv
  <2>2. Held(d)
    BY <1>1, <1>2, <2>1, SocketNumbers DEF Placed, LetGo, Gone
  <2>3. QED
    BY <2>1, <2>2 DEF Held
<1>4. ASSUME c = d
      PROVE  Reached(c) = d
  BY <1>1, <1>2, <1>4, SocketNumbers DEF Placed, Held, LetGo, Reached
<1>5. QED
  BY <1>3, <1>4

\* What Answer does, with the rest of the buffer named.
LEMMA Answered ==
  ASSUME FramingInv, NEW c \in Connections, NEW cseq, NEW last \in Nat,
         calls # << >>, c = Top.conn, Answer(c, cseq, last)
  PROVE  /\ answers' = [d \in Connections |-> IF d = Reached(c) /\ ~left[d]
                                              THEN Append(answers[d], cseq) ELSE answers[d]]
         /\ fRequestBuffer' = [fRequestBuffer EXCEPT ![c] =
               SubSeq(@, (IF last = 0 THEN 1 ELSE last) + 1, Len(@))]
         /\ fLastCRLF' = [fLastCRLF EXCEPT ![c] = 0]
         /\ \/ calls' = SubSeq(calls, 1, Len(calls) - 1)
            \/ calls' = [calls EXCEPT ![Len(calls)].at = "bytes"]
         /\ UNCHANGED <<fIsActive, sent, inbox, left, reentered, inherited>>
BY DEF Answer, ResetRequestBuffer, Reached, history

\* The calls that remain after an answer, and are not waiting in their loops, are
\* of c.
LEMMA CallsAnswered ==
  ASSUME FramingInv, NEW c \in Connections, calls # << >>, c = Top.conn,
         \/ calls' = SubSeq(calls, 1, Len(calls) - 1)
         \/ calls' = [calls EXCEPT ![Len(calls)].at = "bytes"]
  PROVE  /\ OthersCalls(c)
         /\ CallsOf(c) = {Len(calls)} =>
               \A k \in CallsOf(c)' : CallsOf(c)' = {k} /\ calls'[k].at = "bytes"
<1>1. calls \in Seq(CallRecords) /\ \A d : Len(calls) \in CallsOf(d) <=> d = c
  BY TopIsCall DEF FramingInv, FramingTypeOK
<1>2. CASE calls' = SubSeq(calls, 1, Len(calls) - 1)
  <2>1. \A d : CallsOf(d)' = CallsOf(d) \ {Len(calls)}
    BY <1>1, <1>2, CallRemoved
  <2>2. \A k \in DOMAIN calls' : calls'[k] = calls[k]
    BY <1>1, <1>2, CallReturned
  <2>3. ASSUME NEW d \in Connections, d # c
        PROVE  CallsOf(d)' = CallsOf(d) /\ \A k \in CallsOf(d) : calls'[k].at = calls[k].at
    <3>1. CallsOf(d)' = CallsOf(d)
      BY <1>1, <2>1, <2>3
    <3>2. \A k \in CallsOf(d)' : k \in DOMAIN calls'
      BY DEF CallsOf
    <3>3. QED
      BY <2>2, <3>1, <3>2
  <2>4. QED
    BY <2>1, <2>3 DEF OthersCalls
<1>3. CASE calls' = [calls EXCEPT ![Len(calls)].at = "bytes"]
  <2>1. /\ \A d : CallsOf(d)' = CallsOf(d)
        /\ calls'[Len(calls)].at = "bytes"
        /\ \A k \in DOMAIN calls' : k # Len(calls) => calls'[k] = calls[k]
    BY <1>1, <1>3, CallMoved
  <2>2. ASSUME NEW d \in Connections, d # c, NEW k \in CallsOf(d)
        PROVE  calls'[k].at = calls[k].at
    <3>1. k # Len(calls) /\ k \in CallsOf(d)'
      BY <1>1, <2>1, <2>2
    <3>2. k \in DOMAIN calls'
      BY <3>1 DEF CallsOf
    <3>3. QED
      BY <2>1, <3>1, <3>2
  <2>3. QED
    BY <2>1, <2>2 DEF OthersCalls
<1>4. QED
  BY <1>2, <1>3

\* The first request is taken from the buffer, the others follow one place on.
LEMMA FirstTaken ==
  ASSUME FramingInv, NEW c \in Connections, NEW n \in Nat, Follow(c, n),
         Len(fRequestBuffer[c]) >= 2,
         fRequestBuffer'[c] = SubSeq(fRequestBuffer[c], 3, Len(fRequestBuffer[c])),
         sent'[c] = sent[c], inbox'[c] = inbox[c]
  PROVE  Follow(c, n + 1)'
<1>1. PICK s \in Seq(Pieces), t \in Seq(Pieces) : s = fRequestBuffer[c] /\ t = inbox[c]
  BY DEF FramingInv, FramingTypeOK
<1>2. Len(s) \in Nat /\ Len(t) \in Nat /\ Len(s) >= 2 /\ sent[c] \in Nat
  BY <1>1 DEF FramingInv, FramingTypeOK
<1>3. /\ Len(fRequestBuffer'[c]) = Len(s) - 2
      /\ \A i \in 1..(Len(s) - 2) : fRequestBuffer'[c][i] = s[i + 2]
  <2>1. \A i \in 3..Len(s) : s[i] \in Pieces
    BY <1>1, <1>2, ElementOfSeq
  <2>2. /\ Len(SubSeq(s, 3, Len(s))) = IF 3 <= Len(s) THEN Len(s) - 3 + 1 ELSE 0
        /\ \A i \in 1..(Len(s) - 3 + 1) : SubSeq(s, 3, Len(s))[i] = s[3 + i - 1]
    BY <1>2, <2>1, SubSeqProperties
  <2>3. QED
    BY <1>1, <1>2, <2>2
<1>4. /\ n <= sent[c] /\ Len(s) + Len(t) = 2 * (sent[c] - n)
      /\ \A i \in 1..(sent[c] - n) :
            /\ Piece(c, 2 * i - 1).request = n + i
            /\ ~Piece(c, 2 * i - 1).end /\ Piece(c, 2 * i).end
  BY <1>1 DEF Follow
<1>5. ASSUME NEW p \in 1..(Len(s) + Len(t) - 2)
      PROVE  Piece(c, p)' = Piece(c, p + 2)
  <2>1. Piece(c, p)' = IF p <= Len(s) - 2 THEN fRequestBuffer'[c][p]
                       ELSE t[p - (Len(s) - 2)]
    BY <1>1, <1>3 DEF Piece
  <2>2. Piece(c, p + 2) = IF p + 2 <= Len(s) THEN s[p + 2] ELSE t[p + 2 - Len(s)]
    BY <1>1 DEF Piece
  <2>3. p - (Len(s) - 2) = p + 2 - Len(s) /\ (p <= Len(s) - 2 <=> p + 2 <= Len(s))
    BY <1>2
  <2>4. p <= Len(s) - 2 => fRequestBuffer'[c][p] = s[p + 2]
    BY <1>2, <1>3
  <2>5. QED
    BY <2>1, <2>2, <2>3, <2>4
<1>6. ASSUME NEW i \in 1..(sent[c] - (n + 1))
      PROVE  /\ Piece(c, 2 * i - 1)'.request = n + 1 + i
             /\ ~Piece(c, 2 * i - 1)'.end /\ Piece(c, 2 * i)'.end
  <2>0. PICK k \in Nat : k = sent[c] - n /\ sent[c] - (n + 1) = k - 1
    BY <1>2, <1>4
  <2>1. i + 1 \in 1..(sent[c] - n) /\ n + (i + 1) = n + 1 + i
    <3>1. i \in 1..(k - 1)
      BY <2>0
    <3>2. i + 1 \in 1..k /\ n + (i + 1) = n + 1 + i
      BY <3>1
    <3>3. QED
      BY <2>0, <3>2
  <2>2. /\ 2 * i - 1 \in 1..(Len(s) + Len(t) - 2) /\ 2 * i \in 1..(Len(s) + Len(t) - 2)
        /\ 2 * i - 1 + 2 = 2 * (i + 1) - 1 /\ 2 * i + 2 = 2 * (i + 1)
    BY <1>2, <1>4
  <2>3. /\ Piece(c, 2 * (i + 1) - 1).request = n + (i + 1)
        /\ ~Piece(c, 2 * (i + 1) - 1).end /\ Piece(c, 2 * (i + 1)).end
    BY <1>4, <2>1
  <2>4. /\ Piece(c, 2 * i - 1)' = Piece(c, 2 * (i + 1) - 1)
        /\ Piece(c, 2 * i)' = Piece(c, 2 * (i + 1))
    <3>1. /\ Piece(c, 2 * i - 1)' = Piece(c, 2 * i - 1 + 2)
          /\ Piece(c, 2 * i)' = Piece(c, 2 * i + 2)
      BY <1>5, <2>2
    <3>2. QED
      BY <2>2, <3>1
  <2>5. QED
    BY <2>1, <2>3, <2>4
<1>7. /\ n + 1 <= sent'[c]
      /\ Len(fRequestBuffer'[c]) + Len(inbox'[c]) = 2 * (sent'[c] - (n + 1))
  <2>1. PICK k \in Nat : k = sent[c] - n /\ Len(s) + Len(t) = 2 * k /\ sent[c] = n + k
    BY <1>2, <1>4
  <2>2. PICK y \in Nat, z \in Nat : y = Len(s) /\ z = Len(t) /\ y >= 2 /\ y + z = 2 * k
    BY <1>2, <2>1
  <2>3. k >= 1
    BY <2>2
  <2>4. n + 1 <= n + k /\ n + k - (n + 1) = k - 1 /\ y - 2 + z = 2 * (k - 1)
    BY <2>2, <2>3
  <2>5. /\ sent'[c] = n + k /\ Len(fRequestBuffer'[c]) = y - 2 /\ Len(inbox'[c]) = z
    BY <1>1, <1>3, <2>1, <2>2
  <2>6. QED
    BY <2>4, <2>5
<1>8. n + 1 \in Nat /\ sent'[c] = sent[c]
  OBVIOUS
<1>9. QED
  BY <1>6, <1>7, <1>8 DEF Follow

\* A request is answered.  On a connection that is in step, with its own number;
\* on others, with whatever number, to nobody that is.
LEMMA AnswerKeepsOrder ==
  ASSUME FramingInv, CallsInv, SocketInv, OrderInv, NEW c \in Connections,
         NEW cseq \in Nat, NEW last \in Nat,
         calls # << >>, c = Top.conn, Answer(c, cseq, last),
         Stays(c) => /\ cseq = Len(answers[c]) + 1 /\ last = 2
                     /\ Len(fRequestBuffer[c]) >= 2,
         fCurrentCSeq' \in [Connections -> [request : Nat, call : Nat]],
         \A d \in Connections : d # c => fCurrentCSeq'[d] = fCurrentCSeq[d]
  PROVE  OrderInv'
<1>1. calls \in Seq(CallRecords) /\ exists[c] = "yes"
  BY TopIsCall DEF FramingInv, FramingTypeOK, CallsInv, CallsAlive, Top
<1>2. PICK to : to = Reached(c)
  OBVIOUS
<1>3. /\ answers' = [d \in Connections |-> IF d = to /\ ~left[d]
                                           THEN Append(answers[d], cseq) ELSE answers[d]]
      /\ fRequestBuffer' = [fRequestBuffer EXCEPT ![c] =
            SubSeq(@, (IF last = 0 THEN 1 ELSE last) + 1, Len(@))]
      /\ fLastCRLF' = [fLastCRLF EXCEPT ![c] = 0]
      /\ \/ calls' = SubSeq(calls, 1, Len(calls) - 1)
         \/ calls' = [calls EXCEPT ![Len(calls)].at = "bytes"]
      /\ UNCHANGED <<fIsActive, sent, inbox, left, reentered, inherited>>
  <2>1. answers' = [d \in Connections |-> IF d = Reached(c) /\ ~left[d]
                                           THEN Append(answers[d], cseq) ELSE answers[d]]
    BY Answered
  <2>2. fRequestBuffer' = [fRequestBuffer EXCEPT ![c] =
            SubSeq(@, (IF last = 0 THEN 1 ELSE last) + 1, Len(@))]
    BY Answered
  <2>3. /\ fLastCRLF' = [fLastCRLF EXCEPT ![c] = 0]
        /\ UNCHANGED <<fIsActive, sent, inbox, left, reentered, inherited>>
    BY Answered
  <2>4. \/ calls' = SubSeq(calls, 1, Len(calls) - 1)
        \/ calls' = [calls EXCEPT ![Len(calls)].at = "bytes"]
    BY Answered
  <2>5. QED
    BY <1>2, <2>1, <2>2, <2>3, <2>4
<1>4. /\ fRequestBuffer \in [Connections -> Seq(Pieces)] /\ fLastCRLF \in [Connections -> Nat]
      /\ answers \in [Connections -> Seq(Nat)]
  BY DEF FramingInv, FramingTypeOK, OrderInv, OrderTypeOK
<1>5. /\ OthersCalls(c)
      /\ CallsOf(c) = {Len(calls)} =>
            \A k \in CallsOf(c)' : CallsOf(c)' = {k} /\ calls'[k].at = "bytes"
  BY <1>3, CallsAnswered
<1>6. \A d \in Connections : Stays(d)' <=> Stays(d)
  BY <1>3 DEF Stays, Undisturbed
<1>7. ASSUME NEW d \in Connections, d # c, Stays(d)
      PROVE  InStep(d)'
  <2>1. InStep(d)
    BY <1>7 DEF OrderInv
  <2>2. to # d
    BY <1>1, <1>2, <1>7, ReachesClient
  <2>3. answers'[d] = answers[d]
    BY <1>3, <2>2
  <2>4. fRequestBuffer'[d] = fRequestBuffer[d] /\ fLastCRLF'[d] = fLastCRLF[d]
    BY <1>3, <1>4, <1>7
  <2>5. QED
    <3>1. CallsOf(d)' = CallsOf(d) /\ \A k \in CallsOf(d)' : calls'[k].at = calls[k].at
      BY <1>5, <1>7 DEF OthersCalls
    <3>2. sent'[d] = sent[d] /\ inbox'[d] = inbox[d] /\ fCurrentCSeq'[d] = fCurrentCSeq[d]
      BY <1>3, <1>7
    <3>3. QED
      BY <2>1, <2>3, <2>4, <3>1, <3>2, InStepKept
<1>8. ASSUME Stays(c)
      PROVE  InStep(c)'
  <2>1. InStep(c)
    BY <1>8 DEF OrderInv
  <2>2. PICK a \in Seq(Nat), n \in Nat : a = answers[c] /\ n = Len(a)
    BY <1>4
  <2>3. answers'[c] = Append(a, n + 1)
    <3>1. to = c /\ ~left[c]
      BY <1>1, <1>2, <1>8, ReachesClient DEF Stays
    <3>2. QED
      BY <1>3, <1>8, <2>2, <3>1
  <2>4. Len(answers'[c]) = n + 1 /\ \A i \in DOMAIN answers'[c] : answers'[c][i] = i
    <3>1. \A i \in DOMAIN a : a[i] = i
      BY <2>1, <2>2 DEF InStep
    <3>2. Len(Append(a, n + 1)) = n + 1 /\ \A i \in DOMAIN Append(a, n + 1) : Append(a, n + 1)[i] = i
      BY <2>2, <3>1
    <3>3. QED
      BY <2>3, <3>2
  <2>5. fLastCRLF'[c] = 0
    BY <1>3, <1>4
  <2>6. Follow(c, n + 1)'
    <3>1. Follow(c, n) /\ Len(fRequestBuffer[c]) >= 2
      BY <1>8, <2>1, <2>2 DEF InStep
    <3>2. fRequestBuffer'[c] = SubSeq(fRequestBuffer[c], 3, Len(fRequestBuffer[c]))
      BY <1>3, <1>4, <1>8
    <3>3. QED
      BY <1>3, <3>1, <3>2, FirstTaken
  <2>7. CallsOf(c) = {Len(calls)}
    BY <1>1, <2>1, TopIsCall DEF InStep, OneCall
  <2>8. \A k \in CallsOf(c)' : CallsOf(c)' = {k} /\ calls'[k].at = "bytes"
    BY <1>5, <2>7
  <2>9. OneCall(c, n + 1)' /\ EndForgotten(c)'
    BY <2>5, <2>8 DEF OneCall, EndForgotten
  <2>10. QED
    BY <2>4, <2>6, <2>9 DEF InStep
<1>9. answers' \in [Connections -> Seq(Nat)]
  <2>1. ASSUME NEW d \in Connections
        PROVE  answers'[d] \in Seq(Nat)
    <3>1. answers[d] \in Seq(Nat) /\ Append(answers[d], cseq) \in Seq(Nat)
      BY <1>4, AppendProperties
    <3>2. QED
      BY <1>3, <3>1
  <2>2. QED
    BY <1>3, <2>1
<1>10. \A d \in Connections : left'[d] => answers'[d] = << >>
  BY <1>3 DEF OrderInv
<1>11. QED
  BY <1>3, <1>6, <1>7, <1>8, <1>9, <1>10 DEF OrderInv, OrderTypeOK, EndedByClient

\* The request that is at the head of the buffer ends with its second piece.
LEMMA FirstRequest ==
  ASSUME FramingInv, NEW c \in Connections, NEW n \in Nat, Follow(c, n), fLastCRLF[c] = 0,
         NEW end \in Ends(fRequestBuffer[c], 0), end \in 1..Len(fRequestBuffer[c]),
         \A i \in Ends(fRequestBuffer[c], 0) : end <= i
  PROVE  /\ end = 2 /\ Len(fRequestBuffer[c]) >= 2
         /\ Parsed(c, end).request = n + 1 /\ Parsed(c, end) # NoRequest
<1>1. PICK s \in Seq(Pieces), t \in Seq(Pieces) : s = fRequestBuffer[c] /\ t = inbox[c]
  BY DEF FramingInv, FramingTypeOK
<1>2. Len(s) \in Nat /\ Len(t) \in Nat /\ sent[c] \in Nat /\ end \in 1..Len(s)
  BY <1>1 DEF FramingInv, FramingTypeOK
<1>3. sent[c] - n >= 1
  <2>1. Len(s) + Len(t) = 2 * (sent[c] - n)
    BY <1>1 DEF Follow
  <2>2. PICK k \in Int : k = sent[c] - n
    BY <1>2
  <2>3. Len(s) + Len(t) >= 1
    BY <1>2
  <2>4. 2 * k >= 1
    BY <2>1, <2>2, <2>3
  <2>5. k >= 1
    BY <2>4
  <2>6. QED
    BY <2>2, <2>5
<1>4. 1 \in 1..(sent[c] - n) /\ 2 * 1 - 1 = 1 /\ 2 * 1 = 2 /\ n + 1 \in Nat /\ n + 1 # 0
  BY <1>2, <1>3
<1>5. Piece(c, 1).request = n + 1 /\ ~Piece(c, 1).end /\ Piece(c, 2).end
  <2>1. /\ Piece(c, 2 * 1 - 1).request = n + 1
        /\ ~Piece(c, 2 * 1 - 1).end /\ Piece(c, 2 * 1).end
    BY <1>4 DEF Follow
  <2>2. QED
    BY <1>4, <2>1
<1>6. s[1].request = n + 1 /\ ~s[1].end
  BY <1>1, <1>2, <1>5 DEF Piece
<1>7. s[end].end
  BY <1>1 DEF Ends
<1>8. end # 1 /\ Len(s) >= 2
  BY <1>2, <1>6, <1>7
<1>9. s[2].end
  BY <1>1, <1>5, <1>8 DEF Piece
<1>10. 2 \in Ends(fRequestBuffer[c], 0)
  BY <1>1, <1>2, <1>8, <1>9 DEF Ends
<1>11. end = 2
  BY <1>2, <1>8, <1>10
<1>12. Parsed(c, end) = s[1]
  BY <1>1, <1>11 DEF Parsed
<1>13. QED
  BY <1>1, <1>4, <1>6, <1>8, <1>11, <1>12 DEF NoRequest

LEMMA HandleKeepsOrder ==
  ASSUME FramingInv, CallsInv, SocketInv, OrderInv, HandleRequest
  PROVE  OrderInv'
<1>1. PICK c \in Connections, end \in Nat, r \in Pieces :
           /\ calls # << >> /\ c = Top.conn /\ Top.at = "bytes"
           /\ end \in Ends(fRequestBuffer[c], fLastCRLF[c])
           /\ end \in 1..Len(fRequestBuffer[c])
           /\ \A i \in Ends(fRequestBuffer[c], fLastCRLF[c]) : end <= i
           /\ r = Parsed(c, end)
           /\ fCurrentCSeq' = IF r = NoRequest THEN fCurrentCSeq
                              ELSE [fCurrentCSeq EXCEPT ![c] =
                                      [request |-> r.request, call |-> Len(calls)]]
           /\ \/ /\ calls' = [calls EXCEPT ![Len(calls)].at = "loop"]
                 /\ fLastCRLF' = [fLastCRLF EXCEPT ![c] = end]
                 /\ UNCHANGED <<objects, fRequestBuffer, sockets, client, history>>
              \/ Answer(c, r.request, end)
  BY RequestHandled
<1>2. /\ calls \in Seq(CallRecords) /\ Len(calls) \in Nat
      /\ \A d : Len(calls) \in CallsOf(d) <=> d = c
      /\ r.request \in Nat /\ fCurrentCSeq \in [Connections -> [request : Nat, call : Nat]]
  <2>1. calls \in Seq(CallRecords)
    BY DEF FramingInv, FramingTypeOK
  <2>2. \A d : Len(calls) \in CallsOf(d) <=> d = c
    BY <1>1, <2>1, TopIsCall
  <2>3. r.request \in Nat
    BY DEF Pieces
  <2>4. QED
    BY <2>1, <2>2, <2>3 DEF OrderInv, OrderTypeOK
<1>3. ASSUME Stays(c)
      PROVE  /\ r.request = Len(answers[c]) + 1 /\ r # NoRequest
             /\ end = 2 /\ Len(fRequestBuffer[c]) >= 2
             /\ InStep(c) /\ CallsOf(c) = {Len(calls)}
  <2>1. InStep(c)
    BY <1>3 DEF OrderInv
  <2>2. CallsOf(c) = {Len(calls)}
    BY <1>2, <2>1 DEF InStep, OneCall
  <2>3. fLastCRLF[c] = 0
    BY <1>1, <2>1, <2>2 DEF InStep, EndForgotten, Top
  <2>4. Follow(c, Len(answers[c])) /\ Len(answers[c]) \in Nat
    BY <2>1 DEF InStep, Follow
  <2>5. QED
    BY <1>1, <2>1, <2>2, <2>3, <2>4, FirstRequest
<1>4. /\ fCurrentCSeq' \in [Connections -> [request : Nat, call : Nat]]
      /\ \A d \in Connections : d # c => fCurrentCSeq'[d] = fCurrentCSeq[d]
      /\ r # NoRequest => fCurrentCSeq'[c] = [request |-> r.request, call |-> Len(calls)]
  BY <1>1, <1>2
<1>5. CASE Answer(c, r.request, end)
  BY <1>1, <1>2, <1>3, <1>4, <1>5, AnswerKeepsOrder
<1>6. CASE /\ calls' = [calls EXCEPT ![Len(calls)].at = "loop"]
           /\ fLastCRLF' = [fLastCRLF EXCEPT ![c] = end]
           /\ UNCHANGED <<objects, fRequestBuffer, sockets, client, history>>
  <2>1. UNCHANGED <<fIsActive, fRequestBuffer, sent, inbox, answers, left, reentered, inherited>>
    BY <1>6 DEF objects, client, history
  <2>2. /\ \A d : CallsOf(d)' = CallsOf(d)
        /\ calls'[Len(calls)].at = "loop"
        /\ \A k \in DOMAIN calls' : k # Len(calls) => calls'[k] = calls[k]
    BY <1>1, <1>2, <1>6, CallMoved
  <2>3. fLastCRLF'[c] = end /\ \A d \in Connections : d # c => fLastCRLF'[d] = fLastCRLF[d]
    BY <1>6 DEF FramingInv, FramingTypeOK
  <2>4. ASSUME NEW d \in Connections, d # c, Stays(d)
        PROVE  InStep(d)'
    <3>1. \A k \in CallsOf(d)' : k # Len(calls) /\ k \in DOMAIN calls'
      BY <1>2, <2>2, <2>4 DEF CallsOf
    <3>2. \A k \in CallsOf(d)' : calls'[k].at = calls[k].at
      BY <2>2, <3>1
    <3>3. InStep(d)
      BY <2>4 DEF OrderInv
    <3>4. QED
      BY <1>4, <2>1, <2>2, <2>3, <2>4, <3>2, <3>3, InStepKept
  <2>5. ASSUME Stays(c)
        PROVE  InStep(c)'
    <3>1. \A p : Piece(c, p)' = Piece(c, p)
      BY <2>1 DEF Piece
    <3>2. Follow(c, Len(answers[c]))'
      BY <1>3, <2>1, <2>5, <3>1 DEF InStep, Follow
    <3>3. OneCall(c, Len(answers[c]))'
      BY <1>3, <1>4, <2>1, <2>2, <2>3, <2>5 DEF OneCall
    <3>4. EndForgotten(c)'
      BY <1>3, <2>2, <2>5 DEF EndForgotten
    <3>5. QED
      BY <1>3, <2>1, <2>5, <3>2, <3>3, <3>4 DEF InStep
  <2>6. \A d \in Connections : Stays(d)' <=> Stays(d)
    BY <2>1 DEF Stays, Undisturbed
  <2>7. QED
    BY <1>4, <2>1, <2>4, <2>5, <2>6 DEF OrderInv, OrderTypeOK, EndedByClient
<1>7. QED
  BY <1>1, <1>5, <1>6

LEMMA DescribedKeepsOrder ==
  ASSUME FramingInv, CallsInv, SocketInv, OrderInv, Described
  PROVE  OrderInv'
<1>1. calls # << >> /\ calls \in Seq(CallRecords) /\ Top.at = "loop" /\ UNCHANGED fCurrentCSeq
  BY DEF Described, FramingInv, FramingTypeOK
<1>2. PICK c \in Connections : c = Top.conn
  BY <1>1, TopIsCall
<1>3. /\ fCurrentCSeq \in [Connections -> [request : Nat, call : Nat]]
      /\ fLastCRLF[c] \in Nat
  BY DEF OrderInv, OrderTypeOK, FramingInv, FramingTypeOK
<1>4. PICK n \in {fCurrentCSeq[c].request}
                   \cup (IF fCurrentCSeq[c].call > Len(calls) THEN {0} ELSE {}) :
          Answer(c, n, fLastCRLF[c])
  BY <1>2 DEF Described
<1>5. n \in Nat
  BY <1>3, <1>4
<1>6. ASSUME Stays(c)
      PROVE  /\ n = Len(answers[c]) + 1 /\ fLastCRLF[c] = 2
             /\ Len(fRequestBuffer[c]) >= 2
  <2>1. InStep(c) /\ Len(calls) \in CallsOf(c)
    BY <1>1, <1>2, <1>6, TopIsCall DEF OrderInv
  <2>2. calls[Len(calls)].at = "loop"
    BY <1>1 DEF Top
  <2>3. /\ fLastCRLF[c] = 2 /\ Len(fRequestBuffer[c]) >= 2
        /\ fCurrentCSeq[c] = [request |-> Len(answers[c]) + 1, call |-> Len(calls)]
    BY <2>1, <2>2 DEF InStep, OneCall
  <2>4. ~(fCurrentCSeq[c].call > Len(calls)) /\ fCurrentCSeq[c].request = Len(answers[c]) + 1
    BY <1>1, <2>3
  <2>5. QED
    BY <1>4, <2>3, <2>4
<1>7. QED
  BY <1>1, <1>2, <1>3, <1>4, <1>5, <1>6, AnswerKeepsOrder

\* A client leaves.
LEMMA LeaveKeepsOrder ==
  ASSUME OrderInv, NEW c \in Connections, Leave(c)
  PROVE  OrderInv'
<1>1. /\ left' = [left EXCEPT ![c] = TRUE] /\ answers' = [answers EXCEPT ![c] = << >>]
      /\ UNCHANGED <<fIsActive, fRequestBuffer, fLastCRLF, fCurrentCSeq, calls, sent, inbox,
                     reentered, inherited>>
  BY DEF Leave, objects, buffer, history
<1>2. OrderTypeOK' /\ EndedByClient'
  BY <1>1 DEF OrderInv, OrderTypeOK, EndedByClient
<1>3. \A d \in Connections : left'[d] => answers'[d] = << >>
  BY <1>1 DEF OrderInv, OrderTypeOK
<1>4. ASSUME NEW d \in Connections, Stays(d)'
      PROVE  InStep(d)'
  <2>1. d # c /\ Stays(d)
    BY <1>1, <1>4 DEF OrderInv, OrderTypeOK, Stays, Undisturbed
  <2>2. InStep(d) /\ CallsOf(d)' = CallsOf(d) /\ answers'[d] = answers[d]
    BY <1>1, <2>1, CallsKept DEF OrderInv, OrderTypeOK
  <2>3. QED
    BY <1>1, <2>2, InStepKept
<1>5. QED
  BY <1>2, <1>3, <1>4 DEF OrderInv

LEMMA OrderNext ==
  FramingInv /\ CallsInv /\ SocketInv /\ OrderInv /\ [Next]_vars => OrderInv'
<1> SUFFICES ASSUME FramingInv, CallsInv, SocketInv, OrderInv, [Next]_vars
             PROVE  OrderInv'
  OBVIOUS
<1>1. ASSUME UNCHANGED <<fIsActive, fRequestBuffer, fLastCRLF, fCurrentCSeq, calls,
                         sent, inbox, answers, left, reentered>>,
             \A d \in Connections : Stays(d)' => Stays(d)
      PROVE  OrderInv'
  <2>1. ASSUME NEW d \in Connections, Stays(d)'
        PROVE  InStep(d)'
    <3>1. InStep(d) /\ CallsOf(d)' = CallsOf(d)
      BY <1>1, <2>1, CallsKept DEF OrderInv
    <3>2. QED
      BY <1>1, <3>1, InStepKept
  <2>2. QED
    BY <1>1, <2>1 DEF OrderInv, OrderTypeOK, EndedByClient
<1>2. ASSUME NEW c \in Connections, Connect(c)
      PROVE  OrderInv'
  <2>1. /\ UNCHANGED <<fIsActive, fRequestBuffer, fLastCRLF, fCurrentCSeq, calls,
                       sent, inbox, answers, left, reentered>>
        /\ exists[c] = "no" /\ \A d \in Connections : d # c => inherited'[d] = inherited[d]
    BY <1>2 DEF Connect, buffer, client, SocketInv
  <2>2. ~inherited[c]
    BY <2>1 DEF SocketInv, Placed
  <2>3. \A d \in Connections : Stays(d)' => Stays(d)
    BY <2>1, <2>2 DEF Stays, Undisturbed
  <2>4. QED
    BY <1>1, <2>1, <2>3
<1>3. ASSUME NEW c \in Connections, Connect(c) \/ Send(c) \/ Leave(c) \/ Read(c)
      PROVE  OrderInv'
  BY <1>2, <1>3, SendKeepsOrder, LeaveKeepsOrder, BytesKeepOrder, EndKeepsOrder DEF Read
<1>4. CASE PollIsMade \/ CameraActs \/ UNCHANGED vars
  <2>1. UNCHANGED <<fIsActive, fRequestBuffer, fLastCRLF, fCurrentCSeq, calls,
                    sent, inbox, answers, left, reentered, inherited>>
    BY <1>4 DEF PollIsMade, CameraActs, vars, objects, buffer, client, history
  <2>2. \A d \in Connections : Stays(d)' => Stays(d)
    BY <2>1 DEF Stays, Undisturbed
  <2>3. QED
    BY <1>1, <2>1, <2>2
<1>5. CASE CallGoesOn
  BY <1>5, HandleKeepsOrder, DescribedKeepsOrder DEF CallGoesOn
<1>6. QED
  BY <1>3, <1>4, <1>5 DEF Next

\* For any number of clients and of requests, sent one by one or several at a
\* time, and read in whatever portions: every client gets the answers to its own
\* requests, each once and in order, however the others connect, end, and nest
\* their requests around its own.  What is read from a connection in its own
\* nested loop, or from a number that another connection still kept, disturbs
\* the answers of that client and of no other.
THEOREM AnswersComeInOrder == Spec => []AnswersInOrder
<1>1. OrderInv => AnswersInOrder
  <2> SUFFICES ASSUME OrderInv, NEW c \in Connections, Undisturbed(c)
               PROVE  \A i \in DOMAIN answers[c] : answers[c][i] = i
    BY DEF AnswersInOrder
  <2>1. CASE left[c]
    BY <2>1 DEF OrderInv
  <2>2. CASE ~left[c]
    BY <2>2 DEF OrderInv, Stays, InStep
  <2>3. QED
    BY <2>1, <2>2
<1>2. QED
  BY <1>1, OrderInit, OrderNext, FramingInvariant, CallsInvariant, SocketInvariant, PTL DEF Spec
=============================================================================
