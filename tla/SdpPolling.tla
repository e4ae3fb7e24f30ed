------------------------------ MODULE SdpPolling ------------------------------
(***************************************************************************)
(* How the SDP lines of an H.264 subsession come about.                    *)
(*                                                                         *)
(* The first DESCRIBE plays the camera into a dummy sink and runs the      *)
(* event loop until a poll finds the parameter sets in the sink, until ten *)
(* polls have found nothing, or until the camera closes.  Other DESCRIBEs  *)
(* are handled in that loop: they wait in loops of their own, nested in    *)
(* it, for the same flag, which is never lowered again.                    *)
(*                                                                         *)
(* Everything runs on the event-loop thread.                               *)
(***************************************************************************)
EXTENDS Integers, Sequences

CONSTANTS
    Subsessions,
    MaxPolls,        \* polls that find nothing before the last (10 in the code)
    MaxNesting       \* bound: nested event loops

ASSUME PollingAssumption == MaxPolls \in Nat \ {0} /\ MaxNesting \in Nat

\* Per subsession.
VARIABLES
    fSDPLines,         \* "null", "bare" (without parameter sets) or "full"
    auxSDPLine,        \* is it known?
    pollingDoneFlag,
    pollingCount,
    dummyRTPSink,      \* "NULL", "playing" or "freed" (the pointer is kept)
    nextTask,          \* is a poll scheduled?
    camera             \* what the dummy sink has: "nothing", "parameters", "closed"

\* The nested event loops, innermost last: the subsession whose flag is
\* watched, and whether the dummy sink is this call's.
VARIABLE loops

polling     == <<auxSDPLine, pollingDoneFlag, pollingCount, dummyRTPSink, nextTask>>
pollingVars == <<fSDPLines, polling, camera, loops>>

WaitersFor(s) == {k \in DOMAIN loops : loops[k].sub = s}
Playing(s)    == \E k \in WaitersFor(s) : loops[k].owner

-----------------------------------------------------------------------------
\* Mutant: the lines are written from the flag, as if no poll ever timed out.
LinesOfFlag(s) ==
    fSDPLines' = [fSDPLines EXCEPT ![s] = IF pollingDoneFlag[s] THEN "full" ELSE "bare"]

SetSDPLinesFromRTPSink(s) ==
    fSDPLines' = [fSDPLines EXCEPT ![s] = IF auxSDPLine[s] THEN "full" ELSE "bare"]

SetDoneFlag(s) ==
    /\ pollingDoneFlag' = [pollingDoneFlag EXCEPT ![s] = TRUE]
    /\ pollingCount' = [pollingCount EXCEPT ![s] = 0]

LineFound(s) ==
    /\ auxSDPLine' = [auxSDPLine EXCEPT ![s] = TRUE]
    /\ dummyRTPSink' = [dummyRTPSink EXCEPT ![s] = "NULL"]
    /\ nextTask' = [nextTask EXCEPT ![s] = FALSE]
    /\ SetDoneFlag(s)

\* Mutant: the count is not looked at.
NothingFoundAgain(s) ==
    /\ nextTask' = [nextTask EXCEPT ![s] = TRUE]
    /\ UNCHANGED <<auxSDPLine, dummyRTPSink, pollingDoneFlag, pollingCount>>

NothingFound(s) ==
    /\ UNCHANGED <<auxSDPLine, dummyRTPSink>>
    /\ IF pollingCount[s] >= MaxPolls
       THEN /\ nextTask' = [nextTask EXCEPT ![s] = FALSE]
            /\ SetDoneFlag(s)
       ELSE /\ nextTask' = [nextTask EXCEPT ![s] = TRUE]
            /\ pollingCount' = [pollingCount EXCEPT ![s] = @ + 1]
            /\ UNCHANGED pollingDoneFlag

\* Does a poll see the parameter sets in the dummy sink?
LineInSink(s) == dummyRTPSink[s] # "NULL" /\ camera[s] = "parameters"

NoFurtherPoll(s) == nextTask' = [nextTask EXCEPT ![s] = FALSE]

\* The scheduled poll.
PollingAuxSDPLine(s) ==
    /\ nextTask[s]
    /\ CASE auxSDPLine[s] ->
              NoFurtherPoll(s) /\ SetDoneFlag(s) /\ UNCHANGED <<auxSDPLine, dummyRTPSink>>
         [] ~auxSDPLine[s] /\ LineInSink(s) ->
              LineFound(s)
         [] ~auxSDPLine[s] /\ ~LineInSink(s) /\ pollingDoneFlag[s] ->
              NoFurtherPoll(s)
              /\ UNCHANGED <<auxSDPLine, dummyRTPSink, pollingDoneFlag, pollingCount>>
         [] OTHER ->
              NothingFound(s)
    /\ UNCHANGED <<fSDPLines, camera, loops>>

-----------------------------------------------------------------------------
(* sdpLines, called by a DESCRIBE when there are no SDP lines yet: it makes *)
(* a dummy source and a dummy sink, calls getAuxSDPLine and writes the      *)
(* lines.  Three ways through getAuxSDPLine:                                *)

\* ... the line is known, or the flag is up: no event is handled;
SdpLinesAtOnce(s) ==
    /\ auxSDPLine[s] \/ (dummyRTPSink[s] # "NULL" /\ pollingDoneFlag[s])
    /\ SetSDPLinesFromRTPSink(s)
    /\ UNCHANGED <<polling, camera, loops>>

\* ... the first call plays its sink.  A source that has closed says so inside
\* startPlaying, and the flag is up before it is looked at; otherwise the
\* first poll finds nothing, and schedules the next;
SdpLinesFirst(s) ==
    /\ ~auxSDPLine[s] /\ dummyRTPSink[s] = "NULL"
    /\ UNCHANGED auxSDPLine
    /\ \/ /\ dummyRTPSink' = [dummyRTPSink EXCEPT ![s] = "freed"]
          /\ camera' = [camera EXCEPT ![s] = "closed"]
          /\ SetDoneFlag(s)
          /\ SetSDPLinesFromRTPSink(s)
          /\ UNCHANGED <<nextTask, loops>>
       \/ /\ Len(loops) < MaxNesting
          /\ dummyRTPSink' = [dummyRTPSink EXCEPT ![s] = "playing"]
          /\ pollingCount' = [pollingCount EXCEPT ![s] = @ + 1]
          /\ nextTask' = [nextTask EXCEPT ![s] = TRUE]
          /\ loops' = Append(loops, [sub |-> s, owner |-> TRUE])
          /\ UNCHANGED <<fSDPLines, pollingDoneFlag, camera>>

\* ... another call is waiting: this one waits too.
SdpLinesNext(s) ==
    /\ ~auxSDPLine[s] /\ dummyRTPSink[s] # "NULL" /\ ~pollingDoneFlag[s]
    /\ Len(loops) < MaxNesting
    /\ loops' = Append(loops, [sub |-> s, owner |-> FALSE])
    /\ UNCHANGED <<fSDPLines, polling, camera>>

SdpLines(s) == SdpLinesAtOnce(s) \/ SdpLinesFirst(s) \/ SdpLinesNext(s)

Innermost == loops[Len(loops)]

\* The innermost loop sees its flag: the lines are written, and the dummy sink
\* of this call is closed.
LoopReturns ==
    /\ loops # << >> /\ pollingDoneFlag[Innermost.sub]
    /\ SetSDPLinesFromRTPSink(Innermost.sub)
    /\ dummyRTPSink' = [dummyRTPSink EXCEPT ![Innermost.sub] =
                          IF Innermost.owner /\ @ = "playing" THEN "freed" ELSE @]
    /\ loops' = SubSeq(loops, 1, Len(loops) - 1)
    /\ UNCHANGED <<auxSDPLine, pollingDoneFlag, pollingCount, nextTask, camera>>

\* The camera: parameter sets reach the dummy sink;
ParametersArrive(s) ==
    /\ Playing(s) /\ camera[s] = "nothing"
    /\ camera' = [camera EXCEPT ![s] = "parameters"]
    /\ UNCHANGED <<fSDPLines, polling, loops>>

\* Mutant: the scheduled poll is left.
AfterPlayingDummyOnly(s) ==
    /\ Playing(s) /\ camera[s] # "closed"
    /\ camera' = [camera EXCEPT ![s] = "closed"]
    /\ SetDoneFlag(s)
    /\ UNCHANGED <<fSDPLines, auxSDPLine, dummyRTPSink, nextTask, loops>>

\* its source closes.
AfterPlayingDummy(s) ==
    /\ Playing(s) /\ camera[s] # "closed"
    /\ camera' = [camera EXCEPT ![s] = "closed"]
    /\ NoFurtherPoll(s)
    /\ SetDoneFlag(s)
    /\ UNCHANGED <<fSDPLines, auxSDPLine, dummyRTPSink, loops>>

-----------------------------------------------------------------------------
PollingInit ==
    /\ fSDPLines = [s \in Subsessions |-> "null"]
    /\ auxSDPLine = [s \in Subsessions |-> FALSE]
    /\ pollingDoneFlag = [s \in Subsessions |-> FALSE]
    /\ pollingCount = [s \in Subsessions |-> 0]
    /\ dummyRTPSink = [s \in Subsessions |-> "NULL"]
    /\ nextTask = [s \in Subsessions |-> FALSE]
    /\ camera = [s \in Subsessions |-> "nothing"]
    /\ loops = << >>

PollingNext ==
    \/ \E s \in Subsessions : PollingAuxSDPLine(s) \/ ParametersArrive(s) \/ AfterPlayingDummy(s)
                          \/ (fSDPLines[s] = "null" /\ SdpLines(s))
    \/ LoopReturns

PollingSpec == PollingInit /\ [][PollingNext]_pollingVars

PollingTypeOK ==
    /\ fSDPLines \in [Subsessions -> {"null", "bare", "full"}]
    /\ auxSDPLine \in [Subsessions -> BOOLEAN]
    /\ pollingDoneFlag \in [Subsessions -> BOOLEAN]
    /\ pollingCount \in [Subsessions -> 0..MaxPolls]
    /\ dummyRTPSink \in [Subsessions -> {"NULL", "playing", "freed"}]
    /\ nextTask \in [Subsessions -> BOOLEAN]
    /\ camera \in [Subsessions -> {"nothing", "parameters", "closed"}]
    /\ loops \in Seq([sub : Subsessions, owner : BOOLEAN]) /\ Len(loops) <= MaxNesting

\* A poll is scheduled only while the call that made the dummy sink is in its
\* loop: no poll looks at a sink that has been closed, and none is left behind
\* in a subsession that is deleted.
SinkOutlivesPolls == \A s \in Subsessions : nextTask[s] => Playing(s) /\ dummyRTPSink[s] = "playing"

\* Although every nested call writes the lines anew, all of them write the
\* same: the parameter sets if a poll has found them, and never do they turn up
\* after the first answer.
SdpTellsAll ==
    \A s \in Subsessions :
        fSDPLines[s] # "null" => (fSDPLines[s] = "full" <=> auxSDPLine[s])
=============================================================================
