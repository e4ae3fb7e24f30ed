-------------------------- MODULE StreamReplicator --------------------------
(***************************************************************************)
(* StreamReplicator: one input source read by any number of replicas.      *)
(*                                                                         *)
(* The frame is read into the buffer of the "primary" replica, the first   *)
(* that asked for it, and copied to the others as they ask.  The primary's *)
(* own delivery is completed last.  A replica may stop, or go away, at any *)
(* time between two calls; the source may close.                           *)
(*                                                                         *)
(* All of it runs on the event-loop thread, but the calls nest: a request  *)
(* of a replica may read from the source, which may answer at once, which  *)
(* completes deliveries.  Such a nest of calls is one step here.  It works *)
(* on a record s that holds the object's state; an operator returns the    *)
(* states that a member function may leave, as the source answers in       *)
(* different ways.  A closure walks through the replicas one step each.    *)
(*                                                                         *)
(* A consumer that got a frame asks for the next one later, from a task of *)
(* its own (MultiFramedRTPSink::sendNext).  Frames are numbered.           *)
(***************************************************************************)
EXTENDS Integers, Sequences, SequencesExt

CONSTANTS
    Replicas,        \* replicas that may exist at the same time
    None,            \* NULL
    Kinds,           \* what may read a replica: "stream" (an RTP stream),
                     \* "dummy" (the RTP sink of a DESCRIBE)
    SourceMayClose,  \* may the input source fail?
    PrimaryMayLeave, \* may a primary leave that has a frame for replicas which
                     \* have not asked for it yet?
    MaxFrames        \* bound: frames the source delivers

ASSUME NoneAssumption   == None \notin Replicas
ASSUME KindsAssumption  == Kinds \subseteq {"stream", "dummy"}
ASSUME FramesAssumption == MaxFrames \in Nat
ASSUME ModeAssumption   == SourceMayClose \in BOOLEAN /\ PrimaryMayLeave \in BOOLEAN

VARIABLES
    kind,            \* what reads each replica, "none" when it does not exist
    rep,             \* the replicator and its replicas
    closing          \* how far onSourceClosure is: "no", or the list it empties

vars == <<kind, rep, closing>>

\* The fields of rep.  Of the source:
\*    produced                     frames delivered so far
\*    reading                      it is isCurrentlyAwaitingData
\*    listening                    it has our closure function
\* of the replicator: fInputSourceHasClosed, fNumActiveReplicas,
\*    fNumDeliveriesMadeSoFar, fFrameIndex, fPrimaryReplica,
\*    current, next                fReplicasAwaitingCurrentFrame, -NextFrame
\* of each replica:
\*    index                        fFrameIndex
\*    awaiting                     isCurrentlyAwaitingData
\*    buffer                       the frame in fTo, fFrameSize, ...
\*    last                         history: the frame it has got so far
\*    noted                        history: what went wrong
InitialReplicator ==
    [produced |-> 0, reading |-> FALSE, listening |-> FALSE,
     fInputSourceHasClosed |-> FALSE, fNumActiveReplicas |-> 0,
     fNumDeliveriesMadeSoFar |-> 0, fFrameIndex |-> 0, fPrimaryReplica |-> None,
     current |-> <<>>, next |-> <<>>,
     index |-> [r \in Replicas |-> -1], awaiting |-> [r \in Replicas |-> FALSE],
     buffer |-> [r \in Replicas |-> 0], last |-> [r \in Replicas |-> 0],
     noted |-> {}]

\* Makes a note if something is the case.
Noted(s, what, is) == IF is THEN [s EXCEPT !.noted = @ \cup {what}] ELSE s

\* A frame is in the primary's buffer and not delivered to everyone yet.
FramePending(s) == s.fPrimaryReplica # None /\ ~s.reading

Toggled(index, R) == [r \in Replicas |-> IF r \in R THEN 1 - index[r] ELSE index[r]]

-----------------------------------------------------------------------------
(* deliverReceivedFrame.                                                   *)

\* FramedSource::afterGetting of the replicas in R: each gets its buffer.
AfterGetting(s, R) ==
    LET again   == \E r \in R : s.buffer[r] <= s.last[r]
        skipped == \E r \in R : s.buffer[r] > s.last[r] + 1
        t == [s EXCEPT !.awaiting = [r \in Replicas |-> @[r] /\ r \notin R],
                       !.last = [r \in Replicas |-> IF r \in R THEN s.buffer[r] ELSE @[r]]]
    IN  Noted(Noted(t, "again", again), "skipped", skipped)

\* The loop over the replicas that await the current frame.
CopyToWaiting(s) ==
    LET waiting == ToSet(s.current)
        t == [s EXCEPT !.current = <<>>,
                       !.index = Toggled(@, waiting),
                       !.buffer = [r \in Replicas |-> IF r \in waiting
                                     THEN @[s.fPrimaryReplica] ELSE @[r]],
                       !.fNumDeliveriesMadeSoFar = @ + Len(s.current)]
    IN  IF s.current = <<>> THEN s
        ELSE AfterGetting(Noted(t, "error 2", t.fNumDeliveriesMadeSoFar >= t.fNumActiveReplicas),
                          waiting)

\* The source is asked for a frame for the primary: it may have one at once.
\* (A capture that has closed is not taken to fail anew inside its own closure.)
Read(s) ==
    LET t == [Noted(s, "read twice", s.reading) EXCEPT !.listening = TRUE]
        answered == [t EXCEPT !.reading = FALSE, !.produced = @ + 1,
                              !.buffer[t.fPrimaryReplica] = t.produced + 1]
    IN  {[t EXCEPT !.reading = TRUE]} \cup (IF t.produced < MaxFrames THEN {answered} ELSE {})

\* The delivery to the primary, once everyone else has the frame.  A frame that
\* Read brings at once stays pending: the old primary is yet to ask for it.
CompleteDelivery(s) ==
    LET p == s.fPrimaryReplica
        t == [s EXCEPT !.fPrimaryReplica = None, !.index[p] = 1 - @,
                       !.fFrameIndex = 1 - @, !.fNumDeliveriesMadeSoFar = 0]
        asked == IF t.next = <<>> THEN {t}
                 ELSE Read([t EXCEPT !.fPrimaryReplica = Head(t.next), !.next = Tail(@)])
    IN  {AfterGetting([u EXCEPT !.current = u.next, !.next = <<>>], {p}) : u \in asked}

DeliverReceivedFrame(s) ==
    LET t == CopyToWaiting(s)
    IN  IF s.current # <<>> /\ s.fPrimaryReplica = None
        THEN {Noted(s, "error 1", TRUE)}
        ELSE IF t.fNumDeliveriesMadeSoFar = t.fNumActiveReplicas - 1 /\ t.fPrimaryReplica # None
             THEN CompleteDelivery(t)
             ELSE {t}

\* afterGettingFrame, when the source delivers what it was asked for.
AfterGettingFrame(s) ==
    IF s.fPrimaryReplica = None
    THEN {[Noted(s, "no primary", TRUE) EXCEPT !.reading = FALSE]}
    ELSE DeliverReceivedFrame([s EXCEPT !.reading = FALSE, !.produced = @ + 1,
                                        !.buffer[s.fPrimaryReplica] = s.produced + 1])

\* The source is asked, outside of a delivery; what it has at once is delivered.
ReadAndDeliver(s) ==
    LET t == [Noted(s, "read twice", s.reading) EXCEPT !.listening = TRUE, !.reading = TRUE]
    IN  {t} \cup (IF t.produced < MaxFrames THEN AfterGettingFrame(t) ELSE {})

-----------------------------------------------------------------------------
(* getNextFrame, for a replica that becomes the primary, has had the       *)
(* current frame, or asks for it.                                          *)

\* The frame that a replica which joins now gets first.
FirstFrame(s) == IF FramePending(s) THEN s.produced ELSE s.produced + 1

Activated(s, r) ==
    IF s.index[r] # -1 THEN s
    ELSE [s EXCEPT !.index[r] = s.fFrameIndex, !.fNumActiveReplicas = @ + 1,
                   !.last[r] = FirstFrame(s) - 1]

\* Mutant: whoever asks gets the current frame.
GetCurrentFrame(s0, r) ==
    LET s == Activated([s0 EXCEPT !.awaiting[r] = TRUE], r)
        t == [s EXCEPT !.current = <<r>> \o @]
    IN  IF s.fPrimaryReplica = None THEN ReadAndDeliver([s EXCEPT !.fPrimaryReplica = r])
        ELSE IF s.reading THEN {t} ELSE DeliverReceivedFrame(t)

GetNextFrame(s0, r) ==
    LET s == Activated([s0 EXCEPT !.awaiting[r] = TRUE], r)
        t == [s EXCEPT !.current = <<r>> \o @]
    IN  CASE s.fPrimaryReplica = None -> ReadAndDeliver([s EXCEPT !.fPrimaryReplica = r])
          [] s.fPrimaryReplica # None /\ s.index[r] # s.fFrameIndex
               -> {[s EXCEPT !.next = <<r>> \o @]}
          [] OTHER -> IF s.reading THEN {t} ELSE DeliverReceivedFrame(t)

-----------------------------------------------------------------------------
(* deactivateStreamReplica.                                                *)

StopSource(s) == [s EXCEPT !.reading = FALSE, !.listening = FALSE]

\* Mutant: the pending read goes on while it is retried.
ReadOnTwice(s, r) ==
    LET new == IF s.current = <<>> THEN None ELSE Head(s.current)
        t == [s EXCEPT !.fPrimaryReplica = new,
                       !.current = IF @ = <<>> THEN @ ELSE Tail(@)]
    IN  CASE s.reading  /\ new # None -> ReadAndDeliver(t)
          [] s.reading  /\ new = None -> {StopSource(t)}
          [] ~s.reading /\ new # None -> {[t EXCEPT !.buffer[new] = s.buffer[r]]}
          [] ~s.reading /\ new = None -> {t}

\* The primary leaves: the first that awaits the current frame replaces it.
ReplacePrimary(s, r) ==
    LET new == IF s.current = <<>> THEN None ELSE Head(s.current)
        t == [s EXCEPT !.fPrimaryReplica = new,
                       !.current = IF @ = <<>> THEN @ ELSE Tail(@)]
    IN  CASE s.reading  /\ new # None -> ReadAndDeliver(StopSource(t))
          [] s.reading  /\ new = None -> {StopSource(t)}
          [] ~s.reading /\ new # None -> {[t EXCEPT !.buffer[new] = s.buffer[r]]}
          [] ~s.reading /\ new = None -> {t}

\* The list without one of its replicas.
Without(list, r) ==
    IF Contains(list, r) THEN RemoveAt(list, CHOOSE i \in DOMAIN list : list[i] = r) ELSE list

\* Mutants: one list is forgotten; the last one to be waited for leaves unnoticed.
LeaveCurrent(s, r) ==
    LET t == [s EXCEPT !.current = Without(@, r)]
    IN  IF FramePending(t) THEN DeliverReceivedFrame(t) ELSE {t}

LeaveQuietly(s, r) ==
    {[s EXCEPT !.current = Without(@, r),
               !.next = Without(@, r)]}

\* Another replica leaves: perhaps nobody but the primary is left to be served.
LeaveLists(s, r) ==
    LET t == [s EXCEPT !.current = Without(@, r),
                       !.next = Without(@, r)]
    IN  IF FramePending(t) THEN DeliverReceivedFrame(t) ELSE {t}

\* Mutant: a delivery that was made to the replica still counts.
DeactivateServed(s, r) ==
    LET t == [Noted(s, "error 0", s.fNumActiveReplicas = 0) EXCEPT
                !.awaiting[r] = FALSE, !.index[r] = -1, !.fNumActiveReplicas = @ - 1]
        left == IF r = s.fPrimaryReplica THEN ReplacePrimary(t, r) ELSE LeaveLists(t, r)
    IN  IF s.index[r] = -1 THEN {[s EXCEPT !.awaiting[r] = FALSE]}
        ELSE {IF u.fNumActiveReplicas = 0 THEN StopSource(u) ELSE u : u \in left}

Deactivate(s, r) ==
    LET t == [Noted(s, "error 0", s.fNumActiveReplicas = 0) EXCEPT
                !.awaiting[r] = FALSE, !.index[r] = -1, !.fNumActiveReplicas = @ - 1,
                !.fNumDeliveriesMadeSoFar =
                    IF s.index[r] # s.fFrameIndex /\ @ > 0 THEN @ - 1 ELSE @]
        left == IF r = s.fPrimaryReplica THEN ReplacePrimary(t, r) ELSE LeaveLists(t, r)
    IN  IF s.index[r] = -1 THEN {[s EXCEPT !.awaiting[r] = FALSE]}
        ELSE {IF u.fNumActiveReplicas = 0 THEN StopSource(u) ELSE u : u \in left}

-----------------------------------------------------------------------------
(* The calls from outside.                                                 *)

Exists(r) == kind[r] # "none"

CreateStreamReplica(r) ==
    /\ closing = "no" /\ ~Exists(r)
    /\ \E k \in Kinds : kind' = [kind EXCEPT ![r] = k]
    /\ rep' = [rep EXCEPT !.buffer[r] = 0]
    /\ UNCHANGED closing

\* The closure of one replica: an RTP stream is torn down at once
\* (afterPlayingStreamState), a DESCRIBE only leaves its loop some time.
HandleClosure(s, r) ==
    LET t == [s EXCEPT !.awaiting[r] = FALSE]
    IN  IF kind[r] = "stream"
        THEN /\ rep' \in Deactivate(t, r)
             /\ kind' = [kind EXCEPT ![r] = "none"]
        ELSE /\ rep' = t
             /\ UNCHANGED kind

\* The consumer of r asks for a frame.  The source may fail to start.
Request(r) ==
    /\ closing = "no" /\ Exists(r) /\ ~rep.awaiting[r]
    /\ \/ rep.fInputSourceHasClosed /\ HandleClosure(rep, r) /\ UNCHANGED closing
       \/ /\ ~rep.fInputSourceHasClosed
          /\ rep' \in GetNextFrame(rep, r)
          /\ UNCHANGED <<kind, closing>>

RequestFails(r) ==
    /\ SourceMayClose /\ closing = "no" /\ Exists(r) /\ ~rep.awaiting[r]
    /\ ~rep.fInputSourceHasClosed /\ ~rep.listening /\ rep.fPrimaryReplica = None
    /\ rep' = [Activated(rep, r) EXCEPT !.awaiting[r] = TRUE, !.fPrimaryReplica = r,
                                        !.listening = TRUE, !.fInputSourceHasClosed = TRUE]
    /\ closing' = "current"
    /\ UNCHANGED kind

\* The primary's departure would strand a frame that others are yet to ask for.
Strands(r) ==
    /\ r = rep.fPrimaryReplica /\ ~rep.reading
    /\ rep.current = <<>> /\ rep.fNumActiveReplicas > 1

MayLeave(r) == closing = "no" /\ Exists(r) /\ (PrimaryMayLeave \/ ~Strands(r))

\* Its consumer stops (PAUSE), or is done with it.
Stop(r) ==
    /\ MayLeave(r) /\ rep.index[r] # -1
    /\ rep' \in Deactivate(rep, r)
    /\ UNCHANGED <<kind, closing>>

RemoveReplica(r) ==
    /\ MayLeave(r)
    /\ rep' \in Deactivate(rep, r)
    /\ kind' = [kind EXCEPT ![r] = "none"]
    /\ UNCHANGED closing

\* The source delivers the frame it was asked for.
FrameArrives ==
    /\ closing = "no" /\ rep.reading /\ rep.produced < MaxFrames
    /\ rep' \in AfterGettingFrame(rep)
    /\ UNCHANGED <<kind, closing>>

\* onSourceClosure: the source fails, whether it is being read or not.
SourceCloses ==
    /\ SourceMayClose /\ closing = "no" /\ rep.listening
    /\ rep' = [rep EXCEPT !.reading = FALSE, !.fInputSourceHasClosed = TRUE]
    /\ closing' = "current"
    /\ UNCHANGED kind

\* Its loops, one round each: first the one list, then the other ...
CloseWaiting ==
    \/ /\ closing = "current" /\ rep.current # <<>>
       /\ HandleClosure([rep EXCEPT !.current = Tail(@)], Head(rep.current))
       /\ UNCHANGED closing
    \/ /\ closing = "current" /\ rep.current = <<>>
       /\ closing' = "next"
       /\ UNCHANGED <<kind, rep>>
    \/ /\ closing = "next" /\ rep.next # <<>>
       /\ HandleClosure([rep EXCEPT !.next = Tail(@)], Head(rep.next))
       /\ UNCHANGED closing

\* Mutant: the list of those who await the next frame is forgotten.
ClosePrimaryFirst ==
    /\ closing = "next"
    /\ closing' = "no"
    /\ \/ /\ rep.fPrimaryReplica # None
          /\ HandleClosure([rep EXCEPT !.fPrimaryReplica = None], rep.fPrimaryReplica)
       \/ /\ rep.fPrimaryReplica = None
          /\ UNCHANGED <<kind, rep>>

\* ... then the primary.
ClosePrimary ==
    /\ closing = "next" /\ rep.next = <<>>
    /\ closing' = "no"
    /\ \/ /\ rep.fPrimaryReplica # None
          /\ HandleClosure([rep EXCEPT !.fPrimaryReplica = None], rep.fPrimaryReplica)
       \/ /\ rep.fPrimaryReplica = None
          /\ UNCHANGED <<kind, rep>>

-----------------------------------------------------------------------------
Init ==
    /\ kind = [r \in Replicas |-> "none"]
    /\ rep = InitialReplicator
    /\ closing = "no"

Next ==
    \/ \E r \in Replicas : \/ CreateStreamReplica(r) \/ Request(r) \/ RequestFails(r)
                           \/ Stop(r) \/ RemoveReplica(r)
    \/ FrameArrives \/ SourceCloses \/ CloseWaiting \/ ClosePrimary

Spec == Init /\ [][Next]_vars

\* A consumer that got a frame asks for the next; the camera delivers frames.
Fairness ==
    /\ \A r \in Replicas : WF_vars(Request(r) /\ rep.index[r] # -1)
    /\ WF_vars(FrameArrives) /\ WF_vars(CloseWaiting \/ ClosePrimary)

FairSpec == Spec /\ Fairness

-----------------------------------------------------------------------------
(* Properties.                                                             *)

Lists(s) == s.current \o s.next
Queued(s) == ToSet(Lists(s)) \cup ({s.fPrimaryReplica} \ {None})

Active == {r \in Replicas : rep.index[r] # -1}
Served == {r \in Active : rep.index[r] # rep.fFrameIndex}

\* Types.
TypeOK ==
    /\ kind \in [Replicas -> Kinds \cup {"none"}]
    /\ closing \in {"no", "current", "next"}
    /\ rep.produced \in 0..MaxFrames
    /\ rep.fNumActiveReplicas \in Nat /\ rep.fNumDeliveriesMadeSoFar \in Nat
    /\ rep.fFrameIndex \in 0..1
    /\ rep.fPrimaryReplica \in Replicas \cup {None}
    /\ rep.current \in Seq(Replicas) /\ rep.next \in Seq(Replicas)
    /\ rep.index \in [Replicas -> -1..1]
    /\ rep.awaiting \in [Replicas -> BOOLEAN]
    /\ rep.buffer \in [Replicas -> 0..MaxFrames]
    /\ rep.last \in [Replicas -> 0..MaxFrames]

\* No list and no pointer leads to a replica that is gone, or twice to the same;
\* outside a closure, who waits is queued, and nobody else is.
NoDanglingReplica ==
    /\ \A r \in Queued(rep) : Exists(r) /\ rep.index[r] # -1
    /\ IsInjective(Lists(rep)) /\ rep.fPrimaryReplica \notin ToSet(Lists(rep))
    /\ closing = "no" => \A r \in Replicas : rep.awaiting[r] <=> r \in Queued(rep)

\* The counters are what the code takes them for.
CountersExact ==
    /\ rep.fNumActiveReplicas = Cardinality(Active)
    /\ rep.fNumDeliveriesMadeSoFar = Cardinality(Served)

\* No "Internal Error" of the replicator, no second read of the source, and no
\* frame that arrives without a primary to take it.
NoInternalError ==
    rep.noted \cap {"error 0", "error 1", "error 2", "read twice", "no primary"} = {}

\* Until the source closes, a replica gets every frame from the first it asked
\* for, once and in order, however the others join, pause and leave.
FramesInOrder == rep.fInputSourceHasClosed \/ rep.noted \cap {"again", "skipped"} = {}

\* A closure reaches every replica that awaits a frame.
ClosureReachesAll ==
    closing = "no" /\ rep.fInputSourceHasClosed => \A r \in Replicas : ~rep.awaiting[r]

\* The source has no more frames (the bound).
Exhausted == rep.reading /\ rep.produced = MaxFrames

\* A replica that waits gets its frame, or stops.
WaitingIsServed == \A r \in Replicas : rep.awaiting[r] ~> ~rep.awaiting[r] \/ Exhausted
=============================================================================
