---------------------------- MODULE ControlServer ----------------------------
(***************************************************************************)
(* LiveRTSPServer: the life of the event-loop thread and the pipe through  *)
(* which the application's threads give it commands.                       *)
(*                                                                         *)
(*   "main"   the thread that owns the server: Start, Stop, destructor;    *)
(*   Clients  other threads of the application, which only call Control;   *)
(*   live     the thread that runs LiveTask.                               *)
(*                                                                         *)
(* The flags start and stoppedFlag are plain variables that several        *)
(* threads read and write: every access is a step of its own.  The pipe is *)
(* in packet mode and holds one packet per slot; a command is the number   *)
(* of its packet.  Commands that do not fit into one read of 1024 bytes    *)
(* are left out.                                                           *)
(***************************************************************************)
EXTENDS Integers, Sequences

CONSTANTS
    Clients,
    PipeCapacity,    \* packets the pipe holds (16 on Linux)
    ReadMayFail,     \* may read() fail with something else than EAGAIN?
    MaxControls,     \* bound: calls of Control by the application
    MaxStarts        \* bound: threads started

ASSUME ClientsAssumption == "main" \notin Clients
ASSUME BoundsAssumption  == PipeCapacity \in Nat \ {0} /\ MaxControls \in Nat
                            /\ MaxStarts \in Nat
ASSUME ModeAssumption    == ReadMayFail \in BOOLEAN

Apps == Clients \cup {"main"}

VARIABLES
    app,             \* where each application thread is
    live,            \* where the thread running LiveTask is
    thread,          \* liveThread: "none", "joinable"
    start,           \* start
    stopped,         \* stoppedFlag # 0
    selfdone,        \* the local "selfdone" of ControlMethodDispatch
    nested,          \* does a DESCRIBE run an event loop in the outermost one?
    failed,          \* history: has a read failed?
    pipe,
    messageBuf,
    executed,        \* history: the commands executed
    posted,          \* history: packets written so far
    controls,        \* calls of Control so far
    starts           \* threads started so far

flags   == <<start, stopped>>
channel == <<pipe, messageBuf, executed, posted>>
counts  == <<controls, starts>>
vars    == <<app, live, thread, flags, selfdone, failed, nested, channel, counts>>

Goto(t, label) == app' = [app EXCEPT ![t] = label]

-----------------------------------------------------------------------------
(* Control: false unless started, then one blocking write.                 *)

CallControl(t) ==
    /\ app[t] = "idle" /\ controls < MaxControls
    /\ controls' = controls + 1
    /\ Goto(t, IF start THEN "write" ELSE "idle")
    /\ UNCHANGED <<live, thread, flags, selfdone, failed, nested, channel, starts>>

WritePacket ==
    /\ Len(pipe) < PipeCapacity
    /\ posted' = posted + 1
    /\ pipe' = Append(pipe, posted + 1)

Write(t) ==
    /\ app[t] = "write"
    /\ WritePacket
    /\ Goto(t, "idle")
    /\ UNCHANGED <<live, thread, flags, selfdone, failed, nested, messageBuf, executed, counts>>

-----------------------------------------------------------------------------
(* Start.                                                                  *)

CallStart ==
    /\ app["main"] = "idle" /\ starts < MaxStarts
    /\ Goto("main", IF start THEN "idle" ELSE "startFlag")
    /\ UNCHANGED <<live, thread, flags, selfdone, failed, nested, channel, counts>>

\* Mutant: Start does not wait for the previous task to clear its flag.
StartFlagIgnored ==
    /\ app["main"] = "startFlag"
    /\ Goto("main", "spawn")
    /\ UNCHANGED <<live, thread, flags, selfdone, failed, nested, channel, counts>>

StartFlag ==
    /\ app["main"] = "startFlag"
    /\ Goto("main", IF stopped THEN "idle" ELSE "spawn")
    /\ UNCHANGED <<live, thread, flags, selfdone, failed, nested, channel, counts>>

\* liveThread = std::thread(LiveTask, this)
Spawn ==
    /\ app["main"] = "spawn"
    /\ Goto("main", "waitStart")
    /\ live' = "boot" /\ thread' = "joinable"
    /\ starts' = starts + 1
    /\ UNCHANGED <<flags, selfdone, failed, nested, channel, controls>>

\* startCondVar.wait(lock, start)
Started ==
    /\ app["main"] = "waitStart" /\ start
    /\ Goto("main", "idle")
    /\ UNCHANGED <<live, thread, flags, selfdone, failed, nested, channel, counts>>

-----------------------------------------------------------------------------
(* Stop, and the destructor that follows it.                               *)

CallStop ==
    /\ app["main"] = "idle"
    /\ Goto("main", IF start THEN "stopFlag" ELSE "stopped")
    /\ UNCHANGED <<live, thread, flags, selfdone, failed, nested, channel, counts>>

StopFlag ==
    /\ app["main"] = "stopFlag"
    /\ Goto("main", IF stopped THEN "stopped" ELSE "joinable")
    /\ UNCHANGED <<live, thread, flags, selfdone, failed, nested, channel, counts>>

StopJoinable ==
    /\ app["main"] = "joinable"
    /\ Goto("main", IF thread = "joinable" THEN "setFlag" ELSE "stopped")
    /\ UNCHANGED <<live, thread, flags, selfdone, failed, nested, channel, counts>>

SetFlag ==
    /\ app["main"] = "setFlag"
    /\ stopped' = TRUE
    /\ Goto("main", "stopControl")
    /\ UNCHANGED <<live, thread, start, selfdone, failed, nested, channel, counts>>

\* Control("stop")
StopControl ==
    /\ app["main"] = "stopControl"
    /\ Goto("main", IF start THEN "stopWrite" ELSE "join")
    /\ UNCHANGED <<live, thread, flags, selfdone, failed, nested, channel, counts>>

StopWrite ==
    /\ app["main"] = "stopWrite"
    /\ WritePacket
    /\ Goto("main", "join")
    /\ UNCHANGED <<live, thread, flags, selfdone, failed, nested, messageBuf, executed, counts>>

\* join() waits for the thread; of a detached thread it throws, and the
\* program ends.
Join ==
    /\ app["main"] = "join"
    /\ \/ thread = "joinable" /\ live = "ended" /\ Goto("main", "stopped")
       \/ thread = "none" /\ Goto("main", "terminated")
    /\ thread' = "none"
    /\ UNCHANGED <<live, flags, selfdone, failed, nested, channel, counts>>

\* Stop has returned: use the server again, or destroy it once no client
\* uses it any more.
AfterStop ==
    /\ app["main"] = "stopped"
    /\ \/ Goto("main", "idle")
       \/ (\A t \in Clients : app[t] = "idle") /\ app' = [t \in Apps |-> "gone"]
    /\ UNCHANGED <<live, thread, flags, selfdone, failed, nested, channel, counts>>

-----------------------------------------------------------------------------
(* LiveTask and ControlMethodDispatch.                                     *)

\* Mutant: start is left for later.
BootSilently ==
    /\ live = "boot"
    /\ live' = "loop"
    /\ UNCHANGED <<app, thread, flags, selfdone, failed, nested, channel, counts>>

Boot ==
    /\ live = "boot"
    /\ start' = TRUE
    /\ live' = "loop"
    /\ UNCHANGED <<app, thread, stopped, selfdone, failed, nested, channel, counts>>

\* doEventLoop(&stoppedFlag): the test before every SingleStep.  The loop of a
\* DESCRIBE watches a flag of its own, and goes on when the server is to stop.
LoopTest ==
    /\ live = "loop"
    /\ live' = IF stopped /\ ~nested THEN "clearStart" ELSE "step"
    /\ UNCHANGED <<app, thread, flags, selfdone, failed, nested, channel, counts>>

\* SingleStep handles something else: a trigger, the 10 ms tick, or a socket, and
\* then a DESCRIBE may begin a loop.
OtherEvent ==
    /\ live = "step"
    /\ live' = "loop" /\ nested' \in {nested, TRUE}
    /\ UNCHANGED <<app, thread, flags, selfdone, failed, channel, counts>>

\* The DESCRIBE has what it polls for, or gives up (the outermost of them, when
\* they nest): back to the SingleStep that handles it.
NestedLoopEnds ==
    /\ live = "loop" /\ nested
    /\ nested' = FALSE
    /\ UNCHANGED <<app, live, thread, flags, selfdone, failed, channel, counts>>

\* SingleStep finds the pipe readable (or, before a read that fails, in an
\* error condition).
EnterDispatch ==
    /\ live = "step"
    /\ pipe # << >> \/ ReadMayFail
    /\ live' = "read" /\ selfdone' = FALSE
    /\ UNCHANGED <<app, thread, flags, failed, nested, channel, counts>>

\* One read: a packet, EAGAIN, or another error.
Read ==
    /\ live = "read"
    /\ \/ /\ pipe # << >>
          /\ messageBuf' = Append(messageBuf, Head(pipe))
          /\ pipe' = Tail(pipe)
          /\ UNCHANGED <<live, selfdone, failed>>
       \/ /\ pipe = << >>
          /\ live' = "parse"
          /\ UNCHANGED <<selfdone, failed, nested, pipe, messageBuf>>
       \/ /\ ReadMayFail
          /\ live' = "parse" /\ selfdone' = TRUE /\ failed' = TRUE
          /\ UNCHANGED <<pipe, messageBuf>>
    /\ UNCHANGED <<app, thread, flags, nested, executed, posted, counts>>

\* Mutant: one command for each dispatch.
ParseOnlyOne ==
    /\ live = "parse"
    /\ live' = "dispatched"
    /\ IF messageBuf = << >>
       THEN UNCHANGED <<messageBuf, executed>>
       ELSE /\ executed' = Append(executed, Head(messageBuf))
            /\ messageBuf' = Tail(messageBuf)
    /\ UNCHANGED <<app, thread, flags, selfdone, failed, nested, pipe, posted, counts>>

\* Mutant: the dispatch notices stoppedFlag before it executes.
ParseUnlessStopped ==
    /\ live = "parse"
    /\ IF messageBuf = << >> \/ stopped
       THEN live' = "dispatched" /\ UNCHANGED <<messageBuf, executed>>
       ELSE /\ executed' = Append(executed, Head(messageBuf))
            /\ messageBuf' = Tail(messageBuf)
            /\ UNCHANGED live
    /\ UNCHANGED <<app, thread, flags, selfdone, failed, nested, pipe, posted, counts>>

\* One command is executed and erased; at the end of the buffer, go on.
Parse ==
    /\ live = "parse"
    /\ IF messageBuf = << >>
       THEN live' = "dispatched" /\ UNCHANGED <<messageBuf, executed>>
       ELSE /\ executed' = Append(executed, Head(messageBuf))
            /\ messageBuf' = Tail(messageBuf)
            /\ UNCHANGED live
    /\ UNCHANGED <<app, thread, flags, selfdone, failed, nested, pipe, posted, counts>>

\* Mutant: the thread is detached whenever the server stops.
DetachStopped ==
    /\ live = "dispatched"
    /\ IF selfdone \/ stopped THEN live' = "selfStop" /\ thread' = "none"
                              ELSE live' = "tidy" /\ UNCHANGED thread
    /\ UNCHANGED <<app, flags, selfdone, failed, nested, channel, counts>>

\* The end of the dispatch: a failed read detaches the thread (a second one, in the
\* loop of a DESCRIBE: detach() throws, and the program ends) ...
Detach ==
    /\ live = "dispatched"
    /\ \/ selfdone /\ thread = "joinable" /\ live' = "selfStop" /\ UNCHANGED app
       \/ /\ selfdone /\ thread = "none"
          /\ live' = "threw" /\ app' = [t \in Apps |-> "terminated"]
       \/ ~selfdone /\ live' = "tidy" /\ UNCHANGED app
    /\ thread' = IF selfdone THEN "none" ELSE thread
    /\ UNCHANGED <<flags, selfdone, failed, nested, channel, counts>>

\* ... and ends the loop;
SelfStop ==
    /\ live = "selfStop"
    /\ stopped' = TRUE
    /\ live' = "tidy"
    /\ UNCHANGED <<app, thread, start, selfdone, failed, nested, channel, counts>>

\* a server that stops forgets what is left in the buffer.
Tidy ==
    /\ live = "tidy"
    /\ messageBuf' = IF stopped THEN << >> ELSE messageBuf
    /\ live' = "loop"
    /\ UNCHANGED <<app, thread, flags, selfdone, failed, nested, pipe, executed, posted, counts>>

ClearStart ==
    /\ live = "clearStart"
    /\ start' = FALSE
    /\ live' = "clearFlag"
    /\ UNCHANGED <<app, thread, stopped, selfdone, failed, nested, channel, counts>>

\* Mutant: the task ends with its flag still up.
EndWithFlag ==
    /\ live = "clearFlag"
    /\ live' = "ended"
    /\ UNCHANGED <<app, thread, flags, selfdone, failed, nested, channel, counts>>

ClearFlag ==
    /\ live = "clearFlag"
    /\ stopped' = FALSE
    /\ live' = "ended"
    /\ UNCHANGED <<app, thread, start, selfdone, failed, nested, channel, counts>>

LiveStep ==
    \/ Boot \/ LoopTest \/ OtherEvent \/ NestedLoopEnds \/ EnterDispatch \/ Read \/ Parse
    \/ Detach \/ SelfStop \/ Tidy \/ ClearStart \/ ClearFlag

-----------------------------------------------------------------------------

Init ==
    /\ app = [t \in Apps |-> "idle"]
    /\ live = "ended" /\ thread = "none"
    /\ start = FALSE /\ stopped = FALSE /\ selfdone = FALSE /\ failed = FALSE
    /\ nested = FALSE
    /\ pipe = << >> /\ messageBuf = << >> /\ executed = << >> /\ posted = 0
    /\ controls = 0 /\ starts = 0

\* A call of main that has begun, and goes on.
MainGoesOn ==
    \/ StartFlag \/ Spawn \/ Started
    \/ StopFlag \/ StopJoinable \/ SetFlag \/ StopControl \/ StopWrite \/ Join

Next ==
    \/ \E t \in Apps : CallControl(t) \/ Write(t)
    \/ CallStart \/ CallStop \/ MainGoesOn \/ AfterStop
    \/ LiveStep

Spec == Init /\ [][Next]_vars

\* Threads run; a blocked write goes on some time if there is room again and
\* again; SingleStep's round over the sockets comes to the pipe; a DESCRIBE ends
\* (EachAnswered of module ClientConnections).
Fairness ==
    /\ WF_vars(MainGoesOn)
    /\ \A t \in Apps : SF_vars(Write(t))
    /\ WF_vars(LiveStep)
    /\ SF_vars(EnterDispatch)
    /\ SF_vars(NestedLoopEnds)

FairSpec == Spec /\ Fairness

-----------------------------------------------------------------------------
(* Properties.                                                             *)

AppPCs == {"idle", "write", "startFlag", "spawn", "waitStart", "stopFlag", "joinable",
           "setFlag", "stopControl", "stopWrite", "join", "stopped", "terminated", "gone"}
LivePCs == {"boot", "loop", "step", "read", "parse", "dispatched", "selfStop", "tidy",
            "clearStart", "clearFlag", "ended", "threw"}

\* Every variable stays in its range; the pipe holds what it has room for.
TypeOK ==
    /\ app \in [Apps -> AppPCs]
    /\ live \in LivePCs /\ thread \in {"none", "joinable"}
    /\ start \in BOOLEAN /\ stopped \in BOOLEAN /\ selfdone \in BOOLEAN /\ failed \in BOOLEAN
    /\ nested \in BOOLEAN
    /\ pipe \in Seq(Nat) /\ Len(pipe) <= PipeCapacity
    /\ messageBuf \in Seq(Nat) /\ executed \in Seq(Nat)
    /\ posted \in Nat /\ controls \in Nat /\ starts \in Nat

\* The accepted commands are executed once each and in order, over any number
\* of starts and stops: none is lost with the buffer that the dispatch clears
\* when the server stops.
Channel == INSTANCE CommandChannel WITH queue <- messageBuf \o pipe, done <- executed
ImplementsChannel == Channel!Spec

\* A thread is spawned only when the previous one has run to its end and
\* liveThread is free: no two event loops work on one server.
OneEventLoop ==
    [][app["main"] = "spawn" /\ starts' # starts
        => live = "ended" /\ thread = "none"]_vars

\* As long as no read fails: Stop never joins a thread that cannot be joined, which
\* would end the program.
NeverTerminates == app["main"] = "terminated" => failed

\* When no event loop runs, no flag of it is left that would refuse Start; when the
\* server is destroyed, no event loop uses it.
CleanAtRest ==
    \/ failed
    \/ /\ live = "ended" => ~start /\ ~stopped
       /\ app["main"] = "gone" => live = "ended" /\ thread = "none"

\* Stop waits in write() for room in a pipe that nobody empties any more.
WriteBlocks == app["main"] = "stopWrite" /\ Len(pipe) = PipeCapacity

\* Start, which spins until the event loop runs, and Stop, which joins it,
\* return, unless a read fails or the pipe stays full.
CallsReturn ==
    /\ app["main"] = "waitStart" ~> app["main"] = "idle" \/ failed
    /\ app["main"] = "setFlag" ~> app["main"] = "stopped" \/ failed \/ []WriteBlocks

\* What was accepted while the event loop runs is executed, or the event loop is
\* told to stop.
AcceptedIsExecuted ==
    \A n \in 1..(MaxControls + MaxStarts) :
        live = "loop" /\ posted >= n ~> Len(executed) >= n \/ stopped
=============================================================================
