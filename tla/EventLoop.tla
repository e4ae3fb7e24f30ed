----------------------------- MODULE EventLoop -----------------------------
(***************************************************************************)
(* The event loop of BasicTaskScheduler: whose turn it is.                 *)
(*                                                                         *)
(* A SingleStep calls the handler of one readable socket, then of one      *)
(* event trigger, then runs one delayed task (DelayQueue has the times).   *)
(* Handlers are kept in a list to which new sockets are added in front;    *)
(* the search resumes behind the socket that was handled last.  Triggers   *)
(* are the bits of a word, with a table of their handlers, and the search  *)
(* goes on behind the trigger that was used last.                          *)
(*                                                                         *)
(* Any handler may close sockets, and create and destroy the sources that  *)
(* own triggers; one of a socket may open others, and may run the event    *)
(* loop inside itself.  Other threads raise triggers, other programs make  *)
(* sockets readable.                                                       *)
(*                                                                         *)
(* A mask with one bit is the number of that bit, counted from the left.   *)
(* (That the word is not updated atomically is in CaptureSource.)          *)
(***************************************************************************)
EXTENDS Integers, Sequences, SequencesExt, FiniteSetsExt

CONSTANTS
    FD_SETSIZE,              \* sockets have numbers from 0; select() takes this many
    MaxSockets,              \* bound: numbers in use
    Permanent,               \* how many are opened at the start, and never closed
    MAX_NUM_EVENT_TRIGGERS,
    Sources,                 \* what may own a trigger
    MaxNesting,              \* bound: event loops inside handlers
    None                     \* no source, no trigger

ASSUME SocketsAssumption  == /\ FD_SETSIZE \in Nat /\ MaxSockets \in Nat
                             /\ Permanent \in 1..FD_SETSIZE /\ Permanent <= MaxSockets
ASSUME TriggersAssumption == MAX_NUM_EVENT_TRIGGERS \in Nat \ {0}
ASSUME NestingAssumption  == MaxNesting \in Nat
ASSUME NoneAssumption     == None \notin Sources /\ None \notin Int

Sockets  == 0..(MaxSockets - 1)
Triggers == 0..(MAX_NUM_EVENT_TRIGGERS - 1)

\* The socket that clients connect to is the first; the pipe of commands is another
\* that stays open.
Server == 0

VARIABLES
    handlers,                  \* the list of the HandlerSet: sockets, front first
    fReadSet,
    fMaxNumSockets,
    fLastHandledSocketNum,
    kind,                      \* what each open socket is: "server", "client", "rtcp"
    readable,                  \* sockets with something to read
    fTriggersAwaitingHandling,
    fTriggeredEventHandlers,   \* the source that owns each trigger, or None
    fLastUsedTriggerMask,
    fLastUsedTriggerNum,
    trigger,                   \* the trigger of each source, or None
    loops,                     \* the event loops that run, the innermost last: how far
                               \* each SingleStep is, and whose handler runs (if any)
    raised,                    \* history: sources with an event not handled yet
    strayed                    \* history: has a handler been called without an event?

sockets  == <<handlers, fReadSet, fMaxNumSockets, fLastHandledSocketNum, kind, readable>>
triggers == <<fTriggersAwaitingHandling, fTriggeredEventHandlers, fLastUsedTriggerMask,
              fLastUsedTriggerNum, trigger, raised, strayed>>
vars     == <<sockets, triggers, loops>>

At(where, who) == [at |-> where, who |-> who]
Here           == Last(loops)
GoTo(p)        == loops' = [loops EXCEPT ![Len(loops)] = p]

InHandler == Here.at \in {"socket", "trigger", "task"} /\ Here # At("socket", None)

\* The handler is that of a client's socket (which it may have closed).
ForClient == Here.who # None /\ kind[Here.who] = "client"

-----------------------------------------------------------------------------
(* Sockets.                                                                *)

LimitWithout(s) == IF s + 1 = fMaxNumSockets THEN fMaxNumSockets - 1 ELSE fMaxNumSockets

\* HandlerSet: where the handler of a socket is, and the list without it.
Position(s) == CHOOSE i \in 1..Len(handlers) : handlers[i] = s
Without(s)  == IF Contains(handlers, s) THEN RemoveAt(handlers, Position(s)) ELSE handlers

\* setBackgroundHandling with conditions, and without (disableBackgroundHandling).
TurnOn(s) ==
    IF s >= FD_SETSIZE THEN UNCHANGED <<handlers, fReadSet, fMaxNumSockets>>
    ELSE /\ handlers' = IF Contains(handlers, s) THEN handlers ELSE <<s>> \o handlers
         /\ fReadSet' = fReadSet \cup {s}
         /\ fMaxNumSockets' = Max({fMaxNumSockets, s + 1})

TurnOff(s) ==
    IF s >= FD_SETSIZE THEN UNCHANGED <<handlers, fReadSet, fMaxNumSockets>>
    ELSE /\ handlers' = Without(s)
         /\ fReadSet' = fReadSet \ {s}
         /\ fMaxNumSockets' = LimitWithout(s)

\* The kernel gives the lowest free number.
Free == {s \in Sockets : kind[s] = "none"}
Open(k) ==
    /\ Free # {}
    /\ kind' = [kind EXCEPT ![Min(Free)] = k]
    /\ TurnOn(Min(Free))

\* The handler of a client's socket opens a socket for a stream.
OpenSocket ==
    /\ Here.at = "socket" /\ ForClient
    /\ Open("rtcp")
    /\ UNCHANGED <<fLastHandledSocketNum, readable, triggers, loops>>

\* Mutant: the socket is closed, the background handling stays on.
CloseSocketOnly(s) ==
    /\ InHandler /\ kind[s] \in {"client", "rtcp"}
    /\ kind' = [kind EXCEPT ![s] = "none"]
    /\ readable' = readable \ {s}
    /\ UNCHANGED <<handlers, fReadSet, fMaxNumSockets, fLastHandledSocketNum, triggers, loops>>

\* A handler turns the background handling off and closes the socket, with no
\* call of select() and nobody else's code in between.
CloseSocket(s) ==
    /\ InHandler /\ kind[s] \in {"client", "rtcp"}
    /\ kind' = [kind EXCEPT ![s] = "none"]
    /\ readable' = readable \ {s}
    /\ TurnOff(s)
    /\ UNCHANGED <<fLastHandledSocketNum, triggers, loops>>

\* RTP over TCP gives a client's socket back to the RTSP server: it is taken off the
\* list, and then added in front.
GiveBack(s) ==
    /\ InHandler /\ kind[s] = "client" /\ s < FD_SETSIZE
    /\ handlers' = <<s>> \o Without(s)
    /\ UNCHANGED <<fReadSet, fMaxNumSockets, fLastHandledSocketNum, kind, readable,
                   triggers, loops>>

\* The other side sends something, or connects.
Arrives(s) ==
    /\ kind[s] # "none" /\ s \notin readable
    /\ readable' = readable \cup {s}
    /\ UNCHANGED <<handlers, fReadSet, fMaxNumSockets, fLastHandledSocketNum, kind,
                   triggers, loops>>

-----------------------------------------------------------------------------
(* Triggers.                                                               *)

\* How many steps a search takes to trigger i, from behind the one used last ...
Distance(i) ==
    IF i > fLastUsedTriggerNum THEN i - fLastUsedTriggerNum
    ELSE i + MAX_NUM_EVENT_TRIGGERS - fLastUsedTriggerNum

\* ... and the one of T that it finds.
FirstOf(T) == CHOOSE i \in T : \A j \in T : Distance(i) <= Distance(j)

FreeTriggers == {i \in Triggers : fTriggeredEventHandlers[i] = None}

\* Mutant: the number of the new trigger is not remembered.
CreateEventTriggerForgetful(o) ==
    IF FreeTriggers = {}
    THEN /\ trigger' = [trigger EXCEPT ![o] = None]
         /\ UNCHANGED <<fTriggeredEventHandlers, fLastUsedTriggerMask, fLastUsedTriggerNum>>
    ELSE LET i == FirstOf(FreeTriggers)
         IN  /\ fTriggeredEventHandlers' = [fTriggeredEventHandlers EXCEPT ![i] = o]
             /\ fLastUsedTriggerMask' = i
             /\ trigger' = [trigger EXCEPT ![o] = i]
             /\ UNCHANGED fLastUsedTriggerNum

\* createEventTrigger: 0, which is no trigger, when all are taken.
CreateEventTrigger(o) ==
    IF FreeTriggers = {}
    THEN /\ trigger' = [trigger EXCEPT ![o] = None]
         /\ UNCHANGED <<fTriggeredEventHandlers, fLastUsedTriggerMask, fLastUsedTriggerNum>>
    ELSE LET i == FirstOf(FreeTriggers)
         IN  /\ fTriggeredEventHandlers' = [fTriggeredEventHandlers EXCEPT ![i] = o]
             /\ fLastUsedTriggerMask' = i
             /\ fLastUsedTriggerNum' = i
             /\ trigger' = [trigger EXCEPT ![o] = i]

DeleteEventTrigger(i) ==
    /\ fTriggersAwaitingHandling' = fTriggersAwaitingHandling \ {i}
    /\ fTriggeredEventHandlers' =
           [fTriggeredEventHandlers EXCEPT
              ![IF i = fLastUsedTriggerMask THEN fLastUsedTriggerNum ELSE i] = None]

\* A handler makes a source, which takes a trigger, ...
CreateSource(o) ==
    /\ InHandler /\ trigger[o] = None
    /\ CreateEventTrigger(o)
    /\ UNCHANGED <<sockets, fTriggersAwaitingHandling, raised, strayed, loops>>

\* ... or deletes one, after its threads have ended.
DestroySource(o) ==
    /\ InHandler /\ trigger[o] # None
    /\ DeleteEventTrigger(trigger[o])
    /\ trigger' = [trigger EXCEPT ![o] = None]
    /\ raised' = raised \ {o}
    /\ UNCHANGED <<sockets, fLastUsedTriggerMask, fLastUsedTriggerNum, strayed, loops>>

\* triggerEvent, on any thread.
TriggerEvent(o) ==
    /\ trigger[o] # None
    /\ fTriggersAwaitingHandling' = fTriggersAwaitingHandling \cup {trigger[o]}
    /\ raised' = raised \cup {o}
    /\ UNCHANGED <<sockets, fTriggeredEventHandlers, fLastUsedTriggerMask,
                   fLastUsedTriggerNum, trigger, strayed, loops>>

-----------------------------------------------------------------------------
(* SingleStep.                                                             *)

Ready == {s \in fReadSet : s \in readable /\ s < fMaxNumSockets}

\* The handlers behind the one that was called last, if it is still there.
Behind ==
    IF Contains(handlers, fLastHandledSocketNum)
    THEN SubSeq(handlers, Position(fLastHandledSocketNum) + 1, Len(handlers))
    ELSE handlers

FirstReady(list) == list[Min({i \in DOMAIN list : list[i] \in Ready})]

\* Mutant: every search begins at the front.
SocketInTurnFirst == FirstReady(handlers)

SocketInTurn ==
    IF ToSet(Behind) \cap Ready # {} THEN FirstReady(Behind) ELSE FirstReady(handlers)

\* select() returns, and one handler is called.  Reading takes what is there;
\* the server's socket gives a client (its handler opens the connection's socket).
HandleSocket ==
    /\ Here.at = "select" /\ Ready # {}
    /\ LET s == SocketInTurn
       IN  /\ fLastHandledSocketNum' = s
           /\ readable' = readable \ {s}
           /\ GoTo(At("socket", s))
           /\ IF s = Server /\ Free # {} THEN Open("client")
              ELSE UNCHANGED <<handlers, fReadSet, fMaxNumSockets, kind>>
    /\ UNCHANGED triggers

NoSocket ==
    /\ Here.at = "select" /\ Ready = {}
    /\ fLastHandledSocketNum' = -1
    /\ GoTo(At("socket", None))
    /\ UNCHANGED <<handlers, fReadSet, fMaxNumSockets, kind, readable, triggers>>

\* The socket's handler has returned, and triggers are looked at.
NoTrigger ==
    /\ Here.at = "socket" /\ fTriggersAwaitingHandling = {}
    /\ GoTo(At("task", None))
    /\ UNCHANGED <<sockets, triggers>>

\* The handler of trigger i is called, if it has one.
Call(i) ==
    LET o == fTriggeredEventHandlers[i]
    IN  /\ raised' = raised \ {o}
        /\ strayed' = (strayed \/ (o # None /\ o \notin raised))
        /\ fTriggersAwaitingHandling' = fTriggersAwaitingHandling \ {i}

\* The only event is that of the trigger used last ("common-case optimization").
HandleLastTrigger ==
    /\ Here.at = "socket" /\ fTriggersAwaitingHandling = {fLastUsedTriggerMask}
    /\ Call(fLastUsedTriggerNum)
    /\ GoTo(At("trigger", None))
    /\ UNCHANGED <<sockets, fTriggeredEventHandlers, fLastUsedTriggerMask,
                   fLastUsedTriggerNum, trigger>>

\* Mutant: the search begins with the first trigger.
HandleTriggerFirst ==
    /\ Here.at = "socket" /\ fTriggersAwaitingHandling \notin {{}, {fLastUsedTriggerMask}}
    /\ Call(Min(fTriggersAwaitingHandling))
    /\ GoTo(At("trigger", Min(fTriggersAwaitingHandling)))
    /\ UNCHANGED <<sockets, fTriggeredEventHandlers, fLastUsedTriggerMask,
                   fLastUsedTriggerNum, trigger>>

HandleTrigger ==
    /\ Here.at = "socket" /\ fTriggersAwaitingHandling \notin {{}, {fLastUsedTriggerMask}}
    /\ Call(FirstOf(fTriggersAwaitingHandling))
    /\ GoTo(At("trigger", FirstOf(fTriggersAwaitingHandling)))
    /\ UNCHANGED <<sockets, fTriggeredEventHandlers, fLastUsedTriggerMask,
                   fLastUsedTriggerNum, trigger>>

\* Its handler returns.  If it was found by a search, the next search goes on behind
\* it, whatever triggers the handler has created.
TriggerHandled ==
    /\ Here.at = "trigger"
    /\ IF Here.who = None THEN UNCHANGED <<fLastUsedTriggerMask, fLastUsedTriggerNum>>
       ELSE fLastUsedTriggerMask' = Here.who /\ fLastUsedTriggerNum' = Here.who
    /\ GoTo(At("task", None))
    /\ UNCHANGED <<sockets, fTriggersAwaitingHandling, fTriggeredEventHandlers, trigger,
                   raised, strayed>>

\* The delayed task that is due, if any, has run.
StepEnds ==
    /\ Here.at = "task" /\ GoTo(At("select", None))
    /\ UNCHANGED <<sockets, triggers>>

\* The handler of a client's request (DESCRIBE) runs the event loop ...
EnterLoop ==
    /\ Here.at = "socket" /\ ForClient /\ Len(loops) <= MaxNesting
    /\ loops' = Append(loops, At("select", None))
    /\ UNCHANGED <<sockets, triggers>>

\* ... until its watch variable is set.
LeaveLoop ==
    /\ Here.at = "select" /\ Len(loops) > 1
    /\ loops' = Front(loops)
    /\ UNCHANGED <<sockets, triggers>>

-----------------------------------------------------------------------------

\* After Initialize.
Init ==
    /\ handlers = [i \in 1..Permanent |-> Permanent - i]
    /\ fReadSet = 0..(Permanent - 1) /\ fMaxNumSockets = Permanent
    /\ fLastHandledSocketNum = -1
    /\ kind = [s \in Sockets |-> IF s < Permanent THEN "server" ELSE "none"]
    /\ readable = {}
    /\ fTriggersAwaitingHandling = {}
    /\ fTriggeredEventHandlers = [i \in Triggers |-> None]
    /\ fLastUsedTriggerMask = MAX_NUM_EVENT_TRIGGERS - 1
    /\ fLastUsedTriggerNum = MAX_NUM_EVENT_TRIGGERS - 1
    /\ trigger = [o \in Sources |-> None]
    /\ loops = <<At("select", None)>>
    /\ raised = {} /\ strayed = FALSE

Step ==
    \/ HandleSocket \/ NoSocket
    \/ NoTrigger \/ HandleLastTrigger \/ HandleTrigger \/ TriggerHandled
    \/ StepEnds

Next ==
    \/ OpenSocket
    \/ \E s \in Sockets : CloseSocket(s) \/ GiveBack(s) \/ Arrives(s)
    \/ \E o \in Sources : CreateSource(o) \/ DestroySource(o) \/ TriggerEvent(o)
    \/ Step \/ EnterLoop \/ LeaveLoop

Spec == Init /\ [][Next]_vars

\* The innermost SingleStep goes on, which is all that changes its place.
GoesOn ==
    \E p \in {At(where, who) : where \in {"select", "socket", "trigger", "task"},
                              who \in Sockets \cup Triggers \cup {None}} :
        p.at # Here.at /\ GoTo(p)

Fairness == WF_loops(GoesOn)

FairSpec == Spec /\ Fairness

-----------------------------------------------------------------------------
(* Properties.                                                             *)

\* select() is asked for every open socket that it can take and for no closed one
\* (it would fail, and end the program), and the list has a handler for each.
SelectCoversAll ==
    /\ fReadSet = {s \in Sockets : kind[s] # "none" /\ s < FD_SETSIZE}
    /\ \A s \in fReadSet : s < fMaxNumSockets
    /\ ToSet(handlers) = fReadSet /\ IsInjective(handlers)

\* Every source has a trigger of its own, the shortcut for the trigger used last
\* is one, and every event is that of a source which is yet to hear of it.
TriggersOwned ==
    /\ fLastUsedTriggerMask = fLastUsedTriggerNum
    /\ \A o \in Sources : trigger[o] # None => fTriggeredEventHandlers[trigger[o]] = o
    /\ \A i \in Triggers : fTriggeredEventHandlers[i] # None
                              => trigger[fTriggeredEventHandlers[i]] = i
    /\ \A i \in Triggers : i \in fTriggersAwaitingHandling
                              <=> fTriggeredEventHandlers[i] \in raised
    /\ ~strayed

\* A socket that stays readable is read in the end, or closed, however many sockets
\* are opened in front of it - unless sockets are given back to the server for ever.
SocketsServed ==
    \/ []<><<\E s \in Sockets : GiveBack(s)>>_handlers
    \/ \A s \in Sockets : s \in readable /\ s \in fReadSet ~> s \notin readable \/ s \notin fReadSet

\* An event that is raised is handled, or its source destroyed.
EventsHandled ==
    \A i \in Triggers : i \in fTriggersAwaitingHandling ~> i \notin fTriggersAwaitingHandling
=============================================================================
