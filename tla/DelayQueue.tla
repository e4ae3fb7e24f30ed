----------------------------- MODULE DelayQueue -----------------------------
(***************************************************************************)
(* The delayed tasks of the event loop.                                    *)
(*                                                                         *)
(* DelayQueue keeps the alarms in a list; each holds the time that is to   *)
(* pass after the alarm before it.  The list is brought up to date with    *)
(* the system clock now and then (synchronize); somebody may set the clock *)
(* back or forward at any time.                                            *)
(* A task's owner keeps the token of its alarm, also when the alarm has    *)
(* gone off.                                                               *)
(*                                                                         *)
(* SingleStep sleeps in select() no longer than the first alarm allows,    *)
(* calls handlers, which use the queue in any way and may run the event    *)
(* loop inside themselves, and runs one alarm.  The task "tick", which the *)
(* scheduler sets up for itself, keeps select() from sleeping longer than  *)
(* its granularity.                                                        *)
(*                                                                         *)
(* Only differences of times are kept, so that time may go on for ever.    *)
(***************************************************************************)
EXTENDS Integers, Sequences, SequencesExt, FiniteSetsExt

CONSTANTS
    Others,          \* the tasks besides "tick"
    Delays,          \* the delays they are scheduled with
    Granularity,     \* fMaxSchedulerGranularity
    MaxNesting,      \* bound: event loops inside handlers
    MaxLag,          \* bound: time between two looks at the clock
    MaxSet,          \* bound: how far the clock is set while a task waits; 0: never
    Idle

ASSUME TasksAssumption  == IsFiniteSet(Others) /\ "tick" \notin Others
ASSUME TimeAssumption   == /\ Delays \subseteq Nat /\ Granularity \in Nat \ {0}
                           /\ MaxNesting \in Nat /\ MaxLag \in Nat /\ MaxSet \in Nat
ASSUME IdleAssumption   == Idle \notin Int

Tasks == Others \cup {"tick"}

\* ++tokenCounter never gives the same token twice; what matters is only that
\* it is not one that somebody else still has, so that few numbers do.
Tokens  == 1..(2 * Cardinality(Tasks))
NoToken == 0

VARIABLES
    dq,              \* the delay queue, see below
    token,           \* the token each task's owner keeps
    phase,           \* of the innermost SingleStep: "top", "select", "handlers", "alarm"
    timeout,         \* of its select(), 0 outside of it
    outer,           \* the phases of the SingleSteps around it
    call             \* history: the function of the queue's interface, or "run",
                     \* and the task whose owner calls it, or whose handler runs

vars == <<dq, token, phase, timeout, outer, call>>

\* The fields of dq:
\*    queue        the list: [token, task, fDeltaTimeRemaining]
\*    sinceSync    the system clock's time minus fLastSyncTime
\*    left         history: what is left of each task's delay as the queue
\*                 measures it, below zero when it is late, or Idle
\*    wait         history: what is left of it in real time
\*    ahead        history: how far the clock was put forward while it waits
\*    behind       history: how far the clock was set back while it waits
Nothing == [t \in Tasks |-> Idle]
Zero    == [t \in Tasks |-> 0]

NoCall == <<"none">>

-----------------------------------------------------------------------------
(* The list.                                                               *)

\* The time until each alarm goes off: the sum of the differences up to it.
TimeUntil(q) ==
    LET sum[i \in 0..Len(q)] == IF i = 0 THEN 0 ELSE sum[i-1] + q[i].fDeltaTimeRemaining
    IN  sum

\* Mutant: the new entry goes in front of those that go off at the same time.
PlaceBeforeEquals(q, delay) ==
    Max({i \in 0..Len(q) : i = 0 \/ TimeUntil(q)[i] < delay})

\* How many entries the loop of addEntry passes.
Place(q, delay) == Max({i \in 0..Len(q) : TimeUntil(q)[i] <= delay})

\* The time synchronize sees: none, when the clock has been set back.
Seen(s) == Max({0, s.sinceSync})

Less(left, k) == [t \in Tasks |-> IF left[t] = Idle THEN Idle ELSE left[t] - k]

\* synchronize: the time seen is taken off the front of the list.
Synchronized(s) ==
    [s EXCEPT
       !.sinceSync = 0,
       !.left = Less(@, Seen(s)),
       !.queue = [i \in 1..Len(@) |->
           [@[i] EXCEPT !.fDeltaTimeRemaining =
                Max({0, TimeUntil(s.queue)[i] - Seen(s)})
                    - Max({0, TimeUntil(s.queue)[i-1] - Seen(s)})]]]

\* (The queue's own entry, which stands for eternity at the end, is left out.)
AddEntry(s, tok, t, delay) ==
    LET now   == Synchronized(s)
        q     == now.queue
        k     == Place(q, delay)
        delta == delay - TimeUntil(q)[k]
        later == IF k = Len(q) THEN q ELSE [q EXCEPT ![k+1].fDeltaTimeRemaining = @ - delta]
    IN  [now EXCEPT !.queue = InsertAt(later, k + 1,
                        [token |-> tok, task |-> t, fDeltaTimeRemaining |-> delta]),
                    !.left[t] = delay, !.wait[t] = delay,
                    !.ahead[t] = 0, !.behind[t] = 0]

RemoveEntry(s, i) ==
    LET q == s.queue
        later == IF i = Len(q) THEN q
                 ELSE [q EXCEPT ![i+1].fDeltaTimeRemaining = @ + q[i].fDeltaTimeRemaining]
    IN  [s EXCEPT !.queue = RemoveAt(later, i),
                  !.left[q[i].task] = Idle, !.wait[q[i].task] = Idle,
                  !.ahead[q[i].task] = 0, !.behind[q[i].task] = 0]

FirstIsDue(s) == s.queue # << >> /\ Head(s.queue).fDeltaTimeRemaining = 0

-----------------------------------------------------------------------------
(* Tasks: scheduleDelayedTask and unscheduleDelayedTask.                   *)

\* Mutant: a token may be one that somebody keeps (the address of an entry).
TokenOfQueue(s, t) ==
    Min({k \in Tokens : \A i \in 1..Len(s.queue) : s.queue[i].token # k})

\* (The token that t has kept until now is forgotten.)
NewToken(s, t) ==
    Min({k \in Tokens : /\ \A i \in 1..Len(s.queue) : s.queue[i].token # k
                        /\ \A u \in Others \ {t} : token[u] # k})

RemoveToken(s, tok) ==
    LET i == SelectInSeq(s.queue, LAMBDA e : e.token = tok)
    IN  IF i = 0 THEN s ELSE RemoveEntry(s, i)

\* Anything that runs in a handler may use the queue.
InHandler == phase \in {"handlers", "alarm"}

ScheduleDelayedTask(t) ==
    /\ InHandler /\ dq.left[t] = Idle
    /\ \E d \in Delays : dq' = AddEntry(dq, NewToken(dq, t), t, d)
    /\ token' = [token EXCEPT ![t] = NewToken(dq, t)]
    /\ call' = <<"schedule", t>>
    /\ UNCHANGED <<phase, timeout, outer>>

\* The owner does not know whether the alarm has gone off.
UnscheduleDelayedTask(t) ==
    /\ InHandler /\ token[t] # NoToken
    /\ dq' = RemoveToken(dq, token[t])
    /\ token' = [token EXCEPT ![t] = NoToken]
    /\ call' = <<"unschedule", t>>
    /\ UNCHANGED <<phase, timeout, outer>>

\* (Only done to put a task off: GenericMediaServer::ClientSession::noteLiveness.)
RescheduleDelayedTask(t) ==
    /\ InHandler /\ token[t] # NoToken
    /\ LET without == RemoveToken(dq, token[t])
       IN  /\ \E d \in Delays \ {0} : dq' = AddEntry(without, NewToken(without, t), t, d)
           /\ token' = [token EXCEPT ![t] = NewToken(without, t)]
    /\ call' = <<"reschedule", t>>
    /\ UNCHANGED <<phase, timeout, outer>>

-----------------------------------------------------------------------------
(* Time.                                                                   *)

Passes(k) ==
    /\ dq.sinceSync + k <= MaxLag
    /\ dq' = [dq EXCEPT !.sinceSync = @ + k,
                        !.wait = [t \in Tasks |-> IF @[t] = Idle THEN Idle
                                                  ELSE Max({0, @[t] - k})]]

\* A handler takes time (unless somebody is late enough for the bound).
HandlerTakesTime ==
    /\ InHandler
    /\ \A t \in Tasks : dq.left[t] # Idle => dq.left[t] > -MaxLag
    /\ Passes(1)
    /\ call' = NoCall
    /\ UNCHANGED <<token, phase, timeout, outer>>

\* k, added to what is counted for the tasks that wait.
Added(count, k) == [t \in Tasks |-> IF dq.left[t] = Idle THEN 0 ELSE count[t] + k]

\* Somebody sets the system clock, which takes no time.
MaySet(k) == \A t \in Tasks : dq.ahead[t] + dq.behind[t] + k <= MaxSet

SetBack ==
    /\ \E k \in 1..MaxSet :
          /\ MaySet(k)
          /\ dq' = [dq EXCEPT !.sinceSync = @ - k, !.behind = Added(@, k)]
    /\ call' = NoCall
    /\ UNCHANGED <<token, phase, timeout, outer>>

SetForward ==
    /\ \E k \in 1..MaxSet :
          /\ MaySet(k) /\ dq.sinceSync + k <= MaxLag
          /\ dq' = [dq EXCEPT !.sinceSync = @ + k, !.ahead = Added(@, k)]
    /\ call' = NoCall
    /\ UNCHANGED <<token, phase, timeout, outer>>

-----------------------------------------------------------------------------
(* SingleStep.                                                             *)

\* timeToNextAlarm; without an alarm it is as good as eternity.
FirstDelay(s) == IF s.queue = << >> THEN MaxLag ELSE Head(s.queue).fDeltaTimeRemaining

\* Mutant: the list is taken as it was at the last look.
TimeToNextAlarmStale ==
    /\ phase = "top"
    /\ phase' = "select"
    /\ timeout' = FirstDelay(dq)
    /\ call' = NoCall
    /\ UNCHANGED <<dq, token, outer>>

TimeToNextAlarm ==
    /\ phase = "top"
    /\ phase' = "select"
    /\ dq' = IF FirstIsDue(dq) THEN dq ELSE Synchronized(dq)
    /\ timeout' = FirstDelay(dq')
    /\ call' = NoCall
    /\ UNCHANGED <<token, outer>>

\* select() returns when a socket is ready, or after the timeout.
Select ==
    /\ phase = "select"
    /\ phase' = "handlers"
    /\ \E k \in 0..timeout : Passes(k)
    /\ timeout' = 0
    /\ call' = NoCall
    /\ UNCHANGED <<token, outer>>

\* The handler of "tick" schedules it again; the others come in steps of their own.
RunTask(s, t) == IF t = "tick" THEN AddEntry(s, NewToken(s, t), t, Granularity) ELSE s

\* handleAlarm: the list is brought up to date if no alarm is known to be due;
\* the one that is due then is taken out, and its task runs.
HandleAlarm ==
    /\ phase = "handlers"
    /\ LET now == IF FirstIsDue(dq) THEN dq ELSE Synchronized(dq)
       IN  IF FirstIsDue(now)
           THEN /\ dq' = RunTask(RemoveEntry(now, 1), Head(now.queue).task)
                /\ phase' = "alarm" /\ call' = <<"run", Head(now.queue).task>>
           ELSE dq' = now /\ phase' = "top" /\ call' = NoCall
    /\ UNCHANGED <<token, timeout, outer>>

StepEnds ==
    /\ phase = "alarm"
    /\ phase' = "top" /\ call' = NoCall
    /\ UNCHANGED <<dq, token, timeout, outer>>

\* A handler runs the event loop (doEventLoop), until its watch variable is set.
EnterLoop ==
    /\ InHandler /\ Len(outer) < MaxNesting
    /\ outer' = Append(outer, phase) /\ phase' = "top" /\ call' = NoCall
    /\ UNCHANGED <<dq, token, timeout>>

LeaveLoop ==
    /\ phase = "top" /\ outer # << >>
    /\ phase' = Last(outer) /\ outer' = Front(outer) /\ call' = NoCall
    /\ UNCHANGED <<dq, token, timeout>>

-----------------------------------------------------------------------------

\* The constructor has scheduled "tick".
Init ==
    /\ dq = AddEntry([queue |-> << >>, sinceSync |-> 0, left |-> Nothing, wait |-> Nothing,
                      ahead |-> Zero, behind |-> Zero],
                     1, "tick", Granularity)
    /\ token = [t \in Others |-> NoToken]
    /\ phase = "top" /\ timeout = 0 /\ outer = << >> /\ call = NoCall

Next ==
    \/ \E t \in Others : \/ ScheduleDelayedTask(t) \/ UnscheduleDelayedTask(t)
                         \/ RescheduleDelayedTask(t)
    \/ HandlerTakesTime \/ SetBack \/ SetForward
    \/ TimeToNextAlarm \/ Select \/ HandleAlarm \/ StepEnds
    \/ EnterLoop \/ LeaveLoop

Spec == Init /\ [][Next]_vars

\* The innermost SingleStep goes on: handlers return.
Following ==
    [p \in {"top", "select", "handlers", "alarm"} |->
        CASE p = "top"      -> {"select"}
          [] p = "select"   -> {"handlers"}
          [] p = "handlers" -> {"alarm", "top"}
          [] p = "alarm"    -> {"top"}]
GoesOn == phase' \in Following[phase] /\ outer' = outer

Fairness == WF_<<phase, outer>>(GoesOn)

FairSpec == Spec /\ Fairness

-----------------------------------------------------------------------------
(* Properties.                                                             *)

\* The list of differences, the tokens and the looks at the clock do what is
\* expected of timers, also when tasks are scheduled, unscheduled and
\* rescheduled from inside each other, with tokens of alarms long gone.
Abstract == INSTANCE Timers WITH
                left <- dq.left, Tick <- "tick", Period <- Granularity,
                Durations <- 0..MaxLag
ImplementsTimers == Abstract!Spec

\* HandleAlarm runs task t.
Runs(t) == HandleAlarm /\ call' = <<"run", t>>

\* In real time, a task never runs before its delay has passed, and select() never
\* sleeps past the time of a task, however late the queue looks at the clock; a
\* clock that is set while the task waits makes no more difference than it is set.
OnTime ==
    [][/\ \A t \in Tasks : Runs(t) => dq.wait[t] <= dq.ahead[t]
       /\ Select => \A t \in Tasks : dq.left[t] # Idle =>
              dq'.sinceSync - dq.sinceSync <= dq.wait[t] + dq.behind[t]]_vars

\* A task that is due runs in the end, however many others are due and however
\* the event loop is nested, unless its owner calls it off or puts it off.
DueTasksRun ==
    \A t \in Tasks : dq.left[t] # Idle /\ dq.left[t] <= 0 ~>
                     dq.left[t] = Idle \/ dq.left[t] > 0
=============================================================================
