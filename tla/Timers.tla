------------------------------- MODULE Timers -------------------------------
(***************************************************************************)
(* What the scheduler promises of delayed tasks: a task runs once when its *)
(* delay has passed, not before; of the tasks that are due the one that    *)
(* was due first runs first; a task that has not run is called off or put  *)
(* off by its owner and nobody else, and is never lost.                    *)
(***************************************************************************)
EXTENDS Integers

CONSTANTS
    Tasks,           \* tasks of owners, and Tick
    Tick, Period,    \* the scheduler's own task runs again and again
    Delays,          \* the delays of the others
    Durations,       \* how much time may pass in a step
    Idle

VARIABLES
    left,            \* what is left of each task's delay (negative: it is late),
                     \* or Idle
    call             \* what is called in a step: by an owner, or the task itself

NoCall == <<"none">>

Init ==
    /\ left = [t \in Tasks |-> IF t = Tick THEN Period ELSE Idle]
    /\ call = NoCall

Pending == {t \in Tasks : left[t] # Idle}

\* What is left k units of time later.
Later(k) == [t \in Tasks |-> IF t \in Pending THEN left[t] - k ELSE Idle]

Set(t, delay) == \E k \in Durations : left' = [Later(k) EXCEPT ![t] = delay]

Schedule(t) ==
    /\ t \notin Pending
    /\ \E d \in Delays : Set(t, d)
    /\ call' = <<"schedule", t>>

\* The owner puts a task off; it may have run in the meantime.
Reschedule(t) ==
    /\ \E d \in Delays : Set(t, d)
    /\ call' = <<"reschedule", t>>

Unschedule(t) ==
    /\ left' = [left EXCEPT ![t] = Idle]
    /\ call' = <<"unschedule", t>>

\* After k units of time t is due, and nothing was due before it.
IsNext(t, k) ==
    /\ t \in Pending /\ Later(k)[t] <= 0
    /\ \A u \in Pending : left[t] <= left[u]

\* A task runs, and is scheduled no longer; Tick schedules itself again.
Run(t) ==
    /\ \E k \in Durations :
          /\ IsNext(t, k)
          /\ left' = [Later(k) EXCEPT ![t] = IF t = Tick THEN Period ELSE Idle]
    /\ call' = <<"run", t>>

TimePasses ==
    /\ \E k \in Durations : left' = Later(k)
    /\ call' = NoCall

Next ==
    \/ \E t \in Tasks \ {Tick} : Schedule(t) \/ Reschedule(t) \/ Unschedule(t)
    \/ \E t \in Tasks : Run(t)
    \/ TimePasses

Spec == Init /\ [][Next]_<<left, call>>
=============================================================================
