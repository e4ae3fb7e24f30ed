--------------------------- MODULE EventLoopProofs ---------------------------
(***************************************************************************)
(* Proofs about EventLoop, for any number of sockets, triggers, sources    *)
(* and nested loops: select() is asked for the right sockets, and no event *)
(* is lost, or handled for a source that does not own it.                  *)
(***************************************************************************)
EXTENDS EventLoop, SequenceTheorems, WellFoundedInduction, TLAPS

Kinds == {"none", "server", "client", "rtcp"}

\* What the sockets are, and what select() is asked.
SocketInv ==
    /\ handlers \in Seq(Sockets) /\ fReadSet \subseteq Sockets
    /\ fMaxNumSockets \in Nat /\ kind \in [Sockets -> Kinds]
    /\ SelectCoversAll

-----------------------------------------------------------------------------
(* Numbers and lists.                                                      *)

\* A set of natural numbers that is not empty has a least one.
LEMMA LeastOf ==
  ASSUME NEW S, S \subseteq Nat, S # {}
  PROVE  Min(S) \in S /\ \A y \in S : Min(S) <= y
<1>1. PICK x \in S : \A y \in S : ~ (<<y, x>> \in OpToRel(<, Nat))
  BY NatLessThanWellFounded, WFMin
<1>2. ASSUME NEW y \in S PROVE x <= y
  <2>1. <<y, x>> \in Nat \X Nat /\ (<<y, x>>)[1] = y /\ (<<y, x>>)[2] = x
    OBVIOUS
  <2>2. ~ (y < x)
    BY <1>1, <2>1, Zenon DEF OpToRel
  <2>. QED  BY <2>2
<1>. QED
  BY <1>2 DEF Min

\* The greater of two numbers.
LEMMA GreaterOf ==
  ASSUME NEW a \in Nat, NEW b \in Nat
  PROVE  Max({a, b}) \in {a, b} /\ Max({a, b}) >= a /\ Max({a, b}) >= b
<1>1. \E x \in {a, b} : \A y \in {a, b} : x >= y
  OBVIOUS
<1>. QED
  BY <1>1 DEF Max

\* A socket that is put in front of a list.
LEMMA InFront ==
  ASSUME NEW list \in Seq(Sockets), IsInjective(list), NEW s \in Sockets, s \notin ToSet(list)
  PROVE  /\ <<s>> \o list \in Seq(Sockets)
         /\ ToSet(<<s>> \o list) = ToSet(list) \cup {s}
         /\ IsInjective(<<s>> \o list)
<1>. DEFINE new == <<s>> \o list
<1>1. /\ new \in Seq(Sockets) /\ Len(new) = Len(list) + 1
      /\ new[1] = s /\ \A i \in 1..Len(list) : new[i+1] = list[i]
  OBVIOUS
<1>2. DOMAIN new = 1..(Len(list) + 1) /\ DOMAIN list = 1..Len(list) /\ Len(list) \in Nat
  BY <1>1
<1>3. \A i \in DOMAIN new : i = 1 \/ (i - 1 \in DOMAIN list /\ new[i] = list[i-1])
  <2>. TAKE i \in DOMAIN new
  <2>1. i = 1 \/ i - 1 \in 1..Len(list)
    BY <1>2
  <2>2. ASSUME i - 1 \in 1..Len(list) PROVE new[i] = list[i-1]
    BY <1>1, <1>2, <2>2, (i - 1) + 1 = i
  <2>. QED  BY <2>1, <2>2, <1>2
<1>4. ToSet(new) = ToSet(list) \cup {s}
  <2>1. ToSet(new) \subseteq ToSet(list) \cup {s}
    BY <1>1, <1>3 DEF ToSet
  <2>2. ToSet(list) \subseteq ToSet(new)
    <3>. SUFFICES ASSUME NEW i \in DOMAIN list PROVE list[i] \in ToSet(new)
      BY DEF ToSet
    <3>. QED  BY <1>1, <1>2, i + 1 \in DOMAIN new DEF ToSet
  <2>3. s \in ToSet(new)
    BY <1>1, <1>2, 1 \in DOMAIN new DEF ToSet
  <2>. QED  BY <2>1, <2>2, <2>3
<1>5. IsInjective(new)
  <2>. SUFFICES ASSUME NEW i \in DOMAIN new, NEW j \in DOMAIN new, new[i] = new[j]
                PROVE  i = j
    BY DEF IsInjective
  <2>1. \A k \in DOMAIN list : list[k] # s
    BY DEF ToSet
  <2>2. CASE i = 1 \/ j = 1
    BY <1>1, <1>3, <2>1, <2>2
  <2>3. CASE i # 1 /\ j # 1
    <3>1. list[i-1] = list[j-1] /\ i - 1 \in DOMAIN list /\ j - 1 \in DOMAIN list
      BY <1>3, <2>3
    <3>2. i - 1 = j - 1
      BY <3>1 DEF IsInjective
    <3>. QED  BY <3>2, <1>2
  <2>. QED  BY <2>2, <2>3
<1>. QED  BY <1>1, <1>4, <1>5

\* The list without a socket has the others, in the places they had.
LEMMA TakenOut ==
  ASSUME handlers \in Seq(Sockets), IsInjective(handlers), NEW s
  PROVE  /\ Without(s) \in Seq(Sockets)
         /\ ToSet(Without(s)) = ToSet(handlers) \ {s}
         /\ IsInjective(Without(s))
<1>0. DOMAIN handlers = 1..Len(handlers) /\ Len(handlers) \in Nat
  OBVIOUS
<1>1. CASE ~Contains(handlers, s)
  BY <1>0, <1>1 DEF Without, Contains, ToSet
<1>2. CASE Contains(handlers, s)
  <2>. DEFINE p == Position(s)  list == RemoveAt(handlers, p)  n == Len(handlers)
              from(i) == IF i < p THEN i ELSE i + 1
  <2>1. p \in 1..n /\ handlers[p] = s
    BY <1>2 DEF Contains, Position
  <2>. DEFINE before == SubSeq(handlers, 1, p - 1)  after == SubSeq(handlers, p + 1, n)
  <2>11. /\ before \in Seq(Sockets) /\ Len(before) = p - 1
        /\ \A i \in 1..(p-1) : before[i] = handlers[i]
    BY <1>0, <2>1
  <2>12. /\ after \in Seq(Sockets) /\ Len(after) = n - p
        /\ \A i \in 1..(n-p) : after[i] = handlers[p+i]
    BY <1>0, <2>1
  <2>13. list = before \o after
    BY DEF RemoveAt
  <2>2. list \in Seq(Sockets) /\ Len(list) = n - 1
    BY <1>0, <2>1, <2>11, <2>12, <2>13, ConcatProperties
  <2>3. \A i \in 1..(n-1) : list[i] = handlers[from(i)]
    <3>. TAKE i \in 1..(n-1)
    <3>1. list[i] = IF i <= p - 1 THEN before[i] ELSE after[i - (p - 1)]
      <4>1. i \in 1..(Len(before) + Len(after))
        BY <1>0, <2>1, <2>11, <2>12
      <4>2. (before \o after)[i] = IF i <= Len(before) THEN before[i]
                                   ELSE after[i - Len(before)]
        BY <2>11, <2>12, <4>1, ConcatProperties, Zenon
      <4>. QED  BY <2>11, <2>13, <4>2
    <3>2. CASE i < p
      BY <1>0, <2>1, <2>11, <3>1, <3>2
    <3>3. CASE ~(i < p)
      <4>1. i - (p - 1) \in 1..(n-p) /\ p + (i - (p - 1)) = i + 1
        BY <1>0, <2>1, <3>3
      <4>. QED  BY <1>0, <2>1, <2>12, <3>1, <3>3, <4>1
    <3>. QED  BY <1>0, <2>1, <3>2, <3>3
  <2>4. DOMAIN list = 1..(n-1)
    BY <2>2
  <2>5. \A j \in 1..n : j # p => \E i \in 1..(n-1) : from(i) = j
    <3>. TAKE j \in 1..n
    <3>1. CASE j < p
      BY <1>0, <2>1, <3>1, j \in 1..(n-1), from(j) = j
    <3>2. CASE j > p
      BY <1>0, <2>1, <3>2, j - 1 \in 1..(n-1), from(j-1) = j
    <3>. QED  BY <1>0, <2>1, <3>1, <3>2
  <2>6. \A i \in 1..(n-1) : from(i) \in 1..n /\ from(i) # p
    BY <1>0, <2>1
  <2>7. ToSet(list) = ToSet(handlers) \ {s}
    <3>1. \A i \in DOMAIN list : list[i] \in ToSet(handlers) \ {s}
      BY <1>0, <2>1, <2>3, <2>4, <2>6 DEF ToSet, IsInjective
    <3>2. \A j \in DOMAIN handlers : handlers[j] # s => handlers[j] \in ToSet(list)
      BY <1>0, <2>1, <2>3, <2>4, <2>5 DEF ToSet
    <3>. QED  BY <3>1, <3>2 DEF ToSet
  <2>8. IsInjective(list)
    <3>. SUFFICES ASSUME NEW i \in 1..(n-1), NEW j \in 1..(n-1), list[i] = list[j]
                  PROVE  i = j
      BY <2>4 DEF IsInjective
    <3>1. from(i) = from(j)
      BY <1>0, <2>3, <2>6 DEF IsInjective
    <3>. QED  BY <1>0, <2>1, <3>1
  <2>. QED  BY <1>2, <2>2, <2>7, <2>8 DEF Without
<1>. QED  BY <1>1, <1>2

-----------------------------------------------------------------------------
(* What select() is asked for.                                             *)

\* A socket that is opened and gets a handler.
LEMMA TurnedOn ==
  ASSUME SocketInv, NEW s \in Sockets, kind[s] = "none", NEW k \in {"client", "rtcp"},
         kind' = [kind EXCEPT ![s] = k], TurnOn(s)
  PROVE  SocketInv'
<1>1. s \notin fReadSet /\ s \notin ToSet(handlers) /\ s \in Nat /\ s + 1 \in Nat
  BY DEF SocketInv, SelectCoversAll, Sockets
<1>2. ~Contains(handlers, s)
  BY <1>1 DEF SocketInv, Contains, ToSet
<1>3. kind' \in [Sockets -> Kinds] /\ kind'[s] = k
      /\ \A t \in Sockets \ {s} : kind'[t] = kind[t]
  BY DEF SocketInv, Kinds
<1>4. CASE s >= FD_SETSIZE
  <2>1. UNCHANGED <<handlers, fReadSet, fMaxNumSockets>>
    BY <1>4 DEF TurnOn
  <2>2. ~(s < FD_SETSIZE)
    BY <1>1, <1>4, SocketsAssumption
  <2>. QED  BY <1>3, <2>1, <2>2 DEF SocketInv, SelectCoversAll
<1>5. CASE ~(s >= FD_SETSIZE)
  <2>1. /\ handlers' = <<s>> \o handlers
        /\ fReadSet' = fReadSet \cup {s}
        /\ fMaxNumSockets' = Max({fMaxNumSockets, s + 1})
    BY <1>2, <1>5 DEF TurnOn
  <2>2. /\ fMaxNumSockets' \in Nat
        /\ fMaxNumSockets' >= fMaxNumSockets /\ fMaxNumSockets' >= s + 1
    BY <1>1, <2>1, GreaterOf DEF SocketInv
  <2>3. /\ handlers' \in Seq(Sockets) /\ IsInjective(handlers')
        /\ ToSet(handlers') = ToSet(handlers) \cup {s}
    BY <1>1, <2>1, InFront DEF SocketInv, SelectCoversAll
  <2>4. s < FD_SETSIZE
    BY <1>1, <1>5, SocketsAssumption
  <2>5. fReadSet' = {t \in Sockets : kind'[t] # "none" /\ t < FD_SETSIZE}
    BY <1>3, <2>1, <2>4 DEF SocketInv, SelectCoversAll
  <2>6. \A t \in fReadSet' : t < fMaxNumSockets'
    BY <1>1, <2>1, <2>2 DEF SocketInv, SelectCoversAll, Sockets
  <2>7. fReadSet' \subseteq Sockets
    BY <2>1 DEF SocketInv
  <2>8. ToSet(handlers)' = ToSet(handlers') /\ IsInjective(handlers)' = IsInjective(handlers')
    BY DEF ToSet, IsInjective
  <2>. QED
    BY <1>3, <2>1, <2>2, <2>3, <2>5, <2>6, <2>7, <2>8 DEF SocketInv, SelectCoversAll
<1>. QED  BY <1>4, <1>5

\* A socket that is closed.
LEMMA TurnedOff ==
  ASSUME SocketInv, NEW s \in Sockets, kind[s] # "none",
         kind' = [kind EXCEPT ![s] = "none"], TurnOff(s)
  PROVE  SocketInv'
<1>1. s \in Nat
  BY DEF Sockets
<1>2. kind' \in [Sockets -> Kinds] /\ kind'[s] = "none"
      /\ \A t \in Sockets \ {s} : kind'[t] = kind[t]
  BY DEF SocketInv, Kinds
<1>3. CASE s >= FD_SETSIZE
  <2>1. UNCHANGED <<handlers, fReadSet, fMaxNumSockets>>
    BY <1>3 DEF TurnOff
  <2>2. ~(s < FD_SETSIZE)
    BY <1>1, <1>3, SocketsAssumption
  <2>. QED  BY <1>2, <2>1, <2>2 DEF SocketInv, SelectCoversAll
<1>4. CASE ~(s >= FD_SETSIZE)
  <2>1. /\ handlers' = Without(s)
        /\ fReadSet' = fReadSet \ {s}
        /\ fMaxNumSockets' = LimitWithout(s)
    BY <1>4 DEF TurnOff
  <2>2. s \in fReadSet
    BY <1>1, <1>4, SocketsAssumption DEF SocketInv, SelectCoversAll
  <2>3. \A t \in fReadSet : t \in Nat /\ t < fMaxNumSockets
    BY DEF SocketInv, SelectCoversAll, Sockets
  <2>4. fMaxNumSockets' \in Nat /\ \A t \in fReadSet' : t < fMaxNumSockets'
    BY <1>1, <2>1, <2>2, <2>3 DEF SocketInv, LimitWithout
  <2>5. /\ handlers' \in Seq(Sockets) /\ IsInjective(handlers')
        /\ ToSet(handlers') = ToSet(handlers) \ {s}
    BY <2>1, TakenOut DEF SocketInv, SelectCoversAll
  <2>6. fReadSet' = {t \in Sockets : kind'[t] # "none" /\ t < FD_SETSIZE}
    BY <1>2, <2>1 DEF SocketInv, SelectCoversAll
  <2>7. fReadSet' \subseteq Sockets
    BY <2>1 DEF SocketInv
  <2>8. ToSet(handlers)' = ToSet(handlers') /\ IsInjective(handlers)' = IsInjective(handlers')
    BY DEF ToSet, IsInjective
  <2>. QED
    BY <1>2, <2>1, <2>4, <2>5, <2>6, <2>7, <2>8 DEF SocketInv, SelectCoversAll
<1>. QED  BY <1>3, <1>4

\* A new socket is one that was free.
LEMMA OpenKeeps ==
  ASSUME SocketInv, NEW k \in {"client", "rtcp"}, Open(k)
  PROVE  SocketInv'
<1>1. Min(Free) \in Free
  BY LeastOf DEF Open, Free, Sockets
<1>. QED
  BY <1>1, TurnedOn DEF Open, Free

\* A socket that is moved to the front keeps its handler.
LEMMA GiveBackKeeps ==
  ASSUME SocketInv, NEW s \in Sockets, GiveBack(s)
  PROVE  SocketInv'
<1>1. s \in fReadSet /\ s \in ToSet(handlers)
  BY DEF GiveBack, SocketInv, SelectCoversAll
<1>. DEFINE list == Without(s)
<1>2. /\ list \in Seq(Sockets) /\ IsInjective(list)
      /\ ToSet(list) = ToSet(handlers) \ {s}
  BY TakenOut DEF SocketInv, SelectCoversAll
<1>3. handlers' = <<s>> \o list
  BY DEF GiveBack
<1>4. /\ handlers' \in Seq(Sockets) /\ IsInjective(handlers')
      /\ ToSet(handlers') = ToSet(list) \cup {s}
  <2>. HIDE DEF list
  <2>. QED  BY <1>2, <1>3, InFront
<1>5. ToSet(handlers') = ToSet(handlers)
  BY <1>1, <1>2, <1>4
<1>6. ToSet(handlers)' = ToSet(handlers') /\ IsInjective(handlers)' = IsInjective(handlers')
  BY DEF ToSet, IsInjective
<1>. QED
  BY <1>4, <1>5, <1>6 DEF GiveBack, SocketInv, SelectCoversAll

\* At the start.
LEMMA SocketInit == Init => SocketInv
<1>. SUFFICES ASSUME Init PROVE SocketInv
  OBVIOUS
<1>1. Permanent \in Nat \ {0} /\ Permanent <= FD_SETSIZE /\ Permanent <= MaxSockets
  BY SocketsAssumption
<1>2. \A s \in 0..(Permanent - 1) : s \in Sockets /\ s < FD_SETSIZE /\ s < Permanent
  BY <1>1, SocketsAssumption DEF Sockets
<1>3. handlers = [i \in 1..Permanent |-> Permanent - i] /\ fReadSet = 0..(Permanent - 1)
      /\ fMaxNumSockets = Permanent
  BY DEF Init
<1>4. \A i \in 1..Permanent : Permanent - i \in 0..(Permanent - 1)
  BY <1>1
<1>5. handlers \in Seq(Sockets) /\ DOMAIN handlers = 1..Permanent
  BY <1>1, <1>2, <1>3, <1>4
<1>6. ToSet(handlers) = fReadSet
  <2>1. \A s \in 0..(Permanent - 1) : Permanent - s \in 1..Permanent
                                      /\ handlers[Permanent - s] = s
    BY <1>1, <1>3
  <2>2. ToSet(handlers) \subseteq fReadSet
    BY <1>3, <1>4, <1>5 DEF ToSet
  <2>3. ASSUME NEW s \in fReadSet PROVE s \in ToSet(handlers)
    <3>1. Permanent - s \in DOMAIN handlers /\ handlers[Permanent - s] = s
      BY <1>3, <1>5, <2>1, <2>3
    <3>. QED  BY <3>1, Zenon DEF ToSet
  <2>. QED  BY <2>2, <2>3
<1>7. IsInjective(handlers)
  BY <1>1, <1>3 DEF IsInjective
<1>8. fReadSet = {s \in Sockets : kind[s] # "none" /\ s < FD_SETSIZE}
  <2>1. kind = [s \in Sockets |-> IF s < Permanent THEN "server" ELSE "none"]
    BY DEF Init
  <2>2. \A s \in Sockets : s < Permanent <=> s \in 0..(Permanent - 1)
    BY <1>1 DEF Sockets
  <2>. QED  BY <1>2, <1>3, <2>1, <2>2
<1>9. kind \in [Sockets -> Kinds]
  BY DEF Init, Kinds
<1>. QED
  BY <1>1, <1>2, <1>3, <1>5, <1>6, <1>7, <1>8, <1>9 DEF SocketInv, SelectCoversAll

\* Every step.
LEMMA SocketNext == SocketInv /\ [Next]_vars => SocketInv'
<1>. SUFFICES ASSUME SocketInv, [Next]_vars PROVE SocketInv'
  OBVIOUS
<1>. USE DEF sockets
<1>1. CASE UNCHANGED <<handlers, fReadSet, fMaxNumSockets, kind>>
  BY <1>1 DEF SocketInv, SelectCoversAll, ToSet, IsInjective
<1>2. CASE OpenSocket
  BY <1>2, OpenKeeps DEF OpenSocket
<1>3. ASSUME NEW s \in Sockets, CloseSocket(s) PROVE SocketInv'
  <2>1. kind[s] # "none"
    BY <1>3 DEF CloseSocket
  <2>. QED  BY <1>3, <2>1, TurnedOff DEF CloseSocket
<1>4. ASSUME NEW s \in Sockets, GiveBack(s) PROVE SocketInv'
  BY <1>4, GiveBackKeeps
<1>5. CASE HandleSocket
  <2>1. CASE Open("client")
    BY <2>1, OpenKeeps
  <2>2. CASE UNCHANGED <<handlers, fReadSet, fMaxNumSockets, kind>>
    BY <1>1, <2>2
  <2>. QED  BY <1>5, <2>1, <2>2 DEF HandleSocket
<1>6. CASE NoSocket
  BY <1>1, <1>6 DEF NoSocket
<1>7. ASSUME NEW s \in Sockets, Arrives(s) PROVE SocketInv'
  BY <1>1, <1>7 DEF Arrives
<1>8. ASSUME NEW o \in Sources, CreateSource(o) \/ DestroySource(o) \/ TriggerEvent(o)
      PROVE  SocketInv'
  BY <1>1, <1>8 DEF CreateSource, DestroySource, TriggerEvent
<1>9. CASE NoTrigger \/ HandleLastTrigger \/ HandleTrigger \/ TriggerHandled
  BY <1>1, <1>9 DEF NoTrigger, HandleLastTrigger, HandleTrigger, TriggerHandled
<1>10. CASE StepEnds \/ EnterLoop \/ LeaveLoop
  BY <1>1, <1>10 DEF StepEnds, EnterLoop, LeaveLoop
<1>11. CASE UNCHANGED vars
  BY <1>1, <1>11 DEF vars
<1>. QED
  BY <1>2, <1>3, <1>4, <1>5, <1>6, <1>7, <1>8, <1>9, <1>10, <1>11 DEF Next, Step

\* select() is always asked for exactly the open sockets below FD_SETSIZE.
THEOREM SelectIsRight == Spec => []SelectCoversAll
<1>1. SocketInv => SelectCoversAll
  BY DEF SocketInv
<1>. QED
  BY <1>1, SocketInit, SocketNext, PTL DEF Spec

-----------------------------------------------------------------------------
(* Triggers.                                                               *)

\* Where a SingleStep can be.
Places == [at : {"select", "socket", "task"}, who : Sockets \cup {None}]
              \cup [at : {"trigger"}, who : Triggers \cup {None}]

LoopInv == loops \in Seq(Places) /\ Len(loops) > 0

TriggerInv ==
    /\ fTriggersAwaitingHandling \subseteq Triggers
    /\ fTriggeredEventHandlers \in [Triggers -> Sources \cup {None}]
    /\ fLastUsedTriggerNum \in Triggers
    /\ trigger \in [Sources -> Triggers \cup {None}]
    /\ raised \subseteq Sources /\ \A o \in raised : trigger[o] # None
    /\ TriggersOwned

\* The search among the sockets finds one that is ready.
LEMMA ReadyFound ==
  ASSUME NEW list \in Seq(Sockets), ToSet(list) \cap Ready # {}
  PROVE  FirstReady(list) \in Ready
<1>. DEFINE places == {i \in DOMAIN list : list[i] \in Ready}
<1>1. places \subseteq Nat /\ places # {}
  BY DEF ToSet
<1>. QED
  BY <1>1, LeastOf DEF FirstReady

LEMMA SearchFinds ==
  ASSUME SocketInv, Ready # {}
  PROVE  SocketInTurn \in Ready
<1>1. Behind \in Seq(Sockets)
  <2>1. ASSUME Contains(handlers, fLastHandledSocketNum)
        PROVE  Position(fLastHandledSocketNum) \in 1..Len(handlers)
    BY <2>1 DEF Contains, Position
  <2>. QED  BY <2>1 DEF Behind, SocketInv
<1>2. ToSet(handlers) \cap Ready # {}
  BY DEF SocketInv, SelectCoversAll, Ready
<1>. QED
  BY <1>1, <1>2, ReadyFound DEF SocketInTurn, SocketInv

\* The search among the triggers finds one of those it looks for.
LEMMA TriggerFound ==
  ASSUME NEW T, T \subseteq Triggers, T # {}, fLastUsedTriggerNum \in Triggers
  PROVE  FirstOf(T) \in T
<1>. DEFINE D == {Distance(i) : i \in T}
<1>1. \A i \in T : Distance(i) \in Nat
  BY TriggersAssumption DEF Distance, Triggers
<1>2. D \subseteq Nat /\ D # {}
  BY <1>1
<1>3. PICK i \in T : Distance(i) = Min(D)
  <2>. HIDE DEF D
  <2>1. Min(D) \in D  BY <1>2, LeastOf
  <2>. QED  BY <2>1 DEF D
<1>4. \A j \in T : Distance(i) <= Distance(j)
  <2>. SUFFICES ASSUME NEW j \in T PROVE Distance(i) <= Distance(j)
    OBVIOUS
  <2>1. Distance(j) \in D  OBVIOUS
  <2>. HIDE DEF D
  <2>. QED  BY <1>2, <1>3, <2>1, LeastOf
<1>. QED
  BY <1>4 DEF FirstOf

\* The innermost SingleStep moves on.
LEMMA Moves ==
  ASSUME LoopInv, NEW p \in Places, GoTo(p)
  PROVE  LoopInv'
BY ExceptSeq DEF LoopInv, GoTo

LEMMA HereIsPlace ==
  ASSUME LoopInv
  PROVE  Here \in Places
BY DEF LoopInv, Here, Last

LEMMA LoopNext == SocketInv /\ TriggerInv /\ LoopInv /\ [Next]_vars => LoopInv'
<1>. SUFFICES ASSUME SocketInv, TriggerInv, LoopInv, [Next]_vars PROVE LoopInv'
  OBVIOUS
<1>1. CASE UNCHANGED loops
  BY <1>1 DEF LoopInv
<1>2. CASE HandleSocket
  <2>1. SocketInTurn \in Sockets
    BY <1>2, SearchFinds DEF HandleSocket, Ready, SocketInv
  <2>2. At("socket", SocketInTurn) \in Places
    BY <2>1 DEF At, Places
  <2>. QED  BY <1>2, <2>2, Moves DEF HandleSocket
<1>3. CASE NoSocket \/ NoTrigger \/ TriggerHandled \/ StepEnds
  <2>1. \A at \in {"select", "socket", "task"} : At(at, None) \in Places
    BY DEF At, Places
  <2>. QED  BY <1>3, <2>1, Moves DEF NoSocket, NoTrigger, TriggerHandled, StepEnds
<1>4. CASE HandleLastTrigger
  <2>1. At("trigger", None) \in Places
    BY DEF At, Places
  <2>. QED  BY <1>4, <2>1, Moves DEF HandleLastTrigger
<1>5. CASE HandleTrigger
  <2>1. FirstOf(fTriggersAwaitingHandling) \in Triggers
    BY <1>5, TriggerFound DEF HandleTrigger, TriggerInv
  <2>2. At("trigger", FirstOf(fTriggersAwaitingHandling)) \in Places
    BY <2>1 DEF At, Places
  <2>. QED  BY <1>5, <2>2, Moves DEF HandleTrigger
<1>6. CASE EnterLoop
  <2>1. At("select", None) \in Places
    BY DEF At, Places
  <2>. QED  BY <1>6, <2>1 DEF EnterLoop, LoopInv
<1>7. CASE LeaveLoop
  BY <1>7 DEF LeaveLoop, LoopInv, Front
<1>8. CASE UNCHANGED vars
  BY <1>1, <1>8 DEF vars
<1>9. CASE OpenSocket
  BY <1>1, <1>9 DEF OpenSocket
<1>10. ASSUME NEW s \in Sockets, CloseSocket(s) \/ GiveBack(s) \/ Arrives(s) PROVE LoopInv'
  BY <1>1, <1>10 DEF CloseSocket, GiveBack, Arrives
<1>11. ASSUME NEW o \in Sources, CreateSource(o) \/ DestroySource(o) \/ TriggerEvent(o)
       PROVE  LoopInv'
  BY <1>1, <1>11 DEF CreateSource, DestroySource, TriggerEvent
<1>. QED
  BY <1>2, <1>3, <1>4, <1>5, <1>6, <1>7, <1>8, <1>9, <1>10, <1>11 DEF Next, Step

\* The handler that is called has a source, and the source has an event.
LEMMA CallKeeps ==
  ASSUME TriggerInv, NEW i \in fTriggersAwaitingHandling, Call(i),
         UNCHANGED <<fTriggeredEventHandlers, fLastUsedTriggerMask, fLastUsedTriggerNum, trigger>>
  PROVE  TriggerInv'
<1>. DEFINE o == fTriggeredEventHandlers[i]
<1>1. i \in Triggers /\ o \in raised /\ o \in Sources /\ trigger[o] = i
  BY NoneAssumption DEF TriggerInv, TriggersOwned
<1>2. /\ raised' = raised \ {o}
      /\ fTriggersAwaitingHandling' = fTriggersAwaitingHandling \ {i}
      /\ ~strayed'
  BY <1>1 DEF Call, TriggerInv, TriggersOwned
<1>3. \A j \in Triggers : j \in fTriggersAwaitingHandling'
                            <=> fTriggeredEventHandlers'[j] \in raised'
  <2>. SUFFICES ASSUME NEW j \in Triggers
                PROVE  j \in fTriggersAwaitingHandling' <=> fTriggeredEventHandlers[j] \in raised'
    OBVIOUS
  <2>1. fTriggeredEventHandlers[j] = o => j = i
    BY <1>1, NoneAssumption DEF TriggerInv, TriggersOwned
  <2>. QED  BY <1>2, <2>1 DEF TriggerInv, TriggersOwned
<1>. QED
  BY <1>1, <1>2, <1>3 DEF TriggerInv, TriggersOwned

LEMMA CreateKeeps ==
  ASSUME TriggerInv, NEW o \in Sources, CreateSource(o)
  PROVE  TriggerInv'
<1>1. CASE FreeTriggers = {}
  <2>1. trigger' = trigger
    BY <1>1 DEF CreateSource, CreateEventTrigger, TriggerInv
  <2>. QED
    BY <1>1, <2>1 DEF CreateSource, CreateEventTrigger, TriggerInv, TriggersOwned
<1>2. CASE FreeTriggers # {}
  <2>. DEFINE i == FirstOf(FreeTriggers)
  <2>1. i \in Triggers /\ fTriggeredEventHandlers[i] = None
    BY <1>2, TriggerFound DEF FreeTriggers, TriggerInv
  <2>2. /\ fTriggeredEventHandlers' = [fTriggeredEventHandlers EXCEPT ![i] = o]
        /\ fLastUsedTriggerMask' = i /\ fLastUsedTriggerNum' = i
        /\ trigger' = [trigger EXCEPT ![o] = i]
        /\ UNCHANGED <<fTriggersAwaitingHandling, raised, strayed>>
    BY <1>2 DEF CreateSource, CreateEventTrigger
  <2>3. trigger[o] = None /\ \A j \in Triggers : fTriggeredEventHandlers[j] # o
    BY NoneAssumption DEF CreateSource, TriggerInv, TriggersOwned, Triggers
  <2>4. o \notin raised
    BY <2>3 DEF TriggerInv
  <2>. HIDE DEF i
  <2>. QED  BY <2>1, <2>2, <2>3, <2>4, NoneAssumption DEF TriggerInv, TriggersOwned
<1>. QED  BY <1>1, <1>2

LEMMA DestroyKeeps ==
  ASSUME TriggerInv, NEW o \in Sources, DestroySource(o)
  PROVE  TriggerInv'
<1>. DEFINE i == trigger[o]
<1>1. i \in Triggers /\ fTriggeredEventHandlers[i] = o
  BY DEF DestroySource, TriggerInv, TriggersOwned
<1>2. /\ fTriggersAwaitingHandling' = fTriggersAwaitingHandling \ {i}
      /\ fTriggeredEventHandlers' = [fTriggeredEventHandlers EXCEPT ![i] = None]
  BY DEF DestroySource, DeleteEventTrigger, TriggerInv, TriggersOwned
<1>3. /\ trigger' = [trigger EXCEPT ![o] = None] /\ raised' = raised \ {o}
      /\ UNCHANGED <<fLastUsedTriggerMask, fLastUsedTriggerNum, strayed>>
  BY DEF DestroySource
<1>4. \A j \in Triggers \ {i} : fTriggeredEventHandlers[j] # o
  BY <1>1, NoneAssumption DEF TriggerInv, TriggersOwned
<1>. HIDE DEF i
<1>. QED
  BY <1>1, <1>2, <1>3, <1>4, NoneAssumption DEF TriggerInv, TriggersOwned

LEMMA RaiseKeeps ==
  ASSUME TriggerInv, NEW o \in Sources, TriggerEvent(o)
  PROVE  TriggerInv'
<1>. DEFINE i == trigger[o]
<1>1. i \in Triggers /\ fTriggeredEventHandlers[i] = o
  BY DEF TriggerEvent, TriggerInv, TriggersOwned
<1>2. /\ fTriggersAwaitingHandling' = fTriggersAwaitingHandling \cup {i}
      /\ raised' = raised \cup {o}
      /\ UNCHANGED <<fTriggeredEventHandlers, fLastUsedTriggerMask, fLastUsedTriggerNum,
                     trigger, strayed>>
  BY DEF TriggerEvent
<1>3. \A j \in Triggers \ {i} : fTriggeredEventHandlers[j] # o
  BY <1>1, NoneAssumption DEF TriggerInv, TriggersOwned
<1>4. i \in Triggers /\ trigger[o] # None /\ o # None
  BY <1>1, NoneAssumption DEF TriggerEvent
<1>. HIDE DEF i
<1>5. \A j \in Triggers : j \in fTriggersAwaitingHandling'
                            <=> fTriggeredEventHandlers[j] \in raised'
  BY <1>1, <1>2, <1>3 DEF TriggerInv, TriggersOwned
<1>. QED
  BY <1>1, <1>2, <1>4, <1>5 DEF TriggerInv, TriggersOwned

LEMMA TriggerInit == Init => TriggerInv /\ LoopInv
<1>. SUFFICES ASSUME Init PROVE TriggerInv /\ LoopInv
  OBVIOUS
<1>1. TriggerInv
  BY TriggersAssumption, NoneAssumption DEF Init, TriggerInv, TriggersOwned, Triggers
<1>2. At("select", None) \in Places
  BY DEF At, Places
<1>3. LoopInv
  BY <1>2 DEF Init, LoopInv
<1>. QED  BY <1>1, <1>3

LEMMA TriggerNext == TriggerInv /\ LoopInv /\ [Next]_vars => TriggerInv'
<1>. SUFFICES ASSUME TriggerInv, LoopInv, [Next]_vars PROVE TriggerInv'
  OBVIOUS
<1>1. CASE UNCHANGED triggers
  BY <1>1 DEF triggers, TriggerInv, TriggersOwned
<1>2. ASSUME NEW o \in Sources, CreateSource(o) \/ DestroySource(o) \/ TriggerEvent(o)
      PROVE  TriggerInv'
  BY <1>2, CreateKeeps, DestroyKeeps, RaiseKeeps
<1>3. CASE HandleLastTrigger
  <2>1. fLastUsedTriggerNum \in fTriggersAwaitingHandling
    BY <1>3 DEF HandleLastTrigger, TriggerInv, TriggersOwned
  <2>. QED  BY <1>3, <2>1, CallKeeps DEF HandleLastTrigger
<1>4. CASE HandleTrigger
  <2>1. FirstOf(fTriggersAwaitingHandling) \in fTriggersAwaitingHandling
    BY <1>4, TriggerFound DEF HandleTrigger, TriggerInv
  <2>. QED  BY <1>4, <2>1, CallKeeps DEF HandleTrigger
<1>5. CASE TriggerHandled
  <2>1. Here.who \in Triggers \cup {None}
    BY <1>5, HereIsPlace DEF TriggerHandled, Places
  <2>. QED  BY <1>5, <2>1 DEF TriggerHandled, TriggerInv, TriggersOwned
<1>6. CASE HandleSocket \/ NoSocket \/ NoTrigger \/ StepEnds
  BY <1>1, <1>6 DEF HandleSocket, NoSocket, NoTrigger, StepEnds
<1>7. CASE OpenSocket \/ EnterLoop \/ LeaveLoop
  BY <1>1, <1>7 DEF OpenSocket, EnterLoop, LeaveLoop
<1>8. ASSUME NEW s \in Sockets, CloseSocket(s) \/ GiveBack(s) \/ Arrives(s)
      PROVE  TriggerInv'
  BY <1>1, <1>8 DEF CloseSocket, GiveBack, Arrives
<1>9. CASE UNCHANGED vars
  BY <1>1, <1>9 DEF vars
<1>. QED
  BY <1>2, <1>3, <1>4, <1>5, <1>6, <1>7, <1>8, <1>9 DEF Next, Step

\* No event is lost or given to a source that does not own its trigger, and the
\* shortcut for the trigger used last is always that trigger.
THEOREM TriggersAreOwned == Spec => []TriggersOwned
<1>1. Init => SocketInv /\ TriggerInv /\ LoopInv
  BY SocketInit, TriggerInit
<1>2. SocketInv /\ TriggerInv /\ LoopInv /\ [Next]_vars
          => (SocketInv /\ TriggerInv /\ LoopInv)'
  BY SocketNext, TriggerNext, LoopNext
<1>3. TriggerInv => TriggersOwned
  BY DEF TriggerInv
<1>. QED
  BY <1>1, <1>2, <1>3, PTL DEF Spec
=============================================================================
