------------------------ MODULE StreamReplicatorProofs ------------------------
(***************************************************************************)
(* Proofs about StreamReplicator, for any number of replicas and frames,   *)
(* with a source that may close, as long as no primary leaves that has a   *)
(* frame for others (which is what replicator_stall is about): the         *)
(* counters are exact, every replica gets every frame, and nobody is       *)
(* forgotten by a closure.                                                 *)
(***************************************************************************)
EXTENDS StreamReplicator, SequenceTheorems, FiniteSetTheorems, TLAPS

(* The state of the replicator, between two calls.  Sets stand for the     *)
(* lists and for the numbers.                                              *)

Errors == {"error 0", "error 1", "error 2", "read twice", "no primary"}

State ==
    [produced : Nat, reading : BOOLEAN, listening : BOOLEAN,
     fInputSourceHasClosed : BOOLEAN, fNumActiveReplicas : Nat,
     fNumDeliveriesMadeSoFar : Nat, fFrameIndex : {0, 1},
     fPrimaryReplica : Replicas \cup {None},
     current : Seq(Replicas), next : Seq(Replicas),
     index : [Replicas -> {-1, 0, 1}], awaiting : [Replicas -> BOOLEAN],
     buffer : [Replicas -> Nat], last : [Replicas -> Nat],
     noted : SUBSET (Errors \cup {"again", "skipped"})]

ActiveIn(s)   == {r \in Replicas : s.index[r] # -1}
ServedIn(s)   == {r \in ActiveIn(s) : s.index[r] # s.fFrameIndex}

\* The replicas that have not had the frame and have not asked for it.
YetToAsk(s) == (ActiveIn(s) \ ServedIn(s)) \ (ToSet(s.current) \cup {s.fPrimaryReplica})

\* The lists: each replica at most once, the served ones await the next frame.
ListsRight(s) ==
    /\ IsInjective(s.current) /\ IsInjective(s.next)
    /\ ToSet(s.current) \subseteq ActiveIn(s) \ ServedIn(s)
    /\ ToSet(s.next) \subseteq ServedIn(s)
    /\ s.fPrimaryReplica # None => s.fPrimaryReplica \in ActiveIn(s) \ ServedIn(s)
    /\ s.fPrimaryReplica \notin ToSet(s.current)
    /\ \A r \in Replicas : s.awaiting[r] <=> \/ r \in ToSet(s.current) \cup ToSet(s.next)
                                             \/ r = s.fPrimaryReplica

CountersRight(s) ==
    /\ IsFiniteSet(ActiveIn(s))
    /\ s.fNumActiveReplicas = Cardinality(ActiveIn(s))
    /\ s.fNumDeliveriesMadeSoFar = Cardinality(ServedIn(s))

\* Until a closure: who is served has the frame, the others the one before.
FramesRight(s) ==
    s.fInputSourceHasClosed \/
    /\ s.noted \cap {"again", "skipped"} = {}
    /\ FramePending(s) => s.buffer[s.fPrimaryReplica] = s.produced
    /\ FramePending(s) => s.produced > 0
    /\ \A r \in ActiveIn(s) :
           s.last[r] = IF FramePending(s) /\ s.index[r] = s.fFrameIndex
                       THEN s.produced - 1 ELSE s.produced

\* What holds in the middle of a call, too.
Core(s) ==
    /\ s \in State /\ ListsRight(s) /\ CountersRight(s) /\ FramesRight(s)
    /\ s.noted \cap Errors = {}
    /\ s.reading => s.fPrimaryReplica # None /\ ~s.fInputSourceHasClosed
    /\ s.next # <<>> /\ s.fInputSourceHasClosed => YetToAsk(s) # {}

\* What holds between calls: someone is yet to ask for a frame that is pending.
Quiet(s) ==
    /\ Core(s)
    /\ s.fPrimaryReplica = None => s.current = <<>> /\ s.next = <<>>
    /\ s.current # <<>> => ServedIn(s) = {}
    /\ ~s.fInputSourceHasClosed /\ ~FramePending(s) => ServedIn(s) = {}
    /\ ~s.fInputSourceHasClosed /\ FramePending(s) => YetToAsk(s) # {}

Inv ==
    /\ Quiet(rep)
    /\ kind \in [Replicas -> Kinds \cup {"none"}]
    /\ \A r \in ActiveIn(rep) : Exists(r)
    /\ closing \in {"no", "current", "next"}
    /\ closing # "no" => rep.fInputSourceHasClosed
    /\ closing = "next" => rep.current = <<>>
    /\ closing = "no" /\ rep.fInputSourceHasClosed => rep.fPrimaryReplica = None

-----------------------------------------------------------------------------
(* Lists.                                                                  *)

\* A list is empty when nothing is in it.
LEMMA EmptyList ==
  ASSUME NEW S, NEW list \in Seq(S)
  PROVE  /\ list = <<>> <=> ToSet(list) = {}
         /\ ToSet(list) \subseteq S
<1>1. DOMAIN list = 1..Len(list) /\ Len(list) \in Nat
  OBVIOUS
<1>2. ASSUME list # <<>> PROVE ToSet(list) # {}
  BY <1>1, <1>2, 1 \in DOMAIN list DEF ToSet
<1>3. ASSUME list = <<>> PROVE ToSet(list) = {}
  BY <1>3 DEF ToSet
<1>. QED
  BY <1>2, <1>3 DEF ToSet

\* The first of a list and the rest.
LEMMA HeadAndTail ==
  ASSUME NEW S, NEW list \in Seq(S), list # <<>>, IsInjective(list)
  PROVE  /\ Head(list) \in ToSet(list) /\ Tail(list) \in Seq(S)
         /\ ToSet(Tail(list)) = ToSet(list) \ {Head(list)}
         /\ IsInjective(Tail(list))
<1>. DEFINE rest == Tail(list)  n == Len(list)
<1>1. /\ DOMAIN list = 1..n /\ n \in Nat /\ n > 0 /\ Head(list) = list[1]
      /\ rest \in Seq(S) /\ DOMAIN rest = 1..(n-1)
      /\ \A i \in 1..(n-1) : rest[i] = list[i+1]
  OBVIOUS
<1>. HIDE DEF rest, n
<1>2. Head(list) \in ToSet(list)
  BY <1>1, 1 \in 1..n DEF ToSet
<1>3. \A i \in 1..(n-1) : i + 1 \in 1..n /\ i + 1 # 1
  BY <1>1
<1>4. ToSet(rest) \subseteq ToSet(list) \ {Head(list)}
  <2>. SUFFICES ASSUME NEW i \in 1..(n-1) PROVE rest[i] \in ToSet(list) \ {Head(list)}
    BY <1>1 DEF ToSet
  <2>1. rest[i] = list[i+1] /\ i + 1 \in 1..n /\ i + 1 # 1
    BY <1>1, <1>3
  <2>2. list[i+1] # list[1]
    BY <2>1, <1>1, 1 \in 1..n DEF IsInjective
  <2>. QED  BY <2>1, <2>2, <1>1 DEF ToSet
<1>5. ToSet(list) \ {Head(list)} \subseteq ToSet(rest)
  <2>. SUFFICES ASSUME NEW i \in 1..n, list[i] # list[1] PROVE list[i] \in ToSet(rest)
    BY <1>1 DEF ToSet
  <2>1. i - 1 \in 1..(n-1) /\ (i - 1) + 1 = i
    BY <1>1
  <2>2. rest[i-1] = list[i]
    BY <2>1, <1>1
  <2>. QED  BY <2>1, <2>2, <1>1 DEF ToSet
<1>6. IsInjective(rest)
  <2>. SUFFICES ASSUME NEW i \in 1..(n-1), NEW j \in 1..(n-1), rest[i] = rest[j]
                PROVE  i = j
    BY <1>1 DEF IsInjective
  <2>1. i + 1 = j + 1
    BY <1>1, <1>3 DEF IsInjective
  <2>. QED  BY <2>1
<1>. QED
  BY <1>1, <1>2, <1>4, <1>5, <1>6 DEF rest

\* A replica that is put in front of a list.
LEMMA InFront ==
  ASSUME NEW S, NEW list \in Seq(S), IsInjective(list), NEW r \in S, r \notin ToSet(list)
  PROVE  /\ <<r>> \o list \in Seq(S) /\ <<r>> \o list # <<>>
         /\ ToSet(<<r>> \o list) = ToSet(list) \cup {r}
         /\ IsInjective(<<r>> \o list)
<1>. DEFINE new == <<r>> \o list  n == Len(list)
<1>1. /\ new \in Seq(S) /\ DOMAIN new = 1..(n+1) /\ DOMAIN list = 1..n /\ n \in Nat
      /\ new[1] = r /\ \A i \in 1..n : new[i+1] = list[i]
  OBVIOUS
<1>. HIDE DEF new, n
<1>2. \A i \in 1..(n+1) : i = 1 \/ (i - 1 \in 1..n /\ (i - 1) + 1 = i)
  BY <1>1
<1>3. \A i \in 1..(n+1) : i = 1 \/ (i - 1 \in 1..n /\ new[i] = list[i-1])
  BY <1>1, <1>2
<1>4. 1 \in 1..(n+1) /\ \A i \in 1..n : i + 1 \in 1..(n+1)
  BY <1>1
<1>5. ToSet(new) = ToSet(list) \cup {r}
  <2>1. ToSet(new) \subseteq ToSet(list) \cup {r}
    <3>. SUFFICES ASSUME NEW i \in 1..(n+1) PROVE new[i] \in ToSet(list) \cup {r}
      BY <1>1 DEF ToSet
    <3>. QED  BY <1>1, <1>3 DEF ToSet
  <2>2. \A i \in 1..n : list[i] \in ToSet(new)
    BY <1>1, <1>4 DEF ToSet
  <2>3. r \in ToSet(new)
    BY <1>1, <1>4 DEF ToSet
  <2>4. ToSet(list) \subseteq ToSet(new)
    BY <2>2, <1>1 DEF ToSet
  <2>. QED  BY <2>1, <2>3, <2>4
<1>6. IsInjective(new)
  <2>. SUFFICES ASSUME NEW i \in 1..(n+1), NEW j \in 1..(n+1), new[i] = new[j]
                PROVE  i = j
    BY <1>1 DEF IsInjective
  <2>1. \A k \in 1..n : list[k] # r
    BY <1>1 DEF ToSet
  <2>2. CASE i = 1 \/ j = 1
    BY <1>1, <1>3, <2>1, <2>2
  <2>3. CASE i # 1 /\ j # 1
    <3>1. list[i-1] = list[j-1] /\ i - 1 \in 1..n /\ j - 1 \in 1..n
      BY <1>3, <2>3
    <3>2. i - 1 = j - 1
      BY <3>1, <1>1 DEF IsInjective
    <3>. QED  BY <3>2
  <2>. QED  BY <2>2, <2>3
<1>7. new # <<>>
  BY <1>1, <1>4
<1>. QED
  BY <1>1, <1>5, <1>6, <1>7 DEF new

\* A list without one of its replicas.
LEMMA TakenOut ==
  ASSUME NEW S, NEW list \in Seq(S), IsInjective(list), NEW r
  PROVE  /\ Without(list, r) \in Seq(S)
         /\ ToSet(Without(list, r)) = ToSet(list) \ {r}
         /\ IsInjective(Without(list, r))
<1>. DEFINE n == Len(list)
<1>0. DOMAIN list = 1..n /\ n \in Nat
  OBVIOUS
<1>1. CASE ~Contains(list, r)
  BY <1>0, <1>1 DEF Without, Contains, ToSet
<1>2. CASE Contains(list, r)
  <2>0. PICK p \in 1..n : list[p] = r /\ p = CHOOSE i \in DOMAIN list : list[i] = r
    BY <1>0, <1>2 DEF Contains
  <2>1. p \in 1..n /\ list[p] = r
    BY <2>0
  <2>. DEFINE before == SubSeq(list, 1, p - 1)  after == SubSeq(list, p + 1, n)
              new == before \o after
              from(i) == IF i < p THEN i ELSE i + 1
  <2>2. /\ before \in Seq(S) /\ Len(before) = p - 1
        /\ \A i \in 1..(p-1) : before[i] = list[i]
    BY <1>0, <2>1
  <2>3. /\ after \in Seq(S) /\ Len(after) = n - p
        /\ \A i \in 1..(n-p) : after[i] = list[p+i]
    <3>1. p + 1 \in Int /\ n \in Int /\ \A i \in (p+1)..n : list[i] \in S
      BY <1>0, <2>1
    <3>2. /\ after \in Seq(S) /\ Len(after) = IF p + 1 <= n THEN n - (p+1) + 1 ELSE 0
          /\ \A i \in 1..(n-(p+1)+1) : after[i] = list[(p+1)+i-1]
      BY <3>1, SubSeqProperties
    <3>. HIDE DEF n, after
    <3>3. n - (p+1) + 1 = n - p /\ \A i \in 1..(n-p) : (p+1)+i-1 = p+i
      BY <1>0, <2>1
    <3>4. Len(after) = n - p
      BY <1>0, <2>1, <3>2
    <3>. QED  BY <3>2, <3>3, <3>4
  <2>. HIDE DEF n, before, after
  <2>4. new \in Seq(S) /\ Len(new) = n - 1 /\ DOMAIN new = 1..(n-1)
    BY <1>0, <2>1, <2>2, <2>3, ConcatProperties
  <2>5. Without(list, r) = new
    BY <1>2, <2>0 DEF Without, RemoveAt, before, after, n
  <2>. HIDE DEF new
  <2>6. ASSUME NEW i \in 1..(n-1) PROVE new[i] = list[from(i)]
    <3>1. new[i] = IF i <= p - 1 THEN before[i] ELSE after[i - (p - 1)]
      <4>1. i \in 1..(Len(before) + Len(after))
        BY <1>0, <2>2, <2>3
      <4>2. (before \o after)[i] = IF i <= Len(before) THEN before[i]
                                   ELSE after[i - Len(before)]
        BY <2>2, <2>3, <4>1, ConcatProperties, Zenon
      <4>. QED  BY <2>2, <4>2 DEF new
    <3>2. CASE i < p
      BY <1>0, <2>1, <2>2, <3>1, <3>2
    <3>3. CASE ~(i < p)
      <4>1. i - (p - 1) \in 1..(n-p) /\ p + (i - (p - 1)) = i + 1
        BY <1>0, <2>1, <3>3
      <4>2. after[i - (p - 1)] = list[i + 1]
        BY <2>3, <4>1
      <4>. QED  BY <1>0, <2>1, <3>1, <3>3, <4>2
    <3>. QED  BY <1>0, <2>1, <3>2, <3>3
  <2>7. \A j \in 1..n : j # p => \E i \in 1..(n-1) : from(i) = j
    <3>. TAKE j \in 1..n
    <3>1. CASE j < p
      <4>1. j \in 1..(n-1) /\ from(j) = j
        BY <1>0, <2>1, <3>1
      <4>. QED  BY <4>1
    <3>2. CASE j > p
      BY <1>0, <2>1, <3>2, j - 1 \in 1..(n-1), from(j-1) = j
    <3>. QED  BY <1>0, <2>1, <3>1, <3>2
  <2>8. \A i \in 1..(n-1) : from(i) \in 1..n /\ from(i) # p
    BY <1>0, <2>1
  <2>9. ToSet(new) = ToSet(list) \ {r}
    <3>1. \A i \in DOMAIN new : new[i] \in ToSet(list) \ {r}
      BY <1>0, <2>1, <2>4, <2>6, <2>8 DEF ToSet, IsInjective
    <3>2. \A j \in DOMAIN list : list[j] # r => list[j] \in ToSet(new)
      BY <1>0, <2>1, <2>4, <2>6, <2>7 DEF ToSet
    <3>. QED  BY <3>1, <3>2 DEF ToSet
  <2>10. IsInjective(new)
    <3>. SUFFICES ASSUME NEW i \in 1..(n-1), NEW j \in 1..(n-1), new[i] = new[j]
                  PROVE  i = j
      BY <2>4 DEF IsInjective
    <3>1. from(i) = from(j)
      BY <1>0, <2>6, <2>8 DEF IsInjective
    <3>. QED  BY <1>0, <2>1, <3>1
  <2>. QED  BY <2>4, <2>5, <2>9, <2>10
<1>. QED  BY <1>1, <1>2

\* A list without repetition is as long as the set of its replicas is large.
LEMMA ListSize ==
  ASSUME NEW S, NEW list \in Seq(S), IsInjective(list)
  PROVE  IsFiniteSet(ToSet(list)) /\ Cardinality(ToSet(list)) = Len(list)
<1>1. DOMAIN list = 1..Len(list) /\ Len(list) \in Nat
  OBVIOUS
<1>2. list \in Bijection(1..Len(list), ToSet(list))
  <2>1. list \in [1..Len(list) -> ToSet(list)]
    BY <1>1 DEF ToSet
  <2>. QED  BY <2>1, <1>1 DEF ToSet, IsInjective, Bijection, Injection, Surjection
<1>. QED
  <2>1. ExistsBijection(1..Len(list), ToSet(list))
    BY <1>2 DEF ExistsBijection
  <2>. QED  BY <1>1, <2>1, FS_CountingElements, FS_NatBijection

-----------------------------------------------------------------------------
(* Deliveries.                                                             *)

\* The fields, in groups.
Source(s)  == <<s.produced, s.reading, s.listening, s.fInputSourceHasClosed>>
Queues(s)  == <<s.fPrimaryReplica, s.current, s.next, s.fFrameIndex, s.index>>
Counts(s)  == <<s.fNumActiveReplicas, s.fNumDeliveriesMadeSoFar>>
Frames(s)  == <<s.buffer, s.last>>

\* A note changes nothing else.
LEMMA NotedFields ==
  ASSUME NEW s \in State, NEW what \in {"again", "skipped"}, NEW is \in BOOLEAN
  PROVE  LET t == Noted(s, what, is) IN
         /\ t \in State /\ t.awaiting = s.awaiting
         /\ Source(t) = Source(s) /\ Queues(t) = Queues(s)
         /\ Counts(t) = Counts(s) /\ Frames(t) = Frames(s)
         /\ t.noted \cap Errors = s.noted \cap Errors
         /\ ~is => t.noted = s.noted
<1>1. CASE ~is
  BY <1>1 DEF Noted
<1>2. CASE is
  <2>. DEFINE t == [s EXCEPT !.noted = @ \cup {what}]
  <2>1. t \in State /\ t.awaiting = s.awaiting /\ t.noted = s.noted \cup {what}
    <3>1. s.noted \cup {what} \in SUBSET (Errors \cup {"again", "skipped"})
      BY DEF State
    <3>. QED  BY <3>1 DEF State
  <2>2. Source(t) = Source(s) /\ Queues(t) = Queues(s) /\ Counts(t) = Counts(s)
        /\ Frames(t) = Frames(s)
    BY DEF State, Source, Queues, Counts, Frames
  <2>3. t.noted \cap Errors = s.noted \cap Errors
    BY <2>1 DEF Errors
  <2>. QED  BY <1>2, <2>1, <2>2, <2>3 DEF Noted
<1>. QED
  BY <1>1, <1>2

\* What FramedSource::afterGetting changes, and when it is worth a note.
LEMMA AfterGettingFields ==
  ASSUME NEW s \in State, NEW R \in SUBSET Replicas
  PROVE  LET t == AfterGetting(s, R) IN
         /\ t \in State
         /\ Source(t) = Source(s) /\ Queues(t) = Queues(s) /\ Counts(t) = Counts(s)
         /\ t.buffer = s.buffer
         /\ t.awaiting = [r \in Replicas |-> s.awaiting[r] /\ r \notin R]
         /\ t.last = [r \in Replicas |-> IF r \in R THEN s.buffer[r] ELSE s.last[r]]
         /\ t.noted \cap Errors = s.noted \cap Errors
         /\ (\A r \in R : s.buffer[r] = s.last[r] + 1) => t.noted = s.noted
<1>. DEFINE t0 == [s EXCEPT !.awaiting = [r \in Replicas |-> @[r] /\ r \notin R],
                            !.last = [r \in Replicas |-> IF r \in R THEN s.buffer[r] ELSE @[r]]]
            again   == \E r \in R : s.buffer[r] <= s.last[r]
            skipped == \E r \in R : s.buffer[r] > s.last[r] + 1
            t1 == Noted(t0, "again", again)
            t2 == Noted(t1, "skipped", skipped)
<1>1. /\ t0 \in State
      /\ Source(t0) = Source(s) /\ Queues(t0) = Queues(s) /\ Counts(t0) = Counts(s)
      /\ t0.buffer = s.buffer /\ t0.noted = s.noted
      /\ t0.awaiting = [r \in Replicas |-> s.awaiting[r] /\ r \notin R]
      /\ t0.last = [r \in Replicas |-> IF r \in R THEN s.buffer[r] ELSE s.last[r]]
  BY DEF State, Source, Queues, Counts
<1>2. t2 = AfterGetting(s, R)
  BY DEF AfterGetting
<1>3. (\A r \in R : s.buffer[r] = s.last[r] + 1) => ~again /\ ~skipped
  BY DEF State
<1>. HIDE DEF t0, again, skipped
<1>4. /\ t1 \in State /\ t1.awaiting = t0.awaiting
      /\ Source(t1) = Source(t0) /\ Queues(t1) = Queues(t0)
      /\ Counts(t1) = Counts(t0) /\ Frames(t1) = Frames(t0)
      /\ t1.noted \cap Errors = t0.noted \cap Errors /\ (~again => t1.noted = t0.noted)
  <2>1. again \in BOOLEAN
    BY DEF again
  <2>. QED  BY <1>1, <2>1, NotedFields
<1>. HIDE DEF t1
<1>5. /\ t2 \in State /\ t2.awaiting = t1.awaiting
      /\ Source(t2) = Source(t1) /\ Queues(t2) = Queues(t1)
      /\ Counts(t2) = Counts(t1) /\ Frames(t2) = Frames(t1)
      /\ t2.noted \cap Errors = t1.noted \cap Errors /\ (~skipped => t2.noted = t1.noted)
  <2>1. skipped \in BOOLEAN
    BY DEF skipped
  <2>. QED  BY <1>4, <2>1, NotedFields
<1>. HIDE DEF t2
<1>6. Frames(t2) = Frames(t0)
  BY <1>4, <1>5
<1>7. t2.buffer = t0.buffer /\ t2.last = t0.last
  BY <1>6 DEF Frames
<1>. QED
  BY <1>1, <1>2, <1>3, <1>4, <1>5, <1>7

\* The sets of replicas are finite, and disjoint ones add up.
LEMMA ReplicaSets ==
  ASSUME NEW s, Core(s)
  PROVE  /\ IsFiniteSet(ActiveIn(s)) /\ IsFiniteSet(ServedIn(s))
         /\ ServedIn(s) \subseteq ActiveIn(s) /\ ActiveIn(s) \subseteq Replicas
         /\ s.fNumActiveReplicas \in Nat /\ s.fNumDeliveriesMadeSoFar \in Nat
         /\ \A R \in SUBSET Replicas : ToSet(s.current) = R => IsFiniteSet(R)
<1>1. ServedIn(s) \in SUBSET ActiveIn(s) /\ IsFiniteSet(ActiveIn(s))
  BY DEF Core, CountersRight, ServedIn
<1>2. IsFiniteSet(ServedIn(s))
  BY <1>1, FS_Subset
<1>. QED
  BY <1>1, <1>2, ListSize DEF Core, State, ActiveIn, ListsRight

\* A proper subset has fewer elements.
LEMMA FewerThan ==
  ASSUME NEW S, IsFiniteSet(S), NEW T \in SUBSET S
  PROVE  /\ IsFiniteSet(T) /\ Cardinality(T) \in Nat /\ Cardinality(S) \in Nat
         /\ Cardinality(T) <= Cardinality(S)
         /\ Cardinality(T) = Cardinality(S) <=> T = S
BY FS_Subset, FS_CardinalityType

\* All but the primary are served exactly if the numbers say so.
LEMMA AllServed ==
  ASSUME NEW S, IsFiniteSet(S), NEW p \in S, NEW T \in SUBSET (S \ {p})
  PROVE  /\ Cardinality(T) = Cardinality(S) - 1 <=> T = S \ {p}
         /\ Cardinality(T) < Cardinality(S)
<1>1. /\ IsFiniteSet(S \ {p}) /\ Cardinality(S \ {p}) = Cardinality(S) - 1
      /\ Cardinality(S) \in Nat
  BY FS_RemoveElement, FS_CardinalityType
<1>2. /\ Cardinality(T) \in Nat /\ Cardinality(T) <= Cardinality(S \ {p})
      /\ Cardinality(T) = Cardinality(S \ {p}) <=> T = S \ {p}
  BY <1>1, FewerThan
<1>. QED
  BY <1>1, <1>2

\* The loop of deliverReceivedFrame gives the frame to all who have asked for it.
LEMMA Copied ==
  ASSUME NEW s, Core(s), FramePending(s)
  PROVE  LET t == CopyToWaiting(s) IN
         /\ Core(t) /\ FramePending(t)
         /\ t.current = <<>> /\ t.next = s.next
         /\ t.fPrimaryReplica = s.fPrimaryReplica /\ Source(t) = Source(s)
         /\ t.fFrameIndex = s.fFrameIndex
         /\ ActiveIn(t) = ActiveIn(s) /\ ServedIn(t) = ServedIn(s) \cup ToSet(s.current)
<1>. DEFINE p == s.fPrimaryReplica  C == ToSet(s.current)
            t0 == [s EXCEPT !.current = <<>>,
                            !.index = Toggled(@, C),
                            !.buffer = [r \in Replicas |-> IF r \in C THEN @[p] ELSE @[r]],
                            !.fNumDeliveriesMadeSoFar = @ + Len(s.current)]
            t == AfterGetting(t0, C)
<1>1. CASE s.current = <<>>
  <2>1. CopyToWaiting(s) = s /\ C = {}
    BY <1>1 DEF CopyToWaiting, ToSet
  <2>. QED  BY <2>1, <1>1
<1>2. CASE s.current # <<>>
  <2>1. s \in State /\ p \in Replicas /\ p # None /\ ~s.reading
    BY DEF Core, State, FramePending
  <2>2. /\ C \in SUBSET Replicas /\ IsFiniteSet(C) /\ Cardinality(C) = Len(s.current)
        /\ C \subseteq ActiveIn(s) \ ServedIn(s) /\ p \notin C /\ p \in ActiveIn(s) \ ServedIn(s)
    BY <2>1, ListSize, EmptyList DEF Core, State, ListsRight
  <2>. HIDE DEF C
  <2>3. /\ t0.current = <<>> /\ t0.next = s.next /\ t0.fPrimaryReplica = p
        /\ t0.fFrameIndex = s.fFrameIndex /\ Source(t0) = Source(s)
        /\ t0.index = Toggled(s.index, C) /\ t0.awaiting = s.awaiting
        /\ t0.buffer = [r \in Replicas |-> IF r \in C THEN s.buffer[p] ELSE s.buffer[r]]
        /\ t0.last = s.last /\ t0.noted = s.noted
        /\ t0.fNumActiveReplicas = s.fNumActiveReplicas
        /\ t0.fNumDeliveriesMadeSoFar = s.fNumDeliveriesMadeSoFar + Len(s.current)
    BY <2>1 DEF State, Source
  <2>4. /\ \A r \in C : s.index[r] = s.fFrameIndex
        /\ s.fFrameIndex \in {0, 1}
        /\ \A r \in Replicas : Toggled(s.index, C)[r] =
              IF r \in C THEN 1 - s.fFrameIndex ELSE s.index[r]
        /\ Toggled(s.index, C) \in [Replicas -> {-1, 0, 1}]
    BY <2>1, <2>2 DEF ActiveIn, ServedIn, State, Toggled
  <2>5. t0 \in State
    <3>1. s.fNumDeliveriesMadeSoFar + Len(s.current) \in Nat /\ <<>> \in Seq(Replicas)
      BY <2>1 DEF State
    <3>2. [r \in Replicas |-> IF r \in C THEN s.buffer[p] ELSE s.buffer[r]] \in [Replicas -> Nat]
      BY <2>1 DEF State
    <3>. QED  BY <2>1, <2>4, <3>1, <3>2 DEF State
  <2>6. ActiveIn(t0) = ActiveIn(s) /\ ServedIn(t0) = ServedIn(s) \cup C
    BY <2>2, <2>3, <2>4 DEF ActiveIn, ServedIn
  <2>7. t0.fNumDeliveriesMadeSoFar = Cardinality(ServedIn(t0))
    <3>1. ServedIn(s) \cap C = {} /\ IsFiniteSet(ServedIn(s))
      BY <2>2, ReplicaSets
    <3>2. Cardinality(ServedIn(s) \cup C) = Cardinality(ServedIn(s)) + Cardinality(C)
      <4>1. Cardinality(ServedIn(s) \cup C)
              = Cardinality(ServedIn(s)) + Cardinality(C) - Cardinality(ServedIn(s) \cap C)
        BY <2>2, <3>1, FS_Union
      <4>2. Cardinality(ServedIn(s)) \in Nat /\ Cardinality(C) \in Nat
            /\ Cardinality(ServedIn(s) \cap C) = 0
        BY <2>2, <3>1, FS_EmptySet, FS_CardinalityType
      <4>. QED  BY <4>1, <4>2
    <3>. QED  BY <3>2, <2>2, <2>3, <2>6 DEF Core, CountersRight
  <2>8. ~(t0.fNumDeliveriesMadeSoFar >= t0.fNumActiveReplicas)
    <3>1. ServedIn(t0) \in SUBSET (ActiveIn(s) \ {p}) /\ p \in ActiveIn(s)
      BY <2>2, <2>6 DEF ServedIn
    <3>2. Cardinality(ServedIn(t0)) < Cardinality(ActiveIn(s))
      BY <3>1, ReplicaSets, AllServed
    <3>3. Cardinality(ServedIn(t0)) \in Nat /\ Cardinality(ActiveIn(s)) \in Nat
      BY <2>5, <2>7, ReplicaSets, FS_CardinalityType DEF State
    <3>. QED  BY <3>2, <3>3, <2>3, <2>7 DEF Core, CountersRight
  <2>. HIDE DEF p, t0
  <2>9. CopyToWaiting(s) = t
    BY <1>2, <2>8 DEF CopyToWaiting, Noted, C, p, t0
  <2>10. /\ t \in State
         /\ Source(t) = Source(t0) /\ Queues(t) = Queues(t0) /\ Counts(t) = Counts(t0)
         /\ t.buffer = t0.buffer
         /\ t.awaiting = [r \in Replicas |-> t0.awaiting[r] /\ r \notin C]
         /\ t.last = [r \in Replicas |-> IF r \in C THEN t0.buffer[r] ELSE t0.last[r]]
         /\ t.noted \cap Errors = t0.noted \cap Errors
         /\ (\A r \in C : t0.buffer[r] = t0.last[r] + 1) => t.noted = t0.noted
    BY <2>2, <2>5, AfterGettingFields
  <2>. HIDE DEF t
  <2>11. /\ t.current = <<>> /\ t.next = s.next /\ t.fPrimaryReplica = p
         /\ t.fFrameIndex = s.fFrameIndex /\ Source(t) = Source(s) /\ t.index = t0.index
         /\ t.reading = s.reading /\ t.fInputSourceHasClosed = s.fInputSourceHasClosed
         /\ t.produced = s.produced /\ FramePending(t)
         /\ t.fNumActiveReplicas = t0.fNumActiveReplicas
         /\ t.fNumDeliveriesMadeSoFar = t0.fNumDeliveriesMadeSoFar
    BY <2>1, <2>3, <2>10 DEF Source, Queues, Counts, FramePending
  <2>12. ActiveIn(t) = ActiveIn(s) /\ ServedIn(t) = ServedIn(s) \cup C
    BY <2>3, <2>6, <2>11 DEF ActiveIn, ServedIn
  <2>13. ListsRight(t)
    <3>1. IsInjective(t.current) /\ ToSet(t.current) = {}
      BY <2>11 DEF IsInjective, ToSet
    <3>2. \A r \in Replicas : t.awaiting[r] <=> s.awaiting[r] /\ r \notin C
      BY <2>3, <2>10
    <3>3. ToSet(s.next) \cap C = {}
      BY <2>2 DEF Core, ListsRight
    <3>. QED  BY <2>2, <2>11, <2>12, <3>1, <3>2, <3>3 DEF Core, ListsRight, C, p
  <2>14. CountersRight(t)
    BY <2>3, <2>6, <2>7, <2>11, <2>12 DEF Core, CountersRight
  <2>15. FramesRight(t)
    <3>. SUFFICES ASSUME ~s.fInputSourceHasClosed
                  PROVE  FramesRight(t)
      BY <2>11 DEF FramesRight
    <3>1. /\ s.buffer[p] = s.produced /\ s.produced \in Nat /\ s.produced > 0
          /\ \A r \in ActiveIn(s) : s.last[r] = IF s.index[r] = s.fFrameIndex
                                                THEN s.produced - 1 ELSE s.produced
      BY <2>1 DEF Core, FramesRight, FramePending, State, p
    <3>2. \A r \in C : t0.buffer[r] = t0.last[r] + 1
      BY <2>2, <2>3, <2>4, <3>1
    <3>3. t.noted \cap {"again", "skipped"} = {}
      BY <3>2, <2>3, <2>10 DEF Core, FramesRight
    <3>4. \A r \in ActiveIn(t) : t.last[r] = IF t.index[r] = t.fFrameIndex
                                             THEN t.produced - 1 ELSE t.produced
      <4>. SUFFICES ASSUME NEW r \in ActiveIn(s)
                    PROVE  t.last[r] = IF t.index[r] = t.fFrameIndex
                                       THEN t.produced - 1 ELSE t.produced
        BY <2>12
      <4>1. CASE r \in C
        BY <4>1, <2>2, <2>3, <2>4, <2>10, <2>11, <3>1
      <4>2. CASE r \notin C
        BY <4>2, <2>2, <2>3, <2>4, <2>10, <2>11, <3>1 DEF ActiveIn
      <4>. QED  BY <4>1, <4>2
    <3>5. t.buffer[p] = s.produced
      BY <2>1, <2>2, <2>3, <2>10, <3>1
    <3>. QED  BY <3>1, <3>3, <3>4, <3>5, <2>11 DEF FramesRight
  <2>16. YetToAsk(t) = YetToAsk(s)
    BY <2>11, <2>12 DEF YetToAsk, C, p, ToSet
  <2>17. t.noted \cap Errors = {}
    BY <2>3, <2>10 DEF Core
  <2>18. Core(t)
    BY <2>1, <2>10, <2>11, <2>13, <2>14, <2>15, <2>16, <2>17 DEF Core
  <2>. QED  BY <2>9, <2>11, <2>12, <2>18 DEF C, p
<1>. QED
  BY <1>1, <1>2

\* CompleteDelivery before the last call, of afterGetting.
HandedOn(s) ==
    LET p == s.fPrimaryReplica
        t == [s EXCEPT !.fPrimaryReplica = None, !.index[p] = 1 - @,
                       !.fFrameIndex = 1 - @, !.fNumDeliveriesMadeSoFar = 0]
    IN  IF t.next = <<>> THEN {t}
        ELSE Read([t EXCEPT !.fPrimaryReplica = Head(t.next), !.next = Tail(@)])

\* The primary gives up its place to the first that awaits the next frame, for
\* which the source is asked.
LEMMA NextPrimary ==
  ASSUME NEW s, Core(s), FramePending(s), s.current = <<>>, NEW u \in HandedOn(s)
  PROVE  /\ u \in State
         /\ u.awaiting = s.awaiting /\ u.last = s.last /\ u.noted = s.noted
         /\ u.buffer[s.fPrimaryReplica] = s.buffer[s.fPrimaryReplica]
         /\ u.fFrameIndex = 1 - s.fFrameIndex
         /\ u.index = [s.index EXCEPT ![s.fPrimaryReplica] = 1 - @]
         /\ u.fNumDeliveriesMadeSoFar = 0 /\ u.fNumActiveReplicas = s.fNumActiveReplicas
         /\ u.fInputSourceHasClosed = s.fInputSourceHasClosed
         /\ \/ /\ s.next = <<>> /\ u.next = <<>> /\ u.fPrimaryReplica = None
               /\ ~u.reading /\ u.produced = s.produced
            \/ /\ s.next # <<>> /\ u.fPrimaryReplica = Head(s.next) /\ u.next = Tail(s.next)
               /\ \/ u.reading /\ u.produced = s.produced
                  \/ /\ ~u.reading /\ u.produced = s.produced + 1
                     /\ u.buffer[u.fPrimaryReplica] = u.produced
<1>. DEFINE p == s.fPrimaryReplica
            t == [s EXCEPT !.fPrimaryReplica = None, !.index[p] = 1 - @,
                           !.fFrameIndex = 1 - @, !.fNumDeliveriesMadeSoFar = 0]
<1>1. /\ s \in State /\ p \in Replicas /\ p # None /\ ~s.reading
      /\ s.index[p] \in {0, 1} /\ s.fFrameIndex \in {0, 1} /\ s.produced \in Nat
  BY DEF Core, State, FramePending, ListsRight, ActiveIn
<1>2. /\ t \in State
      /\ t.awaiting = s.awaiting /\ t.last = s.last /\ t.noted = s.noted
      /\ t.buffer = s.buffer /\ t.fFrameIndex = 1 - s.fFrameIndex
      /\ t.index = [s.index EXCEPT ![p] = 1 - @]
      /\ t.fNumDeliveriesMadeSoFar = 0 /\ t.fNumActiveReplicas = s.fNumActiveReplicas
      /\ t.next = s.next /\ Source(t) = Source(s) /\ t.fPrimaryReplica = None
  <2>1. 1 - s.fFrameIndex \in {0, 1} /\ [s.index EXCEPT ![p] = 1 - @] \in [Replicas -> {-1, 0, 1}]
    BY <1>1 DEF State
  <2>. QED  BY <1>1, <2>1 DEF State, Source
<1>0. u \in IF t.next = <<>> THEN {t}
             ELSE Read([t EXCEPT !.fPrimaryReplica = Head(t.next), !.next = Tail(@)])
  BY DEF HandedOn
<1>. HIDE DEF p, t
<1>3. /\ t.produced = s.produced /\ ~t.reading
      /\ t.fInputSourceHasClosed = s.fInputSourceHasClosed
  BY <1>1, <1>2 DEF Source
<1>4. CASE s.next = <<>>
  BY <1>0, <1>2, <1>3, <1>4 DEF p
<1>5. CASE s.next # <<>>
  <2>. DEFINE n == Head(s.next)
              a == [t EXCEPT !.fPrimaryReplica = n, !.next = Tail(@)]
              b == [a EXCEPT !.listening = TRUE]
              c == [b EXCEPT !.reading = TRUE]
              d == [b EXCEPT !.reading = FALSE, !.produced = @ + 1,
                             !.buffer[b.fPrimaryReplica] = b.produced + 1]
  <2>1. /\ n \in Replicas /\ Tail(s.next) \in Seq(Replicas) /\ n # p
    <3>1. n \in ToSet(s.next) /\ Tail(s.next) \in Seq(Replicas) /\ ToSet(s.next) \subseteq Replicas
      BY <1>1, <1>5, HeadAndTail, EmptyList DEF Core, State, ListsRight
    <3>2. p \notin ToSet(s.next)
      BY <1>1 DEF Core, ListsRight, p
    <3>. QED  BY <3>1, <3>2
  <2>. HIDE DEF n
  <2>2. /\ a \in State
        /\ a.awaiting = s.awaiting /\ a.last = s.last /\ a.noted = s.noted
        /\ a.buffer = s.buffer /\ a.fFrameIndex = 1 - s.fFrameIndex /\ a.index = t.index
        /\ a.fNumDeliveriesMadeSoFar = 0 /\ a.fNumActiveReplicas = s.fNumActiveReplicas
        /\ a.next = Tail(s.next) /\ Source(a) = Source(t) /\ a.fPrimaryReplica = n
    BY <1>2, <2>1 DEF State, Source
  <2>. HIDE DEF a
  <2>3. ~a.reading /\ a.produced = s.produced
        /\ a.fInputSourceHasClosed = s.fInputSourceHasClosed
    BY <1>3, <2>2 DEF Source
  <2>4. /\ b \in State
        /\ b.awaiting = s.awaiting /\ b.last = s.last /\ b.noted = s.noted
        /\ b.buffer = s.buffer /\ b.fFrameIndex = 1 - s.fFrameIndex /\ b.index = t.index
        /\ b.fNumDeliveriesMadeSoFar = 0 /\ b.fNumActiveReplicas = s.fNumActiveReplicas
        /\ b.next = Tail(s.next) /\ b.fPrimaryReplica = n /\ b.produced = s.produced
        /\ b.fInputSourceHasClosed = s.fInputSourceHasClosed
    BY <2>2, <2>3 DEF State
  <2>5. u \in {c, d}
    <3>1. Noted(a, "read twice", a.reading) = a
      BY <2>3 DEF Noted
    <3>2. u \in Read(a)
      BY <1>0, <1>2, <1>5 DEF a, n
    <3>3. Read(a) \subseteq {c, d}
      BY <3>1 DEF Read
    <3>. QED  BY <3>2, <3>3
  <2>. HIDE DEF b
  <2>6. CASE u = c
    BY <2>6, <2>4, <1>1, <1>2, <1>5 DEF State, n, p
  <2>7. CASE u = d
    <3>0. b.buffer \in [Replicas -> Nat] /\ b.produced + 1 \in Nat
      BY <2>4, <1>1 DEF State
    <3>1. [b.buffer EXCEPT ![n] = b.produced + 1] \in [Replicas -> Nat]
      BY <3>0
    <3>2. /\ d \in State
          /\ d.awaiting = s.awaiting /\ d.last = s.last /\ d.noted = s.noted
          /\ d.buffer = [s.buffer EXCEPT ![n] = s.produced + 1]
          /\ d.fFrameIndex = 1 - s.fFrameIndex /\ d.index = t.index
          /\ d.fNumDeliveriesMadeSoFar = 0 /\ d.fNumActiveReplicas = s.fNumActiveReplicas
          /\ d.next = Tail(s.next) /\ d.fPrimaryReplica = n /\ d.produced = s.produced + 1
          /\ d.fInputSourceHasClosed = s.fInputSourceHasClosed /\ ~d.reading
      <4>1. d = [b EXCEPT !.reading = FALSE, !.produced = b.produced + 1,
                          !.buffer = [b.buffer EXCEPT ![n] = b.produced + 1]]
        BY <2>4
      <4>. HIDE DEF d
      <4>2. d \in State
        BY <4>1, <3>0, <3>1, <2>4 DEF State
      <4>. QED  BY <4>1, <4>2, <2>4, <1>1 DEF State
    <3>3. d.buffer[p] = s.buffer[p] /\ d.buffer[n] = s.produced + 1
      BY <3>2, <2>1, <1>1 DEF State
    <3>. HIDE DEF d
    <3>. QED  BY <2>7, <3>2, <3>3, <1>2, <1>5 DEF n, p
  <2>. QED  BY <2>5, <2>6, <2>7
<1>. QED
  BY <1>4, <1>5

\* The delivery to the primary ends the frame: everyone has had it, and those who
\* wait for the next one wait for the current one from now on.
LEMMA Completed ==
  ASSUME NEW s, Core(s), FramePending(s), s.current = <<>>,
         ServedIn(s) = ActiveIn(s) \ {s.fPrimaryReplica},
         NEW w \in CompleteDelivery(s)
  PROVE  /\ Quiet(w) /\ ActiveIn(w) = ActiveIn(s)
         /\ w.fInputSourceHasClosed = s.fInputSourceHasClosed
         /\ w.fInputSourceHasClosed => w.fPrimaryReplica = None /\ w.current = <<>>
<1>. DEFINE p == s.fPrimaryReplica
            n == Head(s.next)  X == ToSet(s.next)
<1>1. PICK u \in HandedOn(s) : w = AfterGetting([u EXCEPT !.current = u.next, !.next = <<>>], {p})
  BY DEF CompleteDelivery, HandedOn
<1>. DEFINE v == [u EXCEPT !.current = u.next, !.next = <<>>]
<1>2. /\ s \in State /\ p \in Replicas /\ p # None /\ ~s.reading
      /\ s.index[p] = s.fFrameIndex /\ s.fFrameIndex \in {0, 1} /\ s.produced \in Nat
      /\ p \in ActiveIn(s) \ ServedIn(s)
  BY DEF Core, State, FramePending, ListsRight, ActiveIn, ServedIn
<1>3. /\ u \in State
      /\ u.awaiting = s.awaiting /\ u.last = s.last /\ u.noted = s.noted
      /\ u.buffer[p] = s.buffer[p]
      /\ u.fFrameIndex = 1 - s.fFrameIndex
      /\ u.index = [s.index EXCEPT ![p] = 1 - @]
      /\ u.fNumDeliveriesMadeSoFar = 0 /\ u.fNumActiveReplicas = s.fNumActiveReplicas
      /\ u.fInputSourceHasClosed = s.fInputSourceHasClosed
      /\ \/ /\ s.next = <<>> /\ u.next = <<>> /\ u.fPrimaryReplica = None
            /\ ~u.reading /\ u.produced = s.produced
         \/ /\ s.next # <<>> /\ u.fPrimaryReplica = n /\ u.next = Tail(s.next)
            /\ \/ u.reading /\ u.produced = s.produced
               \/ /\ ~u.reading /\ u.produced = s.produced + 1
                  /\ u.buffer[u.fPrimaryReplica] = u.produced
  BY NextPrimary
<1>. HIDE DEF p
<1>4. /\ X \subseteq ServedIn(s) /\ s.next \in Seq(Replicas) /\ p \notin X
      /\ s.next # <<>> => /\ n \in X /\ n # None /\ ToSet(Tail(s.next)) = X \ {n}
                          /\ IsInjective(Tail(s.next)) /\ Tail(s.next) \in Seq(Replicas)
  <2>1. s.next \in Seq(Replicas) /\ IsInjective(s.next) /\ X \subseteq ServedIn(s)
    BY <1>2 DEF Core, State, ListsRight
  <2>2. X \subseteq Replicas
    BY <2>1, EmptyList
  <2>. HIDE DEF X, n
  <2>3. s.next # <<>> => /\ n \in X /\ ToSet(Tail(s.next)) = X \ {n}
                         /\ IsInjective(Tail(s.next)) /\ Tail(s.next) \in Seq(Replicas)
    BY <2>1, HeadAndTail DEF X, n
  <2>. QED  BY <2>1, <2>2, <2>3, <1>2, NoneAssumption DEF X
<1>5. s.next = <<>> <=> X = {}
  BY <1>4, EmptyList
<1>. HIDE DEF X, n
<1>. HIDE DEF v
<1>6. /\ v \in State
      /\ v.current = u.next /\ v.next = <<>> /\ Source(v) = Source(u)
      /\ v.fPrimaryReplica = u.fPrimaryReplica /\ v.fFrameIndex = u.fFrameIndex
      /\ v.index = u.index /\ Counts(v) = Counts(u)
      /\ v.awaiting = u.awaiting /\ v.last = u.last /\ v.noted = u.noted /\ v.buffer = u.buffer
  <2>1. u \in State
    BY <1>3
  <2>2. u.next \in Seq(Replicas) /\ <<>> \in Seq(Replicas)
    BY <2>1 DEF State
  <2>3. v \in State /\ v.current = u.next /\ v.next = <<>>
    BY <2>1, <2>2 DEF State, v
  <2>4. /\ Source(v) = Source(u) /\ Counts(v) = Counts(u)
        /\ v.fPrimaryReplica = u.fPrimaryReplica /\ v.fFrameIndex = u.fFrameIndex
        /\ v.index = u.index /\ v.awaiting = u.awaiting /\ v.last = u.last
        /\ v.noted = u.noted /\ v.buffer = u.buffer
    BY <2>1 DEF State, Source, Counts, v
  <2>. QED  BY <2>3, <2>4
<1>7. /\ w \in State
      /\ Source(w) = Source(v) /\ Queues(w) = Queues(v) /\ Counts(w) = Counts(v)
      /\ w.buffer = v.buffer
      /\ w.awaiting = [r \in Replicas |-> v.awaiting[r] /\ r \notin {p}]
      /\ w.last = [r \in Replicas |-> IF r \in {p} THEN v.buffer[r] ELSE v.last[r]]
      /\ w.noted \cap Errors = v.noted \cap Errors
      /\ (\A r \in {p} : v.buffer[r] = v.last[r] + 1) => w.noted = v.noted
  <2>1. {p} \in SUBSET Replicas
    BY <1>2
  <2>. QED  BY <1>1, <1>6, <2>1, AfterGettingFields DEF v
<1>8. /\ w.current = u.next /\ w.next = <<>> /\ w.fPrimaryReplica = u.fPrimaryReplica
      /\ w.fFrameIndex = 1 - s.fFrameIndex /\ w.index = [s.index EXCEPT ![p] = 1 - @]
      /\ w.reading = u.reading /\ w.produced = u.produced
      /\ w.fInputSourceHasClosed = s.fInputSourceHasClosed
      /\ w.fNumActiveReplicas = s.fNumActiveReplicas /\ w.fNumDeliveriesMadeSoFar = 0
      /\ w.buffer = u.buffer
      /\ \A r \in Replicas : w.awaiting[r] <=> s.awaiting[r] /\ r # p
      /\ \A r \in Replicas : w.last[r] = IF r = p THEN s.buffer[p] ELSE s.last[r]
  <2>1. /\ w.current = v.current /\ w.next = v.next /\ w.fPrimaryReplica = v.fPrimaryReplica
        /\ w.fFrameIndex = v.fFrameIndex /\ w.index = v.index
        /\ w.reading = v.reading /\ w.produced = v.produced
        /\ w.fInputSourceHasClosed = v.fInputSourceHasClosed
        /\ w.fNumActiveReplicas = v.fNumActiveReplicas
        /\ w.fNumDeliveriesMadeSoFar = v.fNumDeliveriesMadeSoFar
    BY <1>7 DEF Source, Queues, Counts
  <2>2. /\ v.reading = u.reading /\ v.produced = u.produced
        /\ v.fInputSourceHasClosed = u.fInputSourceHasClosed
        /\ v.fNumActiveReplicas = u.fNumActiveReplicas
        /\ v.fNumDeliveriesMadeSoFar = u.fNumDeliveriesMadeSoFar
    BY <1>6 DEF Source, Counts
  <2>3. /\ \A r \in Replicas : w.awaiting[r] <=> s.awaiting[r] /\ r # p
        /\ \A r \in Replicas : w.last[r] = IF r = p THEN s.buffer[p] ELSE s.last[r]
    <3>1. v.awaiting = s.awaiting /\ v.last = s.last /\ v.buffer[p] = s.buffer[p]
      BY <1>3, <1>6
    <3>2. /\ w.awaiting = [r \in Replicas |-> v.awaiting[r] /\ r \notin {p}]
          /\ w.last = [r \in Replicas |-> IF r \in {p} THEN v.buffer[r] ELSE v.last[r]]
      BY <1>7
    <3>. QED  BY <3>1, <3>2
  <2>. QED  BY <1>3, <1>6, <1>7, <2>1, <2>2, <2>3
<1>9. ActiveIn(w) = ActiveIn(s) /\ ServedIn(w) = {}
  <2>1. \A r \in Replicas : w.index[r] = IF r = p THEN 1 - s.fFrameIndex ELSE s.index[r]
    BY <1>2, <1>8 DEF State
  <2>2. \A r \in ActiveIn(s) : r # p => s.index[r] = 1 - s.fFrameIndex
    <3>. TAKE r \in ActiveIn(s)
    <3>. HAVE r # p
    <3>1. r \in ServedIn(s)
      BY DEF p
    <3>. QED  BY <3>1, <1>2 DEF ServedIn, ActiveIn, State
  <2>. QED  BY <1>2, <1>8, <2>1, <2>2 DEF ActiveIn, ServedIn
<1>10. /\ w.current \in Seq(Replicas) /\ IsInjective(w.current)
       /\ ToSet(w.current) = X \ {w.fPrimaryReplica}
       /\ w.fPrimaryReplica # None => w.fPrimaryReplica \in X
       /\ w.fPrimaryReplica = None => X = {} /\ w.current = <<>>
  <2>1. CASE s.next = <<>>
    <3>1. w.current = <<>> /\ w.fPrimaryReplica = None
      BY <2>1, <1>3, <1>8
    <3>2. w.current \in Seq(Replicas) /\ IsInjective(w.current) /\ ToSet(w.current) = {}
      BY <3>1 DEF IsInjective, ToSet
    <3>. QED  BY <2>1, <3>1, <3>2, <1>5
  <2>2. CASE s.next # <<>>
    <3>1. w.current = Tail(s.next) /\ w.fPrimaryReplica = n
      BY <2>2, <1>3, <1>8
    <3>. QED  BY <2>2, <3>1, <1>4
  <2>. QED  BY <2>1, <2>2
<1>11. ListsRight(w)
  <2>1. IsInjective(w.next) /\ ToSet(w.next) = {}
    BY <1>8 DEF IsInjective, ToSet
  <2>2. \A r \in Replicas : w.awaiting[r] <=> r \in X
    <3>1. \A r \in Replicas : s.awaiting[r] <=> r \in ToSet(s.current) \cup X \/ r = p
      BY DEF Core, ListsRight, X, p
    <3>2. ToSet(s.current) = {}
      BY DEF ToSet
    <3>. QED  BY <3>1, <3>2, <1>4, <1>8
  <2>3. X \subseteq ActiveIn(w) \ ServedIn(w)
    BY <1>4, <1>9 DEF ServedIn
  <2>. QED  BY <2>1, <2>2, <2>3, <1>10, NoneAssumption DEF ListsRight
<1>12. CountersRight(w)
  BY <1>8, <1>9, FS_EmptySet DEF CountersRight, Core
<1>13. FramesRight(w)
  <2>. SUFFICES ASSUME ~s.fInputSourceHasClosed
                PROVE  FramesRight(w)
    BY <1>8 DEF FramesRight
  <2>1. /\ s.buffer[p] = s.produced /\ s.produced > 0 /\ s.last[p] = s.produced - 1
        /\ \A r \in ActiveIn(s) : r # p => s.last[r] = s.produced
    BY <1>2 DEF Core, FramesRight, ServedIn, p
  <2>2. w.noted \cap {"again", "skipped"} = {}
    <3>1. v.buffer[p] = v.last[p] + 1
      BY <2>1, <1>2, <1>3, <1>6
    <3>. QED  BY <3>1, <1>3, <1>6, <1>7 DEF Core, FramesRight
  <2>3. \A r \in ActiveIn(w) : w.last[r] = s.produced
    BY <2>1, <1>8, <1>9 DEF ActiveIn
  <2>4. \A r \in ActiveIn(w) : w.index[r] = w.fFrameIndex
    BY <1>9 DEF ServedIn
  <2>5. CASE FramePending(w)
    <3>1. w.produced = s.produced + 1 /\ w.buffer[w.fPrimaryReplica] = w.produced
      BY <2>5, <1>3, <1>8 DEF FramePending
    <3>. QED  BY <3>1, <2>2, <2>3, <2>4, <2>5, <1>2 DEF FramesRight
  <2>6. CASE ~FramePending(w)
    <3>1. w.produced = s.produced
      BY <2>6, <1>3, <1>8, <1>4 DEF FramePending
    <3>. QED  BY <3>1, <2>2, <2>3, <2>6 DEF FramesRight
  <2>. QED  BY <2>5, <2>6
<1>14. w.fInputSourceHasClosed => s.next = <<>>
  <2>1. YetToAsk(s) = {}
    BY DEF YetToAsk, ServedIn
  <2>. QED  BY <2>1, <1>8 DEF Core
<1>15. Core(w)
  BY <1>3, <1>4, <1>6, <1>7, <1>8, <1>11, <1>12, <1>13, <1>14 DEF Core
<1>16. FramePending(w) => YetToAsk(w) # {}
  <2>1. p \in ActiveIn(w) \ ServedIn(w) /\ p \notin ToSet(w.current) /\ p # w.fPrimaryReplica
    BY <1>2, <1>4, <1>9, <1>10
  <2>. QED  BY <2>1 DEF YetToAsk
<1>. QED
  BY <1>3, <1>8, <1>9, <1>10, <1>14, <1>15, <1>16 DEF Quiet

\* deliverReceivedFrame: the waiting get the frame, and the last one to be served
\* ends it.
LEMMA Delivered ==
  ASSUME NEW s, Core(s), FramePending(s), NEW w \in DeliverReceivedFrame(s)
  PROVE  /\ Quiet(w) /\ ActiveIn(w) = ActiveIn(s)
         /\ w.fInputSourceHasClosed = s.fInputSourceHasClosed
         /\ w.fInputSourceHasClosed => w.current = <<>>
<1>. DEFINE p == s.fPrimaryReplica  t == CopyToWaiting(s)
<1>1. /\ Core(t) /\ FramePending(t) /\ t.current = <<>> /\ t.fPrimaryReplica = p
      /\ ActiveIn(t) = ActiveIn(s) /\ t.fInputSourceHasClosed = s.fInputSourceHasClosed
  BY Copied DEF Source
<1>2. p # None
  BY DEF FramePending
<1>. HIDE DEF t, p
<1>3. /\ p \in ActiveIn(t) \ ServedIn(t) /\ ServedIn(t) \in SUBSET (ActiveIn(t) \ {p})
      /\ IsFiniteSet(ActiveIn(t))
  BY <1>1, <1>2, ReplicaSets DEF Core, ListsRight
<1>4. t.fNumDeliveriesMadeSoFar = t.fNumActiveReplicas - 1
        <=> ServedIn(t) = ActiveIn(t) \ {p}
  BY <1>1, <1>3, AllServed DEF Core, CountersRight
<1>5. CASE ServedIn(t) = ActiveIn(t) \ {p}
  <2>1. w \in CompleteDelivery(t)
    BY <1>1, <1>2, <1>4, <1>5 DEF DeliverReceivedFrame, t, p
  <2>. QED  BY <2>1, <1>1, <1>5, Completed
<1>6. CASE ServedIn(t) # ActiveIn(t) \ {p}
  <2>1. w = t
    BY <1>1, <1>2, <1>4, <1>6 DEF DeliverReceivedFrame, t, p
  <2>2. YetToAsk(t) # {}
    <3>1. ToSet(t.current) = {}
      BY <1>1 DEF ToSet
    <3>. QED  BY <3>1, <1>1, <1>3, <1>6 DEF YetToAsk
  <2>. QED  BY <2>1, <2>2, <1>1, <1>2 DEF Quiet
<1>. QED  BY <1>5, <1>6

\* The source delivers the frame it was asked for.
LEMMA Arrived ==
  ASSUME NEW s, Core(s), s.reading, ServedIn(s) = {}, NEW w \in AfterGettingFrame(s)
  PROVE  /\ Quiet(w) /\ ActiveIn(w) = ActiveIn(s)
         /\ ~w.fInputSourceHasClosed
<1>. DEFINE p == s.fPrimaryReplica
            t == [s EXCEPT !.reading = FALSE, !.produced = @ + 1, !.buffer[p] = s.produced + 1]
<1>1. /\ s \in State /\ p \in Replicas /\ p # None /\ ~s.fInputSourceHasClosed
      /\ s.produced \in Nat /\ s.produced + 1 \in Nat
  BY DEF Core, State
<1>2. /\ ~t.reading /\ t.produced = s.produced + 1
      /\ t.buffer = [s.buffer EXCEPT ![p] = s.produced + 1]
      /\ Queues(t) = Queues(s) /\ Counts(t) = Counts(s) /\ t.awaiting = s.awaiting
      /\ t.last = s.last /\ t.noted = s.noted
      /\ t.fInputSourceHasClosed = s.fInputSourceHasClosed
  BY <1>1 DEF State, Queues, Counts
<1>3. t \in State
  <2>1. [s.buffer EXCEPT ![p] = s.produced + 1] \in [Replicas -> Nat]
    BY <1>1 DEF State
  <2>. QED  BY <1>1, <2>1 DEF State
<1>4. w \in DeliverReceivedFrame(t)
  BY <1>1 DEF AfterGettingFrame
<1>. HIDE DEF t, p
<1>5. /\ t.fPrimaryReplica = p /\ t.current = s.current /\ t.next = s.next
      /\ t.fFrameIndex = s.fFrameIndex /\ t.index = s.index
      /\ t.fNumActiveReplicas = s.fNumActiveReplicas
      /\ t.fNumDeliveriesMadeSoFar = s.fNumDeliveriesMadeSoFar
  BY <1>2 DEF Queues, Counts, p
<1>6. /\ ActiveIn(t) = ActiveIn(s) /\ ServedIn(t) = {} /\ FramePending(t)
  BY <1>1, <1>2, <1>5 DEF ActiveIn, ServedIn, FramePending
<1>7. ListsRight(t) /\ CountersRight(t)
  BY <1>2, <1>5, <1>6 DEF Core, ListsRight, CountersRight, p
<1>8. FramesRight(t)
  <2>1. \A r \in ActiveIn(s) : s.last[r] = s.produced /\ s.index[r] = s.fFrameIndex
    BY <1>1 DEF Core, FramesRight, FramePending, ServedIn
  <2>2. t.buffer[p] = s.produced + 1
    BY <1>1, <1>2 DEF State
  <2>. QED  BY <2>1, <2>2, <1>1, <1>2, <1>5, <1>6 DEF FramesRight, Core
<1>9. Core(t)
  BY <1>1, <1>2, <1>3, <1>7, <1>8 DEF Core
<1>. QED
  BY <1>1, <1>2, <1>4, <1>6, <1>9, Delivered

\* The source is asked when nobody has had a frame that others have not.
LEMMA Asked ==
  ASSUME NEW s \in State, ~s.reading,
         Core([s EXCEPT !.listening = TRUE, !.reading = TRUE]),
         ServedIn([s EXCEPT !.listening = TRUE, !.reading = TRUE]) = {},
         NEW w \in ReadAndDeliver(s)
  PROVE  /\ Quiet(w) /\ ActiveIn(w) = ActiveIn(s)
         /\ ~w.fInputSourceHasClosed
<1>. DEFINE t == [s EXCEPT !.listening = TRUE, !.reading = TRUE]
<1>1. w = t \/ w \in AfterGettingFrame(t)
  BY DEF ReadAndDeliver, Noted
<1>2. /\ t.reading /\ ActiveIn(t) = ActiveIn(s)
  BY DEF State, ActiveIn
<1>. HIDE DEF t
<1>3. Core(t) /\ ServedIn(t) = {} /\ t.fPrimaryReplica # None /\ ~t.fInputSourceHasClosed
  BY <1>2 DEF t, Core
<1>4. Quiet(t)
  BY <1>2, <1>3 DEF Quiet, FramePending
<1>. QED
  BY <1>1, <1>2, <1>3, <1>4, Arrived

-----------------------------------------------------------------------------
(* Requests.                                                               *)

\* A replica that asks for the first time is counted, and yet to be served.
LEMMA Joined ==
  ASSUME NEW s \in State, CountersRight(s), FramesRight(s), ~s.fInputSourceHasClosed,
         NEW r \in Replicas
  PROVE  LET t == Activated(s, r) IN
         /\ t \in State /\ CountersRight(t) /\ FramesRight(t)
         /\ ActiveIn(t) = ActiveIn(s) \cup {r} /\ ServedIn(t) = ServedIn(s)
         /\ Source(t) = Source(s)
         /\ t.fPrimaryReplica = s.fPrimaryReplica /\ t.fFrameIndex = s.fFrameIndex
         /\ t.current = s.current /\ t.next = s.next
         /\ t.awaiting = s.awaiting /\ t.noted = s.noted
<1>1. CASE s.index[r] # -1
  BY <1>1 DEF Activated, ActiveIn
<1>2. CASE s.index[r] = -1
  <2>. DEFINE t == [s EXCEPT !.index[r] = s.fFrameIndex, !.fNumActiveReplicas = @ + 1,
                             !.last[r] = FirstFrame(s) - 1]
  <2>1. /\ FirstFrame(s) - 1 = IF FramePending(s) THEN s.produced - 1 ELSE s.produced
        /\ FirstFrame(s) - 1 \in Nat
    BY DEF FirstFrame, FramesRight, State
  <2>2. /\ t.index = [s.index EXCEPT ![r] = s.fFrameIndex]
        /\ t.last = [s.last EXCEPT ![r] = FirstFrame(s) - 1]
        /\ t.fNumActiveReplicas = s.fNumActiveReplicas + 1
        /\ t.fNumDeliveriesMadeSoFar = s.fNumDeliveriesMadeSoFar
        /\ Source(t) = Source(s) /\ t.buffer = s.buffer
        /\ t.fPrimaryReplica = s.fPrimaryReplica /\ t.fFrameIndex = s.fFrameIndex
        /\ t.current = s.current /\ t.next = s.next
        /\ t.awaiting = s.awaiting /\ t.noted = s.noted
    BY DEF State, Source
  <2>3. t \in State
    <3>1. /\ [s.index EXCEPT ![r] = s.fFrameIndex] \in [Replicas -> {-1, 0, 1}]
          /\ [s.last EXCEPT ![r] = FirstFrame(s) - 1] \in [Replicas -> Nat]
          /\ s.fNumActiveReplicas + 1 \in Nat
      BY <2>1 DEF State
    <3>. HIDE DEF t
    <3>. QED  BY <2>2, <3>1 DEF State, t
  <2>4. t = Activated(s, r)
    BY <1>2 DEF Activated
  <2>. HIDE DEF t
  <2>5. \A q \in Replicas : /\ t.index[q] = IF q = r THEN s.fFrameIndex ELSE s.index[q]
                            /\ t.last[q] = IF q = r THEN FirstFrame(s) - 1 ELSE s.last[q]
    BY <2>2 DEF State
  <2>6. ActiveIn(t) = ActiveIn(s) \cup {r} /\ r \notin ActiveIn(s)
    BY <1>2, <2>5 DEF ActiveIn, State
  <2>7. ServedIn(t) = ServedIn(s)
    BY <1>2, <2>2, <2>5, <2>6 DEF ServedIn, ActiveIn
  <2>8. CountersRight(t)
    BY <2>2, <2>6, <2>7, FS_AddElement DEF CountersRight
  <2>9. /\ t.produced = s.produced /\ t.reading = s.reading
        /\ t.fInputSourceHasClosed = s.fInputSourceHasClosed
    BY <2>2 DEF Source
  <2>10. FramesRight(t)
    BY <2>1, <2>2, <2>5, <2>6, <2>9 DEF FramesRight, FramePending, ActiveIn
  <2>. QED  BY <2>2, <2>3, <2>4, <2>6, <2>7, <2>8, <2>10
<1>. QED
  BY <1>1, <1>2 DEF State

\* getNextFrame: whoever asks is active from then on.
LEMMA Requested ==
  ASSUME NEW s0, Quiet(s0), ~s0.fInputSourceHasClosed,
         NEW r \in Replicas, ~s0.awaiting[r], NEW w \in GetNextFrame(s0, r)
  PROVE  /\ Quiet(w) /\ ActiveIn(w) = ActiveIn(s0) \cup {r}
         /\ ~w.fInputSourceHasClosed
<1>. DEFINE a == [s0 EXCEPT !.awaiting[r] = TRUE]  s == Activated(a, r)
            p == s0.fPrimaryReplica
            t == [s EXCEPT !.current = <<r>> \o @]
            q == [s EXCEPT !.next = <<r>> \o @]
            f == [s EXCEPT !.fPrimaryReplica = r]
<1>0. s0 \in State /\ Core(s0) /\ p \in Replicas \cup {None}
  BY DEF Quiet, Core, State
<1>1. /\ a \in State /\ Source(a) = Source(s0) /\ Queues(a) = Queues(s0)
      /\ Counts(a) = Counts(s0) /\ Frames(a) = Frames(s0) /\ a.noted = s0.noted
      /\ a.awaiting = [s0.awaiting EXCEPT ![r] = TRUE]
  BY <1>0 DEF State, Source, Queues, Counts, Frames
<1>. HIDE DEF a
<1>2. /\ a.reading = s0.reading /\ a.produced = s0.produced
      /\ a.fInputSourceHasClosed = s0.fInputSourceHasClosed
      /\ a.fPrimaryReplica = p /\ a.current = s0.current /\ a.next = s0.next
      /\ a.fFrameIndex = s0.fFrameIndex /\ a.index = s0.index
      /\ a.fNumActiveReplicas = s0.fNumActiveReplicas
      /\ a.fNumDeliveriesMadeSoFar = s0.fNumDeliveriesMadeSoFar
      /\ a.buffer = s0.buffer /\ a.last = s0.last
  BY <1>1 DEF Source, Queues, Counts, Frames
<1>3. /\ ActiveIn(a) = ActiveIn(s0) /\ ServedIn(a) = ServedIn(s0)
      /\ CountersRight(a) /\ FramesRight(a)
  BY <1>0, <1>1, <1>2 DEF ActiveIn, ServedIn, CountersRight, FramesRight, FramePending, Core
<1>4. /\ s \in State /\ CountersRight(s) /\ FramesRight(s)
      /\ ActiveIn(s) = ActiveIn(s0) \cup {r} /\ ServedIn(s) = ServedIn(s0)
      /\ Source(s) = Source(a) /\ s.fPrimaryReplica = p /\ s.fFrameIndex = s0.fFrameIndex
      /\ s.current = s0.current /\ s.next = s0.next
      /\ s.awaiting = [s0.awaiting EXCEPT ![r] = TRUE] /\ s.noted = s0.noted
  BY <1>1, <1>2, <1>3, Joined
<1>5. w \in CASE p = None -> ReadAndDeliver(f)
              [] p # None /\ s.index[r] # s.fFrameIndex -> {q}
              [] OTHER -> IF s.reading THEN {t} ELSE DeliverReceivedFrame(t)
  BY <1>4 DEF GetNextFrame, a
<1>. HIDE DEF s, p
<1>6. /\ s.reading = s0.reading /\ s.produced = s0.produced
      /\ ~s.fInputSourceHasClosed /\ s.noted \cap Errors = {}
  BY <1>0, <1>1, <1>2, <1>4 DEF Source, Core
<1>7. /\ r \notin ToSet(s.current) /\ r \notin ToSet(s.next) /\ r # p
      /\ \A x \in Replicas : s.awaiting[x] <=> \/ x \in ToSet(s.current) \cup ToSet(s.next)
                                               \/ x = p \/ x = r
  BY <1>0, <1>4 DEF Core, ListsRight, State, p
<1>8. /\ IsInjective(s.current) /\ IsInjective(s.next)
      /\ s.current \in Seq(Replicas) /\ s.next \in Seq(Replicas)
      /\ ToSet(s.current) \subseteq ActiveIn(s) \ ServedIn(s)
      /\ ToSet(s.next) \subseteq ServedIn(s)
      /\ p # None => p \in ActiveIn(s) \ ServedIn(s)
      /\ p \notin ToSet(s.current)
  BY <1>0, <1>4 DEF Core, ListsRight, State, p
<1>9. r \in ActiveIn(s) /\ (r \in ServedIn(s) <=> s.index[r] # s.fFrameIndex)
  BY <1>4 DEF ServedIn
<1>10. CASE p = None
  <2>1. /\ f \in State /\ f.fPrimaryReplica = r /\ Source(f) = Source(s)
        /\ f.fFrameIndex = s.fFrameIndex /\ f.index = s.index
        /\ f.current = s.current /\ f.next = s.next /\ f.awaiting = s.awaiting
        /\ Counts(f) = Counts(s) /\ Frames(f) = Frames(s) /\ f.noted = s.noted
    BY <1>4 DEF State, Source, Counts, Frames
  <2>2. s.current = <<>> /\ s.next = <<>> /\ ~s.reading /\ ServedIn(s) = {}
    BY <1>0, <1>4, <1>6, <1>10 DEF Quiet, Core, FramePending, p
  <2>. DEFINE g == [f EXCEPT !.listening = TRUE, !.reading = TRUE]
  <2>3. w \in ReadAndDeliver(f)
    BY <1>5, <1>10
  <2>. HIDE DEF f
  <2>4. /\ g \in State /\ g.fPrimaryReplica = r /\ g.reading /\ g.produced = s.produced
        /\ g.fInputSourceHasClosed = s.fInputSourceHasClosed
        /\ g.fFrameIndex = s.fFrameIndex /\ g.index = s.index
        /\ g.current = s.current /\ g.next = s.next /\ g.awaiting = s.awaiting
        /\ Counts(g) = Counts(s) /\ Frames(g) = Frames(s) /\ g.noted = s.noted
    BY <2>1 DEF State, Source, Counts, Frames
  <2>5. ~f.reading /\ ActiveIn(f) = ActiveIn(s)
    BY <2>1, <2>2 DEF Source, ActiveIn
  <2>. HIDE DEF g
  <2>6. ActiveIn(g) = ActiveIn(s) /\ ServedIn(g) = {}
    BY <2>2, <2>4 DEF ActiveIn, ServedIn
  <2>7. ToSet(s.current) = {} /\ ToSet(s.next) = {}
    BY <2>2 DEF ToSet
  <2>8. ListsRight(g)
    BY <1>7, <1>8, <1>9, <1>10, <2>2, <2>4, <2>6, <2>7, NoneAssumption DEF ListsRight
  <2>9. CountersRight(g)
    BY <1>4, <2>2, <2>4, <2>6 DEF CountersRight, Counts
  <2>10. FramesRight(g)
    <3>1. g.last = s.last /\ ~FramePending(g) /\ ~FramePending(s)
      BY <1>4, <1>10, <2>4 DEF Frames, FramePending
    <3>. QED  BY <1>4, <1>6, <2>4, <2>6, <3>1 DEF FramesRight
  <2>11. Core(g)
    BY <1>6, <2>2, <2>4, <2>8, <2>9, <2>10, NoneAssumption DEF Core
  <2>. QED  BY <1>4, <2>1, <2>3, <2>5, <2>6, <2>11, Asked DEF g
<1>. HIDE DEF f
<1>11. CASE p # None /\ r \in ServedIn(s)
  <2>1. w = q
    BY <1>5, <1>9, <1>11
  <2>2. /\ <<r>> \o s.next \in Seq(Replicas) /\ <<r>> \o s.next # <<>>
        /\ ToSet(<<r>> \o s.next) = ToSet(s.next) \cup {r}
        /\ IsInjective(<<r>> \o s.next)
    BY <1>7, <1>8, InFront
  <2>3. /\ q \in State /\ q.fPrimaryReplica = p /\ Source(q) = Source(s)
        /\ q.fFrameIndex = s.fFrameIndex /\ q.index = s.index
        /\ q.current = s.current /\ q.next = <<r>> \o s.next /\ q.awaiting = s.awaiting
        /\ Counts(q) = Counts(s) /\ Frames(q) = Frames(s) /\ q.noted = s.noted
    BY <1>4, <2>2 DEF State, Source, Counts, Frames
  <2>. HIDE DEF q
  <2>4. /\ q.reading = s.reading /\ q.produced = s.produced
        /\ q.fInputSourceHasClosed = s.fInputSourceHasClosed
        /\ q.fNumActiveReplicas = s.fNumActiveReplicas
        /\ q.fNumDeliveriesMadeSoFar = s.fNumDeliveriesMadeSoFar
        /\ q.buffer = s.buffer /\ q.last = s.last
    BY <2>3 DEF Source, Counts, Frames
  <2>5. ActiveIn(q) = ActiveIn(s) /\ ServedIn(q) = ServedIn(s)
    BY <2>3 DEF ActiveIn, ServedIn
  <2>6. ListsRight(q)
    BY <1>7, <1>8, <1>11, <2>2, <2>3, <2>5 DEF ListsRight
  <2>7. CountersRight(q) /\ FramesRight(q)
    <3>1. CountersRight(q)
      BY <1>4, <2>4, <2>5 DEF CountersRight
    <3>2. FramePending(q) <=> FramePending(s)
      BY <1>4, <2>3, <2>4 DEF FramePending
    <3>. QED  BY <1>4, <1>6, <2>3, <2>4, <2>5, <3>1, <3>2 DEF FramesRight
  <2>8. FramePending(q) /\ FramePending(s0) /\ s0.current = <<>>
    BY <1>0, <1>4, <1>6, <1>11, <2>3, <2>4 DEF FramePending, Quiet, p
  <2>9. YetToAsk(s0) \subseteq YetToAsk(q)
    BY <1>4, <2>3, <2>5, <1>11 DEF YetToAsk, p
  <2>10. Core(q)
    BY <1>4, <1>6, <2>3, <2>4, <2>6, <2>7, <1>11, <2>8 DEF Core, FramePending
  <2>. QED  BY <1>4, <1>6, <1>11, <2>1, <2>3, <2>4, <2>5, <2>8, <2>9, <2>10 DEF Quiet
<1>12. CASE p # None /\ r \notin ServedIn(s)
  <2>1. w \in IF s.reading THEN {t} ELSE DeliverReceivedFrame(t)
    BY <1>5, <1>9, <1>12
  <2>2. /\ <<r>> \o s.current \in Seq(Replicas) /\ <<r>> \o s.current # <<>>
        /\ ToSet(<<r>> \o s.current) = ToSet(s.current) \cup {r}
        /\ IsInjective(<<r>> \o s.current)
    BY <1>7, <1>8, InFront
  <2>3. /\ t \in State /\ t.fPrimaryReplica = p /\ Source(t) = Source(s)
        /\ t.fFrameIndex = s.fFrameIndex /\ t.index = s.index
        /\ t.next = s.next /\ t.current = <<r>> \o s.current /\ t.awaiting = s.awaiting
        /\ Counts(t) = Counts(s) /\ Frames(t) = Frames(s) /\ t.noted = s.noted
    BY <1>4, <2>2 DEF State, Source, Counts, Frames
  <2>. HIDE DEF t
  <2>4. /\ t.reading = s.reading /\ t.produced = s.produced
        /\ t.fInputSourceHasClosed = s.fInputSourceHasClosed
        /\ t.fNumActiveReplicas = s.fNumActiveReplicas
        /\ t.fNumDeliveriesMadeSoFar = s.fNumDeliveriesMadeSoFar
        /\ t.buffer = s.buffer /\ t.last = s.last
    BY <2>3 DEF Source, Counts, Frames
  <2>5. ActiveIn(t) = ActiveIn(s) /\ ServedIn(t) = ServedIn(s)
    BY <2>3 DEF ActiveIn, ServedIn
  <2>6. ListsRight(t)
    BY <1>7, <1>8, <1>9, <1>12, <2>2, <2>3, <2>5 DEF ListsRight
  <2>7. CountersRight(t) /\ FramesRight(t)
    <3>1. CountersRight(t)
      BY <1>4, <2>4, <2>5 DEF CountersRight
    <3>2. FramePending(t) <=> FramePending(s)
      BY <1>4, <2>3, <2>4 DEF FramePending
    <3>. QED  BY <1>4, <1>6, <2>3, <2>4, <2>5, <3>1, <3>2 DEF FramesRight
  <2>8. Core(t)
    BY <1>4, <1>6, <2>3, <2>4, <2>6, <2>7, <1>12 DEF Core
  <2>9. CASE s.reading
    <3>1. w = t /\ ~FramePending(t) /\ ServedIn(t) = {}
      BY <1>0, <1>4, <1>6, <2>1, <2>4, <2>5, <2>9 DEF FramePending, Quiet
    <3>. QED  BY <1>4, <1>6, <1>12, <2>3, <2>4, <2>5, <2>8, <3>1 DEF Quiet
  <2>10. CASE ~s.reading
    BY <1>4, <1>6, <1>12, <2>1, <2>3, <2>4, <2>5, <2>8, <2>10, Delivered DEF FramePending
  <2>. QED  BY <2>9, <2>10
<1>. QED
  BY <1>10, <1>11, <1>12

-----------------------------------------------------------------------------
(* Departures.                                                             *)

\* Without replicas nobody reads, so the source can be stopped.
LEMMA Stopped ==
  ASSUME NEW u, Quiet(u), u.fNumActiveReplicas = 0
  PROVE  LET w == StopSource(u) IN
         /\ Quiet(w) /\ ActiveIn(w) = ActiveIn(u)
         /\ w.fInputSourceHasClosed = u.fInputSourceHasClosed
         /\ w.fPrimaryReplica = None /\ w.current = <<>>
<1>. DEFINE w == StopSource(u)
<1>1. u \in State /\ Core(u)
  BY DEF Quiet, Core
<1>2. ActiveIn(u) = {}
  BY <1>1, FS_EmptySet DEF Core, CountersRight
<1>3. u.fPrimaryReplica = None /\ u.current = <<>> /\ u.next = <<>> /\ ~u.reading
  BY <1>1, <1>2 DEF Quiet, Core, ListsRight
<1>4. /\ w \in State /\ ~w.reading /\ w.produced = u.produced
      /\ w.fInputSourceHasClosed = u.fInputSourceHasClosed
      /\ w.awaiting = u.awaiting /\ Queues(w) = Queues(u) /\ Counts(w) = Counts(u)
      /\ Frames(w) = Frames(u) /\ w.noted = u.noted
  BY <1>1 DEF State, StopSource, Queues, Counts, Frames
<1>. HIDE DEF w
<1>5. /\ w.fPrimaryReplica = u.fPrimaryReplica /\ w.current = u.current /\ w.next = u.next
      /\ w.fFrameIndex = u.fFrameIndex /\ w.index = u.index
      /\ w.fNumActiveReplicas = u.fNumActiveReplicas
      /\ w.fNumDeliveriesMadeSoFar = u.fNumDeliveriesMadeSoFar
      /\ w.buffer = u.buffer /\ w.last = u.last
  BY <1>4 DEF Queues, Counts, Frames
<1>6. ActiveIn(w) = ActiveIn(u) /\ ServedIn(w) = ServedIn(u) /\ ServedIn(u) = {}
  BY <1>2, <1>5 DEF ActiveIn, ServedIn
<1>7. ListsRight(w) /\ CountersRight(w) /\ FramesRight(w)
  BY <1>1, <1>2, <1>4, <1>5, <1>6 DEF Core, ListsRight, CountersRight, FramesRight, FramePending
<1>8. Core(w)
  BY <1>1, <1>3, <1>4, <1>5, <1>7 DEF Core
<1>. QED
  BY <1>3, <1>4, <1>5, <1>6, <1>8 DEF Quiet, FramePending, w

\* deactivateStreamReplica before it looks at the lists.
Leaving(s, r) ==
    [s EXCEPT !.awaiting[r] = FALSE, !.index[r] = -1, !.fNumActiveReplicas = @ - 1,
              !.fNumDeliveriesMadeSoFar =
                  IF s.index[r] # s.fFrameIndex /\ @ > 0 THEN @ - 1 ELSE @]

\* A replica that leaves is taken out of the numbers.
LEMMA Departed ==
  ASSUME NEW s, Core(s), NEW r \in ActiveIn(s)
  PROVE  LET d == Leaving(s, r) IN
         /\ d \in State /\ CountersRight(d) /\ s.fNumActiveReplicas > 0
         /\ FramePending(d) <=> FramePending(s)
         /\ \A x \in ActiveIn(d) : d.last[x] = s.last[x] /\ d.index[x] = s.index[x]
         /\ ActiveIn(d) = ActiveIn(s) \ {r} /\ ServedIn(d) = ServedIn(s) \ {r}
         /\ Source(d) = Source(s) /\ d.fPrimaryReplica = s.fPrimaryReplica
         /\ d.fFrameIndex = s.fFrameIndex
         /\ d.current = s.current /\ d.next = s.next
         /\ d.awaiting = [s.awaiting EXCEPT ![r] = FALSE]
         /\ d.buffer = s.buffer /\ d.noted = s.noted
<1>. DEFINE d == Leaving(s, r)
            m == IF s.index[r] # s.fFrameIndex /\ s.fNumDeliveriesMadeSoFar > 0
                 THEN s.fNumDeliveriesMadeSoFar - 1 ELSE s.fNumDeliveriesMadeSoFar
<1>1. s \in State /\ r \in Replicas /\ s.index[r] # -1
  BY DEF Core, ActiveIn
<1>2. /\ IsFiniteSet(ActiveIn(s)) /\ IsFiniteSet(ServedIn(s)) /\ ServedIn(s) \subseteq ActiveIn(s)
      /\ s.fNumActiveReplicas = Cardinality(ActiveIn(s)) /\ s.fNumActiveReplicas \in Nat
      /\ s.fNumDeliveriesMadeSoFar = Cardinality(ServedIn(s)) /\ s.fNumDeliveriesMadeSoFar \in Nat
  BY ReplicaSets DEF Core, CountersRight
<1>3. /\ IsFiniteSet(ActiveIn(s) \ {r})
      /\ Cardinality(ActiveIn(s) \ {r}) = s.fNumActiveReplicas - 1
      /\ s.fNumActiveReplicas > 0
  <2>1. Cardinality(ActiveIn(s)) # 0
    BY <1>2, FS_EmptySet
  <2>. QED  BY <1>2, <2>1, FS_RemoveElement
<1>4. m = Cardinality(ServedIn(s) \ {r})
  <2>1. CASE r \in ServedIn(s)
    <3>1. Cardinality(ServedIn(s)) # 0
      BY <1>2, <2>1, FS_EmptySet
    <3>2. s.index[r] # s.fFrameIndex
      BY <2>1 DEF ServedIn
    <3>3. m = s.fNumDeliveriesMadeSoFar - 1
      BY <1>2, <3>1, <3>2
    <3>4. Cardinality(ServedIn(s) \ {r}) = Cardinality(ServedIn(s)) - 1
      BY <1>2, <2>1, FS_RemoveElement
    <3>. QED  BY <1>2, <3>3, <3>4
  <2>2. CASE r \notin ServedIn(s)
    <3>1. s.index[r] = s.fFrameIndex /\ ServedIn(s) \ {r} = ServedIn(s)
      BY <2>2 DEF ServedIn
    <3>. QED  BY <3>1, <1>2
  <2>. QED  BY <2>1, <2>2
<1>5. m \in Nat /\ s.fNumActiveReplicas - 1 \in Nat
  BY <1>2, <1>3
<1>6. /\ d.index = [s.index EXCEPT ![r] = -1]
      /\ d.fNumActiveReplicas = s.fNumActiveReplicas - 1
      /\ d.fNumDeliveriesMadeSoFar = m
      /\ Source(d) = Source(s) /\ d.fPrimaryReplica = s.fPrimaryReplica
      /\ d.fFrameIndex = s.fFrameIndex
      /\ d.current = s.current /\ d.next = s.next
      /\ d.awaiting = [s.awaiting EXCEPT ![r] = FALSE]
      /\ d.buffer = s.buffer /\ d.last = s.last /\ d.noted = s.noted
  BY <1>1 DEF State, Source, Leaving
<1>7. d \in State
  <2>1. /\ [s.index EXCEPT ![r] = -1] \in [Replicas -> {-1, 0, 1}]
        /\ [s.awaiting EXCEPT ![r] = FALSE] \in [Replicas -> BOOLEAN]
    BY <1>1 DEF State
  <2>2. d = [s EXCEPT !.awaiting = [s.awaiting EXCEPT ![r] = FALSE],
                      !.index = [s.index EXCEPT ![r] = -1],
                      !.fNumActiveReplicas = s.fNumActiveReplicas - 1,
                      !.fNumDeliveriesMadeSoFar = m]
    BY <1>1 DEF Leaving, State
  <2>. HIDE DEF d, m
  <2>. QED  BY <1>1, <1>5, <2>1, <2>2 DEF State
<1>. HIDE DEF d, m
<1>8. \A x \in Replicas : d.index[x] = IF x = r THEN -1 ELSE s.index[x]
  BY <1>1, <1>6 DEF State
<1>9. ActiveIn(d) = ActiveIn(s) \ {r}
  BY <1>8 DEF ActiveIn
<1>10. ServedIn(d) = ServedIn(s) \ {r}
  BY <1>6, <1>8, <1>9 DEF ServedIn, ActiveIn
<1>11. \A x \in ActiveIn(d) : d.last[x] = s.last[x] /\ d.index[x] = s.index[x]
  BY <1>6, <1>8 DEF ActiveIn
<1>12. CountersRight(d)
  BY <1>3, <1>4, <1>6, <1>9, <1>10 DEF CountersRight
<1>13. FramePending(d) <=> FramePending(s)
  BY <1>6 DEF FramePending, Source
<1>. QED
  BY <1>3, <1>6, <1>7, <1>9, <1>10, <1>11, <1>12, <1>13 DEF d

\* Someone other than the primary leaves: perhaps the frame is done with that.
LEMMA OtherLeft ==
  ASSUME NEW s, Quiet(s), NEW r \in ActiveIn(s), r # s.fPrimaryReplica,
         s.fInputSourceHasClosed /\ s.next # <<>> => r \in ServedIn(s),
         NEW w \in LeaveLists(Leaving(s, r), r)
  PROVE  /\ Quiet(w) /\ ActiveIn(w) = ActiveIn(s) \ {r}
         /\ w.fInputSourceHasClosed = s.fInputSourceHasClosed
         /\ w.fInputSourceHasClosed /\ s.current = <<>> => w.current = <<>>
         /\ w.fInputSourceHasClosed /\ s.fPrimaryReplica = None => w.fPrimaryReplica = None
<1>. DEFINE d == Leaving(s, r)  p == s.fPrimaryReplica
            e == [d EXCEPT !.current = Without(@, r), !.next = Without(@, r)]
<1>1. /\ s \in State /\ Core(s) /\ r \in Replicas
      /\ s.current \in Seq(Replicas) /\ s.next \in Seq(Replicas)
      /\ IsInjective(s.current) /\ IsInjective(s.next)
  BY DEF Quiet, Core, State, ListsRight, ActiveIn
<1>2. /\ d \in State /\ CountersRight(d)
      /\ FramePending(d) <=> FramePending(s)
      /\ \A x \in ActiveIn(d) : d.last[x] = s.last[x] /\ d.index[x] = s.index[x]
      /\ ActiveIn(d) = ActiveIn(s) \ {r} /\ ServedIn(d) = ServedIn(s) \ {r}
      /\ Source(d) = Source(s) /\ d.fPrimaryReplica = p
      /\ d.fFrameIndex = s.fFrameIndex
      /\ d.current = s.current /\ d.next = s.next
      /\ d.awaiting = [s.awaiting EXCEPT ![r] = FALSE]
      /\ d.buffer = s.buffer /\ d.noted = s.noted
  BY <1>1, Departed
<1>. HIDE DEF d, p
<1>3. /\ Without(s.current, r) \in Seq(Replicas) /\ IsInjective(Without(s.current, r))
      /\ ToSet(Without(s.current, r)) = ToSet(s.current) \ {r}
      /\ Without(s.next, r) \in Seq(Replicas) /\ IsInjective(Without(s.next, r))
      /\ ToSet(Without(s.next, r)) = ToSet(s.next) \ {r}
  BY <1>1, TakenOut
<1>4. /\ s.current = <<>> => Without(s.current, r) = <<>>
      /\ s.next = <<>> => Without(s.next, r) = <<>>
  <2>1. ASSUME NEW list \in Seq(Replicas), list = <<>> PROVE Without(list, r) = <<>>
    BY <2>1 DEF Without, Contains
  <2>. QED  BY <1>1, <2>1
<1>5. /\ e \in State /\ Source(e) = Source(d) /\ e.fPrimaryReplica = p
      /\ e.fFrameIndex = s.fFrameIndex /\ e.index = d.index
      /\ e.current = Without(s.current, r) /\ e.next = Without(s.next, r)
      /\ e.awaiting = d.awaiting /\ Counts(e) = Counts(d) /\ Frames(e) = Frames(d)
      /\ e.noted = s.noted
  BY <1>2, <1>3 DEF State, Source, Counts, Frames
<1>6. w \in IF FramePending(e) THEN DeliverReceivedFrame(e) ELSE {e}
  BY DEF LeaveLists, d
<1>. HIDE DEF e
<1>7. /\ e.reading = s.reading /\ e.produced = s.produced
      /\ e.fInputSourceHasClosed = s.fInputSourceHasClosed
      /\ e.fNumActiveReplicas = d.fNumActiveReplicas
      /\ e.fNumDeliveriesMadeSoFar = d.fNumDeliveriesMadeSoFar
      /\ e.buffer = s.buffer /\ e.last = d.last
  BY <1>2, <1>5 DEF Source, Counts, Frames
<1>8. ActiveIn(e) = ActiveIn(s) \ {r} /\ ServedIn(e) = ServedIn(s) \ {r}
  <2>1. ActiveIn(e) = ActiveIn(d)
    BY <1>5 DEF ActiveIn
  <2>2. ServedIn(e) = ServedIn(d)
    BY <1>2, <1>5, <2>1 DEF ServedIn
  <2>. QED  BY <1>2, <2>1, <2>2
<1>9. FramePending(e) <=> FramePending(s)
  BY <1>5, <1>7 DEF FramePending, p
<1>10. ListsRight(e)
  <2>1. /\ ToSet(s.current) \subseteq ActiveIn(s) \ ServedIn(s)
        /\ ToSet(s.next) \subseteq ServedIn(s)
        /\ p # None => p \in ActiveIn(s) \ ServedIn(s)
        /\ p \notin ToSet(s.current)
        /\ \A x \in Replicas : s.awaiting[x] <=> \/ x \in ToSet(s.current) \cup ToSet(s.next)
                                                 \/ x = p
    BY <1>1 DEF Core, ListsRight, p
  <2>2. \A x \in Replicas : e.awaiting[x] <=> s.awaiting[x] /\ x # r
    BY <1>1, <1>2, <1>5 DEF State
  <2>3. r # p
    BY DEF p
  <2>. QED  BY <1>3, <1>5, <1>8, <2>1, <2>2, <2>3 DEF ListsRight
<1>11. CountersRight(e)
  BY <1>2, <1>7, <1>8 DEF CountersRight
<1>12. FramesRight(e)
  BY <1>1, <1>2, <1>5, <1>7, <1>8, <1>9 DEF FramesRight, Core, p
<1>13. YetToAsk(e) = YetToAsk(s) \ {r}
  BY <1>3, <1>5, <1>8 DEF YetToAsk, p
<1>14. e.next # <<>> /\ e.fInputSourceHasClosed => YetToAsk(e) # {}
  <2>. HAVE e.next # <<>> /\ e.fInputSourceHasClosed
  <2>1. s.next # <<>> /\ s.fInputSourceHasClosed
    BY <1>4, <1>5, <1>7
  <2>2. r \notin YetToAsk(s) /\ YetToAsk(s) # {}
    BY <1>1, <2>1 DEF Core, YetToAsk
  <2>. QED  BY <1>13, <2>2
<1>15. Core(e)
  BY <1>1, <1>5, <1>7, <1>10, <1>11, <1>12, <1>14 DEF Core, p
<1>16. CASE FramePending(e)
  <2>1. p # None
    BY <1>5, <1>16 DEF FramePending
  <2>. QED  BY <1>6, <1>7, <1>8, <1>15, <1>16, <2>1, Delivered DEF p
<1>17. CASE ~FramePending(e)
  <2>1. w = e
    BY <1>6, <1>17
  <2>2. Quiet(e)
    BY <1>4, <1>5, <1>7, <1>8, <1>9, <1>15, <1>17 DEF Quiet, p
  <2>. QED  BY <2>1, <2>2, <1>4, <1>5, <1>7, <1>8 DEF p
<1>. QED
  BY <1>16, <1>17

\* The primary leaves: who waits for its frame replaces it, and if it was still
\* being read then the source is asked anew.
LEMMA PrimaryLeft ==
  ASSUME NEW s, Quiet(s), NEW r \in ActiveIn(s), r = s.fPrimaryReplica,
         ~s.fInputSourceHasClosed,
         ~(~s.reading /\ s.current = <<>> /\ s.fNumActiveReplicas > 1),
         NEW w \in ReplacePrimary(Leaving(s, r), r)
  PROVE  /\ Quiet(w) /\ ActiveIn(w) = ActiveIn(s) \ {r}
         /\ ~w.fInputSourceHasClosed
<1>. DEFINE d == Leaving(s, r)  C == ToSet(s.current)
            new == IF s.current = <<>> THEN None ELSE Head(s.current)
            rest == IF s.current = <<>> THEN s.current ELSE Tail(s.current)
            t == [d EXCEPT !.fPrimaryReplica = new, !.current = rest]
            h == StopSource(t)
            g == [h EXCEPT !.listening = TRUE, !.reading = TRUE]
            b == [t EXCEPT !.buffer[new] = d.buffer[r]]
<1>1. /\ s \in State /\ Core(s) /\ r \in Replicas
      /\ s.current \in Seq(Replicas) /\ s.next \in Seq(Replicas)
      /\ IsInjective(s.current) /\ IsInjective(s.next)
      /\ r # None /\ r \notin C /\ r \in ActiveIn(s) \ ServedIn(s)
      /\ C \subseteq ActiveIn(s) \ ServedIn(s) /\ C \subseteq Replicas
  BY NoneAssumption DEF Quiet, Core, State, ListsRight, ActiveIn
<1>2. /\ d \in State /\ CountersRight(d)
      /\ \A x \in ActiveIn(d) : d.last[x] = s.last[x] /\ d.index[x] = s.index[x]
      /\ ActiveIn(d) = ActiveIn(s) \ {r} /\ ServedIn(d) = ServedIn(s) \ {r}
      /\ Source(d) = Source(s) /\ d.fPrimaryReplica = r
      /\ d.fFrameIndex = s.fFrameIndex
      /\ d.current = s.current /\ d.next = s.next
      /\ d.awaiting = [s.awaiting EXCEPT ![r] = FALSE]
      /\ d.buffer = s.buffer /\ d.noted = s.noted
  BY <1>1, Departed
<1>3. /\ d.reading = s.reading /\ d.produced = s.produced /\ ~d.fInputSourceHasClosed
  BY <1>2 DEF Source
<1>4. w \in CASE d.reading /\ new # None -> ReadAndDeliver(h)
              [] d.reading /\ new = None -> {h}
              [] ~d.reading /\ new # None -> {b}
              [] ~d.reading /\ new = None -> {t}
  BY <1>2 DEF ReplacePrimary
<1>. HIDE DEF d
<1>5. s.reading = TRUE \/ s.reading = FALSE
  BY <1>1 DEF State
<1>6. CASE s.current = <<>>
  <2>1. new = None /\ rest = <<>>
    BY <1>6
  <2>. HIDE DEF new, rest
  <2>2. CASE s.reading
    <3>1. ServedIn(s) = {} /\ s.next = <<>>
      <4>1. ServedIn(s) = {}
        BY <2>2 DEF Quiet, FramePending
      <4>2. ToSet(s.next) = {}
        BY <1>1, <4>1 DEF Core, ListsRight
      <4>. QED  BY <1>1, <4>1, <4>2, EmptyList
    <3>2. /\ t \in State /\ t.fPrimaryReplica = None /\ t.current = <<>>
          /\ Source(t) = Source(d) /\ t.fFrameIndex = d.fFrameIndex /\ t.index = d.index
          /\ t.next = d.next /\ t.awaiting = d.awaiting
          /\ Counts(t) = Counts(d) /\ Frames(t) = Frames(d) /\ t.noted = d.noted
      <4>1. rest \in Seq(Replicas) /\ new \in Replicas \cup {None}
        BY <1>1, <1>6, <2>1
      <4>2. d \in State
        BY <1>2
      <4>. QED  BY <2>1, <4>1, <4>2 DEF State, Source, Counts, Frames
    <3>. HIDE DEF t
    <3>3. /\ h \in State /\ h.fPrimaryReplica = None /\ h.current = <<>> /\ ~h.reading
          /\ h.produced = t.produced /\ h.fInputSourceHasClosed = t.fInputSourceHasClosed
          /\ h.fFrameIndex = d.fFrameIndex /\ h.index = d.index
          /\ h.next = d.next /\ h.awaiting = d.awaiting
          /\ Counts(h) = Counts(d) /\ Frames(h) = Frames(d) /\ h.noted = d.noted
      BY <3>2 DEF State, Source, Counts, Frames, StopSource
    <3>4. w = h
      BY <1>3, <1>4, <2>1, <2>2
    <3>. HIDE DEF h
    <3>5. h.produced = s.produced /\ ~h.fInputSourceHasClosed
      BY <1>3, <3>2, <3>3 DEF Source
    <3>6. ActiveIn(h) = ActiveIn(s) \ {r} /\ ServedIn(h) = {}
      <4>1. ActiveIn(h) = ActiveIn(d)
        BY <3>3 DEF ActiveIn
      <4>2. ServedIn(h) = ServedIn(d)
        BY <3>3, <4>1 DEF ServedIn
      <4>. QED  BY <1>2, <3>1, <4>1, <4>2
    <3>7. ListsRight(h)
      <4>1. IsInjective(h.current) /\ IsInjective(h.next) /\ ToSet(h.current) = {}
            /\ ToSet(h.next) = {} /\ C = {} /\ ToSet(s.next) = {}
        BY <1>2, <1>6, <3>1, <3>3 DEF IsInjective, ToSet
      <4>2. \A x \in Replicas : ~h.awaiting[x]
        <5>1. \A x \in Replicas : s.awaiting[x] => x = r
          BY <1>1, <4>1 DEF Core, ListsRight
        <5>. QED  BY <1>1, <1>2, <3>3, <5>1 DEF State
      <4>. QED  BY <3>3, <4>1, <4>2, NoneAssumption DEF ListsRight
    <3>8. CountersRight(h)
      BY <1>2, <3>1, <3>3, <3>6 DEF CountersRight, Counts
    <3>9. FramesRight(h)
      <4>1. ~FramePending(h) /\ ~FramePending(s) /\ h.last = d.last
        BY <2>2, <3>3 DEF FramePending, Frames
      <4>2. \A x \in ActiveIn(h) : h.last[x] = h.produced
        BY <1>1, <1>2, <3>5, <3>6, <4>1 DEF Core, FramesRight
      <4>. QED  BY <1>1, <1>2, <3>3, <4>1, <4>2 DEF Core, FramesRight
    <3>10. Core(h)
      BY <1>1, <1>2, <3>1, <3>3, <3>7, <3>8, <3>9 DEF Core
    <3>. QED  BY <1>2, <3>1, <3>3, <3>4, <3>5, <3>6, <3>10 DEF Quiet, FramePending
  <2>3. CASE ~s.reading
    <3>1. YetToAsk(s) # {}
      BY <1>1, <2>3 DEF Quiet, FramePending
    <3>2. s.fNumActiveReplicas = Cardinality(ActiveIn(s)) /\ ~(s.fNumActiveReplicas > 1)
          /\ s.fNumActiveReplicas \in Nat /\ IsFiniteSet(ActiveIn(s))
      BY <1>1, <1>6, <2>3, ReplicaSets DEF Core, CountersRight
    <3>3. {r} \in SUBSET ActiveIn(s) /\ Cardinality({r}) = 1
      BY FS_Singleton
    <3>4. ActiveIn(s) = {r}
      BY <3>2, <3>3, FewerThan
    <3>. QED  BY <3>1, <3>4 DEF YetToAsk
  <2>. QED  BY <2>2, <2>3
<1>7. CASE s.current # <<>>
  <2>1. /\ new \in C /\ rest \in Seq(Replicas) /\ ToSet(rest) = C \ {new} /\ IsInjective(rest)
    BY <1>1, <1>7, HeadAndTail
  <2>2. new \in Replicas /\ new # None
    BY <1>1, <2>1, NoneAssumption
  <2>. HIDE DEF new, rest, C
  <2>3. ServedIn(s) = {} /\ s.next = <<>> /\ ToSet(s.next) = {}
    <3>1. ServedIn(s) = {}
      BY <1>7 DEF Quiet
    <3>2. ToSet(s.next) = {}
      BY <1>1, <3>1 DEF Core, ListsRight
    <3>. QED  BY <1>1, <3>1, <3>2, EmptyList
  <2>4. /\ t \in State /\ t.fPrimaryReplica = new /\ t.current = rest
        /\ Source(t) = Source(d) /\ t.fFrameIndex = d.fFrameIndex /\ t.index = d.index
        /\ t.next = d.next /\ t.awaiting = d.awaiting /\ t.buffer = d.buffer /\ t.last = d.last
        /\ Counts(t) = Counts(d) /\ t.noted = d.noted
    BY <1>2, <2>1, <2>2 DEF State, Source, Counts
  <2>. HIDE DEF t
  <2>5. ASSUME NEW v, v.fPrimaryReplica = new, v.current = rest, v.index = d.index,
               v.fFrameIndex = d.fFrameIndex, v.next = d.next, v.awaiting = d.awaiting,
               Counts(v) = Counts(d)
        PROVE  /\ ActiveIn(v) = ActiveIn(s) \ {r} /\ ServedIn(v) = {}
               /\ ListsRight(v) /\ CountersRight(v)
    <3>1. ActiveIn(v) = ActiveIn(s) \ {r} /\ ServedIn(v) = {}
      <4>1. ActiveIn(v) = ActiveIn(d)
        BY <2>5 DEF ActiveIn
      <4>2. ServedIn(v) = ServedIn(d)
        BY <2>5, <4>1 DEF ServedIn
      <4>. QED  BY <1>2, <2>3, <4>1, <4>2
    <3>2. \A x \in Replicas : v.awaiting[x] <=> x \in C
      <4>1. \A x \in Replicas : s.awaiting[x] <=> x \in C \/ x = r
        BY <1>1, <2>3 DEF Core, ListsRight, C
      <4>2. \A x \in Replicas : d.awaiting[x] <=> s.awaiting[x] /\ x # r
        BY <1>1, <1>2 DEF State
      <4>3. r \notin C /\ v.awaiting = d.awaiting
        BY <1>1, <2>5
      <4>. QED  BY <4>1, <4>2, <4>3
    <3>3. ListsRight(v)
      BY <1>1, <1>2, <2>1, <2>2, <2>3, <2>5, <3>1, <3>2 DEF ListsRight
    <3>4. CountersRight(v)
      BY <1>2, <2>3, <2>5, <3>1 DEF CountersRight, Counts
    <3>. QED  BY <3>1, <3>3, <3>4
  <2>6. CASE s.reading
    <3>1. w \in ReadAndDeliver(h)
      BY <1>3, <1>4, <2>2, <2>6
    <3>2. /\ h \in State /\ h.fPrimaryReplica = new /\ h.current = rest /\ ~h.reading
          /\ h.produced = t.produced /\ h.fInputSourceHasClosed = t.fInputSourceHasClosed
          /\ h.fFrameIndex = d.fFrameIndex /\ h.index = d.index
          /\ h.next = d.next /\ h.awaiting = d.awaiting /\ h.buffer = d.buffer /\ h.last = d.last
          /\ Counts(h) = Counts(d) /\ h.noted = d.noted
      BY <2>4 DEF State, Counts, StopSource
    <3>. HIDE DEF h
    <3>3. /\ g \in State /\ g.fPrimaryReplica = new /\ g.current = rest /\ g.reading
          /\ g.produced = h.produced /\ g.fInputSourceHasClosed = h.fInputSourceHasClosed
          /\ g.fFrameIndex = d.fFrameIndex /\ g.index = d.index
          /\ g.next = d.next /\ g.awaiting = d.awaiting /\ g.buffer = d.buffer /\ g.last = d.last
          /\ Counts(g) = Counts(d) /\ g.noted = d.noted
      BY <3>2 DEF State, Counts
    <3>. HIDE DEF g
    <3>4. g.produced = s.produced /\ ~g.fInputSourceHasClosed
      BY <1>3, <2>4, <3>2, <3>3 DEF Source
    <3>5. /\ ActiveIn(g) = ActiveIn(s) \ {r} /\ ServedIn(g) = {}
          /\ ListsRight(g) /\ CountersRight(g)
      BY <2>5, <3>3
    <3>6. ActiveIn(h) = ActiveIn(g)
      BY <3>2, <3>3 DEF ActiveIn
    <3>7. FramesRight(g)
      <4>1. ~FramePending(g) /\ ~FramePending(s)
        BY <2>6, <3>3 DEF FramePending
      <4>2. \A x \in ActiveIn(g) : g.last[x] = g.produced
        BY <1>1, <1>2, <3>3, <3>4, <3>5, <4>1 DEF Core, FramesRight
      <4>. QED  BY <1>1, <1>2, <3>3, <4>1, <4>2 DEF Core, FramesRight
    <3>8. Core(g)
      BY <1>1, <1>2, <2>2, <2>3, <3>3, <3>4, <3>5, <3>7 DEF Core
    <3>. QED  BY <3>1, <3>2, <3>5, <3>6, <3>8, Asked DEF g
  <2>7. CASE ~s.reading
    <3>1. w = b
      BY <1>3, <1>4, <2>2, <2>7
    <3>2. s.buffer[r] \in Nat /\ [s.buffer EXCEPT ![new] = s.buffer[r]] \in [Replicas -> Nat]
      BY <1>1, <2>2 DEF State
    <3>3. /\ b.fPrimaryReplica = new /\ b.current = rest
          /\ Source(b) = Source(t) /\ b.fFrameIndex = d.fFrameIndex /\ b.index = d.index
          /\ b.next = d.next /\ b.awaiting = d.awaiting
          /\ b.buffer = [s.buffer EXCEPT ![new] = s.buffer[r]] /\ b.last = d.last
          /\ Counts(b) = Counts(d) /\ b.noted = d.noted
      BY <1>2, <2>4 DEF State, Counts, Source
    <3>4. b \in State
      <4>1. b = [t EXCEPT !.buffer = [s.buffer EXCEPT ![new] = s.buffer[r]]]
        BY <1>2, <2>4
      <4>. HIDE DEF b
      <4>. QED  BY <2>4, <3>2, <4>1 DEF State
    <3>. HIDE DEF b
    <3>5. b.produced = s.produced /\ ~b.fInputSourceHasClosed /\ ~b.reading
      BY <1>3, <2>4, <2>7, <3>3 DEF Source
    <3>6. /\ ActiveIn(b) = ActiveIn(s) \ {r} /\ ServedIn(b) = {}
          /\ ListsRight(b) /\ CountersRight(b)
      BY <2>5, <3>3
    <3>7. FramePending(b) /\ FramePending(s)
      BY <1>1, <2>2, <2>7, <3>3, <3>5 DEF FramePending
    <3>8. FramesRight(b)
      <4>1. /\ s.buffer[r] = s.produced /\ s.produced > 0
            /\ s.noted \cap {"again", "skipped"} = {}
            /\ \A x \in ActiveIn(s) : s.last[x] = IF s.index[x] = s.fFrameIndex
                                                  THEN s.produced - 1 ELSE s.produced
        BY <1>1, <3>7 DEF Core, FramesRight
      <4>2. b.buffer[new] = s.produced
        BY <1>1, <2>2, <3>3, <4>1 DEF State
      <4>. QED  BY <1>2, <3>3, <3>5, <3>6, <3>7, <4>1, <4>2 DEF FramesRight
    <3>9. Core(b)
      BY <1>1, <1>2, <2>3, <3>3, <3>4, <3>5, <3>6, <3>8 DEF Core
    <3>10. YetToAsk(b) # {}
      <4>1. YetToAsk(s) # {}
        BY <3>7 DEF Quiet
      <4>2. YetToAsk(s) = (ActiveIn(s) \ {r}) \ C
        BY <2>3 DEF YetToAsk, C
      <4>3. YetToAsk(b) = (ActiveIn(s) \ {r}) \ C
        BY <2>1, <3>3, <3>6 DEF YetToAsk
      <4>. QED  BY <4>1, <4>2, <4>3
    <3>. QED  BY <2>2, <3>1, <3>3, <3>5, <3>6, <3>7, <3>9, <3>10 DEF Quiet
  <2>. QED  BY <2>6, <2>7
<1>. QED
  BY <1>6, <1>7

\* deactivateStreamReplica, of whatever replica.
LEMMA Deactivated ==
  ASSUME NEW s, Quiet(s), NEW r \in Replicas,
         s.fInputSourceHasClosed => r # s.fPrimaryReplica,
         s.fInputSourceHasClosed /\ s.next # <<>> /\ r \in ActiveIn(s) => r \in ServedIn(s),
         ~(/\ r = s.fPrimaryReplica /\ ~s.reading
           /\ s.current = <<>> /\ s.fNumActiveReplicas > 1),
         NEW w \in Deactivate(s, r)
  PROVE  /\ Quiet(w) /\ ActiveIn(w) = ActiveIn(s) \ {r}
         /\ w.fInputSourceHasClosed = s.fInputSourceHasClosed
         /\ w.fInputSourceHasClosed /\ s.current = <<>> => w.current = <<>>
         /\ w.fInputSourceHasClosed /\ s.fPrimaryReplica = None => w.fPrimaryReplica = None
<1>1. s \in State /\ Core(s) /\ ListsRight(s) /\ s.fInputSourceHasClosed \in BOOLEAN
  BY DEF Quiet, Core, State
<1>2. CASE s.index[r] = -1
  <2>1. r \notin ActiveIn(s)
    BY <1>2 DEF ActiveIn
  <2>2. s.awaiting[r] = FALSE
    <3>1. ~s.awaiting[r]
      BY <1>1, <2>1, NoneAssumption DEF ListsRight, ServedIn
    <3>. QED  BY <1>1, <3>1 DEF State
  <2>3. [s.awaiting EXCEPT ![r] = FALSE] = s.awaiting
    BY <1>1, <2>2 DEF State
  <2>4. [s EXCEPT !.awaiting[r] = FALSE] = [s EXCEPT !.awaiting = s.awaiting]
    BY <2>3
  <2>5. [s EXCEPT !.awaiting = s.awaiting] = s
    BY <1>1 DEF State
  <2>6. w = s
    BY <1>2, <2>4, <2>5 DEF Deactivate
  <2>. QED  BY <2>1, <2>6
<1>3. CASE s.index[r] # -1
  <2>1. r \in ActiveIn(s)
    BY <1>3 DEF ActiveIn
  <2>2. s.fNumActiveReplicas > 0 /\ Leaving(s, r).fPrimaryReplica = s.fPrimaryReplica
    BY <1>1, <2>1, Departed
  <2>3. PICK u : /\ u \in IF r = s.fPrimaryReplica THEN ReplacePrimary(Leaving(s, r), r)
                          ELSE LeaveLists(Leaving(s, r), r)
                 /\ w = IF u.fNumActiveReplicas = 0 THEN StopSource(u) ELSE u
    <3>1. s.fNumActiveReplicas # 0
      BY <1>1, <2>2 DEF State
    <3>2. Noted(s, "error 0", s.fNumActiveReplicas = 0) = s
      BY <3>1 DEF Noted
    <3>. QED  BY <1>3, <3>2 DEF Deactivate, Leaving
  <2>4. /\ Quiet(u) /\ ActiveIn(u) = ActiveIn(s) \ {r}
        /\ u.fInputSourceHasClosed = s.fInputSourceHasClosed
        /\ u.fInputSourceHasClosed /\ s.current = <<>> => u.current = <<>>
        /\ u.fInputSourceHasClosed /\ s.fPrimaryReplica = None => u.fPrimaryReplica = None
    <3>1. CASE r = s.fPrimaryReplica
      <4>1. /\ Quiet(u) /\ ActiveIn(u) = ActiveIn(s) \ {r} /\ ~u.fInputSourceHasClosed
        BY <2>1, <2>3, <3>1, PrimaryLeft
      <4>. QED  BY <1>1, <3>1, <4>1 DEF Quiet, Core, State
    <3>2. CASE r # s.fPrimaryReplica
      BY <2>1, <2>3, <3>2, OtherLeft
    <3>. QED  BY <3>1, <3>2
  <2>5. CASE u.fNumActiveReplicas = 0
    BY <2>3, <2>4, <2>5, Stopped
  <2>6. CASE u.fNumActiveReplicas # 0
    BY <2>3, <2>4, <2>6
  <2>. QED  BY <2>5, <2>6
<1>. QED
  BY <1>2, <1>3

\* In a closure: r is the first in its list, or the primary, and t is s without it.
TakenFrom(s, t, r) ==
    \/ /\ s.current # <<>> /\ r = Head(s.current) /\ t.current = Tail(s.current)
       /\ t.next = s.next /\ t.fPrimaryReplica = s.fPrimaryReplica
    \/ /\ s.current = <<>> /\ s.next # <<>> /\ r = Head(s.next) /\ t.next = Tail(s.next)
       /\ t.current = s.current /\ t.fPrimaryReplica = s.fPrimaryReplica
    \/ /\ s.current = <<>> /\ s.next = <<>> /\ r = s.fPrimaryReplica
       /\ t.current = s.current /\ t.next = s.next /\ t.fPrimaryReplica = None

\* It awaits nothing any more, and the rest is the same.
Released(s, t, r) ==
    /\ t \in State
    /\ t.awaiting = [s.awaiting EXCEPT ![r] = FALSE]
    /\ t.fInputSourceHasClosed = s.fInputSourceHasClosed /\ t.reading = s.reading
    /\ t.fFrameIndex = s.fFrameIndex /\ t.index = s.index
    /\ Counts(t) = Counts(s) /\ t.noted = s.noted

\* That leaves everything as it should be.
LEMMA Popped ==
  ASSUME NEW s, Quiet(s), s.fInputSourceHasClosed, NEW r \in Replicas, NEW t,
         TakenFrom(s, t, r), Released(s, t, r)
  PROVE  /\ Quiet(t) /\ ActiveIn(t) = ActiveIn(s) /\ r \in ActiveIn(t)
         /\ t.fInputSourceHasClosed /\ t.fPrimaryReplica # r
         /\ t.next # <<>> => r \in ServedIn(t)
<1>1. /\ s \in State /\ Core(s)
      /\ s.current \in Seq(Replicas) /\ s.next \in Seq(Replicas)
      /\ IsInjective(s.current) /\ IsInjective(s.next)
      /\ ToSet(s.current) \subseteq ActiveIn(s) \ ServedIn(s)
      /\ ToSet(s.next) \subseteq ServedIn(s)
      /\ s.fPrimaryReplica # None => s.fPrimaryReplica \in ActiveIn(s) \ ServedIn(s)
      /\ s.fPrimaryReplica \notin ToSet(s.current)
      /\ \A x \in Replicas : s.awaiting[x] <=> \/ x \in ToSet(s.current) \cup ToSet(s.next)
                                               \/ x = s.fPrimaryReplica
  BY DEF Quiet, Core, State, ListsRight
<1>2. /\ t \in State /\ t.awaiting = [s.awaiting EXCEPT ![r] = FALSE]
      /\ t.fInputSourceHasClosed = s.fInputSourceHasClosed /\ t.reading = s.reading
      /\ t.fFrameIndex = s.fFrameIndex /\ t.index = s.index
      /\ Counts(t) = Counts(s) /\ t.noted = s.noted
  BY DEF Released
<1>3. ActiveIn(t) = ActiveIn(s) /\ ServedIn(t) = ServedIn(s)
  <2>1. ActiveIn(t) = ActiveIn(s)
    BY <1>2 DEF ActiveIn
  <2>. QED  BY <1>2, <2>1 DEF ServedIn
<1>4. \A x \in Replicas : t.awaiting[x] <=> s.awaiting[x] /\ x # r
  <2>1. s.awaiting \in [Replicas -> BOOLEAN]
    BY <1>1 DEF State
  <2>. QED  BY <1>2, <2>1
<1>5. CountersRight(t) /\ FramesRight(t) /\ ~t.reading /\ t.noted \cap Errors = {}
  BY <1>1, <1>2, <1>3 DEF Core, CountersRight, FramesRight, Counts
<1>6. /\ ToSet(s.current) = {} <=> s.current = <<>>
      /\ ToSet(s.next) = {} <=> s.next = <<>>
      /\ ToSet(s.current) \subseteq Replicas /\ ToSet(s.next) \subseteq Replicas
  BY <1>1, EmptyList
<1>7. CASE /\ s.current # <<>> /\ r = Head(s.current) /\ t.current = Tail(s.current)
           /\ t.next = s.next /\ t.fPrimaryReplica = s.fPrimaryReplica
  <2>1. /\ r \in ToSet(s.current) /\ ToSet(t.current) = ToSet(s.current) \ {r}
        /\ IsInjective(t.current)
    BY <1>1, <1>7, HeadAndTail
  <2>2. ServedIn(s) = {} /\ s.next = <<>> /\ s.fPrimaryReplica # None
    BY <1>1, <1>6, <1>7 DEF Quiet
  <2>3. ListsRight(t)
    BY <1>1, <1>3, <1>4, <1>7, <2>1, <2>2 DEF ListsRight
  <2>4. Core(t)
    BY <1>2, <1>5, <1>7, <2>2, <2>3 DEF Core
  <2>. QED  BY <1>1, <1>2, <1>3, <1>7, <2>1, <2>2, <2>4 DEF Quiet
<1>8. CASE /\ s.current = <<>> /\ s.next # <<>> /\ r = Head(s.next) /\ t.next = Tail(s.next)
           /\ t.current = s.current /\ t.fPrimaryReplica = s.fPrimaryReplica
  <2>1. /\ r \in ToSet(s.next) /\ ToSet(t.next) = ToSet(s.next) \ {r}
        /\ IsInjective(t.next)
    BY <1>1, <1>8, HeadAndTail
  <2>2. r \in ServedIn(s) /\ s.fPrimaryReplica # None /\ r # s.fPrimaryReplica
    BY <1>1, <1>8, <2>1 DEF Quiet
  <2>3. ListsRight(t)
    BY <1>1, <1>3, <1>4, <1>6, <1>8, <2>1, <2>2 DEF ListsRight
  <2>4. YetToAsk(t) = YetToAsk(s) /\ YetToAsk(s) # {}
    BY <1>1, <1>3, <1>8 DEF YetToAsk, Core
  <2>5. Core(t)
    BY <1>2, <1>5, <1>8, <2>3, <2>4 DEF Core
  <2>6. t.current = <<>> /\ t.fPrimaryReplica # None /\ t.fPrimaryReplica # r
    BY <1>8, <2>2
  <2>7. Quiet(t)
    BY <1>2, <2>5, <2>6 DEF Quiet
  <2>8. r \in ServedIn(t) /\ r \in ActiveIn(t)
    BY <1>3, <2>2 DEF ServedIn
  <2>. QED  BY <1>2, <1>3, <2>6, <2>7, <2>8
<1>9. CASE /\ s.current = <<>> /\ s.next = <<>> /\ r = s.fPrimaryReplica
           /\ t.current = s.current /\ t.next = s.next /\ t.fPrimaryReplica = None
  <2>1. r # None /\ r \in ActiveIn(s)
    BY <1>1, <1>9, NoneAssumption
  <2>2. ListsRight(t)
    BY <1>1, <1>3, <1>4, <1>6, <1>9, NoneAssumption DEF ListsRight
  <2>3. Core(t)
    BY <1>2, <1>5, <1>9, <2>2 DEF Core
  <2>. QED  BY <1>2, <1>3, <1>9, <2>1, <2>3 DEF Quiet
<1>. QED
  BY <1>7, <1>8, <1>9 DEF TakenFrom

-----------------------------------------------------------------------------
(* The steps.                                                              *)

\* deactivateStreamReplica in a closure, for a replica that is no longer awaited.
LEMMA ClosedOne ==
  ASSUME NEW t, Quiet(t), NEW r \in Replicas, t.fInputSourceHasClosed, t.fPrimaryReplica # r,
         t.next # <<>> /\ r \in ActiveIn(t) => r \in ServedIn(t), NEW w \in Deactivate(t, r)
  PROVE  /\ Quiet(w) /\ ActiveIn(w) = ActiveIn(t) \ {r}
         /\ w.fInputSourceHasClosed
         /\ t.current = <<>> => w.current = <<>>
         /\ t.fPrimaryReplica = None => w.fPrimaryReplica = None
BY Deactivated

\* The closure of one replica.
LEMMA Handled ==
  ASSUME Inv, NEW s, NEW r \in Replicas, HandleClosure(s, r),
         NEW t, t = [s EXCEPT !.awaiting[r] = FALSE],
         Quiet(t), t.fInputSourceHasClosed, ActiveIn(t) = ActiveIn(rep),
         t.fPrimaryReplica # r,
         t.next # <<>> /\ r \in ActiveIn(t) => r \in ServedIn(t)
  PROVE  /\ Quiet(rep')
         /\ kind' \in [Replicas -> Kinds \cup {"none"}]
         /\ \A x \in ActiveIn(rep') : kind'[x] # "none"
         /\ rep'.fInputSourceHasClosed
         /\ t.current = <<>> => rep'.current = <<>>
         /\ t.fPrimaryReplica = None => rep'.fPrimaryReplica = None
<1>1. CASE kind[r] = "stream"
  <2>1. rep' \in Deactivate(t, r) /\ kind' = [kind EXCEPT ![r] = "none"]
    BY <1>1 DEF HandleClosure
  <2>2. /\ Quiet(rep') /\ ActiveIn(rep') = ActiveIn(t) \ {r}
        /\ rep'.fInputSourceHasClosed
        /\ t.current = <<>> => rep'.current = <<>>
        /\ t.fPrimaryReplica = None => rep'.fPrimaryReplica = None
    BY <2>1, ClosedOne
  <2>3. /\ kind \in [Replicas -> Kinds \cup {"none"}]
        /\ \A x \in ActiveIn(rep) : kind[x] # "none"
    BY DEF Inv, Exists
  <2>4. kind' \in [Replicas -> Kinds \cup {"none"}]
    BY <2>1, <2>3
  <2>5. \A x \in ActiveIn(rep') : kind'[x] # "none"
    BY <2>1, <2>2, <2>3 DEF ActiveIn
  <2>. QED  BY <2>2, <2>4, <2>5
<1>2. CASE kind[r] # "stream"
  BY <1>2 DEF HandleClosure, Inv, Exists
<1>. QED
  BY <1>1, <1>2

LEMMA RequestStep ==
  ASSUME Inv, NEW r \in Replicas, Request(r)
  PROVE  Inv'
<1>1. /\ Quiet(rep) /\ rep \in State /\ closing = "no" /\ closing' = "no"
      /\ Exists(r) /\ ~rep.awaiting[r]
  BY DEF Inv, Quiet, Core, Request
<1>2. CASE rep.fInputSourceHasClosed
  <2>1. rep.fPrimaryReplica = None /\ rep.next = <<>>
    BY <1>1, <1>2 DEF Inv, Quiet
  <2>2. rep = [rep EXCEPT !.awaiting[r] = FALSE]
    <3>1. rep.awaiting[r] = FALSE /\ [rep.awaiting EXCEPT ![r] = FALSE] = rep.awaiting
      BY <1>1 DEF State
    <3>2. [rep EXCEPT !.awaiting[r] = FALSE] = [rep EXCEPT !.awaiting = rep.awaiting]
      BY <3>1
    <3>. QED  BY <1>1, <3>2 DEF State
  <2>3. HandleClosure(rep, r)
    BY <1>2 DEF Request
  <2>4. /\ Quiet(rep') /\ kind' \in [Replicas -> Kinds \cup {"none"}]
        /\ \A x \in ActiveIn(rep') : kind'[x] # "none"
        /\ rep'.fInputSourceHasClosed /\ rep'.fPrimaryReplica = None
    BY <1>1, <1>2, <2>1, <2>2, <2>3, NoneAssumption, Handled
  <2>. QED  BY <1>1, <2>4 DEF Inv, Exists
<1>3. CASE ~rep.fInputSourceHasClosed
  <2>1. rep' \in GetNextFrame(rep, r) /\ kind' = kind
    BY <1>3 DEF Request
  <2>2. Quiet(rep') /\ ActiveIn(rep') = ActiveIn(rep) \cup {r} /\ ~rep'.fInputSourceHasClosed
    BY <1>1, <1>3, <2>1, Requested
  <2>. QED  BY <1>1, <2>1, <2>2 DEF Inv, Exists
<1>. QED
  BY <1>2, <1>3

\* A camera that does not start: its only reader waits for the closure.
LEMMA RequestFailsStep ==
  ASSUME Inv, NEW r \in Replicas, RequestFails(r)
  PROVE  Inv'
<1>. DEFINE a == Activated(rep, r)  w == rep'
<1>1. /\ Quiet(rep) /\ Core(rep) /\ rep \in State /\ CountersRight(rep) /\ FramesRight(rep)
      /\ ~rep.fInputSourceHasClosed /\ rep.fPrimaryReplica = None
      /\ rep.current = <<>> /\ rep.next = <<>> /\ ~rep.reading /\ ServedIn(rep) = {}
      /\ rep.noted \cap Errors = {}
      /\ Exists(r) /\ kind' = kind /\ closing' = "current"
  BY DEF Inv, Quiet, Core, RequestFails, FramePending
<1>2. /\ a \in State /\ CountersRight(a)
      /\ ActiveIn(a) = ActiveIn(rep) \cup {r} /\ ServedIn(a) = {}
      /\ Source(a) = Source(rep) /\ a.fFrameIndex = rep.fFrameIndex
      /\ a.current = <<>> /\ a.next = <<>>
      /\ a.awaiting = rep.awaiting /\ a.noted = rep.noted
  BY <1>1, Joined
<1>. HIDE DEF a
<1>3. rep' = [a EXCEPT !.awaiting[r] = TRUE, !.fPrimaryReplica = r,
                       !.listening = TRUE, !.fInputSourceHasClosed = TRUE]
  BY DEF RequestFails, a
<1>4. PICK v : v = rep'
  OBVIOUS
<1>5. /\ v \in State /\ v.fPrimaryReplica = r /\ v.fInputSourceHasClosed
      /\ v.reading = a.reading /\ v.fFrameIndex = a.fFrameIndex /\ v.index = a.index
      /\ v.current = <<>> /\ v.next = <<>> /\ Counts(v) = Counts(a) /\ v.noted = a.noted
      /\ v.awaiting = [rep.awaiting EXCEPT ![r] = TRUE]
  BY <1>2, <1>3, <1>4 DEF State, Counts
<1>6. ActiveIn(v) = ActiveIn(rep) \cup {r} /\ ServedIn(v) = {}
  <2>1. ActiveIn(v) = ActiveIn(a)
    BY <1>5 DEF ActiveIn
  <2>2. ServedIn(v) = ServedIn(a)
    BY <1>5, <2>1 DEF ServedIn
  <2>. QED  BY <1>2, <2>1, <2>2
<1>7. ListsRight(v)
  <2>1. IsInjective(v.current) /\ IsInjective(v.next) /\ ToSet(v.current) = {}
        /\ ToSet(v.next) = {} /\ ToSet(rep.current) = {} /\ ToSet(rep.next) = {}
    BY <1>1, <1>5 DEF IsInjective, ToSet
  <2>2. \A x \in Replicas : ~rep.awaiting[x]
    BY <1>1, <2>1, NoneAssumption DEF Core, ListsRight
  <2>3. \A x \in Replicas : v.awaiting[x] <=> x = r
    <3>1. rep.awaiting \in [Replicas -> BOOLEAN]
      BY <1>1 DEF State
    <3>. QED  BY <1>5, <2>2, <3>1
  <2>. QED  BY <1>5, <1>6, <2>1, <2>3 DEF ListsRight
<1>8. CountersRight(v) /\ FramesRight(v)
  <2>1. Counts(v) = Counts(a) /\ ActiveIn(v) = ActiveIn(a) /\ ServedIn(v) = ServedIn(a)
    BY <1>2, <1>5, <1>6
  <2>. QED  BY <1>2, <1>5, <2>1 DEF CountersRight, FramesRight, Counts
<1>9. ~v.reading
  BY <1>1, <1>2, <1>5 DEF Source
<1>10. Core(v)
  BY <1>1, <1>2, <1>5, <1>7, <1>8, <1>9 DEF Core
<1>11. Quiet(v)
  BY <1>5, <1>6, <1>10, NoneAssumption DEF Quiet
<1>. QED
  BY <1>1, <1>4, <1>5, <1>6, <1>11 DEF Inv, Exists

LEMMA CreateStep ==
  ASSUME Inv, NEW r \in Replicas, CreateStreamReplica(r)
  PROVE  Inv'
<1>1. /\ Quiet(rep) /\ Core(rep) /\ rep \in State /\ ~Exists(r) /\ closing' = closing
      /\ kind \in [Replicas -> Kinds \cup {"none"}]
      /\ \A x \in ActiveIn(rep) : Exists(x)
  BY DEF Inv, Quiet, Core, CreateStreamReplica
<1>2. PICK v : v = rep' /\ v = [rep EXCEPT !.buffer[r] = 0]
  BY DEF CreateStreamReplica
<1>3. PICK k \in Kinds : kind' = [kind EXCEPT ![r] = k]
  BY DEF CreateStreamReplica
<1>4. /\ Source(v) = Source(rep) /\ Queues(v) = Queues(rep) /\ Counts(v) = Counts(rep)
      /\ v.awaiting = rep.awaiting /\ v.noted = rep.noted /\ v.last = rep.last
      /\ v.buffer = [rep.buffer EXCEPT ![r] = 0]
  BY <1>1, <1>2 DEF State, Source, Queues, Counts
<1>5. v \in State
  <2>1. [rep.buffer EXCEPT ![r] = 0] \in [Replicas -> Nat]
    BY <1>1 DEF State
  <2>2. v = [rep EXCEPT !.buffer = [rep.buffer EXCEPT ![r] = 0]]
    BY <1>2
  <2>. QED  BY <1>1, <2>1, <2>2 DEF State
<1>6. /\ v.produced = rep.produced /\ v.reading = rep.reading
      /\ v.fInputSourceHasClosed = rep.fInputSourceHasClosed
      /\ v.fPrimaryReplica = rep.fPrimaryReplica /\ v.current = rep.current
      /\ v.next = rep.next /\ v.fFrameIndex = rep.fFrameIndex /\ v.index = rep.index
      /\ v.fNumActiveReplicas = rep.fNumActiveReplicas
      /\ v.fNumDeliveriesMadeSoFar = rep.fNumDeliveriesMadeSoFar
  BY <1>4 DEF Source, Queues, Counts
<1>7. ActiveIn(v) = ActiveIn(rep) /\ ServedIn(v) = ServedIn(rep)
  BY <1>6 DEF ActiveIn, ServedIn
<1>8. FramePending(v) <=> FramePending(rep)
  BY <1>6 DEF FramePending
<1>9. r \notin ActiveIn(rep) /\ (rep.fPrimaryReplica # None => rep.fPrimaryReplica # r)
  BY <1>1 DEF Core, ListsRight
<1>10. ListsRight(v) /\ CountersRight(v)
  BY <1>1, <1>4, <1>6, <1>7 DEF Core, ListsRight, CountersRight
<1>11. FramesRight(v)
  <2>1. FramePending(rep) => v.buffer[rep.fPrimaryReplica] = rep.buffer[rep.fPrimaryReplica]
    BY <1>1, <1>4, <1>9 DEF State, FramePending
  <2>. QED  BY <1>1, <1>4, <1>6, <1>7, <1>8, <2>1 DEF Core, FramesRight
<1>12. YetToAsk(v) = YetToAsk(rep)
  BY <1>6, <1>7 DEF YetToAsk
<1>13. Quiet(v)
  BY <1>1, <1>4, <1>5, <1>6, <1>7, <1>8, <1>10, <1>11, <1>12 DEF Quiet, Core
<1>14. /\ kind' \in [Replicas -> Kinds \cup {"none"}]
       /\ \A x \in ActiveIn(rep) : kind'[x] # "none"
  BY <1>1, <1>3, <1>9 DEF ActiveIn, Exists
<1>. QED
  BY <1>1, <1>2, <1>6, <1>7, <1>13, <1>14 DEF Inv, Exists

\* Whoever may leave takes no frame along that others are yet to ask for.
LEMMA LeaveStep ==
  ASSUME PrimaryMayLeave = FALSE, Inv, NEW r \in Replicas, Stop(r) \/ RemoveReplica(r)
  PROVE  Inv'
<1>1. /\ Quiet(rep) /\ closing = "no" /\ closing' = "no" /\ ~Strands(r)
      /\ kind \in [Replicas -> Kinds \cup {"none"}]
      /\ \A x \in ActiveIn(rep) : Exists(x)
      /\ rep.fInputSourceHasClosed => rep.fPrimaryReplica = None
  BY DEF Inv, Stop, RemoveReplica, MayLeave
<1>2. PICK w : w = rep' /\ w \in Deactivate(rep, r)
  BY DEF Stop, RemoveReplica
<1>3. rep.fInputSourceHasClosed => rep.next = <<>> /\ r # rep.fPrimaryReplica
  BY <1>1, NoneAssumption DEF Quiet
<1>4. /\ Quiet(w) /\ ActiveIn(w) = ActiveIn(rep) \ {r}
      /\ w.fInputSourceHasClosed = rep.fInputSourceHasClosed
      /\ w.fInputSourceHasClosed /\ rep.fPrimaryReplica = None => w.fPrimaryReplica = None
  BY <1>1, <1>2, <1>3, Deactivated DEF Strands
<1>5. kind' = kind \/ kind' = [kind EXCEPT ![r] = "none"]
  BY DEF Stop, RemoveReplica
<1>6. /\ kind' \in [Replicas -> Kinds \cup {"none"}]
      /\ \A x \in ActiveIn(w) : kind'[x] # "none"
  BY <1>1, <1>4, <1>5 DEF ActiveIn, Exists
<1>. QED
  BY <1>1, <1>2, <1>4, <1>6 DEF Inv, Exists

LEMMA FrameArrivesStep ==
  ASSUME Inv, FrameArrives
  PROVE  Inv'
<1>1. /\ Core(rep) /\ rep.reading /\ ServedIn(rep) = {} /\ closing' = closing /\ kind' = kind
      /\ closing = "no"
  BY DEF Inv, Quiet, Core, FrameArrives, FramePending
<1>2. PICK w : w = rep' /\ w \in AfterGettingFrame(rep)
  BY DEF FrameArrives
<1>3. Quiet(w) /\ ActiveIn(w) = ActiveIn(rep) /\ ~w.fInputSourceHasClosed
  BY <1>1, <1>2, Arrived
<1>. QED
  BY <1>1, <1>2, <1>3 DEF Inv, Exists

LEMMA SourceClosesStep ==
  ASSUME Inv, SourceCloses
  PROVE  Inv'
<1>1. /\ Quiet(rep) /\ Core(rep) /\ rep \in State /\ closing = "no"
      /\ closing' = "current" /\ kind' = kind
  BY DEF Inv, Quiet, Core, SourceCloses
<1>2. PICK v : v = rep' /\ v = [rep EXCEPT !.reading = FALSE, !.fInputSourceHasClosed = TRUE]
  BY DEF SourceCloses
<1>3. /\ v \in State /\ v.fInputSourceHasClosed /\ ~v.reading
      /\ Queues(v) = Queues(rep) /\ Counts(v) = Counts(rep)
      /\ v.awaiting = rep.awaiting /\ v.noted = rep.noted
  BY <1>1, <1>2 DEF State, Queues, Counts
<1>4. /\ v.fPrimaryReplica = rep.fPrimaryReplica /\ v.current = rep.current
      /\ v.next = rep.next /\ v.fFrameIndex = rep.fFrameIndex /\ v.index = rep.index
      /\ v.fNumActiveReplicas = rep.fNumActiveReplicas
      /\ v.fNumDeliveriesMadeSoFar = rep.fNumDeliveriesMadeSoFar
  BY <1>3 DEF Queues, Counts
<1>5. ActiveIn(v) = ActiveIn(rep) /\ ServedIn(v) = ServedIn(rep)
  BY <1>4 DEF ActiveIn, ServedIn
<1>6. ListsRight(v) /\ CountersRight(v) /\ FramesRight(v)
  BY <1>1, <1>3, <1>4, <1>5 DEF Core, ListsRight, CountersRight, FramesRight
<1>7. YetToAsk(v) = YetToAsk(rep)
  BY <1>4, <1>5 DEF YetToAsk
<1>8. rep.next # <<>> => YetToAsk(rep) # {}
  <2>1. CASE rep.fInputSourceHasClosed
    BY <1>1, <2>1 DEF Core
  <2>2. CASE ~rep.fInputSourceHasClosed
    <3>. HAVE rep.next # <<>>
    <3>1. ServedIn(rep) # {}
      <4>1. rep.next \in Seq(Replicas) /\ ToSet(rep.next) \subseteq ServedIn(rep)
        BY <1>1 DEF Core, State, ListsRight
      <4>2. ToSet(rep.next) # {}
        BY <4>1, EmptyList
      <4>. QED  BY <4>1, <4>2
    <3>. QED  BY <1>1, <2>2, <3>1 DEF Quiet
  <2>. QED  BY <2>1, <2>2
<1>9. Quiet(v)
  BY <1>1, <1>3, <1>4, <1>5, <1>6, <1>7, <1>8 DEF Quiet, Core
<1>. QED
  BY <1>1, <1>2, <1>3, <1>5, <1>9 DEF Inv, Exists

\* One replica after the other is taken from the lists, and handled.
LEMMA CloseWaitingStep ==
  ASSUME Inv, CloseWaiting
  PROVE  Inv'
<1>1. /\ Quiet(rep) /\ rep \in State /\ closing \in {"current", "next"}
      /\ rep.fInputSourceHasClosed /\ closing = "next" => rep.current = <<>>
      /\ rep.current \in Seq(Replicas) /\ rep.next \in Seq(Replicas)
      /\ IsInjective(rep.current) /\ IsInjective(rep.next)
  BY DEF Inv, Quiet, Core, State, ListsRight, CloseWaiting
<1>2. rep.fInputSourceHasClosed /\ closing # "no"
  BY <1>1 DEF Inv
<1>3. CASE /\ closing = "current" /\ rep.current # <<>>
           /\ HandleClosure([rep EXCEPT !.current = Tail(@)], Head(rep.current))
           /\ UNCHANGED closing
  <2>. DEFINE r == Head(rep.current)  s == [rep EXCEPT !.current = Tail(@)]
  <2>1. PICK t : t = [s EXCEPT !.awaiting[r] = FALSE]
    OBVIOUS
  <2>2. /\ r \in Replicas /\ Tail(rep.current) \in Seq(Replicas)
    BY <1>1, <1>3, HeadAndTail, EmptyList
  <2>. HIDE DEF r
  <2>3. /\ Released(rep, t, r) /\ t.current = Tail(rep.current)
        /\ t.next = rep.next /\ t.fPrimaryReplica = rep.fPrimaryReplica
    BY <1>1, <2>1, <2>2 DEF State, Counts, Released
  <2>3a. TakenFrom(rep, t, r)
    BY <1>3, <2>3 DEF TakenFrom, r
  <2>4. /\ Quiet(t) /\ ActiveIn(t) = ActiveIn(rep) /\ r \in ActiveIn(t)
        /\ t.fInputSourceHasClosed /\ t.fPrimaryReplica # r
        /\ t.next # <<>> => r \in ServedIn(t)
    BY <1>1, <1>2, <2>2, <2>3, <2>3a, Popped
  <2>5. HandleClosure(s, r)
    BY <1>3 DEF r
  <2>. HIDE DEF s
  <2>6. /\ Quiet(rep') /\ kind' \in [Replicas -> Kinds \cup {"none"}]
        /\ \A x \in ActiveIn(rep') : kind'[x] # "none"
        /\ rep'.fInputSourceHasClosed
    BY <2>1, <2>2, <2>4, <2>5, Handled
  <2>. QED  BY <1>3, <2>6 DEF Inv, Exists
<1>4. CASE /\ closing = "current" /\ rep.current = <<>>
           /\ closing' = "next"
           /\ UNCHANGED <<kind, rep>>
  BY <1>2, <1>4 DEF Inv, Exists
<1>5. CASE /\ closing = "next" /\ rep.next # <<>>
           /\ HandleClosure([rep EXCEPT !.next = Tail(@)], Head(rep.next))
           /\ UNCHANGED closing
  <2>. DEFINE r == Head(rep.next)  s == [rep EXCEPT !.next = Tail(@)]
  <2>0. rep.current = <<>>
    BY <1>5 DEF Inv
  <2>1. PICK t : t = [s EXCEPT !.awaiting[r] = FALSE]
    OBVIOUS
  <2>2. /\ r \in Replicas /\ Tail(rep.next) \in Seq(Replicas)
    BY <1>1, <1>5, HeadAndTail, EmptyList
  <2>. HIDE DEF r
  <2>3. /\ Released(rep, t, r) /\ t.current = rep.current
        /\ t.next = Tail(rep.next) /\ t.fPrimaryReplica = rep.fPrimaryReplica
    BY <1>1, <2>1, <2>2 DEF State, Counts, Released
  <2>3a. TakenFrom(rep, t, r)
    BY <1>5, <2>0, <2>3 DEF TakenFrom, r
  <2>4. /\ Quiet(t) /\ ActiveIn(t) = ActiveIn(rep) /\ r \in ActiveIn(t)
        /\ t.fInputSourceHasClosed /\ t.fPrimaryReplica # r
        /\ t.next # <<>> => r \in ServedIn(t)
    BY <1>1, <1>2, <2>2, <2>3, <2>3a, Popped
  <2>5. HandleClosure(s, r)
    BY <1>5 DEF r
  <2>. HIDE DEF s
  <2>6. /\ Quiet(rep') /\ kind' \in [Replicas -> Kinds \cup {"none"}]
        /\ \A x \in ActiveIn(rep') : kind'[x] # "none"
        /\ rep'.fInputSourceHasClosed /\ rep'.current = <<>>
    BY <2>0, <2>1, <2>2, <2>3, <2>4, <2>5, Handled
  <2>. QED  BY <1>5, <2>6 DEF Inv, Exists
<1>. QED
  BY <1>3, <1>4, <1>5 DEF CloseWaiting

\* At last the primary.
LEMMA ClosePrimaryStep ==
  ASSUME Inv, ClosePrimary
  PROVE  Inv'
<1>1. /\ Quiet(rep) /\ rep \in State /\ closing = "next" /\ closing' = "no"
      /\ rep.fInputSourceHasClosed /\ rep.current = <<>> /\ rep.next = <<>>
      /\ rep.fPrimaryReplica \in Replicas \cup {None}
  BY DEF Inv, Quiet, Core, State, ClosePrimary
<1>2. CASE /\ rep.fPrimaryReplica # None
           /\ HandleClosure([rep EXCEPT !.fPrimaryReplica = None], rep.fPrimaryReplica)
  <2>. DEFINE s == [rep EXCEPT !.fPrimaryReplica = None]
  <2>1. PICK r \in Replicas : r = rep.fPrimaryReplica
    BY <1>1, <1>2
  <2>2. PICK t : t = [s EXCEPT !.awaiting[r] = FALSE]
    OBVIOUS
  <2>3. /\ Released(rep, t, r) /\ t.current = rep.current
        /\ t.next = rep.next /\ t.fPrimaryReplica = None
    BY <1>1, <2>2 DEF State, Counts, Released
  <2>3a. TakenFrom(rep, t, r)
    BY <1>1, <2>1, <2>3 DEF TakenFrom
  <2>4. /\ Quiet(t) /\ ActiveIn(t) = ActiveIn(rep) /\ r \in ActiveIn(t)
        /\ t.fInputSourceHasClosed /\ t.fPrimaryReplica # r
        /\ t.next # <<>> => r \in ServedIn(t)
    BY <1>1, <2>3, <2>3a, Popped
  <2>5. HandleClosure(s, r)
    BY <1>2, <2>1
  <2>. HIDE DEF s
  <2>6. /\ Quiet(rep') /\ kind' \in [Replicas -> Kinds \cup {"none"}]
        /\ \A x \in ActiveIn(rep') : kind'[x] # "none"
        /\ rep'.fInputSourceHasClosed /\ rep'.fPrimaryReplica = None
    BY <2>2, <2>3, <2>4, <2>5, Handled
  <2>. QED  BY <1>1, <2>6 DEF Inv, Exists
<1>3. CASE rep.fPrimaryReplica = None /\ UNCHANGED <<kind, rep>>
  BY <1>1, <1>3 DEF Inv, Exists
<1>. QED
  BY <1>2, <1>3 DEF ClosePrimary

-----------------------------------------------------------------------------
(* The invariant, and what it is for.                                      *)

LEMMA InitInv ==
  ASSUME Init
  PROVE  Inv
<1>. DEFINE s == InitialReplicator
<1>1. /\ s \in State
      /\ s.index = [r \in Replicas |-> -1] /\ s.awaiting = [r \in Replicas |-> FALSE]
      /\ s.current = <<>> /\ s.next = <<>> /\ s.fPrimaryReplica = None
      /\ s.fNumActiveReplicas = 0 /\ s.fNumDeliveriesMadeSoFar = 0
      /\ ~s.reading /\ ~s.fInputSourceHasClosed /\ s.noted = {}
  <2>1. <<>> \in Seq(Replicas) /\ {} \in SUBSET (Errors \cup {"again", "skipped"})
    OBVIOUS
  <2>. QED  BY <2>1 DEF State, InitialReplicator
<1>. HIDE DEF s
<1>2. ActiveIn(s) = {} /\ ServedIn(s) = {}
  BY <1>1 DEF ActiveIn, ServedIn
<1>3. ListsRight(s)
  <2>1. IsInjective(s.current) /\ IsInjective(s.next) /\ ToSet(s.current) = {}
        /\ ToSet(s.next) = {}
    BY <1>1 DEF IsInjective, ToSet
  <2>. QED  BY <1>1, <2>1, NoneAssumption DEF ListsRight
<1>4. CountersRight(s) /\ FramesRight(s)
  BY <1>1, <1>2, FS_EmptySet DEF CountersRight, FramesRight, FramePending
<1>5. Quiet(s)
  BY <1>1, <1>2, <1>3, <1>4 DEF Quiet, Core, FramePending
<1>6. rep = s /\ kind = [r \in Replicas |-> "none"] /\ closing = "no"
  BY DEF Init, s
<1>. QED
  BY <1>1, <1>2, <1>5, <1>6 DEF Inv

LEMMA NextInv ==
  ASSUME PrimaryMayLeave = FALSE, Inv, [Next]_vars
  PROVE  Inv'
<1>1. ASSUME NEW r \in Replicas, CreateStreamReplica(r) PROVE Inv'
  BY <1>1, CreateStep
<1>2. ASSUME NEW r \in Replicas, Request(r) PROVE Inv'
  BY <1>2, RequestStep
<1>3. ASSUME NEW r \in Replicas, RequestFails(r) PROVE Inv'
  BY <1>3, RequestFailsStep
<1>4. ASSUME NEW r \in Replicas, Stop(r) \/ RemoveReplica(r) PROVE Inv'
  BY <1>4, LeaveStep
<1>5. CASE FrameArrives
  BY <1>5, FrameArrivesStep
<1>6. CASE SourceCloses
  BY <1>6, SourceClosesStep
<1>7. CASE CloseWaiting
  BY <1>7, CloseWaitingStep
<1>8. CASE ClosePrimary
  BY <1>8, ClosePrimaryStep
<1>9. CASE UNCHANGED vars
  BY <1>9 DEF Inv, vars, Exists
<1>. QED
  BY <1>1, <1>2, <1>3, <1>4, <1>5, <1>6, <1>7, <1>8, <1>9 DEF Next

LEMMA Invariant ==
  ASSUME PrimaryMayLeave = FALSE
  PROVE  Spec => []Inv
<1>1. Inv /\ [Next]_vars => Inv'
  BY NextInv
<1>. QED
  BY InitInv, <1>1, PTL DEF Spec

\* One list after the other, without repetition when each is and they share nothing.
LEMMA BothLists ==
  ASSUME NEW S, NEW a \in Seq(S), NEW b \in Seq(S), IsInjective(a), IsInjective(b),
         ToSet(a) \cap ToSet(b) = {}
  PROVE  IsInjective(a \o b) /\ ToSet(a \o b) = ToSet(a) \cup ToSet(b)
<1>. DEFINE c == a \o b  m == Len(a)  n == Len(b)
<1>1. /\ m \in Nat /\ n \in Nat /\ DOMAIN a = 1..m /\ DOMAIN b = 1..n
      /\ DOMAIN c = 1..(m+n)
      /\ \A i \in 1..m : c[i] = a[i]
      /\ \A i \in 1..n : c[m+i] = b[i]
  OBVIOUS
<1>. HIDE DEF c, m, n
<1>2. \A i \in 1..(m+n) : i \in 1..m \/ (i - m \in 1..n /\ m + (i - m) = i)
  BY <1>1
<1>3. \A i \in 1..(m+n) : (i \in 1..m /\ c[i] = a[i]) \/ (i - m \in 1..n /\ c[i] = b[i - m])
  BY <1>1, <1>2
<1>4. \A i \in 1..m, j \in 1..n : a[i] # b[j]
  BY <1>1 DEF ToSet
<1>5. IsInjective(c)
  <2>. SUFFICES ASSUME NEW i \in 1..(m+n), NEW j \in 1..(m+n), c[i] = c[j] PROVE i = j
    BY <1>1 DEF IsInjective
  <2>1. CASE i \in 1..m /\ c[i] = a[i]
    <3>1. j \in 1..m /\ c[j] = a[j]
      BY <1>3, <1>4, <2>1
    <3>. QED  BY <1>1, <2>1, <3>1 DEF IsInjective
  <2>2. CASE i - m \in 1..n /\ c[i] = b[i - m]
    <3>1. j - m \in 1..n /\ c[j] = b[j - m]
      BY <1>3, <1>4, <2>2
    <3>2. i - m = j - m
      BY <1>1, <2>2, <3>1 DEF IsInjective
    <3>. QED  BY <1>1, <3>2
  <2>. QED  BY <1>3, <2>1, <2>2
<1>6. ToSet(c) = ToSet(a) \cup ToSet(b)
  <2>1. \A i \in 1..m : i \in 1..(m+n)
    BY <1>1
  <2>2. \A i \in 1..n : m + i \in 1..(m+n)
    BY <1>1
  <2>3. ToSet(c) \subseteq ToSet(a) \cup ToSet(b)
    BY <1>1, <1>3 DEF ToSet
  <2>4. ToSet(a) \subseteq ToSet(c)
    BY <1>1, <2>1 DEF ToSet
  <2>5. ToSet(b) \subseteq ToSet(c)
    BY <1>1, <2>2 DEF ToSet
  <2>. QED  BY <2>3, <2>4, <2>5
<1>. QED
  BY <1>5, <1>6 DEF c

\* The two counters of the replicator are the numbers of active and of served
\* replicas, whatever joins, leaves and closures come in whatever order: they
\* decide in deliverReceivedFrame when a frame is done with.
THEOREM CountersAreExact ==
  ASSUME PrimaryMayLeave = FALSE
  PROVE  Spec => []CountersExact
<1>1. Inv => CountersExact
  <2>. HAVE Inv
  <2>1. Active = ActiveIn(rep) /\ Served = ServedIn(rep)
    BY DEF Active, Served, ActiveIn, ServedIn
  <2>. QED  BY <2>1 DEF Inv, Quiet, Core, CountersRight, CountersExact
<1>. QED
  BY Invariant, <1>1, PTL

\* The replicator never meets one of its "Internal Error"s, never reads a source
\* that is being read, and never gets a frame without a primary to take it.
THEOREM InternalErrorsNever ==
  ASSUME PrimaryMayLeave = FALSE
  PROVE  Spec => []NoInternalError
<1>1. Inv => NoInternalError
  BY DEF Inv, Quiet, Core, NoInternalError, Errors
<1>. QED
  BY Invariant, <1>1, PTL

\* Until a closure every replica gets each frame once and in order, whoever joins,
\* pauses, leaves or takes over the buffer in between.
THEOREM FramesComeInOrder ==
  ASSUME PrimaryMayLeave = FALSE
  PROVE  Spec => []FramesInOrder
<1>1. Inv => FramesInOrder
  BY DEF Inv, Quiet, Core, FramesRight, FramesInOrder
<1>. QED
  BY Invariant, <1>1, PTL

\* The lists and the primary lead to replicas that exist, to none twice, and
\* between two calls exactly the waiting replicas are queued.
THEOREM NobodyDangles ==
  ASSUME PrimaryMayLeave = FALSE
  PROVE  Spec => []NoDanglingReplica
<1>1. Inv => NoDanglingReplica
  <2>. HAVE Inv
  <2>1. /\ rep \in State /\ ListsRight(rep)
        /\ rep.current \in Seq(Replicas) /\ rep.next \in Seq(Replicas)
        /\ \A r \in ActiveIn(rep) : Exists(r)
    BY DEF Inv, Quiet, Core, State
  <2>2. ToSet(rep.current) \cap ToSet(rep.next) = {}
    BY <2>1 DEF ListsRight
  <2>3. IsInjective(Lists(rep)) /\ ToSet(Lists(rep)) = ToSet(rep.current) \cup ToSet(rep.next)
    BY <2>1, <2>2, BothLists DEF ListsRight, Lists
  <2>4. rep.fPrimaryReplica \notin ToSet(Lists(rep))
    <3>1. ToSet(rep.next) \subseteq Replicas
      BY <2>1, EmptyList
    <3>. QED  BY <2>1, <2>3, <3>1, NoneAssumption DEF ListsRight
  <2>5. Queued(rep) \subseteq ActiveIn(rep)
    BY <2>1, <2>3 DEF Queued, ListsRight, ServedIn
  <2>6. \A r \in Queued(rep) : Exists(r) /\ rep.index[r] # -1
    BY <2>1, <2>5 DEF ActiveIn
  <2>7. \A r \in Replicas : rep.awaiting[r] <=> r \in Queued(rep)
    BY <2>1, <2>3, NoneAssumption DEF ListsRight, Queued
  <2>. QED  BY <2>3, <2>4, <2>6, <2>7 DEF NoDanglingReplica
<1>. QED
  BY Invariant, <1>1, PTL

\* When the closure function has been through, no replica waits for a frame that
\* will never come.
THEOREM NobodyLeftWaiting ==
  ASSUME PrimaryMayLeave = FALSE
  PROVE  Spec => []ClosureReachesAll
<1>1. Inv => ClosureReachesAll
  <2>. HAVE Inv
  <2>. SUFFICES ASSUME closing = "no", rep.fInputSourceHasClosed, NEW r \in Replicas
                PROVE  ~rep.awaiting[r]
    BY DEF ClosureReachesAll
  <2>1. rep.fPrimaryReplica = None /\ rep.current = <<>> /\ rep.next = <<>>
    BY DEF Inv, Quiet
  <2>2. ToSet(rep.current) = {} /\ ToSet(rep.next) = {}
    BY <2>1 DEF ToSet
  <2>. QED  BY <2>1, <2>2, NoneAssumption DEF Inv, Quiet, Core, ListsRight
<1>. QED
  BY Invariant, <1>1, PTL
=============================================================================
