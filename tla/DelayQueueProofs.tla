-------------------------- MODULE DelayQueueProofs --------------------------
(***************************************************************************)
(* Proofs about DelayQueue, for any set of tasks, any delays and any       *)
(* nesting of event loops: the list of differences keeps every task's time *)
(* exactly, so that it implements Timers, and no task runs too early.      *)
(***************************************************************************)
EXTENDS DelayQueue, SequenceTheorems, FiniteSetTheorems, WellFoundedInduction, TLAPS

\* x, or zero if it is below.
Positive(x) == IF x > 0 THEN x ELSE 0

LEMMA MaxIsPositive ==
  ASSUME NEW x \in Int
  PROVE  Max({0, x}) = Positive(x)
<1>1. \E m \in {0, x} : \A y \in {0, x} : m >= y
  OBVIOUS
<1>2. PICK m : m = Max({0, x})
  OBVIOUS
<1>3. m \in {0, x} /\ \A y \in {0, x} : m >= y
  BY <1>1, <1>2 DEF Max
<1>4. QED
  BY <1>2, <1>3 DEF Positive

\* Numbers that are not none have a least among them.
LEMMA HasLeast ==
  ASSUME NEW S, S \subseteq Nat, S # {}
  PROVE  \E i \in S : \A j \in S : i <= j
<1>1. PICK i \in S : \A j \in S : <<j, i>> \notin OpToRel(<, Nat)
  BY WFMin, NatLessThanWellFounded
<1>2. ASSUME NEW j \in S
      PROVE  i <= j
  <2>1. i \in Nat /\ j \in Nat /\ <<j, i>> \notin {ss \in Nat \X Nat : ss[1] < ss[2]}
    BY <1>1 DEF OpToRel
  <2>2. ~(j < i)
    BY <2>1
  <2>3. QED
    BY <2>1, <2>2
<1>3. QED
  BY <1>2

\* Numbers below a bound that are not none have a greatest among them.
LEMMA MaxOfNumbers ==
  ASSUME NEW n \in Nat, NEW S, S \subseteq 0..n, S # {}
  PROVE  Max(S) \in S /\ \A j \in S : j <= Max(S)
<1> DEFINE D == {n - i : i \in S}
<1>1. D \subseteq Nat /\ D # {}
  <2>1. \A i \in S : n - i \in Nat
    OBVIOUS
  <2>2. QED
    BY <2>1
<1>2. PICK d \in D : \A e \in D : d <= e
  BY <1>1, HasLeast
<1>3. PICK i \in S : d = n - i
  OBVIOUS
<1>4. ASSUME NEW j \in S
      PROVE  i >= j
  <2>1. n - j \in D
    OBVIOUS
  <2>2. d <= n - j /\ i \in Int /\ j \in Int
    BY <1>2, <2>1
  <2>3. QED
    BY <1>3, <2>2
<1>5. \E m \in S : \A y \in S : m >= y
  BY <1>4
<1>6. Max(S) \in S /\ \A y \in S : Max(S) >= y
  BY <1>5 DEF Max
<1>7. QED
  BY <1>6

\* The least of numbers that are not none.
LEMMA MinOfNumbers ==
  ASSUME NEW S, S \subseteq Nat, S # {}
  PROVE  Min(S) \in S
<1>1. \E m \in S : \A y \in S : m <= y
  BY HasLeast
<1>2. QED
  BY <1>1 DEF Min

-----------------------------------------------------------------------------
(* The list of differences.                                                *)

\* Sums of differences: if each entry holds the difference to the one before it
\* of some times P, then TimeUntil gives these times back.
LEMMA SumsTelescope ==
  ASSUME NEW q, Len(q) \in Nat, NEW P \in [0..Len(q) -> Int], P[0] = 0,
         \A i \in 1..Len(q) : q[i].fDeltaTimeRemaining = P[i] - P[i-1]
  PROVE  TimeUntil(q) = P
<1> DEFINE n == Len(q)
           Sums(f) == f = [i \in 0..n |->
                             IF i = 0 THEN 0 ELSE f[i-1] + q[i].fDeltaTimeRemaining]
<1>1. Sums(P)
  <2>1. \A i \in 0..n : P[i] = IF i = 0 THEN 0 ELSE P[i-1] + q[i].fDeltaTimeRemaining
    <3>1. ASSUME NEW i \in 0..n, i # 0
          PROVE  P[i] = P[i-1] + q[i].fDeltaTimeRemaining
      <4>1. i \in 1..n /\ i - 1 \in 0..n /\ P[i] \in Int /\ P[i-1] \in Int
        BY <3>1
      <4>2. q[i].fDeltaTimeRemaining = P[i] - P[i-1]
        BY <4>1
      <4>3. QED
        BY <4>1, <4>2
    <3>2. QED
      BY <3>1
  <2>2. QED
    BY <2>1
<1>2. PICK f : f = TimeUntil(q)
  OBVIOUS
<1>3. Sums(f)
  BY <1>1, <1>2 DEF TimeUntil
<1>4. ASSUME NEW i \in 0..n, f[i] # P[i]
      PROVE  FALSE
  <2> DEFINE Wrong == {j \in 0..n : f[j] # P[j]}
  <2>1. Wrong \subseteq Nat /\ Wrong # {}
    BY <1>4
  <2>2. PICK j \in Wrong : \A k \in Wrong : j <= k
    BY <2>1, HasLeast
  <2>3. j # 0
    BY <1>3, <2>2
  <2>4. j - 1 \in 0..n /\ f[j-1] = P[j-1]
    BY <2>2, <2>3
  <2>5. f[j] = f[j-1] + q[j].fDeltaTimeRemaining
    BY <1>3, <2>2, <2>3
  <2>6. P[j] = P[j-1] + q[j].fDeltaTimeRemaining
    BY <1>1, <2>2, <2>3
  <2>7. QED
    BY <2>2, <2>4, <2>5, <2>6
<1>5. f = [i \in 0..n |-> f[i]]
  BY <1>3
<1>6. QED
  BY <1>2, <1>4, <1>5

Entries == [token : Tokens, task : Tasks, fDeltaTimeRemaining : Nat]
Lefts   == [Tasks -> Int \cup {Idle}]

\* The times at which the entries of a list go off, if left is what is left of
\* their tasks' delays.
Due(q, left) == [i \in 0..Len(q) |-> IF i = 0 THEN 0 ELSE Positive(left[q[i].task])]

\* The list q holds the tasks that are scheduled according to left, each once and
\* in order, and the difference between their times.
Listed(q, left) ==
    /\ q \in Seq(Entries) /\ left \in Lefts
    /\ \A i, j \in 1..Len(q) :
          i # j => q[i].task # q[j].task /\ q[i].token # q[j].token
    /\ \A t \in Tasks : left[t] # Idle <=> \E i \in 1..Len(q) : q[i].task = t
    /\ \A i \in 1..Len(q) : q[i].fDeltaTimeRemaining = Due(q, left)[i] - Due(q, left)[i-1]
    /\ \A i, j \in 1..Len(q) : i < j => left[q[i].task] <= left[q[j].task]

\* What is left of the task of an entry is a number.
LEMMA EntryTyped ==
  ASSUME NEW q, NEW left, Listed(q, left), NEW i \in 1..Len(q)
  PROVE  /\ q[i] \in Entries /\ q[i].task \in Tasks /\ q[i].token \in Tokens
         /\ q[i].fDeltaTimeRemaining \in Nat
         /\ left[q[i].task] \in Int /\ left[q[i].task] # Idle
<1>1. q[i] \in Entries
  BY ElementOfSeq DEF Listed
<1>2. q[i].task \in Tasks /\ q[i].token \in Tokens /\ q[i].fDeltaTimeRemaining \in Nat
  BY <1>1 DEF Entries
<1>3. left[q[i].task] # Idle
  BY <1>2 DEF Listed
<1>4. QED
  BY <1>1, <1>2, <1>3 DEF Listed, Lefts

\* The times are numbers in ascending order.
LEMMA DueTyped ==
  ASSUME NEW q, NEW left, Listed(q, left)
  PROVE  /\ Len(q) \in Nat /\ Due(q, left) \in [0..Len(q) -> Nat] /\ Due(q, left)[0] = 0
         /\ \A i \in 1..Len(q) : Due(q, left)[i] = Positive(left[q[i].task])
         /\ \A i, j \in 0..Len(q) : i <= j => Due(q, left)[i] <= Due(q, left)[j]
<1>1. Len(q) \in Nat
  BY DEF Listed
<1>2. \A i \in 1..Len(q) : left[q[i].task] \in Int
  BY EntryTyped
<1>3. /\ Due(q, left) \in [0..Len(q) -> Nat] /\ Due(q, left)[0] = 0
      /\ \A i \in 1..Len(q) : Due(q, left)[i] = Positive(left[q[i].task])
  BY <1>1, <1>2 DEF Due, Positive
<1>4. ASSUME NEW i \in 0..Len(q), NEW j \in 0..Len(q), i <= j
      PROVE  Due(q, left)[i] <= Due(q, left)[j]
  <2>1. CASE i = 0 \/ i = j
    BY <1>1, <1>3, <2>1
  <2>2. CASE i # 0 /\ i # j
    <3>1. i \in 1..Len(q) /\ j \in 1..Len(q) /\ i < j
      BY <1>1, <1>4, <2>2
    <3>2. left[q[i].task] <= left[q[j].task]
      BY <3>1 DEF Listed
    <3>3. QED
      BY <1>2, <1>3, <3>1, <3>2 DEF Positive
  <2>3. QED
    BY <2>1, <2>2
<1>5. QED
  BY <1>1, <1>3, <1>4

\* The sums of the differences are the times the tasks go off.
LEMMA TimesAreExact ==
  ASSUME NEW q, NEW left, Listed(q, left)
  PROVE  TimeUntil(q) = Due(q, left)
<1>1. /\ Len(q) \in Nat /\ Due(q, left) \in [0..Len(q) -> Int] /\ Due(q, left)[0] = 0
  BY DueTyped
<1>2. \A i \in 1..Len(q) : q[i].fDeltaTimeRemaining = Due(q, left)[i] - Due(q, left)[i-1]
  BY DEF Listed
<1>3. QED
  BY <1>1, <1>2, SumsTelescope

-----------------------------------------------------------------------------
(* Sequences with an entry more or less.                                   *)

LEMMA InsertAtConcat ==
  ASSUME NEW s, NEW i, NEW e
  PROVE  InsertAt(s, i, e) = SubSeq(s, 1, i - 1) \o <<e>> \o SubSeq(s, i, Len(s))
BY DEF InsertAt

LEMMA InsertedAt ==
  ASSUME NEW S, NEW s \in Seq(S), NEW e \in S, NEW p \in 1..(Len(s) + 1)
  PROVE  LET r == InsertAt(s, p, e)
         IN  /\ r \in Seq(S) /\ Len(r) = Len(s) + 1
             /\ \A i \in 1..(p - 1) : r[i] = s[i]
             /\ r[p] = e
             /\ \A i \in (p + 1)..(Len(s) + 1) : r[i] = s[i - 1]
<1>0. PICK k : k = p - 1
  OBVIOUS
<1> DEFINE a == SubSeq(s, 1, k)
           b == SubSeq(s, k + 1, Len(s))
           ae == a \o <<e>>
<1>1. Len(s) \in Nat /\ k \in 0..Len(s) /\ k \in Int /\ \A i \in 1..Len(s) : s[i] \in S
  <2>1. Len(s) \in Nat /\ p \in Int
    OBVIOUS
  <2>2. QED
    BY <1>0, <2>1, ElementOfSeq
<1>8. p = k + 1 /\ p - 1 = k /\ p + 1 = k + 2
  <2>1. p \in Int
    OBVIOUS
  <2>2. QED
    BY <1>0, <2>1
<1>2. a \in Seq(S) /\ Len(a) = k /\ \A i \in 1..k : a[i] = s[i]
  <2>1. \A i \in 1..k : s[i] \in S
    BY <1>1
  <2>2. /\ a \in Seq(S) /\ Len(a) = IF 1 <= k THEN k - 1 + 1 ELSE 0
        /\ \A i \in 1..(k - 1 + 1) : a[i] = s[1 + i - 1]
    BY <1>1, <2>1, SubSeqProperties
  <2>3. QED
    <3> HIDE DEF a
    <3>1. QED
      BY <1>1, <2>2
<1>3. /\ b \in Seq(S) /\ Len(b) = Len(s) - k
      /\ \A i \in 1..(Len(s) - k) : b[i] = s[k + i]
  <2>1. \A i \in (k + 1)..Len(s) : s[i] \in S
    BY <1>1
  <2>2. /\ b \in Seq(S) /\ Len(b) = IF k + 1 <= Len(s) THEN Len(s) - (k + 1) + 1 ELSE 0
        /\ \A i \in 1..(Len(s) - (k + 1) + 1) : b[i] = s[(k + 1) + i - 1]
    BY <1>1, <2>1, SubSeqProperties
  <2>3. QED
    <3> HIDE DEF b
    <3>1. QED
      BY <1>1, <2>2
<1>4. /\ ae \in Seq(S) /\ Len(ae) = k + 1 /\ ae[k + 1] = e
      /\ \A i \in 1..k : ae[i] = s[i]
  <2> HIDE DEF a
  <2>1. /\ ae \in Seq(S) /\ Len(ae) = k + 1
        /\ \A i \in 1..(k + 1) : ae[i] = IF i <= k THEN a[i] ELSE <<e>>[i - k]
    BY <1>1, <1>2, ConcatProperties
  <2>2. QED
    <3> HIDE DEF ae
    <3>1. QED
      BY <1>1, <1>2, <2>1
<1>5. /\ ae \o b \in Seq(S) /\ Len(ae \o b) = Len(s) + 1
      /\ \A i \in 1..(Len(s) + 1) : (ae \o b)[i] = IF i <= k + 1 THEN ae[i] ELSE b[i - (k + 1)]
  <2> HIDE DEF a, ae, b
  <2>1. /\ ae \o b \in Seq(S) /\ Len(ae \o b) = Len(ae) + Len(b)
        /\ \A i \in 1..(Len(ae) + Len(b)) :
              (ae \o b)[i] = IF i <= Len(ae) THEN ae[i] ELSE b[i - Len(ae)]
    BY <1>3, <1>4, ConcatProperties
  <2>2. Len(ae) + Len(b) = Len(s) + 1
    BY <1>1, <1>3, <1>4
  <2>3. QED
    BY <1>4, <2>1, <2>2
<1>6. InsertAt(s, p, e) = ae \o b
  <2>1. InsertAt(s, p, e) = SubSeq(s, 1, p - 1) \o <<e>> \o SubSeq(s, p, Len(s))
    BY InsertAtConcat
  <2>2. QED
    BY <1>8, <2>1
<1>7. QED
  <2> HIDE DEF ae, b
  <2>1. PICK r : r = ae \o b
    OBVIOUS
  <2>2. ASSUME NEW i \in (k + 2)..(Len(s) + 1)
        PROVE  r[i] = s[i - 1]
    <3>1. r[i] = b[i - (k + 1)] /\ i - (k + 1) \in 1..(Len(s) - k)
      BY <1>1, <1>5, <2>1
    <3>2. b[i - (k + 1)] = s[k + (i - (k + 1))]
      BY <1>3, <3>1
    <3>3. QED
      BY <1>1, <3>1, <3>2
  <2>3. /\ r \in Seq(S) /\ Len(r) = Len(s) + 1
        /\ \A i \in 1..k : r[i] = s[i]
        /\ r[k + 1] = e
    BY <1>1, <1>4, <1>5, <2>1
  <2>4. QED
    BY <1>6, <1>8, <2>1, <2>2, <2>3

LEMMA InsertedBehind ==
  ASSUME NEW S, NEW s \in Seq(S), NEW e \in S, NEW p \in 1..(Len(s) + 1),
         NEW i \in (p + 1)..(Len(s) + 1)
  PROVE  InsertAt(s, p, e)[i] = s[i - 1]
<1>1. \A j \in (p + 1)..(Len(s) + 1) : InsertAt(s, p, e)[j] = s[j - 1]
  BY InsertedAt
<1>2. QED
  BY <1>1

LEMMA RemovedAt ==
  ASSUME NEW S, NEW s \in Seq(S), NEW k \in 1..Len(s)
  PROVE  LET r == RemoveAt(s, k)
         IN  /\ r \in Seq(S) /\ Len(r) = Len(s) - 1
             /\ \A i \in 1..(k - 1) : r[i] = s[i]
             /\ \A i \in k..(Len(s) - 1) : r[i] = s[i + 1]
<1> DEFINE a == SubSeq(s, 1, k - 1)
           b == SubSeq(s, k + 1, Len(s))
<1>1. Len(s) \in Nat /\ k \in Int /\ \A i \in 1..Len(s) : s[i] \in S
  BY ElementOfSeq
<1>2. a \in Seq(S) /\ Len(a) = k - 1 /\ \A i \in 1..(k - 1) : a[i] = s[i]
  <2>1. \A i \in 1..(k - 1) : s[i] \in S
    BY <1>1
  <2>2. /\ a \in Seq(S) /\ Len(a) = IF 1 <= k - 1 THEN k - 1 - 1 + 1 ELSE 0
        /\ \A i \in 1..(k - 1 - 1 + 1) : a[i] = s[1 + i - 1]
    BY <1>1, <2>1, SubSeqProperties
  <2>3. QED
    <3> HIDE DEF a
    <3>1. QED
      BY <1>1, <2>2
<1>3. /\ b \in Seq(S) /\ Len(b) = Len(s) - k
      /\ \A i \in 1..(Len(s) - k) : b[i] = s[k + i]
  <2>1. \A i \in (k + 1)..Len(s) : s[i] \in S
    BY <1>1
  <2>2. /\ b \in Seq(S) /\ Len(b) = IF k + 1 <= Len(s) THEN Len(s) - (k + 1) + 1 ELSE 0
        /\ \A i \in 1..(Len(s) - (k + 1) + 1) : b[i] = s[(k + 1) + i - 1]
    BY <1>1, <2>1, SubSeqProperties
  <2>3. QED
    <3> HIDE DEF b
    <3>1. QED
      BY <1>1, <2>2
<1>4. /\ a \o b \in Seq(S) /\ Len(a \o b) = Len(s) - 1
      /\ \A i \in 1..(Len(s) - 1) : (a \o b)[i] = IF i <= k - 1 THEN a[i] ELSE b[i - (k - 1)]
  <2> HIDE DEF a, b
  <2>1. QED
    BY <1>1, <1>2, <1>3, ConcatProperties
<1>5. QED
  <2> HIDE DEF a, b
  <2>1. PICK r : r = a \o b
    OBVIOUS
  <2>2. ASSUME NEW i \in k..(Len(s) - 1)
        PROVE  r[i] = s[i + 1]
    <3>1. r[i] = b[i - (k - 1)] /\ i - (k - 1) \in 1..(Len(s) - k)
      BY <1>1, <1>4, <2>1
    <3>2. b[i - (k - 1)] = s[k + (i - (k - 1))]
      BY <1>3, <3>1
    <3>3. QED
      BY <1>1, <3>1, <3>2
  <2>3. /\ r \in Seq(S) /\ Len(r) = Len(s) - 1
        /\ \A i \in 1..(k - 1) : r[i] = s[i]
    BY <1>1, <1>2, <1>4, <2>1
  <2>4. RemoveAt(s, k) = r
    BY <2>1 DEF RemoveAt, a, b
  <2>5. QED
    BY <2>2, <2>3, <2>4

-----------------------------------------------------------------------------
(* Tokens.                                                                 *)

\* Task t is in the list with token k.
Has(q, t, k) == \E i \in 1..Len(q) : q[i].task = t /\ q[i].token = k

\* The image of a finite set has no more elements than it.
LEMMA ImageIsSmall ==
  ASSUME NEW S, IsFiniteSet(S), NEW f, f = [x \in S |-> f[x]]
  PROVE  LET T == {f[x] : x \in S}
         IN  IsFiniteSet(T) /\ Cardinality(T) <= Cardinality(S)
<1> DEFINE T == {f[x] : x \in S}
<1>1. f \in Surjection(S, T)
  BY DEF Surjection
<1>2. QED
  BY <1>1, FS_Surjection

\* There is a token that is neither in the list nor kept by an owner.
LEMMA NewTokenIsNew ==
  ASSUME NEW s, Listed(s.queue, s.left), token \in [Others -> Tokens \cup {NoToken}], NEW u
  PROVE  /\ NewToken(s, u) \in Tokens
         /\ \A i \in 1..Len(s.queue) : s.queue[i].token # NewToken(s, u)
         /\ \A t \in Others \ {u} : token[t] # NewToken(s, u)
<1> DEFINE q == s.queue
           f == [t \in Tasks |-> CHOOSE k \in Tokens : Has(q, t, k)]
           InList == {f[t] : t \in Tasks}
           Kept == {token[t] : t \in Others}
           New == {k \in Tokens : /\ \A i \in 1..Len(q) : q[i].token # k
                                  /\ \A t \in Others \ {u} : token[t] # k}
<1>1. /\ IsFiniteSet(Others) /\ IsFiniteSet(Tasks)
      /\ Cardinality(Others) \in Nat /\ Cardinality(Tasks) = Cardinality(Others) + 1
  BY TasksAssumption, FS_AddElement, FS_CardinalityType DEF Tasks
<1>2. IsFiniteSet(InList) /\ Cardinality(InList) <= Cardinality(Tasks)
  <2> HIDE DEF f
  <2>1. f = [t \in Tasks |-> f[t]]
    BY DEF f
  <2>2. QED
    BY <1>1, <2>1, ImageIsSmall
<1>3. IsFiniteSet(Kept) /\ Cardinality(Kept) <= Cardinality(Others)
  <2>1. token = [t \in Others |-> token[t]]
    OBVIOUS
  <2>2. QED
    BY <1>1, <2>1, ImageIsSmall
<1>4. ASSUME NEW i \in 1..Len(q)
      PROVE  q[i].token \in InList
  <2>1. q[i].task \in Tasks /\ q[i].token \in Tokens
    BY EntryTyped
  <2>2. Has(q, q[i].task, q[i].token)
    BY DEF Has
  <2>3. ASSUME NEW k \in Tokens, Has(q, q[i].task, k)
        PROVE  k = q[i].token
    <3>1. PICK j \in 1..Len(q) : q[j].task = q[i].task /\ q[j].token = k
      BY <2>3 DEF Has
    <3>2. j = i
      BY <3>1 DEF Listed
    <3>3. QED
      BY <3>1, <3>2
  <2>4. f[q[i].task] = q[i].token
    BY <2>1, <2>2, <2>3
  <2>5. QED
    BY <2>1, <2>4
<1> HIDE DEF f, InList, Kept
<1>5. Cardinality(InList) \in Nat /\ Cardinality(Kept) \in Nat
  BY <1>2, <1>3, FS_CardinalityType
<1>6. /\ IsFiniteSet(InList \cup Kept)
      /\ Cardinality(InList \cup Kept) <= 2 * Cardinality(Tasks) - 1
  <2>1. IsFiniteSet(InList \cap Kept)
    BY <1>2, FS_Subset
  <2>2. Cardinality(InList \cap Kept) \in Nat
    BY <2>1, FS_CardinalityType
  <2>3. /\ IsFiniteSet(InList \cup Kept)
        /\ Cardinality(InList \cup Kept) =
              Cardinality(InList) + Cardinality(Kept) - Cardinality(InList \cap Kept)
    BY <1>2, <1>3, FS_Union
  <2>4. QED
    BY <1>1, <1>2, <1>3, <1>5, <2>2, <2>3
<1>7. Cardinality(Tokens) = 2 * Cardinality(Tasks)
  <2>1. 2 * Cardinality(Tasks) \in Int /\ 2 * Cardinality(Tasks) >= 1
    BY <1>1
  <2>2. QED
    BY <2>1, FS_Interval DEF Tokens
<1>8. ~(Tokens \subseteq InList \cup Kept)
  <2>1. SUFFICES ASSUME Tokens \subseteq InList \cup Kept
                 PROVE  FALSE
    OBVIOUS
  <2>2. Cardinality(Tokens) <= Cardinality(InList \cup Kept)
    BY <1>6, <2>1, FS_Subset
  <2>3. Cardinality(InList \cup Kept) \in Nat
    BY <1>6, FS_CardinalityType
  <2>4. QED
    BY <1>1, <1>6, <1>7, <2>2, <2>3
<1>9. PICK k \in Tokens : k \notin InList /\ k \notin Kept
  BY <1>8
<1>10. k \in New
  <2>1. \A i \in 1..Len(q) : q[i].token # k
    BY <1>4, <1>9
  <2>2. \A t \in Others : token[t] # k
    BY <1>9 DEF Kept
  <2>3. QED
    BY <2>1, <2>2
<1>11. New \subseteq Nat /\ New # {}
  BY <1>10 DEF Tokens
<1>12. NewToken(s, u) = Min(New)
  BY DEF NewToken
<1>13. NewToken(s, u) \in New
  BY <1>11, <1>12, MinOfNumbers
<1>14. QED
  BY <1>13

-----------------------------------------------------------------------------
(* The operations on the queue.                                            *)

Queues ==
    [queue : Seq(Entries), sinceSync : Int, left : Lefts, wait : [Tasks -> Nat \cup {Idle}],
     ahead : [Tasks -> Nat], behind : [Tasks -> Nat]]

\* How far what is left of a task's delay as the queue measures it may be from what is
\* left in real time (wait), when the clock was put forward by a and set back by b:
\* what has passed since the queue looked at the clock is yet to be taken off.
InTime(wait, left, since, a, b) ==
    /\ wait = 0 \/ wait <= left - Positive(since) + a
    /\ left - since <= wait + b

\* The list is what left says, and that is right in real time.
Good(s) ==
    /\ s \in Queues /\ s.sinceSync <= MaxLag
    /\ Listed(s.queue, s.left)
    /\ \A t \in Tasks : s.wait[t] = Idle <=> s.left[t] = Idle
    /\ \A t \in Tasks : s.left[t] # Idle =>
          InTime(s.wait[t], s.left[t], s.sinceSync, s.ahead[t], s.behind[t])

\* Time passes, the clock is set, the queue looks at the clock, a task is scheduled.
LEMMA InTimePasses ==
  ASSUME NEW w \in Nat, NEW l \in Int, NEW since \in Int, NEW a \in Nat, NEW b \in Nat,
         NEW k \in Nat, InTime(w, l, since, a, b)
  PROVE  InTime(Positive(w - k), l, since + k, a, b)
BY DEF InTime, Positive

LEMMA InTimeClockSet ==
  ASSUME NEW w \in Nat, NEW l \in Int, NEW since \in Int, NEW a \in Nat, NEW b \in Nat,
         NEW k \in Nat, InTime(w, l, since, a, b)
  PROVE  InTime(w, l, since - k, a, b + k) /\ InTime(w, l, since + k, a + k, b)
BY DEF InTime, Positive

LEMMA InTimeSeen ==
  ASSUME NEW w \in Nat, NEW l \in Int, NEW since \in Int, NEW a \in Nat, NEW b \in Nat,
         InTime(w, l, since, a, b)
  PROVE  InTime(w, l - Positive(since), 0, a, b)
BY DEF InTime, Positive

LEMMA InTimeNew ==
  ASSUME NEW d \in Nat
  PROVE  InTime(d, d, 0, 0, 0)
BY DEF InTime, Positive

LEMMA SeenTyped ==
  ASSUME NEW s, Good(s)
  PROVE  Seen(s) = Positive(s.sinceSync) /\ Seen(s) \in 0..MaxLag
<1>1. s.sinceSync \in Int /\ s.sinceSync <= MaxLag
  BY DEF Good, Queues
<1>2. Seen(s) = Positive(s.sinceSync)
  BY <1>1, MaxIsPositive DEF Seen
<1>3. QED
  BY <1>1, <1>2, TimeAssumption DEF Positive

LEMMA LessTyped ==
  ASSUME NEW left \in Lefts, NEW k \in Int
  PROVE  /\ Less(left, k) \in Lefts
         /\ \A t \in Tasks : left[t] = Idle => Less(left, k)[t] = Idle
         /\ \A t \in Tasks : left[t] # Idle =>
               left[t] \in Int /\ Less(left, k)[t] = left[t] - k /\ Less(left, k)[t] # Idle
<1>1. \A t \in Tasks : left[t] # Idle => left[t] \in Int /\ left[t] - k \in Int
  BY DEF Lefts
<1>2. QED
  BY <1>1, IdleAssumption DEF Less, Lefts

\* synchronize: each entry keeps its place, and left is what is left of its delay.
LEMMA SynchronizedFields ==
  ASSUME NEW s, Good(s)
  PROVE  LET r == Synchronized(s)
         IN  /\ r.sinceSync = 0 /\ r.wait = s.wait /\ r.left = Less(s.left, Seen(s))
             /\ r.ahead = s.ahead /\ r.behind = s.behind
             /\ r = [queue |-> r.queue, sinceSync |-> r.sinceSync,
                     left |-> r.left, wait |-> r.wait,
                     ahead |-> r.ahead, behind |-> r.behind]
             /\ r.queue = [i \in 1..Len(s.queue) |->
                    [s.queue[i] EXCEPT !.fDeltaTimeRemaining =
                        Max({0, TimeUntil(s.queue)[i] - Seen(s)})
                            - Max({0, TimeUntil(s.queue)[i-1] - Seen(s)})]]
<1> DEFINE left == Less(s.left, Seen(s))
           q == [i \in 1..Len(s.queue) |->
                    [s.queue[i] EXCEPT !.fDeltaTimeRemaining =
                        Max({0, TimeUntil(s.queue)[i] - Seen(s)})
                            - Max({0, TimeUntil(s.queue)[i-1] - Seen(s)})]]
<1>1. s \in Queues
  BY DEF Good
<1>2. Synchronized(s) = [s EXCEPT !.sinceSync = 0, !.left = left, !.queue = q]
  BY DEF Synchronized
<1> HIDE DEF left, q
<1>3. LET r == Synchronized(s)
      IN  /\ r.sinceSync = 0 /\ r.wait = s.wait /\ r.left = left /\ r.queue = q
          /\ r.ahead = s.ahead /\ r.behind = s.behind
          /\ r = [queue |-> r.queue, sinceSync |-> r.sinceSync,
                  left |-> r.left, wait |-> r.wait,
                  ahead |-> r.ahead, behind |-> r.behind]
  BY <1>1, <1>2 DEF Queues
<1>4. QED
  BY <1>3 DEF left, q

LEMMA SynchronizedListed ==
  ASSUME NEW s, Good(s)
  PROVE  LET r == Synchronized(s)
         IN  /\ Listed(r.queue, r.left)
             /\ Len(r.queue) = Len(s.queue)
             /\ \A i \in 1..Len(s.queue) : /\ r.queue[i].task = s.queue[i].task
                                           /\ r.queue[i].token = s.queue[i].token
<1> DEFINE q == s.queue
           n == Len(q)
           D == Due(q, s.left)
           k == Seen(s)
           r == Synchronized(s).queue
           left == Synchronized(s).left
<1>1. Listed(q, s.left) /\ q \in Seq(Entries) /\ s.left \in Lefts /\ n \in Nat
  BY DEF Good, Queues
<1>2. k \in Nat
  BY SeenTyped
<1>3. /\ D \in [0..n -> Nat] /\ D[0] = 0
      /\ \A i \in 1..n : D[i] = Positive(s.left[q[i].task])
      /\ \A i, j \in 0..n : i <= j => D[i] <= D[j]
  BY <1>1, DueTyped
<1>4. \A i \in 1..n : /\ q[i] \in Entries /\ q[i].task \in Tasks
                      /\ s.left[q[i].task] \in Int /\ s.left[q[i].task] # Idle
  BY <1>1, EntryTyped
<1>5. /\ left = Less(s.left, k) /\ left \in Lefts
      /\ \A t \in Tasks : left[t] = Idle <=> s.left[t] = Idle
      /\ \A i \in 1..n : left[q[i].task] = s.left[q[i].task] - k
  <2>1. left = Less(s.left, k) /\ k \in Int
    <3>1. left = Less(s.left, k)
      BY SynchronizedFields
    <3> HIDE DEF left, k
    <3>2. QED
      BY <1>2, <3>1
  <2> HIDE DEF k, left, q
  <2>2. QED
    BY <1>1, <1>4, <2>1, LessTyped
<1> DEFINE E == [i \in 0..n |-> Positive(D[i] - k)]
<1>6. \A i \in 1..n : i \in 0..n /\ i - 1 \in 0..n /\ i - 1 <= i
  BY <1>1
<1>7. /\ \A i \in 0..n : E[i] \in Nat
      /\ \A i \in 1..n : E[i] - E[i-1] \in Nat
  <2>1. \A i \in 0..n : D[i] - k \in Int
    BY <1>2, <1>3
  <2>2. \A i \in 1..n : D[i-1] - k <= D[i] - k
    <3>1. ASSUME NEW i \in 1..n
          PROVE  D[i-1] - k <= D[i] - k
      <4>1. D[i-1] <= D[i] /\ D[i-1] \in Nat /\ D[i] \in Nat
        BY <1>3, <1>6
      <4> HIDE DEF D, k
      <4>2. QED
        BY <1>2, <4>1
    <3>2. QED
      BY <3>1
  <2>3. QED
    BY <1>6, <2>1, <2>2 DEF Positive
<1>8. r = [i \in 1..n |-> [q[i] EXCEPT !.fDeltaTimeRemaining = E[i] - E[i-1]]]
  <2>1. TimeUntil(q) = D
    BY <1>1, TimesAreExact
  <2>2. \A i \in 0..n : Max({0, TimeUntil(q)[i] - k}) = E[i]
    <3>1. \A i \in 0..n : D[i] - k \in Int
      BY <1>2, <1>3
    <3>2. QED
      BY <2>1, <3>1, MaxIsPositive
  <2>3. r = [i \in 1..n |-> [q[i] EXCEPT !.fDeltaTimeRemaining =
                Max({0, TimeUntil(q)[i] - k}) - Max({0, TimeUntil(q)[i-1] - k})]]
    BY SynchronizedFields
  <2> HIDE DEF E, k, q, r
  <2>4. QED
    BY <1>6, <2>2, <2>3
<1> HIDE DEF E
<1>9. \A i \in 1..n : /\ r[i] \in Entries /\ r[i].fDeltaTimeRemaining = E[i] - E[i-1]
                      /\ r[i].task = q[i].task /\ r[i].token = q[i].token
  <2>1. ASSUME NEW i \in 1..n
        PROVE  /\ r[i] \in Entries /\ r[i].fDeltaTimeRemaining = E[i] - E[i-1]
               /\ r[i].task = q[i].task /\ r[i].token = q[i].token
    <3>1. r[i] = [q[i] EXCEPT !.fDeltaTimeRemaining = E[i] - E[i-1]]
      BY <1>8
    <3>2. E[i] - E[i-1] \in Nat /\ q[i] \in Entries
      BY <1>4, <1>7
    <3> HIDE DEF r, q
    <3>3. QED
      BY <3>1, <3>2 DEF Entries
  <2>2. QED
    BY <2>1
<1>10. Len(r) = n /\ r \in Seq(Entries)
  <2>1. r \in [1..n -> Entries]
    BY <1>8, <1>9
  <2> HIDE DEF r
  <2>2. QED
    BY <1>1, <2>1
<1>11. \A i \in 0..n : Due(r, left)[i] = E[i]
  <2>1. Due(r, left)[0] = 0 /\ E[0] = 0
    <3>1. 0 \in 0..n /\ 0 \in 0..Len(r)
      BY <1>1, <1>10
    <3>2. Due(r, left)[0] = 0
      BY <3>1 DEF Due
    <3>3. E[0] = Positive(0 - k)
      BY <1>3, <3>1 DEF E
    <3> HIDE DEF k
    <3>4. QED
      BY <1>2, <3>2, <3>3 DEF Positive
  <2>2. ASSUME NEW i \in 1..n
        PROVE  Due(r, left)[i] = E[i]
    <3>1. Due(r, left)[i] = Positive(s.left[q[i].task] - k)
      <4> HIDE DEF r, left, k, q
      <4>1. i \in 0..Len(r) /\ i # 0
        BY <1>6, <1>10
      <4>2. Due(r, left)[i] = Positive(left[r[i].task])
        BY <4>1 DEF Due
      <4>3. QED
        BY <1>5, <1>9, <4>2
    <3>2. E[i] = Positive(Positive(s.left[q[i].task]) - k)
      BY <1>3, <1>6 DEF E
    <3> HIDE DEF k, q
    <3>3. QED
      BY <1>2, <1>4, <3>1, <3>2 DEF Positive
  <2>3. QED
    BY <1>1, <2>1, <2>2
<1>12. Listed(r, left)
  <2> HIDE DEF r, left, D
  <2>1. \A i \in 1..Len(r) : r[i].fDeltaTimeRemaining = Due(r, left)[i] - Due(r, left)[i-1]
    BY <1>6, <1>9, <1>10, <1>11
  <2>2. \A i, j \in 1..Len(r) :
            i # j => r[i].task # r[j].task /\ r[i].token # r[j].token
    BY <1>1, <1>9, <1>10 DEF Listed
  <2>3. \A t \in Tasks : left[t] # Idle <=> \E i \in 1..Len(r) : r[i].task = t
    BY <1>1, <1>5, <1>9, <1>10 DEF Listed
  <2>4. \A i, j \in 1..Len(r) : i < j => left[r[i].task] <= left[r[j].task]
    <3>1. ASSUME NEW i \in 1..n, NEW j \in 1..n, i < j
          PROVE  left[r[i].task] <= left[r[j].task]
      <4>1. s.left[q[i].task] <= s.left[q[j].task]
        BY <1>1, <3>1 DEF Listed
      <4>2. QED
        <5>1. /\ left[r[i].task] = s.left[q[i].task] - k
              /\ left[r[j].task] = s.left[q[j].task] - k
              /\ s.left[q[i].task] \in Int /\ s.left[q[j].task] \in Int
          BY <1>4, <1>5, <1>9
        <5> HIDE DEF k, q
        <5>2. QED
          BY <1>2, <4>1, <5>1
    <3>2. QED
      BY <1>10, <3>1
  <2>5. QED
    BY <1>5, <1>10, <2>1, <2>2, <2>3, <2>4 DEF Listed
<1>13. QED
  BY <1>9, <1>10, <1>12

LEMMA SynchronizedGood ==
  ASSUME NEW s, Good(s)
  PROVE  Good(Synchronized(s))
<1> DEFINE r == Synchronized(s)
           k == Seen(s)
<1>1. /\ s \in Queues /\ s.sinceSync \in Int /\ s.left \in Lefts
      /\ s.wait \in [Tasks -> Nat \cup {Idle}]
      /\ s.ahead \in [Tasks -> Nat] /\ s.behind \in [Tasks -> Nat]
      /\ \A t \in Tasks : s.wait[t] = Idle <=> s.left[t] = Idle
      /\ \A t \in Tasks : s.left[t] # Idle =>
            InTime(s.wait[t], s.left[t], s.sinceSync, s.ahead[t], s.behind[t])
  BY DEF Good, Queues
<1>2. k = Positive(s.sinceSync) /\ k \in Int
  BY SeenTyped
<1>3. /\ r.sinceSync = 0 /\ r.wait = s.wait /\ r.left = Less(s.left, Seen(s))
      /\ r.ahead = s.ahead /\ r.behind = s.behind
      /\ r = [queue |-> r.queue, sinceSync |-> r.sinceSync, left |-> r.left, wait |-> r.wait,
              ahead |-> r.ahead, behind |-> r.behind]
  BY SynchronizedFields
<1>4. Listed(r.queue, r.left)
  BY SynchronizedListed
<1>5. r.queue \in Seq(Entries) /\ r.left \in Lefts
  BY <1>4 DEF Listed
<1> HIDE DEF r
<1>6. r \in Queues
  BY <1>1, <1>3, <1>5 DEF Queues
<1>7. \A t \in Tasks : /\ s.left[t] = Idle => r.left[t] = Idle
                       /\ s.left[t] # Idle =>
                             s.left[t] \in Int /\ r.left[t] = s.left[t] - k /\ r.left[t] # Idle
  <2> HIDE DEF k
  <2>1. r.left = Less(s.left, k)
    BY <1>3 DEF k
  <2>2. s.left \in Lefts /\ k \in Int
    BY <1>1, <1>2
  <2>3. QED
    BY <2>1, <2>2, LessTyped
<1>8. \A t \in Tasks : r.wait[t] = Idle <=> r.left[t] = Idle
  BY <1>1, <1>3, <1>7
<1>9. ASSUME NEW t \in Tasks, r.left[t] # Idle
      PROVE  InTime(r.wait[t], r.left[t], r.sinceSync, r.ahead[t], r.behind[t])
  <2>1. /\ s.left[t] # Idle /\ s.left[t] \in Int /\ r.left[t] = s.left[t] - Positive(s.sinceSync)
        /\ s.wait[t] \in Nat /\ s.ahead[t] \in Nat /\ s.behind[t] \in Nat
    BY <1>1, <1>2, <1>7, <1>9
  <2>2. InTime(s.wait[t], s.left[t] - Positive(s.sinceSync), 0, s.ahead[t], s.behind[t])
    BY <1>1, <2>1, InTimeSeen
  <2>3. QED
    BY <1>3, <2>1, <2>2
<1>10. QED
  BY <1>3, <1>4, <1>6, <1>8, <1>9, TimeAssumption DEF Good, r

\* RemoveEntry: the other entries keep their times.
LEMMA RemoveEntryFields ==
  ASSUME NEW s, Good(s), NEW i \in 1..Len(s.queue)
  PROVE  LET r == RemoveEntry(s, i)
             t == s.queue[i].task
             q == s.queue
         IN  /\ r.sinceSync = s.sinceSync
             /\ r.left = [s.left EXCEPT ![t] = Idle] /\ r.wait = [s.wait EXCEPT ![t] = Idle]
             /\ r.ahead = [s.ahead EXCEPT ![t] = 0] /\ r.behind = [s.behind EXCEPT ![t] = 0]
             /\ r.queue = RemoveAt(IF i = Len(q) THEN q
                             ELSE [q EXCEPT ![i+1].fDeltaTimeRemaining =
                                       @ + q[i].fDeltaTimeRemaining], i)
             /\ r = [queue |-> r.queue, sinceSync |-> r.sinceSync,
                     left |-> r.left, wait |-> r.wait,
                     ahead |-> r.ahead, behind |-> r.behind]
<1> DEFINE t == s.queue[i].task
           q == s.queue
           later == IF i = Len(q) THEN q
                    ELSE [q EXCEPT ![i+1].fDeltaTimeRemaining =
                              @ + q[i].fDeltaTimeRemaining]
           shorter == RemoveAt(later, i)
<1>1. s \in Queues
  BY DEF Good
<1>2. RemoveEntry(s, i) = [s EXCEPT !.queue = shorter, !.left[t] = Idle, !.wait[t] = Idle,
                                   !.ahead[t] = 0, !.behind[t] = 0]
  BY DEF RemoveEntry
<1> HIDE DEF shorter, t
<1>3. LET r == RemoveEntry(s, i)
      IN  /\ r.sinceSync = s.sinceSync
          /\ r.left = [s.left EXCEPT ![t] = Idle] /\ r.wait = [s.wait EXCEPT ![t] = Idle]
          /\ r.ahead = [s.ahead EXCEPT ![t] = 0] /\ r.behind = [s.behind EXCEPT ![t] = 0]
          /\ r.queue = shorter
          /\ r = [queue |-> r.queue, sinceSync |-> r.sinceSync,
                  left |-> r.left, wait |-> r.wait,
                  ahead |-> r.ahead, behind |-> r.behind]
  BY <1>1, <1>2 DEF Queues
<1>4. QED
  BY <1>3 DEF shorter, t

LEMMA RemoveEntryListed ==
  ASSUME NEW s, Good(s), NEW i \in 1..Len(s.queue)
  PROVE  LET r == RemoveEntry(s, i)
         IN  /\ Listed(r.queue, r.left)
             /\ Len(r.queue) = Len(s.queue) - 1
             /\ \A j \in 1..(Len(s.queue) - 1) :
                   LET k == IF j < i THEN j ELSE j + 1
                   IN  /\ r.queue[j].task = s.queue[k].task
                       /\ r.queue[j].token = s.queue[k].token
<1> DEFINE q == s.queue
           n == Len(q)
           D == Due(q, s.left)
           r == RemoveEntry(s, i).queue
           left == RemoveEntry(s, i).left
           From(j) == IF j < i THEN j ELSE j + 1
           later == IF i = n THEN q
                    ELSE [q EXCEPT ![i+1].fDeltaTimeRemaining = @ + q[i].fDeltaTimeRemaining]
<1>1. Listed(q, s.left) /\ q \in Seq(Entries) /\ s.left \in Lefts /\ n \in Nat
  BY DEF Good, Queues
<1>2. /\ D \in [0..n -> Nat] /\ D[0] = 0
      /\ \A j \in 1..n : D[j] = Positive(s.left[q[j].task])
  BY <1>1, DueTyped
<1>3. \A j \in 1..n : /\ q[j] \in Entries /\ q[j].task \in Tasks /\ q[j].token \in Tokens
                      /\ q[j].fDeltaTimeRemaining \in Nat
                      /\ q[j].fDeltaTimeRemaining = D[j] - D[j-1]
  BY <1>1, EntryTyped DEF Listed
<1>4. i \in 1..n /\ i \in Int /\ q[i].task \in Tasks
  BY <1>1, <1>3
<1> HIDE DEF D
<1>5. /\ later \in Seq(Entries) /\ Len(later) = n
      /\ \A j \in 1..n : later[j].task = q[j].task /\ later[j].token = q[j].token
      /\ \A j \in 1..n : j # i + 1 => later[j] = q[j]
      /\ i # n => later[i+1].fDeltaTimeRemaining =
                     q[i+1].fDeltaTimeRemaining + q[i].fDeltaTimeRemaining
  <2>1. CASE i = n
    BY <1>1, <1>4, <2>1
  <2>2. CASE i # n
    <3>1. i + 1 \in 1..n
      BY <1>1, <1>4, <2>2
    <3>2. PICK d : d = q[i+1].fDeltaTimeRemaining + q[i].fDeltaTimeRemaining
      OBVIOUS
    <3>3. d \in Nat
      BY <1>3, <1>4, <3>1, <3>2
    <3>4. PICK e : e = [q[i+1] EXCEPT !.fDeltaTimeRemaining = d]
      OBVIOUS
    <3>5. /\ e \in Entries /\ e.fDeltaTimeRemaining = d
          /\ e.task = q[i+1].task /\ e.token = q[i+1].token
      <4> HIDE DEF q
      <4>1. q[i+1] \in Entries
        BY <1>3, <3>1
      <4>2. QED
        BY <3>3, <3>4, <4>1 DEF Entries
    <3>6. later = [q EXCEPT ![i+1] = e]
      BY <2>2, <3>2, <3>4
    <3>7. q = [j \in 1..n |-> q[j]]
      BY <1>1
    <3> HIDE DEF q, later
    <3>8. later = [j \in 1..n |-> IF j = i + 1 THEN e ELSE q[j]]
      BY <3>1, <3>6, <3>7
    <3>9. later \in [1..n -> Entries]
      BY <1>3, <3>5, <3>8
    <3>10. later \in Seq(Entries) /\ Len(later) = n
      BY <1>1, <3>9
    <3>11. QED
      BY <3>1, <3>2, <3>5, <3>8, <3>10
  <2>3. QED
    BY <2>1, <2>2
<1>6. r = RemoveAt(later, i) /\ left = [s.left EXCEPT ![q[i].task] = Idle]
  BY RemoveEntryFields
<1> HIDE DEF q, r, left, later
<1>7. /\ r \in Seq(Entries) /\ Len(r) = n - 1
      /\ \A j \in 1..(i - 1) : r[j] = later[j]
      /\ \A j \in i..(n - 1) : r[j] = later[j + 1]
  <2>1. later \in Seq(Entries) /\ i \in 1..Len(later)
    BY <1>4, <1>5
  <2>2. /\ r \in Seq(Entries) /\ Len(r) = Len(later) - 1
        /\ \A j \in 1..(i - 1) : r[j] = later[j]
        /\ \A j \in i..(Len(later) - 1) : r[j] = later[j + 1]
    BY <1>6, <2>1, RemovedAt
  <2>3. QED
    BY <1>5, <2>2
<1>8. \A j \in 1..(n - 1) : From(j) \in 1..n /\ From(j) # i /\ r[j] = later[From(j)]
  <2>1. ASSUME NEW j \in 1..(n - 1)
        PROVE  From(j) \in 1..n /\ From(j) # i /\ r[j] = later[From(j)]
    <3>1. CASE j < i
      BY <1>1, <1>4, <1>7, <3>1
    <3>2. CASE ~(j < i)
      <4>1. j \in i..(n - 1) /\ From(j) = j + 1
        BY <1>1, <1>4, <3>2
      <4>2. r[j] = later[j + 1]
        BY <1>7, <4>1
      <4>3. QED
        BY <1>1, <1>4, <4>1, <4>2
    <3>3. QED
      BY <3>1, <3>2
  <2>2. QED
    BY <2>1
<1>9. \A j \in 1..(n - 1) : /\ r[j].task = q[From(j)].task /\ r[j].token = q[From(j)].token
                            /\ q[From(j)].task # q[i].task
  <2> HIDE DEF From
  <2>1. QED
    BY <1>1, <1>4, <1>5, <1>8 DEF Listed
<1>10. /\ left \in Lefts /\ left[q[i].task] = Idle
       /\ \A t \in Tasks : t # q[i].task => left[t] = s.left[t]
  BY <1>1, <1>4, <1>6 DEF Lefts
<1>11. Due(r, left)[0] = 0 /\ \A j \in 1..(n - 1) : Due(r, left)[j] = D[From(j)]
  <2>1. Due(r, left)[0] = 0
    <3>1. 0 \in 0..Len(r)
      BY <1>1, <1>4, <1>7
    <3>2. QED
      BY <3>1 DEF Due
  <2>2. ASSUME NEW j \in 1..(n - 1)
        PROVE  Due(r, left)[j] = D[From(j)]
    <3>1. j \in 0..Len(r) /\ j # 0
      BY <1>1, <1>4, <1>7
    <3>2. Due(r, left)[j] = Positive(left[r[j].task])
      BY <3>1 DEF Due
    <3>3. left[r[j].task] = s.left[q[From(j)].task]
      BY <1>3, <1>8, <1>9, <1>10
    <3>4. QED
      BY <1>2, <1>8, <3>2, <3>3
  <2>3. QED
    BY <2>1, <2>2
<1>12. ASSUME NEW j \in 1..(n - 1)
       PROVE  r[j].fDeltaTimeRemaining = Due(r, left)[j] - Due(r, left)[j-1]
  <2>1. D[0] = 0 /\ \A x \in 0..n : D[x] \in Int
    BY <1>2
  <2>2. j \in Int /\ j - 1 \in 0..(n - 1) /\ j + 1 \in 1..n /\ j \in 1..n /\ n \in Int
    BY <1>1
  <2>3. CASE j < i
    <3>1. r[j].fDeltaTimeRemaining = D[j] - D[j-1]
      <4>1. From(j) = j /\ j # i + 1
        BY <1>4, <2>2, <2>3
      <4>2. r[j] = q[j]
        BY <1>5, <1>8, <2>2, <4>1
      <4>3. QED
        BY <1>3, <2>2, <4>2
    <3>2. Due(r, left)[j] = D[j] /\ Due(r, left)[j-1] = D[j-1]
      BY <1>4, <1>11, <2>1, <2>2, <2>3
    <3>3. QED
      BY <3>1, <3>2
  <2>4. CASE j = i
    <3>1. i # n /\ i + 1 \in 1..n
      BY <1>4, <2>2, <2>4
    <3>2. r[j].fDeltaTimeRemaining = q[i+1].fDeltaTimeRemaining + q[i].fDeltaTimeRemaining
      BY <1>5, <1>8, <2>4, <3>1
    <3>3. /\ q[i+1].fDeltaTimeRemaining = D[i+1] - D[i]
          /\ q[i].fDeltaTimeRemaining = D[i] - D[i-1]
      BY <1>3, <1>4, <3>1
    <3>4. Due(r, left)[j] = D[i+1] /\ Due(r, left)[j-1] = D[i-1]
      BY <1>4, <1>11, <2>1, <2>2, <2>4
    <3>5. D[i+1] \in Int /\ D[i] \in Int /\ D[i-1] \in Int
      BY <1>4, <2>1, <3>1
    <3>6. QED
      BY <3>2, <3>3, <3>4, <3>5
  <2>5. CASE j > i
    <3>1. r[j] = q[j+1]
      BY <1>4, <1>5, <1>8, <2>2, <2>5
    <3>2. q[j+1].fDeltaTimeRemaining = D[j+1] - D[j]
      BY <1>3, <2>2
    <3>3. Due(r, left)[j] = D[j+1] /\ Due(r, left)[j-1] = D[j]
      BY <1>4, <1>11, <2>2, <2>5
    <3>4. QED
      BY <3>1, <3>2, <3>3
  <2>6. QED
    BY <1>4, <2>2, <2>3, <2>4, <2>5
<1>13. ASSUME NEW j \in 1..(n - 1), NEW k \in 1..(n - 1)
       PROVE  /\ j # k => From(j) # From(k)
              /\ j < k => From(j) < From(k)
  BY <1>1, <1>4
<1>14. ASSUME NEW t \in Tasks
       PROVE  left[t] # Idle <=> \E j \in 1..(n - 1) : r[j].task = t
  <2>1. ASSUME NEW j \in 1..(n - 1), r[j].task = t
        PROVE  left[t] # Idle
    <3>1. s.left[t] # Idle
      BY <1>1, <1>8, <1>9, <2>1 DEF Listed
    <3>2. QED
      BY <1>9, <1>10, <2>1, <3>1
  <2>2. ASSUME left[t] # Idle
        PROVE  \E j \in 1..(n - 1) : r[j].task = t
    <3>1. t # q[i].task /\ s.left[t] # Idle
      BY <1>10, <2>2
    <3>2. PICK k \in 1..n : q[k].task = t
      BY <1>1, <3>1 DEF Listed
    <3>3. PICK j : j = IF k < i THEN k ELSE k - 1
      OBVIOUS
    <3>4. j \in 1..(n - 1) /\ From(j) = k
      BY <1>1, <1>4, <3>1, <3>2, <3>3
    <3>5. QED
      BY <1>9, <3>2, <3>4
  <2>3. QED
    BY <2>1, <2>2
<1>15. Listed(r, left)
  <2> HIDE DEF From
  <2>1. \A j, k \in 1..Len(r) :
           j # k => r[j].task # r[k].task /\ r[j].token # r[k].token
    <3>1. ASSUME NEW j \in 1..(n - 1), NEW k \in 1..(n - 1), j # k
          PROVE  r[j].task # r[k].task /\ r[j].token # r[k].token
      <4>1. From(j) \in 1..n /\ From(k) \in 1..n /\ From(j) # From(k)
        BY <1>8, <1>13, <3>1
      <4>2. q[From(j)].task # q[From(k)].task /\ q[From(j)].token # q[From(k)].token
        BY <1>1, <4>1 DEF Listed
      <4>3. QED
        BY <1>9, <4>2
    <3>2. QED
      BY <1>7, <3>1
  <2>2. \A j, k \in 1..Len(r) : j < k => left[r[j].task] <= left[r[k].task]
    <3>1. ASSUME NEW j \in 1..(n - 1), NEW k \in 1..(n - 1), j < k
          PROVE  left[r[j].task] <= left[r[k].task]
      <4>1. s.left[q[From(j)].task] <= s.left[q[From(k)].task]
        BY <1>1, <1>8, <1>13, <3>1 DEF Listed
      <4>2. /\ left[r[j].task] = s.left[q[From(j)].task]
            /\ left[r[k].task] = s.left[q[From(k)].task]
        BY <1>3, <1>8, <1>9, <1>10
      <4>3. QED
        BY <4>1, <4>2
    <3>2. QED
      BY <1>7, <3>1
  <2>3. QED
    BY <1>7, <1>10, <1>12, <1>14, <2>1, <2>2 DEF Listed
<1>16. QED
  BY <1>7, <1>9, <1>15 DEF q, r, left

LEMMA RemoveEntryGood ==
  ASSUME NEW s, Good(s), NEW i \in 1..Len(s.queue)
  PROVE  Good(RemoveEntry(s, i))
<1> DEFINE r == RemoveEntry(s, i)
           t == s.queue[i].task
<1>1. /\ s \in Queues /\ s.sinceSync \in Int /\ s.sinceSync <= MaxLag /\ s.left \in Lefts
      /\ s.wait \in [Tasks -> Nat \cup {Idle}] /\ Listed(s.queue, s.left)
      /\ s.ahead \in [Tasks -> Nat] /\ s.behind \in [Tasks -> Nat]
      /\ \A u \in Tasks : s.wait[u] = Idle <=> s.left[u] = Idle
      /\ \A u \in Tasks : s.left[u] # Idle =>
            InTime(s.wait[u], s.left[u], s.sinceSync, s.ahead[u], s.behind[u])
  BY DEF Good, Queues
<1>2. t \in Tasks
  BY <1>1, EntryTyped
<1>3. /\ r.sinceSync = s.sinceSync
      /\ r.left = [s.left EXCEPT ![t] = Idle] /\ r.wait = [s.wait EXCEPT ![t] = Idle]
      /\ r.ahead = [s.ahead EXCEPT ![t] = 0] /\ r.behind = [s.behind EXCEPT ![t] = 0]
      /\ r = [queue |-> r.queue, sinceSync |-> r.sinceSync, left |-> r.left, wait |-> r.wait,
              ahead |-> r.ahead, behind |-> r.behind]
  BY RemoveEntryFields
<1>4. Listed(r.queue, r.left)
  BY RemoveEntryListed
<1>5. r.queue \in Seq(Entries) /\ r.left \in Lefts
  BY <1>4 DEF Listed
<1> HIDE DEF r, t
<1>6. /\ r.wait \in [Tasks -> Nat \cup {Idle}] /\ r \in Queues
      /\ r.ahead \in [Tasks -> Nat] /\ r.behind \in [Tasks -> Nat]
  <2>1. r.wait \in [Tasks -> Nat \cup {Idle}]
    BY <1>1, <1>2, <1>3
  <2>2. r.ahead \in [Tasks -> Nat] /\ r.behind \in [Tasks -> Nat]
    BY <1>1, <1>2, <1>3
  <2>3. r.sinceSync \in Int
    BY <1>1, <1>3
  <2>4. r = [queue |-> r.queue, sinceSync |-> r.sinceSync, left |-> r.left, wait |-> r.wait,
             ahead |-> r.ahead, behind |-> r.behind]
    BY <1>3
  <2>5. QED
    BY <1>5, <2>1, <2>2, <2>3, <2>4 DEF Queues
<1>7. /\ r.left[t] = Idle /\ r.wait[t] = Idle
      /\ \A u \in Tasks : u # t => /\ r.left[u] = s.left[u] /\ r.wait[u] = s.wait[u]
                                   /\ r.ahead[u] = s.ahead[u] /\ r.behind[u] = s.behind[u]
  BY <1>1, <1>2, <1>3 DEF Lefts
<1>8. \A u \in Tasks : r.wait[u] = Idle <=> r.left[u] = Idle
  BY <1>1, <1>7
<1>9. \A u \in Tasks : r.left[u] # Idle =>
          InTime(r.wait[u], r.left[u], r.sinceSync, r.ahead[u], r.behind[u])
  BY <1>1, <1>3, <1>7
<1>10. Good(r)
  BY <1>1, <1>3, <1>4, <1>6, <1>8, <1>9 DEF Good
<1>11. QED
  BY <1>10 DEF r

\* addEntry: the entry goes behind those that go off no later than it.
LEMMA PlaceFound ==
  ASSUME NEW q, NEW left, Listed(q, left), NEW delay \in Nat
  PROVE  LET k == Place(q, delay)
             D == Due(q, left)
         IN  /\ k \in 0..Len(q) /\ D[k] <= delay
             /\ \A i \in (k + 1)..Len(q) : D[i] > delay
<1> DEFINE D == Due(q, left)
           n == Len(q)
           K == {i \in 0..n : D[i] <= delay}
<1>1. n \in Nat /\ D \in [0..n -> Nat] /\ D[0] = 0
  BY DueTyped
<1>2. TimeUntil(q) = D
  BY TimesAreExact
<1>3. Place(q, delay) = Max(K)
  BY <1>2 DEF Place
<1> HIDE DEF D
<1>4. K \subseteq 0..n /\ 0 \in K
  BY <1>1
<1>5. Max(K) \in K /\ \A i \in K : i <= Max(K)
  BY <1>1, <1>4, MaxOfNumbers
<1>6. PICK k : k = Max(K)
  OBVIOUS
<1>7. k \in 0..n /\ D[k] <= delay
  BY <1>5, <1>6
<1>8. ASSUME NEW i \in (k + 1)..n
      PROVE  D[i] > delay
  <2>1. i \in 0..n /\ ~(i <= k)
    BY <1>1, <1>7
  <2>2. i \notin K
    BY <1>5, <1>6, <2>1
  <2>3. QED
    BY <1>1, <2>1, <2>2
<1>9. QED
  BY <1>3, <1>6, <1>7, <1>8 DEF D

\* The list with an entry e put behind k others: the next one's difference is to e.
Lengthened(q, k, e) ==
    InsertAt(IF k = Len(q) THEN q
             ELSE [q EXCEPT ![k+1].fDeltaTimeRemaining = @ - e.fDeltaTimeRemaining],
             k + 1, e)

\* The entry addEntry makes.
Entry(q, tok, t, delay) ==
    [token |-> tok, task |-> t,
     fDeltaTimeRemaining |-> delay - TimeUntil(q)[Place(q, delay)]]

LEMMA AddEntryFields ==
  ASSUME NEW s, Good(s), NEW tok \in Tokens, NEW t \in Tasks, NEW delay \in Nat
  PROVE  LET q == Synchronized(s).queue
         IN  AddEntry(s, tok, t, delay) =
                [queue     |-> Lengthened(q, Place(q, delay), Entry(q, tok, t, delay)),
                 sinceSync |-> 0,
                 left      |-> [Less(s.left, Seen(s)) EXCEPT ![t] = delay],
                 wait      |-> [s.wait EXCEPT ![t] = delay],
                 ahead     |-> [s.ahead EXCEPT ![t] = 0],
                 behind    |-> [s.behind EXCEPT ![t] = 0]]
<1> DEFINE now == Synchronized(s)
           q   == now.queue
           longer == Lengthened(q, Place(q, delay), Entry(q, tok, t, delay))
<1>1. /\ now \in Queues /\ now.sinceSync = 0 /\ now.wait = s.wait /\ now.left = Less(s.left, Seen(s))
      /\ now.ahead = s.ahead /\ now.behind = s.behind
  <2>1. now \in Queues
    BY SynchronizedGood DEF Good
  <2>2. /\ now.sinceSync = 0 /\ now.wait = s.wait /\ now.left = Less(s.left, Seen(s))
        /\ now.ahead = s.ahead /\ now.behind = s.behind
    BY SynchronizedFields
  <2>3. QED
    BY <2>1, <2>2
<1>2. AddEntry(s, tok, t, delay) =
         [now EXCEPT !.queue = longer, !.left[t] = delay, !.wait[t] = delay,
                     !.ahead[t] = 0, !.behind[t] = 0]
  BY DEF AddEntry, Lengthened, Entry
<1> HIDE DEF longer, now
<1>3. AddEntry(s, tok, t, delay) =
         [queue |-> longer, sinceSync |-> now.sinceSync,
          left |-> [now.left EXCEPT ![t] = delay], wait |-> [now.wait EXCEPT ![t] = delay],
          ahead |-> [now.ahead EXCEPT ![t] = 0], behind |-> [now.behind EXCEPT ![t] = 0]]
  BY <1>1, <1>2 DEF Queues
<1>4. QED
  BY <1>1, <1>3 DEF longer, now

LEMMA AddEntryListed ==
  ASSUME NEW s, Good(s), NEW tok \in Tokens, NEW t \in Tasks, NEW delay \in Nat,
         s.left[t] = Idle, \A i \in 1..Len(s.queue) : s.queue[i].token # tok
  PROVE  LET r == AddEntry(s, tok, t, delay)
         IN  /\ Listed(r.queue, r.left)
             /\ \A u \in Tasks, k \in Tokens :
                   Has(r.queue, u, k) <=> Has(s.queue, u, k) \/ (u = t /\ k = tok)
<1> DEFINE q == Synchronized(s).queue
           old == Synchronized(s).left
           n == Len(q)
           D == Due(q, old)
           k == Place(q, delay)
           delta == delay - TimeUntil(q)[k]
           new == [token |-> tok, task |-> t, fDeltaTimeRemaining |-> delta]
           later == IF k = n THEN q
                    ELSE [q EXCEPT ![k+1].fDeltaTimeRemaining = @ - delta]
           r == AddEntry(s, tok, t, delay).queue
           left == AddEntry(s, tok, t, delay).left
           To(j) == IF j <= k THEN j ELSE j - 1
<1>1. /\ Listed(q, old) /\ Len(s.queue) = n
      /\ \A i \in 1..n : q[i].task = s.queue[i].task /\ q[i].token = s.queue[i].token
  BY SynchronizedListed
<1>2. /\ q \in Seq(Entries) /\ old \in Lefts /\ n \in Nat
  BY <1>1 DEF Listed
<1>3. /\ D \in [0..n -> Nat] /\ D[0] = 0
      /\ \A j \in 1..n : D[j] = Positive(old[q[j].task])
      /\ \A i, j \in 0..n : i <= j => D[i] <= D[j]
  BY <1>1, DueTyped
<1>4. \A j \in 1..n : /\ q[j] \in Entries /\ q[j].task \in Tasks /\ q[j].token \in Tokens
                      /\ q[j].fDeltaTimeRemaining \in Nat
                      /\ q[j].fDeltaTimeRemaining = D[j] - D[j-1]
                      /\ old[q[j].task] \in Int
  <2>1. \A j \in 1..n : q[j].fDeltaTimeRemaining = D[j] - D[j-1]
    BY <1>1 DEF Listed
  <2> HIDE DEF q, old, D
  <2>2. \A j \in 1..n : /\ q[j] \in Entries /\ q[j].task \in Tasks /\ q[j].token \in Tokens
                        /\ q[j].fDeltaTimeRemaining \in Nat
                        /\ old[q[j].task] \in Int
    BY <1>1, EntryTyped
  <2>3. QED
    BY <2>1, <2>2
<1>5. k \in 0..n /\ D[k] <= delay /\ \A j \in (k + 1)..n : D[j] > delay
  BY <1>1, PlaceFound
<1>6. TimeUntil(q) = D
  BY <1>1, TimesAreExact
<1>7. /\ old = Less(s.left, Seen(s)) /\ old[t] = Idle
      /\ left = [old EXCEPT ![t] = delay]
      /\ r = InsertAt(later, k + 1, new)
  <2>1. old = Less(s.left, Seen(s))
    BY SynchronizedFields
  <2>2. old[t] = Idle
    BY <2>1 DEF Less
  <2>3. left = [Less(s.left, Seen(s)) EXCEPT ![t] = delay]
    BY AddEntryFields
  <2>4. r = Lengthened(q, k, Entry(q, tok, t, delay))
    BY AddEntryFields
  <2>5. r = InsertAt(later, k + 1, new)
    BY <2>4 DEF Lengthened, Entry
  <2> HIDE DEF old, left, r, later, k, new
  <2>6. QED
    BY <2>1, <2>2, <2>3, <2>5
<1>8. \A j \in 1..n : q[j].task # t /\ q[j].token # tok
  <2>1. \A j \in 1..n : old[q[j].task] # Idle
    BY <1>1, EntryTyped
  <2> HIDE DEF q, old
  <2>2. QED
    BY <1>1, <1>7, <2>1
<1> HIDE DEF q, old, D, k, r, left
<1>9. delta = delay - D[k] /\ delta \in Nat /\ k \in Int
  <2>1. D[k] \in Nat /\ D[k] <= delay
    BY <1>3, <1>5
  <2>2. QED
    BY <1>5, <1>6, <2>1
<1> HIDE DEF delta
<1>10. new \in Entries /\ new.task = t /\ new.token = tok /\ new.fDeltaTimeRemaining = delta
  BY <1>9 DEF Entries
<1>11. /\ later \in Seq(Entries) /\ Len(later) = n
       /\ \A j \in 1..n : later[j].task = q[j].task /\ later[j].token = q[j].token
       /\ \A j \in 1..n : j # k + 1 => later[j] = q[j]
       /\ k # n => later[k+1].fDeltaTimeRemaining = q[k+1].fDeltaTimeRemaining - delta
  <2>1. CASE k = n
    BY <1>2, <1>5, <2>1
  <2>2. CASE k # n
    <3>1. k + 1 \in 1..n /\ k + 1 \in 0..n /\ k + 1 - 1 = k
      BY <1>2, <1>5, <2>2
    <3>2. PICK d : d = q[k+1].fDeltaTimeRemaining - delta
      OBVIOUS
    <3>3. d \in Nat
      <4>1. q[k+1].fDeltaTimeRemaining = D[k+1] - D[k]
        <5>1. PICK m : m = k + 1
          OBVIOUS
        <5>2. m - 1 = k /\ m \in 1..n
          BY <1>5, <3>1, <5>1
        <5>3. q[m].fDeltaTimeRemaining = D[m] - D[m-1]
          BY <1>4, <5>2
        <5>4. QED
          BY <5>1, <5>2, <5>3
      <4>2. D[k+1] \in Nat /\ D[k] \in Nat /\ D[k+1] > delay
        BY <1>2, <1>3, <1>5, <3>1
      <4>3. QED
        BY <1>9, <3>2, <4>1, <4>2
    <3>4. PICK e : e = [q[k+1] EXCEPT !.fDeltaTimeRemaining = d]
      OBVIOUS
    <3>5. /\ e \in Entries /\ e.fDeltaTimeRemaining = d
          /\ e.task = q[k+1].task /\ e.token = q[k+1].token
      <4>1. q[k+1] \in Entries
        BY <1>4, <3>1
      <4>2. QED
        BY <3>3, <3>4, <4>1 DEF Entries
    <3>6. later = [q EXCEPT ![k+1] = e]
      BY <2>2, <3>2, <3>4
    <3>7. q = [j \in 1..n |-> q[j]]
      BY <1>2
    <3> HIDE DEF later
    <3>8. later = [j \in 1..n |-> IF j = k + 1 THEN e ELSE q[j]]
      BY <3>1, <3>6, <3>7
    <3>9. later \in [1..n -> Entries]
      BY <1>4, <3>5, <3>8
    <3>10. later \in Seq(Entries) /\ Len(later) = n
      BY <1>2, <3>9
    <3>11. QED
      BY <3>1, <3>2, <3>5, <3>8, <3>10
  <2>3. QED
    BY <2>1, <2>2
<1> HIDE DEF later, new
<1>12. /\ r \in Seq(Entries) /\ Len(r) = n + 1 /\ r[k + 1] = new
       /\ \A j \in 1..k : r[j] = later[j]
       /\ \A j \in (k + 2)..(n + 1) : r[j] = later[j - 1]
  <2>1. later \in Seq(Entries) /\ k \in 0..Len(later) /\ new \in Entries
    BY <1>5, <1>10, <1>11
  <2>2. /\ r \in Seq(Entries) /\ Len(r) = Len(later) + 1
        /\ \A j \in 1..k : r[j] = later[j]
        /\ r[k + 1] = new
        /\ \A j \in (k + 2)..(Len(later) + 1) : r[j] = later[j - 1]
    <3>1. PICK p : p = k + 1
      OBVIOUS
    <3>2. p \in 1..(Len(later) + 1) /\ p - 1 = k /\ p + 1 = k + 2
      BY <1>2, <1>11, <2>1, <3>1
    <3>3. r = InsertAt(later, p, new)
      BY <1>7, <3>1
    <3>4. r \in Seq(Entries) /\ Len(r) = Len(later) + 1
      BY <2>1, <3>2, <3>3, InsertedAt
    <3>5. \A j \in 1..(p - 1) : r[j] = later[j]
      <4>1. ASSUME NEW j \in 1..(p - 1)
            PROVE  InsertAt(later, p, new)[j] = later[j]
        BY <2>1, <3>2, InsertedAt
      <4>2. QED
        BY <3>3, <4>1
    <3>6. r[p] = new
      BY <2>1, <3>2, <3>3, InsertedAt
    <3>7. \A j \in (p + 1)..(Len(later) + 1) : r[j] = later[j - 1]
      <4>1. ASSUME NEW j \in (p + 1)..(Len(later) + 1)
            PROVE  InsertAt(later, p, new)[j] = later[j - 1]
        BY <2>1, <3>2, InsertedBehind
      <4>2. QED
        BY <3>3, <4>1
    <3>8. QED
      BY <3>1, <3>2, <3>4, <3>5, <3>6, <3>7
  <2>3. QED
    BY <1>11, <2>2
<1>13. \A j \in 1..(n + 1) : j # k + 1 =>
           /\ To(j) \in 1..n /\ r[j] = later[To(j)]
           /\ r[j].task = q[To(j)].task /\ r[j].token = q[To(j)].token
  <2>1. ASSUME NEW j \in 1..(n + 1), j # k + 1
        PROVE  To(j) \in 1..n /\ r[j] = later[To(j)]
    <3>1. CASE j <= k
      BY <1>2, <1>5, <1>9, <1>12, <3>1
    <3>2. CASE ~(j <= k)
      <4>1. j \in (k + 2)..(n + 1) /\ To(j) = j - 1
        BY <1>2, <1>5, <1>9, <2>1, <3>2
      <4>2. r[j] = later[j - 1]
        BY <1>12, <4>1
      <4>3. QED
        BY <1>2, <1>5, <1>9, <4>1, <4>2
    <3>3. QED
      BY <3>1, <3>2
  <2> HIDE DEF To
  <2>2. QED
    BY <1>11, <2>1
<1>14. k + 1 \in 1..(n + 1)
  BY <1>2, <1>5
<1>15. /\ left \in Lefts /\ left[t] = delay
       /\ \A u \in Tasks : u # t => left[u] = old[u]
  BY <1>2, <1>7 DEF Lefts
<1>16. /\ \A j \in 0..k : Due(r, left)[j] = D[j]
       /\ Due(r, left)[k + 1] = delay
       /\ \A j \in (k + 2)..(n + 1) : Due(r, left)[j] = D[j - 1]
  <2>1. ASSUME NEW j \in 1..(n + 1), j # k + 1
        PROVE  Due(r, left)[j] = D[To(j)]
    <3>1. j \in 0..Len(r) /\ j # 0
      BY <1>2, <1>12
    <3>2. Due(r, left)[j] = Positive(left[r[j].task])
      BY <3>1 DEF Due
    <3>3. To(j) \in 1..n /\ r[j].task = q[To(j)].task
      BY <1>13, <2>1
    <3> HIDE DEF To
    <3>4. left[r[j].task] = old[q[To(j)].task]
      BY <1>4, <1>8, <1>15, <3>3
    <3>5. QED
      BY <1>3, <3>2, <3>3, <3>4
  <2>2. Due(r, left)[k + 1] = delay
    <3>1. k + 1 \in 0..Len(r) /\ k + 1 # 0
      BY <1>2, <1>5, <1>12
    <3>2. Due(r, left)[k + 1] = Positive(left[r[k + 1].task])
      BY <3>1 DEF Due
    <3>3. left[r[k + 1].task] = delay
      BY <1>10, <1>12, <1>15
    <3>4. QED
      BY <3>2, <3>3 DEF Positive
  <2>3. Due(r, left)[0] = D[0]
    <3>1. 0 \in 0..Len(r)
      BY <1>2, <1>12
    <3>2. QED
      BY <1>3, <3>1 DEF Due
  <2>4. ASSUME NEW j \in 0..k
        PROVE  Due(r, left)[j] = D[j]
    <3>1. CASE j = 0
      BY <2>3, <3>1
    <3>2. CASE j # 0
      <4>1. j \in 1..(n + 1) /\ j # k + 1 /\ To(j) = j
        BY <1>2, <1>5, <3>2
      <4>2. QED
        BY <2>1, <4>1
    <3>3. QED
      BY <3>1, <3>2
  <2>5. ASSUME NEW j \in (k + 2)..(n + 1)
        PROVE  Due(r, left)[j] = D[j - 1]
    <3>1. j \in 1..(n + 1) /\ j # k + 1 /\ To(j) = j - 1
      BY <1>2, <1>5
    <3>2. QED
      BY <2>1, <3>1
  <2>6. QED
    BY <2>2, <2>4, <2>5
<1>17. ASSUME NEW j \in 1..(n + 1)
       PROVE  r[j].fDeltaTimeRemaining = Due(r, left)[j] - Due(r, left)[j-1]
  <2>1. j \in Int /\ n \in Int /\ k \in Int /\ k <= n
    BY <1>2, <1>5
  <2>2. CASE j <= k
    <3>1. j \in 1..k /\ j \in 1..n /\ j # k + 1 /\ j \in 0..k /\ j - 1 \in 0..k
      BY <2>1, <2>2
    <3>2. r[j] = q[j]
      BY <1>11, <1>12, <3>1
    <3>3. QED
      BY <1>4, <1>16, <3>1, <3>2
  <2>3. CASE j = k + 1
    <3>1. k \in 0..k /\ j - 1 = k
      BY <1>5, <2>1, <2>3
    <3>2. QED
      BY <1>9, <1>10, <1>12, <1>16, <2>3, <3>1
  <2>4. CASE j = k + 2
    <3>1. /\ k + 1 \in 1..n /\ k # n /\ j \in (k + 2)..(n + 1) /\ j - 1 = k + 1
          /\ k + 1 \in 0..n /\ k + 1 - 1 = k
      BY <1>5, <2>1, <2>4
    <3>2. r[j].fDeltaTimeRemaining = q[k+1].fDeltaTimeRemaining - delta
      BY <1>11, <1>12, <3>1
    <3>3. q[k+1].fDeltaTimeRemaining = D[k+1] - D[k]
      <4>1. PICK m : m = k + 1
        OBVIOUS
      <4>2. m - 1 = k /\ m \in 1..n
        BY <1>5, <3>1, <4>1
      <4>3. q[m].fDeltaTimeRemaining = D[m] - D[m-1]
        BY <1>4, <4>2
      <4>4. QED
        BY <4>1, <4>2, <4>3
    <3>4. Due(r, left)[j] = D[k+1] /\ Due(r, left)[j-1] = delay
      BY <1>16, <3>1
    <3>5. D[k+1] \in Int /\ D[k] \in Int
      BY <1>3, <1>5, <3>1
    <3>6. QED
      BY <1>9, <3>2, <3>3, <3>4, <3>5
  <2>5. CASE j > k + 2
    <3>1. /\ j \in (k + 2)..(n + 1) /\ j - 1 \in (k + 2)..(n + 1)
          /\ j - 1 \in 1..n /\ j - 1 # k + 1
      BY <1>5, <2>1, <2>5
    <3>2. r[j] = q[j-1]
      BY <1>11, <1>12, <3>1
    <3>3. q[j-1].fDeltaTimeRemaining = D[j-1] - D[j-1-1]
      BY <1>4, <3>1
    <3>4. Due(r, left)[j] = D[j-1] /\ Due(r, left)[j-1] = D[j-1-1]
      BY <1>16, <3>1
    <3>5. QED
      BY <3>2, <3>3, <3>4
  <2>6. QED
    BY <2>1, <2>2, <2>3, <2>4, <2>5
<1>18. \A j \in 1..(n + 1) : j # k + 1 =>
          /\ r[j].task # t /\ r[j].token # tok
          /\ left[r[j].task] = old[q[To(j)].task]
  <2> HIDE DEF To
  <2>1. QED
    BY <1>4, <1>8, <1>13, <1>15
<1>19. r[k + 1].task = t /\ r[k + 1].token = tok /\ left[r[k + 1].task] = delay
  BY <1>10, <1>12, <1>15
<1>20. ASSUME NEW i \in 1..(n + 1), NEW j \in 1..(n + 1), i # j
       PROVE  r[i].task # r[j].task /\ r[i].token # r[j].token
  <2>1. CASE i = k + 1 \/ j = k + 1
    BY <1>18, <1>19, <1>20, <2>1
  <2>2. CASE i # k + 1 /\ j # k + 1
    <3>1. To(i) # To(j)
      BY <1>2, <1>5, <1>20, <2>2
    <3> HIDE DEF To
    <3>2. To(i) \in 1..n /\ To(j) \in 1..n
      BY <1>13, <2>2
    <3>3. q[To(i)].task # q[To(j)].task /\ q[To(i)].token # q[To(j)].token
      BY <1>1, <3>1, <3>2 DEF Listed
    <3>4. QED
      BY <1>13, <2>2, <3>3
  <2>3. QED
    BY <2>1, <2>2
<1>21. \A i \in 1..k : old[q[i].task] <= delay
  <2>1. ASSUME NEW i \in 1..k
        PROVE  old[q[i].task] <= delay
    <3>1. i \in 1..n /\ i \in 0..n /\ i <= k
      BY <1>2, <1>5
    <3>2. D[i] <= D[k] /\ D[i] \in Nat /\ D[k] \in Nat
      BY <1>3, <1>5, <3>1
    <3>3. Positive(old[q[i].task]) <= delay /\ old[q[i].task] \in Int
      BY <1>3, <1>4, <1>5, <3>1, <3>2
    <3>4. QED
      BY <3>3 DEF Positive
  <2>2. QED
    BY <2>1
<1>22. \A i \in (k + 1)..n : delay <= old[q[i].task]
  <2>1. ASSUME NEW i \in (k + 1)..n
        PROVE  delay <= old[q[i].task]
    <3>1. i \in 1..n /\ D[i] > delay
      BY <1>2, <1>5
    <3>2. Positive(old[q[i].task]) > delay /\ old[q[i].task] \in Int
      BY <1>3, <1>4, <3>1
    <3>3. QED
      BY <3>2 DEF Positive
  <2>2. QED
    BY <2>1
<1>23. ASSUME NEW i \in 1..(n + 1), NEW j \in 1..(n + 1), i < j
       PROVE  left[r[i].task] <= left[r[j].task]
  <2>1. CASE i = k + 1
    <3>1. j # k + 1 /\ To(j) \in (k + 1)..n
      BY <1>2, <1>5, <1>23, <2>1
    <3> HIDE DEF To
    <3>2. QED
      BY <1>18, <1>19, <1>22, <2>1, <3>1
  <2>2. CASE j = k + 1
    <3>1. i # k + 1 /\ To(i) \in 1..k
      BY <1>2, <1>5, <1>23, <2>2
    <3> HIDE DEF To
    <3>2. QED
      BY <1>18, <1>19, <1>21, <2>2, <3>1
  <2>3. CASE i # k + 1 /\ j # k + 1
    <3>1. To(i) < To(j)
      BY <1>2, <1>5, <1>23, <2>3
    <3> HIDE DEF To
    <3>2. To(i) \in 1..n /\ To(j) \in 1..n
      BY <1>13, <2>3
    <3>3. old[q[To(i)].task] <= old[q[To(j)].task]
      BY <1>1, <3>1, <3>2 DEF Listed
    <3>4. QED
      BY <1>18, <2>3, <3>3
  <2>4. QED
    BY <2>1, <2>2, <2>3
\* Every entry of the old list is in the new one.
<1>24. ASSUME NEW i \in 1..n
       PROVE  \E j \in 1..(n + 1) : r[j].task = q[i].task /\ r[j].token = q[i].token
  <2>1. PICK j : j = IF i <= k THEN i ELSE i + 1
    OBVIOUS
  <2>2. j \in 1..(n + 1) /\ j # k + 1 /\ To(j) = i
    BY <1>2, <1>5, <2>1
  <2>3. QED
    BY <1>13, <2>2
<1>25. ASSUME NEW u \in Tasks
       PROVE  left[u] # Idle <=> \E j \in 1..(n + 1) : r[j].task = u
  <2>1. CASE u = t
    <3>1. left[u] # Idle
      BY <1>15, <2>1, IdleAssumption
    <3>2. QED
      BY <1>14, <1>19, <2>1, <3>1
  <2>2. CASE u # t
    <3>1. left[u] # Idle <=> \E i \in 1..n : q[i].task = u
      BY <1>1, <1>15, <2>2 DEF Listed
    <3>2. ASSUME NEW j \in 1..(n + 1), r[j].task = u
          PROVE  \E i \in 1..n : q[i].task = u
      BY <1>13, <1>19, <2>2, <3>2
    <3>3. QED
      BY <1>24, <3>1, <3>2
  <2>3. QED
    BY <2>1, <2>2
<1>26. Listed(r, left)
  BY <1>12, <1>15, <1>17, <1>20, <1>23, <1>25 DEF Listed
<1>27. ASSUME NEW u \in Tasks, NEW x \in Tokens
       PROVE  Has(r, u, x) <=> Has(s.queue, u, x) \/ (u = t /\ x = tok)
  <2>1. Has(s.queue, u, x) <=> \E i \in 1..n : q[i].task = u /\ q[i].token = x
    BY <1>1 DEF Has
  <2>2. Has(r, u, x) <=> \E j \in 1..(n + 1) : r[j].task = u /\ r[j].token = x
    BY <1>12 DEF Has
  <2>3. ASSUME NEW j \in 1..(n + 1), r[j].task = u, r[j].token = x
        PROVE  (\E i \in 1..n : q[i].task = u /\ q[i].token = x) \/ (u = t /\ x = tok)
    <3>1. CASE j = k + 1
      BY <1>19, <2>3, <3>1
    <3>2. CASE j # k + 1
      <4>1. To(j) \in 1..n /\ q[To(j)].task = u /\ q[To(j)].token = x
        BY <1>13, <2>3, <3>2
      <4>2. QED
        BY <4>1
    <3>3. QED
      BY <3>1, <3>2
  <2>4. QED
    BY <1>14, <1>19, <1>24, <2>1, <2>2, <2>3
<1>28. QED
  BY <1>26, <1>27 DEF r, left

LEMMA AddEntryGood ==
  ASSUME NEW s, Good(s), NEW tok \in Tokens, NEW t \in Tasks, NEW delay \in Nat,
         s.left[t] = Idle, \A i \in 1..Len(s.queue) : s.queue[i].token # tok
  PROVE  Good(AddEntry(s, tok, t, delay))
<1> DEFINE now == Synchronized(s)
           r == AddEntry(s, tok, t, delay)
<1>1. /\ Good(now) /\ now.sinceSync = 0 /\ now.wait = s.wait /\ now.left = Less(s.left, Seen(s))
      /\ now.ahead = s.ahead /\ now.behind = s.behind
  <2>1. /\ now.sinceSync = 0 /\ now.wait = s.wait /\ now.left = Less(s.left, Seen(s))
        /\ now.ahead = s.ahead /\ now.behind = s.behind
    BY SynchronizedFields
  <2>2. QED
    BY <2>1, SynchronizedGood
<1>2. r = [queue |-> r.queue, sinceSync |-> 0,
           left |-> [now.left EXCEPT ![t] = delay], wait |-> [now.wait EXCEPT ![t] = delay],
           ahead |-> [now.ahead EXCEPT ![t] = 0], behind |-> [now.behind EXCEPT ![t] = 0]]
  <2>1. r = [queue     |-> Lengthened(now.queue, Place(now.queue, delay),
                                      Entry(now.queue, tok, t, delay)),
             sinceSync |-> 0,
             left      |-> [Less(s.left, Seen(s)) EXCEPT ![t] = delay],
             wait      |-> [s.wait EXCEPT ![t] = delay],
             ahead     |-> [s.ahead EXCEPT ![t] = 0],
             behind    |-> [s.behind EXCEPT ![t] = 0]]
    BY AddEntryFields
  <2> HIDE DEF r, now
  <2>2. QED
    BY <1>1, <2>1
<1>3. Listed(r.queue, r.left)
  BY AddEntryListed
<1>4. r.queue \in Seq(Entries) /\ r.left \in Lefts
  BY <1>3 DEF Listed
<1> HIDE DEF r, now
<1>5. /\ now.left \in Lefts /\ now.wait \in [Tasks -> Nat \cup {Idle}]
      /\ now.ahead \in [Tasks -> Nat] /\ now.behind \in [Tasks -> Nat]
      /\ \A u \in Tasks : now.wait[u] = Idle <=> now.left[u] = Idle
      /\ \A u \in Tasks : now.left[u] # Idle =>
            InTime(now.wait[u], now.left[u], now.sinceSync, now.ahead[u], now.behind[u])
  BY <1>1 DEF Good, Queues
<1>6. /\ r.sinceSync = 0
      /\ r.left = [now.left EXCEPT ![t] = delay] /\ r.wait = [now.wait EXCEPT ![t] = delay]
      /\ r.ahead = [now.ahead EXCEPT ![t] = 0] /\ r.behind = [now.behind EXCEPT ![t] = 0]
  BY <1>2
<1>7. /\ r.left[t] = delay /\ r.wait[t] = delay /\ r.wait \in [Tasks -> Nat \cup {Idle}]
      /\ r.ahead[t] = 0 /\ r.ahead \in [Tasks -> Nat]
      /\ r.behind[t] = 0 /\ r.behind \in [Tasks -> Nat]
      /\ \A u \in Tasks : u # t => /\ r.left[u] = now.left[u] /\ r.wait[u] = now.wait[u]
                                   /\ r.ahead[u] = now.ahead[u] /\ r.behind[u] = now.behind[u]
  BY <1>5, <1>6 DEF Lefts
<1>8. InTime(r.wait[t], r.left[t], r.sinceSync, r.ahead[t], r.behind[t])
  BY <1>6, <1>7, InTimeNew
<1>9. \A u \in Tasks : r.wait[u] = Idle <=> r.left[u] = Idle
  BY <1>5, <1>7
<1>10. \A u \in Tasks : r.left[u] # Idle =>
           InTime(r.wait[u], r.left[u], r.sinceSync, r.ahead[u], r.behind[u])
  BY <1>1, <1>5, <1>6, <1>7, <1>8
<1>11. r \in Queues
  <2>1. r = [queue |-> r.queue, sinceSync |-> r.sinceSync, left |-> r.left, wait |-> r.wait,
             ahead |-> r.ahead, behind |-> r.behind]
    BY <1>2, <1>6
  <2>2. r.sinceSync \in Int
    BY <1>6
  <2>3. QED
    BY <1>4, <1>7, <2>1, <2>2 DEF Queues
<1>12. Good(r)
  BY <1>3, <1>6, <1>9, <1>10, <1>11, TimeAssumption DEF Good
<1>13. QED
  BY <1>12 DEF r

-----------------------------------------------------------------------------
(* What the operations do to the list, taken as a set.                     *)

LEMMA SynchronizedHas ==
  ASSUME NEW s, Good(s), NEW t \in Tasks, NEW k \in Tokens
  PROVE  Has(Synchronized(s).queue, t, k) <=> Has(s.queue, t, k)
<1> DEFINE r == Synchronized(s).queue
<1>1. /\ Len(r) = Len(s.queue)
      /\ \A i \in 1..Len(s.queue) : /\ r[i].task = s.queue[i].task
                                    /\ r[i].token = s.queue[i].token
  BY SynchronizedListed
<1> HIDE DEF r
<1>2. Has(r, t, k) <=> Has(s.queue, t, k)
  BY <1>1 DEF Has
<1>3. QED
  BY <1>2 DEF r

LEMMA RemoveEntryHas ==
  ASSUME NEW s, Good(s), NEW i \in 1..Len(s.queue), NEW t \in Tasks, NEW k \in Tokens
  PROVE  Has(RemoveEntry(s, i).queue, t, k) <=> Has(s.queue, t, k) /\ t # s.queue[i].task
<1> DEFINE q == s.queue
           n == Len(q)
           r == RemoveEntry(s, i).queue
           From(j) == IF j < i THEN j ELSE j + 1
<1>1. Listed(q, s.left) /\ n \in Nat /\ i \in 1..n /\ i \in Int
  <2>1. Listed(q, s.left) /\ i \in 1..n
    BY DEF Good
  <2>2. QED
    BY <2>1 DEF Listed
<1>2. /\ Len(r) = n - 1
      /\ \A j \in 1..(n - 1) : r[j].task = q[From(j)].task /\ r[j].token = q[From(j)].token
  BY RemoveEntryListed
<1> HIDE DEF r, q
<1>3. ASSUME NEW j \in 1..(n - 1), r[j].task = t, r[j].token = k
      PROVE  Has(q, t, k) /\ t # q[i].task
  <2>1. From(j) \in 1..n /\ From(j) # i
    BY <1>1
  <2> HIDE DEF From
  <2>2. q[From(j)].task # q[i].task
    BY <1>1, <2>1 DEF Listed
  <2>3. QED
    BY <1>2, <1>3, <2>1, <2>2 DEF Has
<1>4. ASSUME NEW m \in 1..n, q[m].task = t, q[m].token = k, t # q[i].task
      PROVE  Has(r, t, k)
  <2>1. PICK j : j = IF m < i THEN m ELSE m - 1
    OBVIOUS
  <2>2. j \in 1..(n - 1) /\ From(j) = m
    BY <1>1, <1>4, <2>1
  <2>3. r[j].task = t /\ r[j].token = k
    BY <1>2, <1>4, <2>2
  <2>4. QED
    BY <1>2, <2>2, <2>3 DEF Has
<1>5. Has(r, t, k) <=> \E j \in 1..(n - 1) : r[j].task = t /\ r[j].token = k
  BY <1>2 DEF Has
<1>6. Has(q, t, k) <=> \E m \in 1..n : q[m].task = t /\ q[m].token = k
  BY DEF Has
<1>7. QED
  BY <1>3, <1>4, <1>5, <1>6 DEF q, r

\* removeEntry by token takes out the entry that has it, if there is one.
LEMMA RemoveTokenIs ==
  ASSUME NEW s, Good(s), NEW tok
  PROVE  \/ /\ RemoveToken(s, tok) = s
            /\ \A i \in 1..Len(s.queue) : s.queue[i].token # tok
         \/ \E i \in 1..Len(s.queue) : /\ s.queue[i].token = tok
                                       /\ RemoveToken(s, tok) = RemoveEntry(s, i)
<1> DEFINE I == {j \in 1..Len(s.queue) : s.queue[j].token = tok}
           i == SelectInSeq(s.queue, LAMBDA e : e.token = tok)
<1>1. i = IF I # {} THEN Min(I) ELSE 0
  BY DEF SelectInSeq
<1>2. RemoveToken(s, tok) = IF i = 0 THEN s ELSE RemoveEntry(s, i)
  BY DEF RemoveToken
<1> HIDE DEF i
<1>3. CASE I = {}
  BY <1>1, <1>2, <1>3
<1>4. CASE I # {}
  <2>1. I \subseteq Nat
    OBVIOUS
  <2>2. i \in I
    BY <1>1, <1>4, <2>1, MinOfNumbers
  <2>3. i # 0
    BY <2>2
  <2>4. QED
    BY <1>2, <2>2, <2>3
<1>5. QED
  BY <1>3, <1>4

\* The owners of the tasks in the list, and they only, keep the tokens in it.
TokensKept(q) ==
    \A t \in Tasks, k \in Tokens : Has(q, t, k) =>
        /\ t \in Others => token[t] = k
        /\ \A u \in Others : token[u] = k => u = t

\* Whoever calls off a task by the token it keeps calls off its own, if any.
LEMMA CallsOffItsOwn ==
  ASSUME Good(dq), TokensKept(dq.queue), token \in [Others -> Tokens \cup {NoToken}],
         NEW t \in Others, token[t] # NoToken
  PROVE  LET r == RemoveToken(dq, token[t])
         IN  /\ Good(r)
             /\ r.left = [dq.left EXCEPT ![t] = Idle]
             /\ \A u \in Tasks, k \in Tokens :
                   Has(r.queue, u, k) <=> Has(dq.queue, u, k) /\ u # t
<1> DEFINE r == RemoveToken(dq, token[t])
           q == dq.queue
<1>1. t \in Tasks /\ token[t] \in Tokens
  BY DEF Tasks
<1>2. Listed(q, dq.left) /\ dq.left \in Lefts /\ dq.left = [u \in Tasks |-> dq.left[u]]
  BY DEF Good, Listed, Lefts
<1>3. CASE r = dq /\ \A i \in 1..Len(q) : q[i].token # token[t]
  <2>1. \A k \in Tokens : ~Has(q, t, k)
    BY <1>1, <1>3 DEF TokensKept, Has
  <2>2. dq.left[t] = Idle
    <3>1. SUFFICES ASSUME dq.left[t] # Idle
                   PROVE  FALSE
      OBVIOUS
    <3>2. PICK i \in 1..Len(q) : q[i].task = t
      BY <1>1, <1>2, <3>1 DEF Listed
    <3>3. q[i].token \in Tokens
      BY <1>2, EntryTyped
    <3>4. QED
      BY <2>1, <3>2, <3>3 DEF Has
  <2>3. r.left = [dq.left EXCEPT ![t] = Idle]
    BY <1>1, <1>2, <1>3, <2>2
  <2>4. QED
    BY <1>3, <2>1, <2>3
<1>4. CASE \E i \in 1..Len(q) : q[i].token = token[t] /\ r = RemoveEntry(dq, i)
  <2>1. PICK i \in 1..Len(q) : q[i].token = token[t] /\ r = RemoveEntry(dq, i)
    BY <1>4
  <2>2. q[i].task = t
    <3>1. q[i].task \in Tasks
      BY <1>2, EntryTyped
    <3>2. Has(q, q[i].task, token[t])
      BY <2>1 DEF Has
    <3>3. QED
      BY <1>1, <3>1, <3>2 DEF TokensKept
  <2>3. Good(r)
    BY <2>1, RemoveEntryGood
  <2>4. r.left = [dq.left EXCEPT ![t] = Idle]
    <3>1. r.left = [dq.left EXCEPT ![q[i].task] = Idle]
      <4>1. Good(dq) /\ i \in 1..Len(dq.queue) /\ r = RemoveEntry(dq, i)
        BY <2>1
      <4>2. RemoveEntry(dq, i).left = [dq.left EXCEPT ![dq.queue[i].task] = Idle]
        BY <4>1, RemoveEntryFields
      <4>3. QED
        BY <4>1, <4>2 DEF q
    <3>2. QED
      BY <2>2, <3>1
  <2>5. ASSUME NEW u \in Tasks, NEW k \in Tokens
        PROVE  Has(r.queue, u, k) <=> Has(dq.queue, u, k) /\ u # t
    BY <2>1, <2>2, RemoveEntryHas
  <2>6. QED
    BY <2>3, <2>4, <2>5
<1>5. QED
  BY <1>3, <1>4, RemoveTokenIs

-----------------------------------------------------------------------------
(* Time that is taken off.                                                 *)

LEMMA LessZero ==
  ASSUME NEW left \in Lefts
  PROVE  Less(left, 0) = left
<1>1. left = [t \in Tasks |-> left[t]] /\ \A t \in Tasks : left[t] \in Int \cup {Idle}
  BY DEF Lefts
<1>2. \A t \in Tasks : (IF left[t] = Idle THEN Idle ELSE left[t] - 0) = left[t]
  BY <1>1
<1>3. QED
  BY <1>1, <1>2 DEF Less

LEMMA LessLess ==
  ASSUME NEW left \in Lefts, NEW k \in Int, NEW m \in Int
  PROVE  Less(Less(left, k), m) = Less(left, k + m)
<1>1. \A t \in Tasks : left[t] = Idle \/ (left[t] \in Int /\ left[t] # Idle)
  BY DEF Lefts
<1>2. ASSUME NEW t \in Tasks
      PROVE  Less(Less(left, k), m)[t] = Less(left, k + m)[t]
  <2>1. CASE left[t] = Idle
    BY <2>1 DEF Less
  <2>2. CASE left[t] \in Int /\ left[t] # Idle
    <3>1. Less(left, k)[t] = left[t] - k /\ Less(left, k + m)[t] = left[t] - (k + m)
      BY <2>2 DEF Less
    <3>2. left[t] - k \in Int /\ left[t] - k # Idle
      BY <2>2, IdleAssumption
    <3>3. Less(Less(left, k), m)[t] = left[t] - k - m
      BY <3>1, <3>2 DEF Less
    <3>4. QED
      BY <2>2, <3>1, <3>3
  <2>3. QED
    BY <1>1, <2>1, <2>2
<1>3. QED
  BY <1>2 DEF Less

\* For a task that is put off it does not matter whether it was there before.
LEMMA LessExcept ==
  ASSUME NEW left \in Lefts, NEW without \in Lefts, NEW t, NEW k \in Int,
         \A u \in Tasks : u # t => without[u] = left[u]
  PROVE  /\ Less(without, k) = [u \in Tasks |-> Less(without, k)[u]]
         /\ Less(left, k) = [u \in Tasks |-> Less(left, k)[u]]
         /\ \A u \in Tasks : u # t => Less(without, k)[u] = Less(left, k)[u]
<1>1. \A u \in Tasks : u # t => Less(without, k)[u] = Less(left, k)[u]
  BY DEF Less
<1>2. /\ Less(without, k) = [u \in Tasks |-> Less(without, k)[u]]
      /\ Less(left, k) = [u \in Tasks |-> Less(left, k)[u]]
  BY DEF Less
<1>3. QED
  BY <1>1, <1>2

\* What is left later, in the terms of Timers.
LEMMA LaterIsLess ==
  ASSUME NEW k
  PROVE  Abstract!Later(k) = Less(dq.left, k)
BY DEF Abstract!Later, Abstract!Pending, Less

\* A step in which nobody calls takes some time off, or none.
LEMMA NobodyCalls ==
  ASSUME call' = NoCall, NEW k \in 0..MaxLag, dq'.left = Less(dq.left, k)
  PROVE  Abstract!Next
<1>1. dq'.left = Abstract!Later(k)
  BY LaterIsLess
<1>2. Abstract!TimePasses
  BY <1>1 DEF Abstract!TimePasses, Abstract!NoCall, NoCall
<1>3. QED
  BY <1>2 DEF Abstract!Next

LEMMA NothingHappens ==
  ASSUME call' = NoCall, dq.left \in Lefts, dq'.left = dq.left
  PROVE  Abstract!Next
<1>1. 0 \in 0..MaxLag /\ dq'.left = Less(dq.left, 0)
  BY LessZero, TimeAssumption
<1>2. QED
  BY <1>1, NobodyCalls

\* The time synchronize sees is one of the durations of Timers.
LEMMA SeenIsDuration ==
  ASSUME NEW s, Good(s)
  PROVE  Seen(s) \in 0..MaxLag /\ Seen(s) \in Nat
BY SeenTyped, TimeAssumption

\* The first entry's task is the next one; if it is due, it has waited long enough.
LEMMA FirstIsNext ==
  ASSUME NEW s, Good(s), s.queue # << >>
  PROVE  LET t == Head(s.queue).task
         IN  /\ 1 \in 1..Len(s.queue) /\ t = s.queue[1].task /\ t \in Tasks
             /\ s.left[t] \in Int /\ s.left[t] # Idle
             /\ Head(s.queue).fDeltaTimeRemaining = Positive(s.left[t])
             /\ \A u \in Tasks : s.left[u] # Idle => s.left[t] <= s.left[u] /\ s.left[u] \in Int
<1> DEFINE q == s.queue
           t == q[1].task
<1>1. Listed(q, s.left) /\ q \in Seq(Entries) /\ s.left \in Lefts
  BY DEF Good, Listed
<1>2. Len(q) \in Nat /\ 1 \in 1..Len(q) /\ Head(q) = q[1]
  BY <1>1
<1>3. t \in Tasks /\ s.left[t] \in Int /\ s.left[t] # Idle
  BY <1>1, <1>2, EntryTyped
<1>4. q[1].fDeltaTimeRemaining = Positive(s.left[t])
  <2>1. 1 - 1 = 0
    OBVIOUS
  <2>2. q[1].fDeltaTimeRemaining = Due(q, s.left)[1] - Due(q, s.left)[0]
    BY <1>1, <1>2, <2>1 DEF Listed
  <2>3. Due(q, s.left)[1] = Positive(s.left[t]) /\ Due(q, s.left)[0] = 0
    BY <1>1, <1>2, DueTyped
  <2> HIDE DEF q
  <2>4. QED
    BY <1>3, <2>2, <2>3 DEF Positive
<1>5. ASSUME NEW u \in Tasks, s.left[u] # Idle
      PROVE  s.left[t] <= s.left[u] /\ s.left[u] \in Int
  <2>1. PICK i \in 1..Len(q) : q[i].task = u
    BY <1>1, <1>5 DEF Listed
  <2>2. CASE i = 1
    BY <1>3, <2>1, <2>2
  <2>3. CASE i # 1
    <3>1. 1 < i
      BY <1>2, <2>1, <2>3
    <3>2. s.left[q[1].task] <= s.left[q[i].task]
      BY <1>1, <1>2, <2>1, <3>1 DEF Listed
    <3>3. QED
      BY <1>1, <1>5, <2>1, <3>2 DEF Lefts
  <2>4. QED
    BY <2>2, <2>3
<1>6. QED
  BY <1>2, <1>3, <1>4, <1>5

LEMMA DueHasWaited ==
  ASSUME NEW s, Good(s), FirstIsDue(s)
  PROVE  LET t == Head(s.queue).task
         IN  s.left[t] <= 0 /\ s.wait[t] <= s.ahead[t]
<1> DEFINE t == Head(s.queue).task
<1>1. /\ t \in Tasks /\ s.left[t] \in Int /\ s.left[t] # Idle
      /\ Positive(s.left[t]) = 0
  BY FirstIsNext DEF FirstIsDue
<1> HIDE DEF t
<1>2. s.left[t] <= 0
  BY <1>1 DEF Positive
<1>3. /\ s.sinceSync \in Int /\ s.wait[t] \in Nat /\ s.ahead[t] \in Nat
      /\ InTime(s.wait[t], s.left[t], s.sinceSync, s.ahead[t], s.behind[t])
  BY <1>1 DEF Good, Queues
<1>4. s.wait[t] <= s.ahead[t]
  BY <1>1, <1>2, <1>3 DEF InTime, Positive
<1>5. QED
  BY <1>2, <1>4 DEF t

-----------------------------------------------------------------------------
(* The invariant.                                                          *)

\* No task can be late when select() has slept for the timeout, but for what the
\* clock was set back.
SleepsNoLonger ==
    phase = "select" =>
        \A t \in Tasks : dq.left[t] # Idle => timeout <= dq.wait[t] + dq.behind[t]

Control ==
    /\ phase \in {"top", "select", "handlers", "alarm"}
    /\ outer \in Seq({"handlers", "alarm"})
    /\ timeout \in Nat

Owners ==
    /\ token \in [Others -> Tokens \cup {NoToken}]
    /\ TokensKept(dq.queue)

TimersInv == Good(dq) /\ Owners /\ Control /\ SleepsNoLonger

\* Time passes: the list stays as it is.
LEMMA PassesGood ==
  ASSUME Good(dq), NEW k \in Nat, Passes(k)
  PROVE  /\ Good(dq') /\ dq'.queue = dq.queue /\ dq'.left = dq.left
         /\ dq'.sinceSync = dq.sinceSync + k
<1>1. /\ dq \in Queues /\ dq.sinceSync \in Int /\ dq.left \in Lefts
      /\ dq.wait \in [Tasks -> Nat \cup {Idle}] /\ Listed(dq.queue, dq.left)
      /\ \A t \in Tasks : dq.wait[t] = Idle <=> dq.left[t] = Idle
      /\ \A t \in Tasks : dq.left[t] # Idle =>
            InTime(dq.wait[t], dq.left[t], dq.sinceSync, dq.ahead[t], dq.behind[t])
      /\ dq.ahead \in [Tasks -> Nat] /\ dq.behind \in [Tasks -> Nat]
  BY DEF Good, Queues
<1> DEFINE w == [t \in Tasks |-> IF dq.wait[t] = Idle THEN Idle ELSE Max({0, dq.wait[t] - k})]
<1>2. dq.sinceSync + k <= MaxLag
  BY DEF Passes
<1>3. dq' = [dq EXCEPT !.sinceSync = dq.sinceSync + k, !.wait = w]
  BY DEF Passes
<1>4. \A t \in Tasks : w[t] = IF dq.wait[t] = Idle THEN Idle ELSE Positive(dq.wait[t] - k)
  <2>1. \A t \in Tasks : dq.wait[t] # Idle => dq.wait[t] - k \in Int
    BY <1>1
  <2>2. QED
    BY <2>1, MaxIsPositive
<1>5. w = [t \in Tasks |-> w[t]]
  OBVIOUS
<1> HIDE DEF w
<1>6. w \in [Tasks -> Nat \cup {Idle}]
  <2>1. \A t \in Tasks : w[t] \in Nat \cup {Idle}
    BY <1>1, <1>4 DEF Positive
  <2>2. QED
    BY <1>5, <2>1
<1>7. /\ dq'.queue = dq.queue /\ dq'.left = dq.left
      /\ dq'.sinceSync = dq.sinceSync + k /\ dq'.wait = w
      /\ dq'.ahead = dq.ahead /\ dq'.behind = dq.behind
  BY <1>1, <1>3 DEF Queues
<1>8. dq' \in Queues
  <2>1. dq' = [queue |-> dq.queue, sinceSync |-> dq.sinceSync + k, left |-> dq.left, wait |-> w,
                ahead |-> dq.ahead, behind |-> dq.behind]
    BY <1>1, <1>3 DEF Queues
  <2>2. dq.sinceSync + k \in Int /\ dq.queue \in Seq(Entries)
    BY <1>1 DEF Queues
  <2>3. QED
    BY <1>1, <1>6, <2>1, <2>2 DEF Queues
<1>9. \A t \in Tasks : w[t] = Idle <=> dq.left[t] = Idle
  BY <1>1, <1>4, IdleAssumption DEF Positive
<1>10. ASSUME NEW t \in Tasks, dq.left[t] # Idle
       PROVE  InTime(w[t], dq.left[t], dq.sinceSync + k, dq.ahead[t], dq.behind[t])
  <2>1. /\ dq.wait[t] \in Nat /\ dq.wait[t] # Idle /\ dq.left[t] \in Int
        /\ dq.ahead[t] \in Nat /\ dq.behind[t] \in Nat
        /\ InTime(dq.wait[t], dq.left[t], dq.sinceSync, dq.ahead[t], dq.behind[t])
    BY <1>1, <1>10 DEF Lefts
  <2>2. w[t] = Positive(dq.wait[t] - k)
    BY <1>4, <2>1
  <2>3. QED
    BY <1>1, <2>1, <2>2, InTimePasses
<1>11. QED
  BY <1>1, <1>2, <1>7, <1>8, <1>9, <1>10 DEF Good

\* A task is scheduled with a new token: the queue s is the one without it.
LEMMA ScheduledGood ==
  ASSUME token \in [Others -> Tokens \cup {NoToken}],
         NEW s, Good(s), NEW t \in Tasks, s.left[t] = Idle,
         \A u \in Tasks, k \in Tokens : Has(s.queue, u, k) =>
             /\ u # t
             /\ u \in Others => token[u] = k
             /\ \A v \in Others : v # t /\ token[v] = k => v = u,
         NEW d \in Nat, dq' = AddEntry(s, NewToken(s, t), t, d),
         token' = IF t \in Others THEN [token EXCEPT ![t] = NewToken(s, t)] ELSE token
  PROVE  Good(dq') /\ Owners' /\ dq'.left = [Less(s.left, Seen(s)) EXCEPT ![t] = d]
<1>1. Listed(s.queue, s.left)
  BY DEF Good
<1>2. PICK new : new = NewToken(s, t)
  OBVIOUS
<1>3. /\ new \in Tokens
      /\ \A i \in 1..Len(s.queue) : s.queue[i].token # new
      /\ \A u \in Others \ {t} : token[u] # new
  BY <1>1, <1>2, NewTokenIsNew
<1>4. dq' = AddEntry(s, new, t, d)
  BY <1>2
<1>5. Good(dq')
  BY <1>3, <1>4, AddEntryGood
<1>6. dq'.left = [Less(s.left, Seen(s)) EXCEPT ![t] = d]
  BY <1>3, <1>4, AddEntryFields
<1>7. \A u \in Tasks, k \in Tokens :
          Has(dq'.queue, u, k) <=> Has(s.queue, u, k) \/ (u = t /\ k = new)
  BY <1>3, <1>4, AddEntryListed
<1>8. token' = IF t \in Others THEN [token EXCEPT ![t] = new] ELSE token
  BY <1>2
<1>9. /\ token' \in [Others -> Tokens \cup {NoToken}]
      /\ t \in Others => token'[t] = new
      /\ \A v \in Others : v # t => token'[v] = token[v]
  BY <1>3, <1>8
<1>10. ASSUME NEW u \in Tasks, NEW k \in Tokens, Has(dq'.queue, u, k)
       PROVE  /\ u \in Others => token'[u] = k
              /\ \A v \in Others : token'[v] = k => v = u
  <2>1. CASE u = t /\ k = new
    BY <1>3, <1>9, <2>1
  <2>2. CASE Has(s.queue, u, k)
    <3>1. k # new
      BY <1>3, <2>2 DEF Has
    <3>2. QED
      BY <1>9, <2>2, <3>1
  <2>3. QED
    BY <1>7, <1>10, <2>1, <2>2
<1>11. Owners'
  BY <1>9, <1>10 DEF Owners, TokensKept
<1>12. QED
  BY <1>5, <1>6, <1>11

-----------------------------------------------------------------------------
(* The steps.                                                              *)

\* In a handler nothing else is needed: nobody sleeps.
LEMMA Awake ==
  ASSUME Control, phase' # "select", phase' \in {"top", "handlers", "alarm"},
         timeout' \in Nat, outer' \in Seq({"handlers", "alarm"})
  PROVE  Control' /\ SleepsNoLonger'
BY DEF Control, SleepsNoLonger

LEMMA ScheduleStep ==
  ASSUME TimersInv, NEW t \in Others, ScheduleDelayedTask(t)
  PROVE  TimersInv' /\ Abstract!Next
<1>1. /\ InHandler /\ dq.left[t] = Idle /\ UNCHANGED <<phase, timeout, outer>>
      /\ call' = <<"schedule", t>>
      /\ token' = [token EXCEPT ![t] = NewToken(dq, t)]
  BY DEF ScheduleDelayedTask
<1>2. PICK d \in Delays : dq' = AddEntry(dq, NewToken(dq, t), t, d)
  BY DEF ScheduleDelayedTask
<1>3. Good(dq) /\ Owners /\ Control /\ Listed(dq.queue, dq.left) /\ t \in Tasks /\ d \in Nat
  BY TimeAssumption DEF TimersInv, Good, Tasks
<1>4. ASSUME NEW u \in Tasks, NEW k \in Tokens, Has(dq.queue, u, k)
      PROVE  /\ u # t
             /\ u \in Others => token[u] = k
             /\ \A v \in Others : v # t /\ token[v] = k => v = u
  <2>1. dq.left[u] # Idle
    BY <1>3, <1>4 DEF Has, Listed
  <2>2. QED
    BY <1>1, <1>3, <1>4, <2>1 DEF Owners, TokensKept
<1>5. Good(dq') /\ Owners' /\ dq'.left = [Less(dq.left, Seen(dq)) EXCEPT ![t] = d]
  BY <1>1, <1>2, <1>3, <1>4, ScheduledGood DEF Owners
<1>6. Control' /\ SleepsNoLonger'
  BY <1>1, <1>3, Awake DEF InHandler, Control
<1>7. Abstract!Next
  <2>1. Seen(dq) \in 0..MaxLag
    BY <1>3, SeenIsDuration
  <2>2. dq'.left = [Abstract!Later(Seen(dq)) EXCEPT ![t] = d]
    BY <1>5, LaterIsLess
  <2>3. Abstract!Set(t, d)
    BY <2>1, <2>2 DEF Abstract!Set
  <2>4. Abstract!Schedule(t)
    BY <1>1, <2>3 DEF Abstract!Schedule, Abstract!Pending
  <2>5. QED
    BY <1>3, <2>4, TasksAssumption DEF Abstract!Next
<1>8. QED
  BY <1>5, <1>6, <1>7 DEF TimersInv

LEMMA UnscheduleStep ==
  ASSUME TimersInv, NEW t \in Others, UnscheduleDelayedTask(t)
  PROVE  TimersInv' /\ Abstract!Next
<1>1. /\ InHandler /\ token[t] # NoToken /\ UNCHANGED <<phase, timeout, outer>>
      /\ call' = <<"unschedule", t>>
      /\ dq' = RemoveToken(dq, token[t])
      /\ token' = [token EXCEPT ![t] = NoToken]
  BY DEF UnscheduleDelayedTask
<1>2. Good(dq) /\ Owners /\ Control /\ t \in Tasks
  BY DEF TimersInv, Tasks
<1>3. /\ Good(dq') /\ dq'.left = [dq.left EXCEPT ![t] = Idle]
      /\ \A u \in Tasks, k \in Tokens :
            Has(dq'.queue, u, k) <=> Has(dq.queue, u, k) /\ u # t
  BY <1>1, <1>2, CallsOffItsOwn DEF Owners
<1>4. Owners'
  <2>1. /\ token' \in [Others -> Tokens \cup {NoToken}]
        /\ \A v \in Others : token'[v] = IF v = t THEN NoToken ELSE token[v]
    BY <1>1, <1>2 DEF Owners
  <2>2. \A k \in Tokens : k # NoToken
    BY DEF Tokens, NoToken
  <2>3. QED
    BY <1>2, <1>3, <2>1, <2>2 DEF Owners, TokensKept
<1>5. Control' /\ SleepsNoLonger'
  BY <1>1, <1>2, Awake DEF InHandler, Control
<1>6. Abstract!Next
  BY <1>1, <1>2, <1>3, TasksAssumption DEF Abstract!Next, Abstract!Unschedule
<1>7. QED
  BY <1>3, <1>4, <1>5, <1>6 DEF TimersInv

LEMMA RescheduleStep ==
  ASSUME TimersInv, NEW t \in Others, RescheduleDelayedTask(t)
  PROVE  TimersInv' /\ Abstract!Next
<1>1. PICK s : s = RemoveToken(dq, token[t])
  OBVIOUS
<1>2. /\ InHandler /\ token[t] # NoToken /\ UNCHANGED <<phase, timeout, outer>>
      /\ call' = <<"reschedule", t>>
      /\ token' = [token EXCEPT ![t] = NewToken(s, t)]
  BY <1>1 DEF RescheduleDelayedTask
<1>3. PICK d \in Delays : dq' = AddEntry(s, NewToken(s, t), t, d)
  BY <1>1 DEF RescheduleDelayedTask
<1>4. Good(dq) /\ Owners /\ Control /\ t \in Tasks /\ d \in Nat /\ dq.left \in Lefts
  BY TimeAssumption DEF TimersInv, Good, Queues, Tasks
<1>5. /\ Good(s) /\ s.left = [dq.left EXCEPT ![t] = Idle]
      /\ \A u \in Tasks, k \in Tokens :
            Has(s.queue, u, k) <=> Has(dq.queue, u, k) /\ u # t
  BY <1>1, <1>2, <1>4, CallsOffItsOwn DEF Owners
<1>6. s.left[t] = Idle
  BY <1>4, <1>5 DEF Lefts
<1>7. Good(dq') /\ Owners' /\ dq'.left = [Less(s.left, Seen(s)) EXCEPT ![t] = d]
  <2>1. \A u \in Tasks, k \in Tokens : Has(s.queue, u, k) =>
             /\ u # t
             /\ u \in Others => token[u] = k
             /\ \A v \in Others : v # t /\ token[v] = k => v = u
    BY <1>4, <1>5 DEF Owners, TokensKept
  <2>2. /\ Good(s) /\ t \in Tasks /\ d \in Nat
        /\ token \in [Others -> Tokens \cup {NoToken}]
        /\ token' = IF t \in Others THEN [token EXCEPT ![t] = NewToken(s, t)] ELSE token
    BY <1>2, <1>4, <1>5 DEF Owners
  <2>3. QED
    BY <1>3, <1>6, <2>1, <2>2, ScheduledGood
<1>8. Control' /\ SleepsNoLonger'
  BY <1>2, <1>4, Awake DEF InHandler, Control
<1>9. Abstract!Next
  <2>1. Seen(s) \in 0..MaxLag /\ Seen(s) \in Int
    BY <1>5, SeenIsDuration
  <2>2. dq'.left = [Less(dq.left, Seen(s)) EXCEPT ![t] = d]
    <3>1. s.left \in Lefts /\ \A u \in Tasks : u # t => s.left[u] = dq.left[u]
      BY <1>4, <1>5 DEF Lefts
    <3>2. PICK f, g : f = Less(s.left, Seen(s)) /\ g = Less(dq.left, Seen(s))
      OBVIOUS
    <3>3. /\ f = [u \in Tasks |-> f[u]] /\ g = [u \in Tasks |-> g[u]]
          /\ \A u \in Tasks : u # t => f[u] = g[u]
      <4>1. dq.left \in Lefts /\ s.left \in Lefts /\ Seen(s) \in Int
        BY <1>4, <2>1, <3>1
      <4>2. \A u \in Tasks : u # t => s.left[u] = dq.left[u]
        BY <3>1
      <4>3. LET a == Less(s.left, Seen(s))
                b == Less(dq.left, Seen(s))
            IN  /\ a = [u \in Tasks |-> a[u]] /\ b = [u \in Tasks |-> b[u]]
                /\ \A u \in Tasks : u # t => a[u] = b[u]
        BY <4>1, <4>2, LessExcept
      <4>4. QED
        BY <3>2, <4>3
    <3>4. [f EXCEPT ![t] = d] = [g EXCEPT ![t] = d]
      BY <3>3
    <3>5. QED
      BY <1>7, <3>2, <3>4
  <2>3. dq'.left = [Abstract!Later(Seen(s)) EXCEPT ![t] = d]
    BY <2>2, LaterIsLess
  <2>4. Abstract!Set(t, d)
    BY <2>1, <2>3 DEF Abstract!Set
  <2>5. Abstract!Reschedule(t)
    BY <1>2, <2>4 DEF Abstract!Reschedule
  <2>6. QED
    BY <1>4, <2>5, TasksAssumption DEF Abstract!Next
<1>10. QED
  BY <1>7, <1>8, <1>9 DEF TimersInv

\* Looking at the clock if no alarm is known to be due.
LEMMA BroughtUpToDate ==
  ASSUME NEW s, Good(s), NEW now, now = IF FirstIsDue(s) THEN s ELSE Synchronized(s)
  PROVE  /\ Good(now) /\ now.wait = s.wait /\ now.ahead = s.ahead /\ now.behind = s.behind
         /\ \A t \in Tasks, k \in Tokens : Has(now.queue, t, k) <=> Has(s.queue, t, k)
         /\ FirstIsDue(s) \/ now.sinceSync = 0
         /\ \E k \in 0..MaxLag : now.left = Less(s.left, k) /\ k + Seen(now) = Seen(s)
<1>1. Seen(s) \in 0..MaxLag /\ s.left \in Lefts
  BY SeenTyped DEF Good, Queues
<1>2. CASE FirstIsDue(s)
  <2>1. now = s
    BY <1>2
  <2>2. 0 \in 0..MaxLag /\ 0 + Seen(s) = Seen(s) /\ Less(s.left, 0) = s.left
    BY <1>1, LessZero, TimeAssumption
  <2>3. QED
    BY <1>2, <2>1, <2>2
<1>3. CASE ~FirstIsDue(s)
  <2>1. now = Synchronized(s)
    BY <1>3
  <2>2. Good(now) /\ \A t \in Tasks, k \in Tokens : Has(now.queue, t, k) <=> Has(s.queue, t, k)
    BY <2>1, SynchronizedGood, SynchronizedHas
  <2>3. /\ now.sinceSync = 0 /\ now.wait = s.wait /\ now.left = Less(s.left, Seen(s))
        /\ now.ahead = s.ahead /\ now.behind = s.behind
    BY <2>1, SynchronizedFields
  <2>4. Seen(now) = 0
    BY <2>2, <2>3, SeenTyped DEF Positive
  <2>5. Seen(s) + Seen(now) = Seen(s)
    BY <1>1, <2>4
  <2>6. QED
    BY <1>1, <2>2, <2>3, <2>5
<1>4. QED
  BY <1>2, <1>3

\* Whoever sets the clock adds to one of the two counts of the tasks that wait.
LEMMA ClockSetGood ==
  ASSUME Good(dq), NEW k \in Nat, NEW since \in Int, NEW a, NEW b, since <= MaxLag,
         dq' = [dq EXCEPT !.sinceSync = since, !.ahead = a, !.behind = b],
         \/ since = dq.sinceSync - k /\ a = dq.ahead /\ b = Added(dq.behind, k)
         \/ since = dq.sinceSync + k /\ a = Added(dq.ahead, k) /\ b = dq.behind
  PROVE  /\ Good(dq') /\ dq'.queue = dq.queue /\ dq'.left = dq.left /\ dq'.wait = dq.wait
         /\ \A t \in Tasks : dq.left[t] # Idle => dq'.behind[t] \in Int /\ dq'.behind[t] >= dq.behind[t]
<1>1. /\ dq \in Queues /\ dq.sinceSync \in Int /\ dq.left \in Lefts
      /\ dq.wait \in [Tasks -> Nat \cup {Idle}] /\ Listed(dq.queue, dq.left)
      /\ dq.ahead \in [Tasks -> Nat] /\ dq.behind \in [Tasks -> Nat]
      /\ \A t \in Tasks : dq.wait[t] = Idle <=> dq.left[t] = Idle
      /\ \A t \in Tasks : dq.left[t] # Idle =>
            InTime(dq.wait[t], dq.left[t], dq.sinceSync, dq.ahead[t], dq.behind[t])
  BY DEF Good, Queues
<1>2. a \in [Tasks -> Nat] /\ b \in [Tasks -> Nat]
  BY <1>1 DEF Added
<1>3. /\ dq' = [queue |-> dq.queue, sinceSync |-> since, left |-> dq.left, wait |-> dq.wait,
                ahead |-> a, behind |-> b]
      /\ dq' \in Queues
  BY <1>1, <1>2 DEF Queues
<1>4. ASSUME NEW t \in Tasks, dq.left[t] # Idle
      PROVE  /\ InTime(dq.wait[t], dq.left[t], since, a[t], b[t])
             /\ b[t] \in Int /\ b[t] >= dq.behind[t]
  <2>1. /\ dq.wait[t] \in Nat /\ dq.left[t] \in Int
        /\ dq.ahead[t] \in Nat /\ dq.behind[t] \in Nat
        /\ InTime(dq.wait[t], dq.left[t], dq.sinceSync, dq.ahead[t], dq.behind[t])
    BY <1>1, <1>4 DEF Lefts
  <2>2. /\ InTime(dq.wait[t], dq.left[t], dq.sinceSync - k, dq.ahead[t], dq.behind[t] + k)
        /\ InTime(dq.wait[t], dq.left[t], dq.sinceSync + k, dq.ahead[t] + k, dq.behind[t])
    BY <1>1, <2>1, InTimeClockSet
  <2>3. /\ Added(dq.behind, k)[t] = dq.behind[t] + k
        /\ Added(dq.ahead, k)[t] = dq.ahead[t] + k
    BY <1>4 DEF Added
  <2>4. QED
    BY <2>1, <2>2, <2>3
<1>5. QED
  BY <1>1, <1>3, <1>4 DEF Good

\* Time that passes, or is set by somebody, is seen by nobody.
LEMMA ClockStep ==
  ASSUME TimersInv, HandlerTakesTime \/ SetBack \/ SetForward
  PROVE  TimersInv' /\ Abstract!Next
<1>1. /\ Good(dq) /\ Owners /\ Control /\ SleepsNoLonger /\ dq.left \in Lefts /\ dq \in Queues
      /\ UNCHANGED <<token, phase, timeout, outer>> /\ call' = NoCall
  BY DEF TimersInv, Good, Queues, HandlerTakesTime, SetBack, SetForward
<1>2. Good(dq') /\ dq'.queue = dq.queue /\ dq'.left = dq.left /\ SleepsNoLonger'
  <2>1. CASE HandlerTakesTime
    <3>1. Good(dq') /\ dq'.queue = dq.queue /\ dq'.left = dq.left
      BY <1>1, <2>1, PassesGood DEF HandlerTakesTime
    <3>2. phase # "select"
      BY <2>1 DEF HandlerTakesTime, InHandler
    <3>3. QED
      BY <1>1, <3>1, <3>2 DEF SleepsNoLonger
  <2>2. CASE SetBack \/ SetForward
    <3>1. PICK k \in 1..MaxSet :
             \/ dq' = [dq EXCEPT !.sinceSync = @ - k, !.behind = Added(@, k)]
             \/ /\ dq.sinceSync + k <= MaxLag
                /\ dq' = [dq EXCEPT !.sinceSync = @ + k, !.ahead = Added(@, k)]
      BY <2>2 DEF SetBack, SetForward
    <3>2. k \in Nat /\ dq.sinceSync \in Int /\ dq.sinceSync <= MaxLag
      BY <1>1, TimeAssumption DEF Good, Queues
    <3>3. PICK since, a, b :
             /\ dq' = [dq EXCEPT !.sinceSync = since, !.ahead = a, !.behind = b]
             /\ since \in Int /\ since <= MaxLag
             /\ \/ since = dq.sinceSync - k /\ a = dq.ahead /\ b = Added(dq.behind, k)
                \/ since = dq.sinceSync + k /\ a = Added(dq.ahead, k) /\ b = dq.behind
      <4>1. CASE dq' = [dq EXCEPT !.sinceSync = @ - k, !.behind = Added(@, k)]
        <5>1. dq' = [dq EXCEPT !.sinceSync = dq.sinceSync - k, !.ahead = dq.ahead,
                               !.behind = Added(dq.behind, k)]
          BY <1>1, <4>1 DEF Queues
        <5>2. dq.sinceSync - k \in Int /\ dq.sinceSync - k <= MaxLag
          BY <3>2, TimeAssumption
        <5>3. QED
          BY <5>1, <5>2
      <4>2. CASE /\ dq.sinceSync + k <= MaxLag
                 /\ dq' = [dq EXCEPT !.sinceSync = @ + k, !.ahead = Added(@, k)]
        <5>1. dq' = [dq EXCEPT !.sinceSync = dq.sinceSync + k, !.ahead = Added(dq.ahead, k),
                               !.behind = dq.behind]
          BY <1>1, <4>2 DEF Queues
        <5>2. dq.sinceSync + k \in Int /\ dq.sinceSync + k <= MaxLag
          BY <3>2, <4>2
        <5>3. QED
          BY <5>1, <5>2
      <4>3. QED
        BY <3>1, <4>1, <4>2
    <3>4. /\ Good(dq') /\ dq'.queue = dq.queue /\ dq'.left = dq.left /\ dq'.wait = dq.wait
          /\ \A t \in Tasks : dq.left[t] # Idle =>
                dq'.behind[t] \in Int /\ dq'.behind[t] >= dq.behind[t]
      BY <1>1, <3>2, <3>3, ClockSetGood
    <3>5. ASSUME phase = "select", NEW t \in Tasks, dq.left[t] # Idle
          PROVE  timeout <= dq'.wait[t] + dq'.behind[t]
      <4>1. timeout <= dq.wait[t] + dq.behind[t] /\ timeout \in Nat
        BY <1>1, <3>5 DEF SleepsNoLonger, Control
      <4>2. dq.wait[t] \in Nat /\ dq.behind[t] \in Nat
        BY <1>1, <3>5 DEF Good, Queues
      <4>3. dq'.wait[t] = dq.wait[t] /\ dq'.behind[t] \in Int /\ dq'.behind[t] >= dq.behind[t]
        BY <3>4, <3>5
      <4>4. QED
        BY <4>1, <4>2, <4>3
    <3>6. QED
      BY <1>1, <3>4, <3>5 DEF SleepsNoLonger
  <2>3. QED
    BY <2>1, <2>2
<1>3. Owners' /\ Control'
  BY <1>1, <1>2 DEF Owners, TokensKept, Control
<1>4. QED
  BY <1>1, <1>2, <1>3, NothingHappens DEF TimersInv

LEMMA TimeToNextAlarmStep ==
  ASSUME TimersInv, TimeToNextAlarm
  PROVE  TimersInv' /\ Abstract!Next
<1>1. /\ phase' = "select" /\ UNCHANGED <<token, outer>> /\ timeout' = FirstDelay(dq')
      /\ dq' = IF FirstIsDue(dq) THEN dq ELSE Synchronized(dq)
      /\ call' = NoCall
  BY DEF TimeToNextAlarm
<1>2. Good(dq) /\ Owners /\ Control
  BY DEF TimersInv
<1>3. /\ Good(dq')
      /\ \A t \in Tasks, k \in Tokens : Has(dq'.queue, t, k) <=> Has(dq.queue, t, k)
      /\ FirstIsDue(dq) \/ dq'.sinceSync = 0
      /\ \E k \in 0..MaxLag : dq'.left = Less(dq.left, k)
  BY <1>1, <1>2, BroughtUpToDate
<1>4. Owners'
  BY <1>1, <1>2, <1>3 DEF Owners, TokensKept
<1>5. timeout' \in Nat /\ SleepsNoLonger'
  <2>1. CASE dq'.queue = << >>
    <3>1. timeout' \in Nat
      BY <1>1, <2>1, TimeAssumption DEF FirstDelay
    <3>2. \A t \in Tasks : dq'.left[t] = Idle
      <4>1. Listed(dq'.queue, dq'.left) /\ Len(dq'.queue) = 0
        BY <1>3, <2>1 DEF Good
      <4>2. QED
        BY <4>1 DEF Listed
    <3>3. QED
      BY <3>1, <3>2 DEF SleepsNoLonger
  <2>2. CASE dq'.queue # << >>
    <3>1. PICK t : t = Head(dq'.queue).task
      OBVIOUS
    <3>2. /\ t \in Tasks /\ dq'.left[t] \in Int
          /\ Head(dq'.queue).fDeltaTimeRemaining = Positive(dq'.left[t])
          /\ \A u \in Tasks : dq'.left[u] # Idle => dq'.left[t] <= dq'.left[u] /\ dq'.left[u] \in Int
      BY <1>3, <2>2, <3>1, FirstIsNext
    <3>3. timeout' = Positive(dq'.left[t])
      BY <1>1, <2>2, <3>2 DEF FirstDelay
    <3>4. timeout' \in Nat
      BY <3>2, <3>3 DEF Positive
    <3>5. ASSUME NEW u \in Tasks, dq'.left[u] # Idle
          PROVE  timeout' <= dq'.wait[u] + dq'.behind[u]
      <4>1. /\ dq'.wait[u] \in Nat /\ dq'.behind[u] \in Nat /\ dq'.sinceSync \in Int
            /\ dq'.left[u] - dq'.sinceSync <= dq'.wait[u] + dq'.behind[u]
        BY <1>3, <3>5 DEF Good, Queues, InTime
      <4>2. CASE FirstIsDue(dq)
        <5>1. timeout' = 0
          BY <1>1, <4>2 DEF FirstIsDue, FirstDelay
        <5>2. QED
          BY <4>1, <5>1
      <4>3. CASE ~FirstIsDue(dq)
        <5>1. dq'.sinceSync = 0 /\ dq'.left[t] <= dq'.left[u] /\ dq'.left[u] \in Int
          BY <1>3, <3>2, <3>5, <4>3
        <5>2. QED
          BY <3>2, <3>3, <4>1, <5>1 DEF Positive
      <4>4. QED
        BY <4>2, <4>3
    <3>6. QED
      BY <3>4, <3>5 DEF SleepsNoLonger
  <2>3. QED
    BY <2>1, <2>2
<1>6. Control'
  BY <1>1, <1>2, <1>5 DEF Control
<1>7. Abstract!Next
  BY <1>1, <1>3, NobodyCalls
<1>8. QED
  BY <1>3, <1>4, <1>5, <1>6, <1>7 DEF TimersInv

\* select() does not sleep past the time of a task.
LEMMA SelectStep ==
  ASSUME TimersInv, Select
  PROVE  /\ TimersInv' /\ Abstract!Next
         /\ \A t \in Tasks : dq.left[t] # Idle =>
               dq'.sinceSync - dq.sinceSync <= dq.wait[t] + dq.behind[t]
<1>1. /\ phase = "select" /\ phase' = "handlers" /\ timeout' = 0 /\ UNCHANGED <<token, outer>>
      /\ call' = NoCall
  BY DEF Select
<1>2. Good(dq) /\ Owners /\ Control /\ SleepsNoLonger /\ timeout \in Nat /\ dq.left \in Lefts
  BY DEF TimersInv, Control, Good, Queues
<1>3. PICK k \in 0..timeout : Passes(k)
  BY DEF Select
<1>4. k \in Nat /\ k <= timeout
  BY <1>2
<1>5. /\ Good(dq') /\ dq'.queue = dq.queue /\ dq'.left = dq.left
      /\ dq'.sinceSync = dq.sinceSync + k
  BY <1>2, <1>3, <1>4, PassesGood
<1>6. Owners'
  BY <1>1, <1>2, <1>5 DEF Owners, TokensKept
<1>7. Control' /\ SleepsNoLonger'
  BY <1>1, <1>2, Awake DEF Control
<1>8. ASSUME NEW t \in Tasks, dq.left[t] # Idle
      PROVE  dq'.sinceSync - dq.sinceSync <= dq.wait[t] + dq.behind[t]
  <2>1. dq.sinceSync \in Int /\ dq.wait[t] \in Nat /\ dq.behind[t] \in Nat
    BY <1>2, <1>8 DEF Good, Queues
  <2>2. timeout <= dq.wait[t] + dq.behind[t]
    BY <1>1, <1>2, <1>8 DEF SleepsNoLonger
  <2>3. QED
    BY <1>2, <1>4, <1>5, <2>1, <2>2
<1>9. QED
  BY <1>1, <1>2, <1>5, <1>6, <1>7, <1>8, NothingHappens DEF TimersInv

\* What handleAlarm does when an alarm is due: now is the queue it looks at.
LEMMA AlarmGoesOff ==
  ASSUME TimersInv, HandleAlarm,
         NEW now, now = IF FirstIsDue(dq) THEN dq ELSE Synchronized(dq), FirstIsDue(now)
  PROVE  /\ Good(dq') /\ Owners' /\ Abstract!Next
         /\ \A t \in Tasks : call' = <<"run", t>> => dq.wait[t] <= dq.ahead[t]
<1>1. /\ UNCHANGED token /\ dq' = RunTask(RemoveEntry(now, 1), Head(now.queue).task)
      /\ call' = <<"run", Head(now.queue).task>>
  BY DEF HandleAlarm
<1>2. Good(dq) /\ Owners /\ dq.left \in Lefts
  BY DEF TimersInv, Good, Queues
<1>3. PICK k \in 0..MaxLag :
         /\ Good(now) /\ now.wait = dq.wait /\ now.ahead = dq.ahead
         /\ \A u \in Tasks, x \in Tokens : Has(now.queue, u, x) <=> Has(dq.queue, u, x)
         /\ now.left = Less(dq.left, k) /\ k + Seen(now) = Seen(dq)
  BY <1>2, BroughtUpToDate
<1>4. k \in Int /\ k \in 0..MaxLag
  OBVIOUS
<1>5. PICK t : t = Head(now.queue).task
  OBVIOUS
<1>6. /\ 1 \in 1..Len(now.queue) /\ t = now.queue[1].task /\ t \in Tasks
      /\ now.left[t] \in Int /\ now.left[t] # Idle /\ now.left[t] <= 0
      /\ now.wait[t] <= now.ahead[t]
      /\ \A u \in Tasks : now.left[u] # Idle => now.left[t] <= now.left[u] /\ now.left[u] \in Int
  BY <1>3, <1>5, FirstIsNext, DueHasWaited DEF FirstIsDue
<1>7. PICK s : s = RemoveEntry(now, 1)
  OBVIOUS
<1>8. /\ Good(s)
      /\ s.sinceSync = now.sinceSync
      /\ s.left = [now.left EXCEPT ![t] = Idle]
      /\ \A u \in Tasks, x \in Tokens : Has(s.queue, u, x) <=> Has(now.queue, u, x) /\ u # t
  <2>1. Good(s)
    BY <1>3, <1>6, <1>7, RemoveEntryGood
  <2>2. /\ s.sinceSync = now.sinceSync
        /\ s.left = [now.left EXCEPT ![t] = Idle]
    BY <1>3, <1>6, <1>7, RemoveEntryFields
  <2>3. \A u \in Tasks, x \in Tokens : Has(s.queue, u, x) <=> Has(now.queue, u, x) /\ u # t
    BY <1>3, <1>6, <1>7, RemoveEntryHas
  <2>4. QED
    BY <2>1, <2>2, <2>3
<1>9. dq' = IF t = "tick" THEN AddEntry(s, NewToken(s, t), t, Granularity) ELSE s
  BY <1>1, <1>5, <1>7 DEF RunTask
<1>14. \A u \in Tasks : call' = <<"run", u>> => dq.wait[u] <= dq.ahead[u]
  BY <1>1, <1>3, <1>5, <1>6
\* The task is the next one of Timers, at any later time.
<1>10. ASSUME NEW m \in Int, m >= k
       PROVE  Abstract!IsNext(t, m)
  <2>1. \A u \in Tasks : dq.left[u] # Idle =>
           dq.left[u] \in Int /\ now.left[u] = dq.left[u] - k /\ now.left[u] # Idle
    <3>1. \A u \in Tasks : dq.left[u] # Idle =>
             dq.left[u] \in Int /\ Less(dq.left, k)[u] = dq.left[u] - k /\ Less(dq.left, k)[u] # Idle
      BY <1>2, <1>4, LessTyped
    <3>2. QED
      BY <1>3, <3>1
  <2>2. dq.left[t] # Idle
    <3>1. dq.left[t] = Idle => Less(dq.left, k)[t] = Idle
      BY <1>2, <1>4, <1>6, LessTyped
    <3>2. QED
      BY <1>3, <1>6, <3>1
  <2>3. dq.left[t] - m <= 0
    BY <1>4, <1>6, <1>10, <2>1, <2>2
  <2>4. Less(dq.left, m)[t] <= 0
    BY <1>2, <1>6, <2>2, <2>3, LessTyped
  <2>5. \A u \in Tasks : dq.left[u] # Idle => dq.left[t] <= dq.left[u]
    <3>1. ASSUME NEW u \in Tasks, dq.left[u] # Idle
          PROVE  dq.left[t] <= dq.left[u]
      <4>1. /\ dq.left[u] \in Int /\ now.left[u] = dq.left[u] - k
            /\ dq.left[t] \in Int /\ now.left[t] = dq.left[t] - k
            /\ now.left[t] <= now.left[u]
        BY <1>6, <2>1, <2>2, <3>1
      <4>2. QED
        BY <1>4, <4>1
    <3>2. QED
      BY <3>1
  <2>6. QED
    BY <1>6, <2>2, <2>4, <2>5, LaterIsLess DEF Abstract!IsNext, Abstract!Pending
<1>11. CASE t # "tick"
  <2>1. dq' = s
    BY <1>9, <1>11
  <2>2. Owners'
    BY <1>1, <1>2, <1>3, <1>8, <2>1 DEF Owners, TokensKept
  <2>3. Abstract!Next
    <3>1. dq'.left = [Abstract!Later(k) EXCEPT ![t] = Idle]
      BY <1>3, <1>8, <2>1, LaterIsLess
    <3>2. Abstract!IsNext(t, k)
      BY <1>4, <1>10
    <3>3. call' = <<"run", t>>
      BY <1>1, <1>5
    <3>4. Abstract!Run(t)
      BY <1>4, <1>11, <3>1, <3>2, <3>3 DEF Abstract!Run
    <3>5. QED
      BY <1>6, <3>4 DEF Abstract!Next
  <2>4. QED
    BY <1>8, <1>14, <2>1, <2>2, <2>3
<1>12. CASE t = "tick"
  <2>1. dq' = AddEntry(s, NewToken(s, t), t, Granularity)
    BY <1>9, <1>12
  <2>2. Granularity \in Nat /\ t \notin Others /\ now.left \in Lefts /\ s.left \in Lefts
    BY <1>3, <1>8, <1>12, TimeAssumption, TasksAssumption DEF Good, Queues
  <2>3. s.left[t] = Idle /\ \A u \in Tasks : u # t => s.left[u] = now.left[u]
    BY <1>6, <1>8, <2>2 DEF Lefts
  <2>4. \A u \in Tasks, x \in Tokens : Has(s.queue, u, x) =>
            /\ u # t
            /\ u \in Others => token[u] = x
            /\ \A v \in Others : v # t /\ token[v] = x => v = u
    BY <1>2, <1>3, <1>8 DEF Owners, TokensKept
  <2>5. Good(dq') /\ Owners' /\ dq'.left = [Less(s.left, Seen(s)) EXCEPT ![t] = Granularity]
    <3>1. /\ token \in [Others -> Tokens \cup {NoToken}] /\ Good(s)
          /\ token' = IF t \in Others THEN [token EXCEPT ![t] = NewToken(s, t)] ELSE token
      BY <1>1, <1>2, <1>8, <2>2 DEF Owners
    <3>2. QED
      BY <1>6, <2>1, <2>2, <2>3, <2>4, <3>1, ScheduledGood
  <2>6. Seen(dq) \in Int /\ Seen(dq) >= k /\ Seen(s) = Seen(now) /\ Seen(s) \in Int
        /\ Seen(dq) \in 0..MaxLag
    <3>1. /\ Seen(now) \in Nat /\ Seen(s) = Seen(now)
          /\ Seen(dq) \in Nat /\ Seen(dq) \in 0..MaxLag
      BY <1>2, <1>3, <1>8, SeenIsDuration, SeenTyped
    <3>2. QED
      BY <1>3, <1>4, <3>1
  <2>7. dq'.left = [Less(dq.left, Seen(dq)) EXCEPT ![t] = Granularity]
    <3>1. PICK f, g : f = Less(s.left, Seen(s)) /\ g = Less(now.left, Seen(s))
      OBVIOUS
    <3>2. /\ f = [u \in Tasks |-> f[u]] /\ g = [u \in Tasks |-> g[u]]
          /\ \A u \in Tasks : u # t => f[u] = g[u]
      <4>1. PICK m \in Int : m = Seen(s)
        BY <2>6
      <4>2. /\ Less(s.left, m) = [u \in Tasks |-> Less(s.left, m)[u]]
            /\ Less(now.left, m) = [u \in Tasks |-> Less(now.left, m)[u]]
            /\ \A u \in Tasks : u # t => Less(s.left, m)[u] = Less(now.left, m)[u]
        BY <2>3 DEF Less
      <4>3. QED
        BY <3>1, <4>1, <4>2
    <3>3. [f EXCEPT ![t] = Granularity] = [g EXCEPT ![t] = Granularity]
      BY <3>2
    <3>4. g = Less(dq.left, Seen(dq))
      BY <1>2, <1>3, <1>4, <2>6, <3>1, LessLess
    <3>5. QED
      BY <2>5, <3>1, <3>3, <3>4
  <2>8. Abstract!Next
    <3>1. dq'.left = [Abstract!Later(Seen(dq)) EXCEPT ![t] = Granularity]
      BY <2>7, LaterIsLess
    <3>2. Abstract!IsNext(t, Seen(dq))
      BY <1>10, <2>6
    <3>3. call' = <<"run", t>>
      BY <1>1, <1>5
    <3>4. Abstract!Run(t)
      BY <1>12, <2>6, <3>1, <3>2, <3>3 DEF Abstract!Run
    <3>5. QED
      BY <1>6, <3>4 DEF Abstract!Next
  <2>9. QED
    BY <1>14, <2>5, <2>8
<1>13. QED
  BY <1>11, <1>12

LEMMA HandleAlarmStep ==
  ASSUME TimersInv, HandleAlarm
  PROVE  /\ TimersInv' /\ Abstract!Next
         /\ \A t \in Tasks : Runs(t) => dq.wait[t] <= dq.ahead[t]
<1>1. Good(dq) /\ Owners /\ Control
  BY DEF TimersInv
<1>2. PICK now : now = IF FirstIsDue(dq) THEN dq ELSE Synchronized(dq)
  OBVIOUS
<1>3. /\ UNCHANGED <<token, timeout, outer>> /\ phase' \in {"alarm", "top"}
      /\ ~FirstIsDue(now) => dq' = now /\ call' = NoCall
  BY <1>2 DEF HandleAlarm
<1>4. Control' /\ SleepsNoLonger'
  BY <1>1, <1>3, Awake DEF Control
<1>5. CASE FirstIsDue(now)
  <2>1. /\ Good(dq') /\ Owners' /\ Abstract!Next
        /\ \A t \in Tasks : call' = <<"run", t>> => dq.wait[t] <= dq.ahead[t]
    BY <1>2, <1>5, AlarmGoesOff
  <2>2. QED
    BY <1>4, <2>1 DEF TimersInv, Runs
<1>6. CASE ~FirstIsDue(now)
  <2>1. dq' = now /\ call' = NoCall
    BY <1>3, <1>6
  <2>2. /\ Good(now)
        /\ \A t \in Tasks, k \in Tokens : Has(now.queue, t, k) <=> Has(dq.queue, t, k)
        /\ \E k \in 0..MaxLag : now.left = Less(dq.left, k)
    BY <1>1, <1>2, BroughtUpToDate
  <2>3. Owners'
    BY <1>1, <1>3, <2>1, <2>2 DEF Owners, TokensKept
  <2>4. Abstract!Next
    <3>1. PICK k \in 0..MaxLag : now.left = Less(dq.left, k)
      BY <2>2
    <3>2. QED
      BY <2>1, <3>1, NobodyCalls
  <2>5. \A t \in Tasks : ~Runs(t)
    BY <2>1 DEF Runs, NoCall
  <2>6. QED
    BY <1>4, <2>1, <2>2, <2>3, <2>4, <2>5 DEF TimersInv
<1>7. QED
  BY <1>5, <1>6

\* The steps that only enter and leave loops.
LEMMA LoopStep ==
  ASSUME TimersInv, StepEnds \/ EnterLoop \/ LeaveLoop
  PROVE  TimersInv' /\ Abstract!Next
<1>1. /\ Good(dq) /\ Owners /\ Control /\ dq.left \in Lefts
      /\ UNCHANGED <<dq, token, timeout>> /\ call' = NoCall
  BY DEF TimersInv, Good, Queues, StepEnds, EnterLoop, LeaveLoop
<1>2. outer \in Seq({"handlers", "alarm"}) /\ timeout' \in Nat
  BY <1>1 DEF Control
<1>3. phase' \in {"top", "handlers", "alarm"} /\ outer' \in Seq({"handlers", "alarm"})
  <2>1. CASE StepEnds
    BY <1>2, <2>1 DEF StepEnds
  <2>2. CASE EnterLoop
    <3>1. phase \in {"handlers", "alarm"}
      BY <2>2 DEF EnterLoop, InHandler
    <3>2. phase' = "top" /\ outer' = Append(outer, phase)
      BY <2>2 DEF EnterLoop
    <3>3. QED
      BY <1>2, <3>1, <3>2
  <2>3. CASE LeaveLoop
    <3>1. outer # << >> /\ phase' = outer[Len(outer)] /\ outer' = SubSeq(outer, 1, Len(outer) - 1)
      BY <2>3 DEF LeaveLoop, Last, Front
    <3>2. Len(outer) \in 1..Len(outer)
      BY <1>2, <3>1
    <3>3. phase' \in {"handlers", "alarm"}
      BY <1>2, <3>1, <3>2, ElementOfSeq
    <3>4. outer' \in Seq({"handlers", "alarm"})
      <4>1. \A i \in 1..(Len(outer) - 1) : outer[i] \in {"handlers", "alarm"}
        BY <1>2, ElementOfSeq
      <4>2. 1 \in Int /\ Len(outer) - 1 \in Int
        BY <1>2
      <4>3. QED
        BY <3>1, <4>1, <4>2, SubSeqProperties
    <3>5. QED
      BY <3>3, <3>4
  <2>4. QED
    BY <2>1, <2>2, <2>3
<1>4. Control' /\ SleepsNoLonger'
  BY <1>1, <1>2, <1>3, Awake
<1>5. TimersInv'
  BY <1>1, <1>4 DEF TimersInv, Owners, TokensKept
<1>6. QED
  BY <1>1, <1>5, NothingHappens

LEMMA InitTimersInv == Init => TimersInv /\ Abstract!Init
<1>1. SUFFICES ASSUME Init
               PROVE  TimersInv /\ Abstract!Init
  OBVIOUS
<1>2. PICK s : s = [queue |-> << >>, sinceSync |-> 0, left |-> Nothing, wait |-> Nothing,
                    ahead |-> Zero, behind |-> Zero]
  OBVIOUS
<1>3. /\ dq = AddEntry(s, 1, "tick", Granularity)
      /\ token = [t \in Others |-> NoToken]
      /\ phase = "top" /\ timeout = 0 /\ outer = << >> /\ call = NoCall
  BY <1>1, <1>2 DEF Init
<1>4. /\ s.queue = << >> /\ Len(s.queue) = 0 /\ s.sinceSync = 0
      /\ s.left = Nothing /\ s.wait = Nothing /\ s.ahead = Zero /\ s.behind = Zero
  BY <1>2
<1>5. Nothing \in Lefts /\ Nothing \in [Tasks -> Nat \cup {Idle}] /\ \A t \in Tasks : Nothing[t] = Idle
  BY DEF Nothing, Lefts
<1>6. Listed(s.queue, s.left)
  <2>1. s.queue \in Seq(Entries) /\ 1..Len(s.queue) = {}
    BY <1>4
  <2>2. QED
    BY <1>4, <1>5, <2>1 DEF Listed
<1>7. Good(s)
  <2>1. s \in Queues
    BY <1>2, <1>5 DEF Queues, Zero
  <2>2. QED
    BY <1>4, <1>5, <1>6, <2>1, TimeAssumption DEF Good
<1>8. "tick" \in Tasks /\ s.left["tick"] = Idle /\ Granularity \in Nat
  BY <1>4, <1>5, TimeAssumption DEF Tasks
<1>9. 1 \in Tokens
  <2>1. IsFiniteSet(Tasks) /\ Cardinality(Others) \in Nat /\ Cardinality(Tasks) = Cardinality(Others) + 1
    BY TasksAssumption, FS_AddElement, FS_CardinalityType DEF Tasks
  <2>2. QED
    BY <2>1 DEF Tokens
<1>10. /\ Good(dq)
       /\ \A u \in Tasks, k \in Tokens :
             Has(dq.queue, u, k) <=> Has(s.queue, u, k) \/ (u = "tick" /\ k = 1)
  <2>1. \A i \in 1..Len(s.queue) : s.queue[i].token # 1
    BY <1>4
  <2>2. QED
    BY <1>3, <1>7, <1>8, <1>9, <2>1, AddEntryGood, AddEntryListed
<1>11. Owners
  <2>1. \A u \in Tasks, k \in Tokens : ~Has(s.queue, u, k)
    BY <1>4 DEF Has
  <2>2. "tick" \notin Others /\ \A k \in Tokens : k # NoToken
    BY TasksAssumption DEF Tokens, NoToken
  <2>3. QED
    BY <1>3, <1>10, <2>1, <2>2 DEF Owners, TokensKept
<1>12. Control /\ SleepsNoLonger
  BY <1>3 DEF Control, SleepsNoLonger
<1>13. Abstract!Init
  <2>1. Seen(s) \in Int /\ dq.left = [Less(s.left, Seen(s)) EXCEPT !["tick"] = Granularity]
    BY <1>3, <1>7, <1>8, <1>9, AddEntryFields, SeenTyped
  <2>2. \A t \in Tasks : Less(s.left, Seen(s))[t] = Idle
    BY <1>4, <1>5 DEF Less
  <2>3. Less(s.left, Seen(s)) = [t \in Tasks |-> Less(s.left, Seen(s))[t]]
    BY DEF Less
  <2>4. dq.left = [t \in Tasks |-> IF t = "tick" THEN Granularity ELSE Idle]
    <3>1. PICK f : f = Less(s.left, Seen(s))
      OBVIOUS
    <3>2. f = [t \in Tasks |-> f[t]] /\ \A t \in Tasks : f[t] = Idle
      BY <2>2, <2>3, <3>1
    <3>3. dq.left = [f EXCEPT !["tick"] = Granularity]
      BY <2>1, <3>1
    <3>4. QED
      BY <3>2, <3>3
  <2>5. QED
    BY <1>3, <2>4 DEF Abstract!Init, Abstract!NoCall, NoCall
<1>14. QED
  BY <1>10, <1>11, <1>12, <1>13 DEF TimersInv

\* A step keeps the invariant, and is a step of Timers.
LEMMA TimersStep ==
  ASSUME TimersInv, [Next]_vars
  PROVE  TimersInv' /\ [Abstract!Next]_<<dq.left, call>>
<1>1. CASE \E t \in Others : ScheduleDelayedTask(t)
  BY <1>1, ScheduleStep
<1>2. CASE \E t \in Others : UnscheduleDelayedTask(t)
  BY <1>2, UnscheduleStep
<1>3. CASE \E t \in Others : RescheduleDelayedTask(t)
  BY <1>3, RescheduleStep
<1>4. CASE HandlerTakesTime \/ SetBack \/ SetForward
  BY <1>4, ClockStep
<1>5. CASE TimeToNextAlarm
  BY <1>5, TimeToNextAlarmStep
<1>6. CASE Select
  BY <1>6, SelectStep
<1>7. CASE HandleAlarm
  BY <1>7, HandleAlarmStep
<1>8. CASE StepEnds \/ EnterLoop \/ LeaveLoop
  BY <1>8, LoopStep
<1>9. CASE UNCHANGED vars
  BY <1>9 DEF vars, TimersInv, Owners, TokensKept, Control, SleepsNoLonger
<1>10. QED
  BY <1>1, <1>2, <1>3, <1>4, <1>5, <1>6, <1>7, <1>8, <1>9 DEF Next

\* The list, the tokens and the control of the event loop stay consistent: the list
\* holds each scheduled task once, in order, with the exact difference between the
\* times, and an owner's token is never that of somebody else's entry.
THEOREM TimersInvariant == Spec => []TimersInv
<1>1. TimersInv /\ [Next]_vars => TimersInv'
  BY TimersStep
<1>2. QED
  BY <1>1, InitTimersInv, PTL DEF Spec

\* The list of differences with its tokens and its looks at the clock implements
\* Timers: a task is run once when its time has come, and the one that was due first before
\* the others; one that has not run is taken out by its owner only
\* (DelayQueue::addEntry, synchronize, handleAlarm; BasicTaskScheduler0).
THEOREM DelayQueueImplementsTimers == Spec => ImplementsTimers
<1>1. TimersInv /\ [Next]_vars => [Abstract!Next]_<<dq.left, call>>
  BY TimersStep
<1>2. QED
  BY <1>1, InitTimersInv, TimersInvariant, PTL DEF Spec, ImplementsTimers, Abstract!Spec

\* In real time, no task runs before its delay has passed and select() never sleeps past
\* the time of a task, but for what the clock was set in the meantime
\* (SingleStep, timeToNextAlarm, handleAlarm, synchronize).
THEOREM TasksRunOnTime == Spec => OnTime
<1>1. TimersInv /\ [Next]_vars =>
         [/\ \A t \in Tasks : Runs(t) => dq.wait[t] <= dq.ahead[t]
          /\ Select => \A t \in Tasks : dq.left[t] # Idle =>
                 dq'.sinceSync - dq.sinceSync <= dq.wait[t] + dq.behind[t]]_vars
  BY HandleAlarmStep, SelectStep DEF Runs
<1>2. QED
  BY <1>1, TimersInvariant, PTL DEF Spec, OnTime
=============================================================================
