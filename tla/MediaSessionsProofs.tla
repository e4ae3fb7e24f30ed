------------------------- MODULE MediaSessionsProofs -------------------------
(***************************************************************************)
(* Proofs about MediaSessions, for any number of names, clients, sessions  *)
(* and nested DESCRIBEs: the counts are those of the users, nobody uses a  *)
(* deleted session, a deleted session has closed its replicator, and a     *)
(* session that took a free name is found under it until it is removed.    *)
(***************************************************************************)
EXTENDS MediaSessions, FiniteSetTheorems, TLAPS

StreamsOf(i) == {c \in UsersOf(i) : streaming[c] = "open"}

\* What the counts of one session count.
Counted(i) ==
    /\ IsFiniteSet(UsersOf(i)) /\ IsFiniteSet(DescribesOf(i))
    /\ fReferenceCount[i] = Cardinality(UsersOf(i)) + Cardinality(DescribesOf(i))
    /\ numReplicas[i] = Cardinality(StreamsOf(i)) + Cardinality(DescribesOf(i))

\* The users: client sessions that have come and not gone, and DESCRIBEs.
Users ==
    /\ \A c \in Clients : fOurServerMediaSession[c] # None => c \in fClientSessions
    /\ \A c \in Clients : streaming[c] = "open" => fOurServerMediaSession[c] # None
    /\ \A c \in Clients : fOurServerMediaSession[c] # None
                              => Alive(fOurServerMediaSession[c])
    /\ \A d \in DOMAIN describing : Alive(describing[d])

\* The table, and the life of one session.  A removed session whose name is not
\* reused leaves the name free, so that its last user can take nothing else out.
Entry(n) ==
    fServerMediaSessions[n] # None => /\ status[fServerMediaSessions[n]] = "kept"
                                      /\ streamName[fServerMediaSessions[n]] = n

Life(i) ==
    /\ status[i] = "unmade" <=> i > made
    /\ Alive(i) => streamName[i] \in Names
    /\ status[i] = "dying" => fReferenceCount[i] # 0
    /\ Alive(i) /\ streamName[i] \notin reused
           => fServerMediaSessions[streamName[i]] = IF status[i] = "kept" THEN i ELSE None
    /\ status[i] = "closed" => replicator[i] = "closed"

Phases ==
    /\ phase # "up" => describing = <<>>
    /\ phase = "gone" => fClientSessions = {} /\ TableIsEmpty

Objects == (\A n \in Names : Entry(n)) /\ (\A i \in Sessions : Life(i))

Inv ==
    /\ TypeOK /\ Users /\ Objects /\ Phases
    /\ \A i \in Sessions : Counted(i)

-----------------------------------------------------------------------------
(* Sets that grow and shrink by one.                                       *)

\* No user is left when the counts add up to nothing.
LEMMA NobodyLeft ==
  ASSUME NEW U, NEW D, IsFiniteSet(U), IsFiniteSet(D), Cardinality(U) + Cardinality(D) = 0
  PROVE  U = {} /\ D = {}
<1>1. Cardinality(U) \in Nat /\ Cardinality(D) \in Nat
  BY FS_CardinalityType
<1>2. Cardinality(U) = 0 /\ Cardinality(D) = 0
  BY <1>1
<1>. QED
  BY <1>2, FS_EmptySet

\* Finite sets of users, streams and DESCRIBEs have natural numbers of elements.
LEMMA Sizes ==
  ASSUME NEW i, IsFiniteSet(UsersOf(i)), IsFiniteSet(DescribesOf(i))
  PROVE  /\ IsFiniteSet(StreamsOf(i))
         /\ Cardinality(UsersOf(i)) \in Nat /\ Cardinality(DescribesOf(i)) \in Nat
         /\ Cardinality(StreamsOf(i)) \in Nat
<1>1. StreamsOf(i) \in SUBSET UsersOf(i)
  BY DEF StreamsOf
<1>. QED
  BY <1>1, FS_Subset, FS_CardinalityType

\* A session without users has no replica.
LEMMA Unused ==
  ASSUME NEW i \in Sessions, Counted(i), fReferenceCount[i] = 0
  PROVE  UsersOf(i) = {} /\ DescribesOf(i) = {} /\ numReplicas[i] = 0
<1>1. UsersOf(i) = {} /\ DescribesOf(i) = {}
  BY NobodyLeft DEF Counted
<1>2. StreamsOf(i) = {}
  BY <1>1 DEF StreamsOf
<1>. QED
  BY <1>1, <1>2, FS_EmptySet DEF Counted

\* An element more, an element less.
LEMMA OneMore ==
  ASSUME NEW S, IsFiniteSet(S), NEW x, x \notin S
  PROVE  IsFiniteSet(S \cup {x}) /\ Cardinality(S \cup {x}) = Cardinality(S) + 1
BY FS_AddElement

LEMMA OneLess ==
  ASSUME NEW S, IsFiniteSet(S), NEW x \in S
  PROVE  /\ IsFiniteSet(S \ {x}) /\ Cardinality(S \ {x}) = Cardinality(S) - 1
         /\ Cardinality(S) \in Nat /\ Cardinality(S) > 0
<1>1. Cardinality(S) \in Nat /\ (Cardinality(S) = 0 <=> S = {})
  BY FS_CardinalityType, FS_EmptySet
<1>. QED
  BY <1>1, FS_RemoveElement

-----------------------------------------------------------------------------
(* Removal and release.                                                    *)

\* What is left of the table and of the sessions when one is removed.
LEMMA Removed ==
  ASSUME Inv, NEW i \in Sessions, Alive(i), RemoveServerMediaSession(i),
         UNCHANGED <<made, streamName, reused>>,
         \A j \in Sessions : j # i => fReferenceCount'[j] = fReferenceCount[j],
         fReferenceCount'[i] = 0 => numReplicas'[i] = 0
  PROVE  /\ Objects'
         /\ fServerMediaSessions' \in [Names -> Sessions \cup {None}]
         /\ status' \in [Sessions -> {"unmade", "kept", "dying", "closed"}]
         /\ replicator' \in [Sessions -> {"open", "closed"}]
         /\ status'[i] = IF fReferenceCount'[i] = 0 THEN "closed" ELSE "dying"
         /\ \A j \in Sessions : j # i => status'[j] = status[j]
<1>. DEFINE new == IF fReferenceCount'[i] = 0 THEN "closed" ELSE "dying"
<1>1. /\ fServerMediaSessions' = [fServerMediaSessions EXCEPT ![streamName[i]] = None]
      /\ status' = [status EXCEPT ![i] = new]
      /\ replicator' = [replicator EXCEPT ![i] = IF fReferenceCount'[i] = 0 THEN "closed" ELSE @]
  BY DEF RemoveServerMediaSession, CloseReplicator, Inv, TypeOK
<1>2. /\ status'[i] = new /\ \A j \in Sessions : j # i => status'[j] = status[j]
      /\ new = "closed" => replicator'[i] = "closed"
      /\ \A j \in Sessions : j # i => replicator'[j] = replicator[j]
  BY <1>1 DEF Inv, TypeOK
<1>3. /\ \A n \in Names : n # streamName[i] => fServerMediaSessions'[n] = fServerMediaSessions[n]
      /\ streamName[i] \in Names /\ fServerMediaSessions'[streamName[i]] = None
      /\ fServerMediaSessions' \in [Names -> Sessions \cup {None}]
      /\ status' \in [Sessions -> {"unmade", "kept", "dying", "closed"}]
      /\ replicator' \in [Sessions -> {"open", "closed"}]
  BY <1>1 DEF Inv, TypeOK, Objects, Life
<1>4. ASSUME NEW n \in Names PROVE Entry(n)'
  <2>1. CASE n = streamName[i]
    BY <2>1, <1>3 DEF Entry
  <2>2. CASE n # streamName[i]
    BY <2>2, <1>2, <1>3, NoneAssumption DEF Entry, Inv, Objects, TypeOK
  <2>. QED  BY <2>1, <2>2
<1>5. Life(i)'
  BY <1>2, <1>3 DEF Life, Alive, Inv, Objects
<1>6. ASSUME NEW j \in Sessions, j # i PROVE Life(j)'
  <2>1. /\ status'[j] = "unmade" <=> j > made'
        /\ Alive(j)' => streamName'[j] \in Names
        /\ status'[j] = "dying" => fReferenceCount'[j] # 0
        /\ status'[j] = "closed" => replicator'[j] = "closed"
    BY <1>2, <1>6 DEF Life, Alive, Inv, Objects
  <2>2. ASSUME Alive(j), streamName[j] \notin reused
        PROVE  fServerMediaSessions'[streamName[j]] = IF status[j] = "kept" THEN j ELSE None
    <3>1. CASE streamName[j] = streamName[i]
      <4>1. fServerMediaSessions[streamName[i]] = (IF status[i] = "kept" THEN i ELSE None)
            /\ fServerMediaSessions[streamName[j]] = (IF status[j] = "kept" THEN j ELSE None)
        BY <2>2, <3>1 DEF Life, Inv, Objects
      <4>2. status[j] # "kept"
        BY <4>1, <3>1, <1>6, NoneAssumption DEF Sessions
      <4>. QED  BY <4>2, <3>1, <1>3
    <3>2. CASE streamName[j] # streamName[i]
      BY <2>2, <3>2, <1>3 DEF Life, Inv, Objects
    <3>. QED  BY <3>1, <3>2
  <2>3. Alive(j)' /\ streamName'[j] \notin reused'
          => fServerMediaSessions'[streamName'[j]] = IF status'[j] = "kept" THEN j ELSE None
    BY <2>2, <1>2, <1>6 DEF Alive
  <2>. QED  BY <2>1, <2>3 DEF Life
<1>. QED
  BY <1>2, <1>3, <1>4, <1>5, <1>6 DEF Objects

\* What is left of them when one reference is given back.
LEMMA Released ==
  ASSUME Inv, NEW i \in Sessions, Alive(i), Release(i), fReferenceCount[i] > 0,
         UNCHANGED <<made, streamName, reused>>,
         fReferenceCount'[i] = 0 => numReplicas'[i] = 0
  PROVE  /\ Objects'
         /\ fServerMediaSessions' \in [Names -> Sessions \cup {None}]
         /\ status' \in [Sessions -> {"unmade", "kept", "dying", "closed"}]
         /\ replicator' \in [Sessions -> {"open", "closed"}]
         /\ fReferenceCount' = [fReferenceCount EXCEPT ![i] = @ - 1]
         /\ fReferenceCount' \in [Sessions -> Nat]
         /\ status'[i] \in {"kept", "dying"} \/ fReferenceCount'[i] = 0
         /\ \A j \in Sessions : j # i => status'[j] = status[j]
<1>1. /\ fReferenceCount' = [fReferenceCount EXCEPT ![i] = @ - 1]
      /\ fReferenceCount' \in [Sessions -> Nat]
      /\ \A j \in Sessions : j # i => fReferenceCount'[j] = fReferenceCount[j]
  BY DEF Release, Decremented, Inv, TypeOK
<1>2. CASE fReferenceCount'[i] = 0 /\ status[i] = "dying"
  BY <1>1, <1>2, Removed DEF Release
<1>3. CASE ~(fReferenceCount'[i] = 0 /\ status[i] = "dying")
  <2>1. UNCHANGED <<fServerMediaSessions, status, replicator>>
    BY <1>3 DEF Release
  <2>2. ASSUME NEW n \in Names PROVE Entry(n)'
    BY <2>1 DEF Entry, Inv, Objects
  <2>3. ASSUME NEW j \in Sessions PROVE Life(j)'
    <3>1. Life(j)
      BY DEF Inv, Objects
    <3>2. status'[j] = "dying" => fReferenceCount'[j] # 0
      BY <2>1, <3>1, <1>1, <1>3 DEF Life
    <3>. QED  BY <2>1, <3>1, <3>2 DEF Life, Alive
  <2>. QED
    BY <2>1, <2>2, <2>3, <1>1 DEF Objects, Inv, TypeOK, Alive
<1>. QED
  BY <1>2, <1>3

-----------------------------------------------------------------------------
(* The commands of the application.                                        *)

LEMMA AddSessionKeeps ==
  ASSUME Inv, NEW n \in Names, AddSession(n)
  PROVE  Inv'
<1>. DEFINE k == made + 1  old == fServerMediaSessions[n]
<1>1. k \in Sessions /\ made \in Nat /\ status[k] = "unmade" /\ old \in Sessions \cup {None}
  BY BoundsAssumption DEF AddSession, Inv, TypeOK, Objects, Life, Sessions
<1>2. \A i \in Sessions : i = old => i # k /\ status[i] = "kept" /\ streamName[i] = n
  BY <1>1, NoneAssumption DEF Inv, Objects, Entry, Sessions
<1>3. \A i \in Sessions :
      /\ status'[i] =
             (IF i = k THEN "kept"
              ELSE IF i = old THEN (IF fReferenceCount[i] = 0 THEN "closed" ELSE "dying")
              ELSE status[i])
      /\ replicator'[i] =
             (IF i = k THEN "open"
              ELSE IF i = old /\ fReferenceCount[i] = 0 /\ numReplicas[i] = 0 THEN "closed"
              ELSE replicator[i])
  <2>. TAKE i \in Sessions
  <2>1. old = i => i # k
    BY <1>2
  <2>. HIDE DEF k, old
  <2>2. /\ status'[i] = CASE i = k   -> "kept"
                          [] i = old -> IF fReferenceCount[i] = 0 THEN "closed" ELSE "dying"
                          [] OTHER   -> status[i]
        /\ replicator'[i] =
             CASE i = k -> "open"
               [] i = old /\ fReferenceCount[i] = 0 /\ numReplicas[i] = 0 -> "closed"
               [] OTHER -> replicator[i]
    BY DEF AddSession, Replaced, k, old
  <2>. QED  BY <2>1, <2>2
<1>4. /\ fServerMediaSessions'[n] = k
      /\ \A m \in Names : m # n => fServerMediaSessions'[m] = fServerMediaSessions[m]
      /\ streamName'[k] = n
      /\ \A i \in Sessions : i # k => streamName'[i] = streamName[i]
      /\ reused' = IF InUse(n) THEN reused \cup {n} ELSE reused
  BY <1>1 DEF AddSession, Replaced, Inv, TypeOK
<1>5. TypeOK'
  <2>1. /\ status' \in [Sessions -> {"unmade", "kept", "dying", "closed"}]
        /\ replicator' \in [Sessions -> {"open", "closed"}]
    BY DEF AddSession, Replaced, Inv, TypeOK
  <2>2. /\ fServerMediaSessions' \in [Names -> Sessions \cup {None}]
        /\ streamName' \in [Sessions -> Names \cup {None}]
        /\ made' \in 0..MaxSessions /\ reused' \subseteq Names
    BY <1>1, BoundsAssumption DEF AddSession, Replaced, Inv, TypeOK, Sessions
  <2>. QED  BY <2>1, <2>2 DEF AddSession, Inv, TypeOK, clients
<1>6. ASSUME NEW i \in Sessions PROVE Counted(i)'
  BY DEF AddSession, Inv, Counted, UsersOf, DescribesOf, StreamsOf, clients
<1>7. \A i \in Sessions : fReferenceCount[i] = 0 => UsersOf(i) = {} /\ DescribesOf(i) = {}
                                                   /\ numReplicas[i] = 0
  BY Unused DEF Inv
<1>8. Users'
  <2>1. ASSUME NEW i \in Sessions, Alive(i), UsersOf(i) # {} \/ DescribesOf(i) # {}
        PROVE  Alive(i)'
    BY <1>1, <1>3, <1>7, <2>1 DEF Alive
  <2>2. ASSUME NEW c \in Clients, fOurServerMediaSession[c] # None
        PROVE  Alive(fOurServerMediaSession[c])'
    BY <2>1, <2>2 DEF Inv, TypeOK, Users, UsersOf, AddSession, clients
  <2>3. ASSUME NEW d \in DOMAIN describing PROVE Alive(describing[d])'
    BY <2>1 DEF Inv, TypeOK, Users, DescribesOf, AddSession
  <2>. QED
    BY <2>2, <2>3 DEF Users, AddSession, clients, Inv, Alive
<1>9. ASSUME NEW m \in Names PROVE Entry(m)'
  <2>1. CASE m = n
    BY <2>1, <1>1, <1>3, <1>4 DEF Entry
  <2>2. CASE m # n
    <3>1. SUFFICES ASSUME fServerMediaSessions[m] # None
                   PROVE  /\ status'[fServerMediaSessions[m]] = "kept"
                          /\ streamName'[fServerMediaSessions[m]] = m
      BY <2>2, <1>4 DEF Entry
    <3>2. /\ fServerMediaSessions[m] \in Sessions
          /\ status[fServerMediaSessions[m]] = "kept"
          /\ streamName[fServerMediaSessions[m]] = m
      BY <3>1 DEF Inv, TypeOK, Objects, Entry
    <3>. QED  BY <2>2, <3>2, <1>1, <1>2, <1>3, <1>4
  <2>. QED  BY <2>1, <2>2
<1>10. ASSUME NEW i \in Sessions PROVE Life(i)'
  <2>1. CASE i = k
    BY <2>1, <1>1, <1>3, <1>4 DEF Life, Alive, AddSession
  <2>2. CASE i # k
    <3>1. Life(i)
      BY DEF Inv, Objects
    <3>2. status'[i] = "unmade" <=> i > made'
      BY <2>2, <3>1, <1>1, <1>2, <1>3 DEF Life, AddSession, Sessions
    <3>3. Alive(i)' => Alive(i) /\ streamName'[i] = streamName[i]
      BY <2>2, <1>2, <1>3, <1>4 DEF Alive
    <3>4. /\ status'[i] = "dying" => fReferenceCount'[i] # 0
          /\ status'[i] = "closed" => replicator'[i] = "closed"
      BY <2>2, <3>1, <1>3, <1>7 DEF Life, AddSession
    <3>5. ASSUME Alive(i)', streamName'[i] \notin reused'
          PROVE  fServerMediaSessions'[streamName'[i]] = IF status'[i] = "kept" THEN i ELSE None
      <4>1. /\ streamName[i] \notin reused /\ streamName[i] \in Names /\ Alive(i)
            /\ fServerMediaSessions[streamName[i]] = IF status[i] = "kept" THEN i ELSE None
        BY <3>1, <3>3, <3>5, <1>4 DEF Life
      <4>2. CASE streamName[i] # n
        BY <4>1, <4>2, <2>2, <1>2, <1>3, <1>4
      <4>3. CASE streamName[i] = n
        <5>1. ~InUse(n)
          BY <4>3, <3>5, <3>3, <1>4
        <5>2. fReferenceCount[i] = 0
          BY <5>1, <4>1, <4>3 DEF InUse, Alive
        <5>3. status[i] = "kept" /\ i = old
          BY <5>2, <4>1, <4>3, <3>1 DEF Life, Alive
        <5>. QED  BY <5>2, <5>3, <3>5, <2>2, <1>3 DEF Alive
      <4>. QED  BY <4>2, <4>3
    <3>. QED  BY <3>1, <3>2, <3>3, <3>4, <3>5 DEF Life
  <2>. QED  BY <2>1, <2>2
<1>. QED
  BY <1>5, <1>6, <1>8, <1>9, <1>10 DEF Inv, Objects, Phases, AddSession, TableIsEmpty

\* A session that is removed by name: by a command, or by the end of the server.
LEMMA RemovedByName ==
  ASSUME Inv, NEW n \in Names, fServerMediaSessions[n] # None,
         UNCHANGED <<fReferenceCount, numReplicas>>,
         RemoveServerMediaSession(fServerMediaSessions[n]),
         UNCHANGED <<made, streamName, hasSDP, clients, describing, phase, reused>>,
         phase # "gone"
  PROVE  Inv'
<1>1. PICK i \in Sessions : i = fServerMediaSessions[n] /\ Alive(i)
  BY DEF Inv, TypeOK, Objects, Entry, Alive
<1>2. fReferenceCount[i] = 0 => UsersOf(i) = {} /\ DescribesOf(i) = {} /\ numReplicas[i] = 0
  BY <1>1, Unused DEF Inv
<1>3. /\ Objects'
      /\ fServerMediaSessions' \in [Names -> Sessions \cup {None}]
      /\ status' \in [Sessions -> {"unmade", "kept", "dying", "closed"}]
      /\ replicator' \in [Sessions -> {"open", "closed"}]
      /\ status'[i] = IF fReferenceCount'[i] = 0 THEN "closed" ELSE "dying"
      /\ \A j \in Sessions : j # i => status'[j] = status[j]
  <2>1. RemoveServerMediaSession(i)
    BY <1>1
  <2>. QED  BY <1>1, <1>2, <2>1, Removed
<1>4. TypeOK'
  BY <1>3 DEF Inv, TypeOK, clients
<1>5. \A j \in Sessions : Counted(j)'
  BY DEF Inv, Counted, UsersOf, DescribesOf, StreamsOf, clients
<1>6. Users'
  <2>1. ASSUME NEW j \in Sessions, Alive(j), UsersOf(j) # {} \/ DescribesOf(j) # {}
        PROVE  Alive(j)'
    BY <1>2, <1>3, <2>1 DEF Alive
  <2>2. ASSUME NEW c \in Clients, fOurServerMediaSession[c] # None
        PROVE  Alive(fOurServerMediaSession[c])'
    BY <2>1, <2>2 DEF Inv, TypeOK, Users, UsersOf, clients
  <2>3. ASSUME NEW d \in DOMAIN describing PROVE Alive(describing[d])'
    BY <2>1 DEF Inv, TypeOK, Users, DescribesOf
  <2>. QED
    BY <2>2, <2>3 DEF Users, clients, Inv, Alive
<1>. QED
  BY <1>3, <1>4, <1>5, <1>6 DEF Inv, Phases, TableIsEmpty

-----------------------------------------------------------------------------
(* DESCRIBE.                                                               *)

LEMMA DescribeKeeps ==
  ASSUME Inv, NEW n \in Names, Describe(n)
  PROVE  Inv'
<1>1. PICK i \in Sessions : i = fServerMediaSessions[n] /\ status[i] = "kept"
  BY DEF Describe, Inv, TypeOK, Objects, Entry
<1>2. /\ fReferenceCount' = [fReferenceCount EXCEPT ![i] = @ + 1]
      /\ numReplicas' = [numReplicas EXCEPT ![i] = @ + 1]
      /\ describing' = Append(describing, i)
      /\ Len(describing) < MaxNesting /\ phase = "up"
      /\ UNCHANGED <<fServerMediaSessions, made, streamName, status, hasSDP, replicator,
                     clients, phase, reused>>
  BY <1>1 DEF Describe
<1>3. /\ DOMAIN describing' = DOMAIN describing \cup {Len(describing) + 1}
      /\ Len(describing) + 1 \notin DOMAIN describing
      /\ describing'[Len(describing) + 1] = i
      /\ \A d \in DOMAIN describing : describing'[d] = describing[d]
  BY <1>1, <1>2 DEF Inv, TypeOK
<1>4. TypeOK'
  <2>1. describing' \in Seq(Sessions) /\ Len(describing') <= MaxNesting
    BY <1>1, <1>2, BoundsAssumption DEF Inv, TypeOK
  <2>. QED  BY <1>1, <1>2, <2>1 DEF Inv, TypeOK, clients
<1>5. ASSUME NEW j \in Sessions PROVE Counted(j)'
  <2>1. UsersOf(j)' = UsersOf(j) /\ StreamsOf(j)' = StreamsOf(j)
    BY <1>2 DEF UsersOf, StreamsOf, clients
  <2>2. Counted(j) /\ IsFiniteSet(UsersOf(j)) /\ IsFiniteSet(DescribesOf(j))
    BY DEF Inv, Counted
  <2>3. CASE j = i
    <3>1. DescribesOf(j)' = DescribesOf(j) \cup {Len(describing) + 1}
      BY <1>3, <2>3 DEF DescribesOf
    <3>2. Len(describing) + 1 \notin DescribesOf(j)
      BY <1>3 DEF DescribesOf
    <3>3. /\ IsFiniteSet(DescribesOf(j)')
          /\ Cardinality(DescribesOf(j)') = Cardinality(DescribesOf(j)) + 1
      BY <3>1, <3>2, <2>2, OneMore
    <3>4. fReferenceCount'[j] = fReferenceCount[j] + 1 /\ numReplicas'[j] = numReplicas[j] + 1
      BY <1>2, <2>3 DEF Inv, TypeOK
    <3>. QED  BY <2>1, <2>2, <3>3, <3>4, Sizes DEF Counted
  <2>4. CASE j # i
    <3>1. DescribesOf(j)' = DescribesOf(j)
      BY <1>3, <2>4 DEF DescribesOf
    <3>. QED  BY <2>1, <2>2, <2>4, <3>1, <1>2 DEF Counted, Inv, TypeOK
  <2>. QED  BY <2>3, <2>4
<1>6. Users'
  BY <1>1, <1>2, <1>3 DEF Users, Inv, Alive, clients
<1>7. Objects'
  <2>1. ASSUME NEW j \in Sessions PROVE Life(j)'
    <3>1. status[j] = "dying" => fReferenceCount'[j] # 0
      BY <1>1, <1>2 DEF Inv, TypeOK, Objects, Life
    <3>. QED  BY <3>1, <1>2 DEF Life, Alive, Inv, Objects
  <2>. QED  BY <2>1, <1>2 DEF Objects, Entry, Inv
<1>. QED
  BY <1>2, <1>4, <1>5, <1>6, <1>7 DEF Inv, Phases, TableIsEmpty

\* The innermost DESCRIBE gives back its reference and its replica.
LEMMA DescribedKeeps ==
  ASSUME Inv, Described
  PROVE  Inv'
<1>0. PICK last \in Nat, i \in Sessions :
         last = Len(describing) /\ i = describing[last]
  BY DEF Described, Inv, TypeOK
<1>1. last \in DOMAIN describing /\ last > 0 /\ describing[last] = i /\ Alive(i)
  BY <1>0 DEF Described, Inv, TypeOK, Users
<1>2. /\ numReplicas' = [numReplicas EXCEPT ![i] = @ - 1]
      /\ hasSDP' = [hasSDP EXCEPT ![i] = TRUE]
      /\ Release(i)
      /\ describing' = SubSeq(describing, 1, last - 1) /\ describing # <<>>
      /\ UNCHANGED <<made, streamName, clients, phase, reused>>
  BY <1>0 DEF Described
<1>3. /\ DOMAIN describing' = DOMAIN describing \ {last}
      /\ \A d \in DOMAIN describing' : describing'[d] = describing[d]
      /\ describing' \in Seq(Sessions) /\ Len(describing') <= MaxNesting
  BY <1>0, <1>1, <1>2, BoundsAssumption DEF Inv, TypeOK
<1>4. ASSUME NEW j \in Sessions
      PROVE  /\ UsersOf(j)' = UsersOf(j) /\ StreamsOf(j)' = StreamsOf(j)
             /\ DescribesOf(j)' = IF j = i THEN DescribesOf(j) \ {last} ELSE DescribesOf(j)
  <2>1. UsersOf(j)' = UsersOf(j) /\ StreamsOf(j)' = StreamsOf(j)
    BY <1>2 DEF UsersOf, StreamsOf, clients
  <2>. QED  BY <2>1, <1>1, <1>3 DEF DescribesOf
<1>5. last \in DescribesOf(i)
  BY <1>1 DEF DescribesOf
<1>6. /\ IsFiniteSet(UsersOf(i)) /\ IsFiniteSet(DescribesOf(i))
      /\ IsFiniteSet(DescribesOf(i)')
      /\ Cardinality(DescribesOf(i)') = Cardinality(DescribesOf(i)) - 1
      /\ Cardinality(DescribesOf(i)) \in Nat /\ Cardinality(DescribesOf(i)) > 0
      /\ Cardinality(UsersOf(i)) \in Nat /\ Cardinality(StreamsOf(i)) \in Nat
  <2>1. IsFiniteSet(UsersOf(i)) /\ IsFiniteSet(DescribesOf(i))
    BY <1>1 DEF Inv, Counted
  <2>2. DescribesOf(i)' = DescribesOf(i) \ {last}
    BY <1>1, <1>4
  <2>. QED  BY <2>1, <2>2, <1>5, OneLess, Sizes
<1>7. /\ fReferenceCount[i] = Cardinality(UsersOf(i)) + Cardinality(DescribesOf(i))
      /\ numReplicas[i] = Cardinality(StreamsOf(i)) + Cardinality(DescribesOf(i))
      /\ fReferenceCount' = [fReferenceCount EXCEPT ![i] = IF @ > 0 THEN @ - 1 ELSE 0]
  BY <1>1, <1>2 DEF Inv, Counted, Release, Decremented
<1>8. ASSUME NEW j \in Sessions PROVE Counted(j)'
  <2>1. CASE j = i
    <3>1. fReferenceCount'[i] = fReferenceCount[i] - 1 /\ numReplicas'[i] = numReplicas[i] - 1
      BY <1>1, <1>2, <1>6, <1>7 DEF Inv, TypeOK
    <3>. QED  BY <2>1, <3>1, <1>1, <1>4, <1>6, <1>7 DEF Counted
  <2>2. CASE j # i
    BY <2>2, <1>2, <1>4, <1>7 DEF Counted, Inv, TypeOK
  <2>. QED  BY <2>1, <2>2
<1>9. fReferenceCount'[i] = 0 => UsersOf(i)' = {} /\ DescribesOf(i)' = {} /\ numReplicas'[i] = 0
  <2>1. SUFFICES ASSUME fReferenceCount'[i] = 0
                 PROVE  UsersOf(i)' = {} /\ DescribesOf(i)' = {} /\ numReplicas'[i] = 0
    OBVIOUS
  <2>2. Counted(i)'
    BY <1>1, <1>8
  <2>3. UsersOf(i)' = {} /\ DescribesOf(i)' = {}
    BY <2>1, <2>2, NobodyLeft DEF Counted
  <2>4. StreamsOf(i)' = {}
    BY <2>3 DEF StreamsOf
  <2>. QED  BY <2>2, <2>3, <2>4, FS_EmptySet DEF Counted
<1>10. fReferenceCount[i] > 0
  BY <1>6, <1>7
<1>11. /\ Objects'
       /\ fServerMediaSessions' \in [Names -> Sessions \cup {None}]
       /\ status' \in [Sessions -> {"unmade", "kept", "dying", "closed"}]
       /\ replicator' \in [Sessions -> {"open", "closed"}]
       /\ fReferenceCount' \in [Sessions -> Nat]
       /\ status'[i] \in {"kept", "dying"} \/ fReferenceCount'[i] = 0
       /\ \A j \in Sessions : j # i => status'[j] = status[j]
  BY <1>1, <1>2, <1>9, <1>10, Released
<1>12. TypeOK'
  <2>1. numReplicas' \in [Sessions -> Nat]
    <3>1. numReplicas[i] - 1 \in Nat
      BY <1>6, <1>7
    <3>. QED  BY <3>1, <1>2 DEF Inv, TypeOK
  <2>2. hasSDP' \in [Sessions -> BOOLEAN]
    BY <1>2 DEF Inv, TypeOK
  <2>. QED  BY <1>2, <1>3, <1>11, <2>1, <2>2 DEF Inv, TypeOK, clients
<1>13. Users'
  <2>1. ASSUME NEW j \in Sessions, Alive(j), UsersOf(j)' # {} \/ DescribesOf(j)' # {}
        PROVE  Alive(j)'
    <3>1. CASE j = i
      <4>1. fReferenceCount'[i] # 0
        BY <3>1, <2>1, <1>9
      <4>. QED  BY <3>1, <4>1, <1>11 DEF Alive
    <3>2. CASE j # i
      BY <3>2, <2>1, <1>11 DEF Alive
    <3>. QED  BY <3>1, <3>2
  <2>2. ASSUME NEW c \in Clients, fOurServerMediaSession[c] # None
        PROVE  Alive(fOurServerMediaSession[c])'
    BY <2>1, <2>2, <1>2 DEF Inv, TypeOK, Users, UsersOf, clients
  <2>3. ASSUME NEW d \in DOMAIN describing' PROVE Alive(describing[d])'
    BY <2>1, <1>3 DEF Inv, TypeOK, Users, DescribesOf
  <2>. QED
    BY <2>2, <2>3, <1>2 DEF Users, clients, Inv, Alive
<1>14. Phases'
  BY <1>1, <1>2 DEF Inv, Phases
<1>. QED
  BY <1>8, <1>11, <1>12, <1>13, <1>14 DEF Inv

-----------------------------------------------------------------------------
(* Client sessions.                                                        *)

\* A client session takes a reference when it is bound, and no second one.
LEMMA SetupKeeps ==
  ASSUME Inv, NEW c \in Clients, NEW n \in Names, Setup(c, n)
  PROVE  Inv'
<1>1. /\ UNCHANGED <<fServerMediaSessions, made, streamName, status, hasSDP, replicator,
                     describing, phase, reused>>
      /\ fClientSessions' = fClientSessions \cup {c} /\ phase = "up"
  BY DEF Setup
<1>2. CASE UNCHANGED <<fOurServerMediaSession, fReferenceCount, streaming, numReplicas>>
  <2>1. \A j \in Sessions : Counted(j)'
    BY <1>1, <1>2 DEF Inv, Counted, UsersOf, StreamsOf, DescribesOf
  <2>2. TypeOK' /\ Users' /\ Objects' /\ Phases'
    BY <1>1, <1>2 DEF Inv, TypeOK, Users, Alive, Objects, Entry, Life, Phases
  <2>. QED  BY <2>1, <2>2 DEF Inv
<1>3. ASSUME NEW i \in Sessions, i = fServerMediaSessions[n], Bind(c, i), SetUpTrack(c, i)
      PROVE  Inv'
  <2>1. /\ status[i] = "kept" /\ i # None
        /\ fOurServerMediaSession[c] \in {None, i}
        /\ fOurServerMediaSession' = [fOurServerMediaSession EXCEPT ![c] = i]
        /\ fReferenceCount' = [fReferenceCount EXCEPT ![i] =
                                 IF fOurServerMediaSession[c] = None THEN @ + 1 ELSE @]
    BY <1>3, NoneAssumption DEF Bind, Inv, TypeOK, Objects, Entry, Sessions
  <2>2. /\ streaming' \in [Clients -> {"none", "open", "ended"}]
        /\ \A x \in Clients : x # c => streaming'[x] = streaming[x]
        /\ \A j \in Sessions : j # i => numReplicas'[j] = numReplicas[j]
        /\ numReplicas'[i] = IF streaming'[c] = "open" /\ streaming[c] # "open"
                             THEN numReplicas[i] + 1 ELSE numReplicas[i]
        /\ streaming[c] = "open" => streaming'[c] = "open"
        /\ numReplicas' \in [Sessions -> Nat]
    <3>1. CASE UNCHANGED <<streaming, numReplicas>>
      BY <3>1 DEF Inv, TypeOK
    <3>2. CASE /\ streaming' = [streaming EXCEPT ![c] = "open"]
               /\ numReplicas' = [numReplicas EXCEPT ![i] = IF streaming[c] = "open" THEN @
                                                           ELSE @ + 1]
      <4>1. streaming' \in [Clients -> {"none", "open", "ended"}] /\ streaming'[c] = "open"
            /\ \A x \in Clients : x # c => streaming'[x] = streaming[x]
        BY <3>2 DEF Inv, TypeOK
      <4>2. CASE streaming[c] = "open"
        BY <3>2, <4>1, <4>2 DEF Inv, TypeOK
      <4>3. CASE streaming[c] # "open"
        BY <3>2, <4>1, <4>3 DEF Inv, TypeOK
      <4>. QED  BY <4>2, <4>3
    <3>. QED  BY <1>3, <3>1, <3>2 DEF SetUpTrack
  <2>3. ASSUME NEW j \in Sessions
        PROVE  /\ UsersOf(j)' = IF j = i THEN UsersOf(j) \cup {c} ELSE UsersOf(j)
               /\ StreamsOf(j)' = IF j = i /\ streaming'[c] = "open"
                                  THEN StreamsOf(j) \cup {c} ELSE StreamsOf(j)
               /\ DescribesOf(j)' = DescribesOf(j)
    <3>1. UsersOf(j)' = IF j = i THEN UsersOf(j) \cup {c} ELSE UsersOf(j)
      BY <2>1, NoneAssumption DEF UsersOf, Inv, TypeOK, Sessions
    <3>2. StreamsOf(j)' = IF j = i /\ streaming'[c] = "open"
                          THEN StreamsOf(j) \cup {c} ELSE StreamsOf(j)
      <4>1. CASE j = i
        <5>. QED  BY <3>1, <2>2, <4>1 DEF StreamsOf, UsersOf
      <4>2. CASE j # i
        <5>1. c \notin UsersOf(j)
          BY <2>1, <4>2, NoneAssumption DEF UsersOf, Sessions
        <5>. QED  BY <3>1, <2>2, <4>2, <5>1 DEF StreamsOf, UsersOf
      <4>. QED  BY <4>1, <4>2
    <3>. QED  BY <3>1, <3>2, <1>1 DEF DescribesOf
  <2>4. /\ c \in UsersOf(i) <=> fOurServerMediaSession[c] # None
        /\ c \in StreamsOf(i) <=> streaming[c] = "open"
    <3>1. streaming[c] = "open" => fOurServerMediaSession[c] = i
      BY <2>1 DEF Inv, Users
    <3>. QED  BY <2>1, <3>1 DEF UsersOf, StreamsOf
  <2>5. ASSUME NEW j \in Sessions PROVE Counted(j)'
    <3>1. Counted(j) /\ IsFiniteSet(StreamsOf(j))
      BY Sizes DEF Inv, Counted
    <3>2. CASE j = i
      <4>1. /\ IsFiniteSet(UsersOf(i)')
            /\ Cardinality(UsersOf(i)') = IF fOurServerMediaSession[c] # None
                                          THEN Cardinality(UsersOf(i))
                                          ELSE Cardinality(UsersOf(i)) + 1
        BY <3>1, <3>2, <2>3, <2>4, FS_AddElement DEF Counted
      <4>2. Cardinality(StreamsOf(i)') = IF streaming'[c] = "open" /\ streaming[c] # "open"
                                         THEN Cardinality(StreamsOf(i)) + 1
                                         ELSE Cardinality(StreamsOf(i))
        BY <3>1, <3>2, <2>2, <2>3, <2>4, FS_AddElement
      <4>3. /\ fReferenceCount'[i] = IF fOurServerMediaSession[c] # None
                                     THEN fReferenceCount[i] ELSE fReferenceCount[i] + 1
            /\ DescribesOf(i)' = DescribesOf(i)
        BY <2>1, <2>3 DEF Inv, TypeOK
      <4>4. /\ Cardinality(UsersOf(i)) \in Nat /\ Cardinality(DescribesOf(i)) \in Nat
            /\ Cardinality(StreamsOf(i)) \in Nat
        BY <3>1, <3>2, Sizes DEF Counted
      <4>. QED  BY <3>1, <3>2, <4>1, <4>2, <4>3, <4>4, <2>2 DEF Counted
    <3>3. CASE j # i
      BY <3>1, <3>3, <2>1, <2>2, <2>3 DEF Counted, Inv, TypeOK
    <3>. QED  BY <3>2, <3>3
  <2>6. TypeOK'
    <3>1. fReferenceCount' \in [Sessions -> Nat]
      BY <2>1 DEF Inv, TypeOK
    <3>2. /\ fOurServerMediaSession' \in [Clients -> Sessions \cup {None}]
          /\ fClientSessions' \subseteq Clients
      BY <1>1, <2>1 DEF Inv, TypeOK
    <3>. QED  BY <1>1, <2>2, <3>1, <3>2 DEF Inv, TypeOK
  <2>7. Users'
    <3>1. \A x \in Clients : /\ x # c => fOurServerMediaSession'[x] = fOurServerMediaSession[x]
                             /\ fOurServerMediaSession'[c] = i
      BY <2>1 DEF Inv, TypeOK
    <3>2. \A x \in Clients : fOurServerMediaSession'[x] # None
                               => Alive(fOurServerMediaSession'[x])
      BY <3>1, <2>1 DEF Users, Inv, Alive
    <3>3. /\ \A x \in Clients : streaming'[x] = "open" => fOurServerMediaSession'[x] # None
          /\ \A x \in Clients : fOurServerMediaSession'[x] # None => x \in fClientSessions'
      BY <3>1, <1>1, <2>1, <2>2 DEF Users, Inv
    <3>. QED  BY <3>2, <3>3, <1>1 DEF Users, Inv, Alive
  <2>8. Objects'
    <3>1. ASSUME NEW j \in Sessions PROVE Life(j)'
      <4>1. status[j] = "dying" => fReferenceCount'[j] # 0
        BY <2>1 DEF Inv, TypeOK, Objects, Life
      <4>. QED  BY <4>1, <1>1 DEF Life, Alive, Inv, Objects
    <3>. QED  BY <3>1, <1>1 DEF Objects, Entry, Inv
  <2>. QED  BY <1>1, <2>5, <2>6, <2>7, <2>8 DEF Inv, Phases
<1>. QED
  BY <1>2, <1>3 DEF Setup, Inv, TypeOK

LEMMA StreamEndsKeeps ==
  ASSUME Inv, NEW c \in Clients, StreamEnds(c)
  PROVE  Inv'
<1>1. PICK i \in Sessions : i = fOurServerMediaSession[c]
  BY DEF StreamEnds, Inv, TypeOK, Users
<1>2. /\ streaming[c] = "open"
      /\ streaming' = [streaming EXCEPT ![c] = "ended"]
      /\ numReplicas' = [numReplicas EXCEPT ![i] = @ - 1]
      /\ UNCHANGED <<fServerMediaSessions, made, streamName, status, fReferenceCount, hasSDP,
                     replicator, fClientSessions, fOurServerMediaSession, describing, phase, reused>>
  BY <1>1 DEF StreamEnds
<1>3. ASSUME NEW j \in Sessions
      PROVE  /\ UsersOf(j)' = UsersOf(j) /\ DescribesOf(j)' = DescribesOf(j)
             /\ StreamsOf(j)' = IF j = i THEN StreamsOf(j) \ {c} ELSE StreamsOf(j)
  <2>1. UsersOf(j)' = UsersOf(j) /\ DescribesOf(j)' = DescribesOf(j)
    BY <1>2 DEF UsersOf, DescribesOf
  <2>. QED  BY <2>1, <1>1, <1>2 DEF StreamsOf, UsersOf, Inv, TypeOK
<1>4. c \in StreamsOf(i) /\ IsFiniteSet(StreamsOf(i)) /\ Counted(i)
  BY <1>1, <1>2, Sizes DEF StreamsOf, UsersOf, Inv, Counted
<1>5. /\ Cardinality(StreamsOf(i)') = Cardinality(StreamsOf(i)) - 1
      /\ Cardinality(StreamsOf(i)) \in Nat /\ Cardinality(StreamsOf(i)) > 0
      /\ Cardinality(DescribesOf(i)) \in Nat
  BY <1>3, <1>4, OneLess, FS_CardinalityType DEF Counted
<1>6. ASSUME NEW j \in Sessions PROVE Counted(j)'
  <2>1. CASE j = i
    BY <2>1, <1>2, <1>3, <1>4, <1>5 DEF Counted, Inv, TypeOK
  <2>2. CASE j # i
    BY <2>2, <1>2, <1>3 DEF Counted, Inv, TypeOK
  <2>. QED  BY <2>1, <2>2
<1>7. TypeOK'
  <2>1. numReplicas[i] - 1 \in Nat
    BY <1>4, <1>5 DEF Counted
  <2>. QED  BY <2>1, <1>2 DEF Inv, TypeOK
<1>8. Users' /\ Objects' /\ Phases'
  BY <1>2 DEF Inv, TypeOK, Users, Alive, Objects, Entry, Life, Phases, TableIsEmpty
<1>. QED
  BY <1>6, <1>7, <1>8 DEF Inv

\* A client session that ends gives back its stream, then its reference.
LEMMA EndClientKeeps ==
  ASSUME Inv, NEW c \in Clients, EndClient(c)
  PROVE  Inv'
<1>1. /\ fClientSessions' = fClientSessions \ {c} /\ c \in fClientSessions
      /\ fOurServerMediaSession' = [fOurServerMediaSession EXCEPT ![c] = None]
      /\ streaming' = [streaming EXCEPT ![c] = "none"]
      /\ UNCHANGED <<made, streamName, hasSDP, describing, phase, reused>> /\ phase # "gone"
  BY DEF EndClient
<1>2. /\ fOurServerMediaSession'[c] = None /\ streaming'[c] = "none"
      /\ \A x \in Clients : x # c => /\ fOurServerMediaSession'[x] = fOurServerMediaSession[x]
                                     /\ streaming'[x] = streaming[x]
  BY <1>1 DEF Inv, TypeOK
<1>3. ASSUME NEW j \in Sessions
      PROVE  /\ UsersOf(j)' = UsersOf(j) \ {c} /\ StreamsOf(j)' = StreamsOf(j) \ {c}
             /\ DescribesOf(j)' = DescribesOf(j)
  <2>1. UsersOf(j)' = UsersOf(j) \ {c}
    BY <1>2, NoneAssumption DEF UsersOf, Sessions
  <2>. QED  BY <2>1, <1>1, <1>2 DEF StreamsOf, UsersOf, DescribesOf
<1>4. CASE fOurServerMediaSession[c] = None
  <2>1. UNCHANGED <<fServerMediaSessions, status, fReferenceCount, numReplicas, replicator>>
    BY <1>4 DEF EndClient
  <2>2. ASSUME NEW j \in Sessions PROVE Counted(j)'
    <3>1. c \notin UsersOf(j)
      BY <1>4, NoneAssumption DEF UsersOf, Sessions
    <3>2. UsersOf(j)' = UsersOf(j) /\ StreamsOf(j)' = StreamsOf(j)
      BY <3>1, <1>3 DEF StreamsOf
    <3>. QED  BY <3>2, <2>1, <1>3 DEF Counted, Inv
  <2>3. TypeOK'
    BY <2>1, <1>1 DEF Inv, TypeOK
  <2>4. Users'
    BY <2>1, <1>1, <1>2 DEF Inv, Users, Alive
  <2>5. Objects' /\ Phases'
    BY <2>1, <1>1 DEF Inv, Objects, Entry, Life, Alive, Phases, TableIsEmpty
  <2>. QED  BY <2>2, <2>3, <2>4, <2>5 DEF Inv
<1>5. CASE fOurServerMediaSession[c] # None
  <2>1. PICK i \in Sessions : i = fOurServerMediaSession[c] /\ Alive(i)
    BY <1>5 DEF Inv, TypeOK, Users
  <2>2. ReclaimStream(c, i) /\ Release(i)
    BY <2>1, <1>5 DEF EndClient
  <2>3. /\ c \in UsersOf(i) /\ Counted(i) /\ IsFiniteSet(UsersOf(i)) /\ IsFiniteSet(StreamsOf(i))
        /\ c \in StreamsOf(i) <=> streaming[c] = "open"
    BY <2>1, Sizes DEF UsersOf, StreamsOf, Inv, Counted
  <2>4. /\ IsFiniteSet(UsersOf(i)') /\ Cardinality(UsersOf(i)') = Cardinality(UsersOf(i)) - 1
        /\ Cardinality(UsersOf(i)) \in Nat /\ Cardinality(UsersOf(i)) > 0
        /\ Cardinality(DescribesOf(i)) \in Nat
    <3>1. UsersOf(i)' = UsersOf(i) \ {c}
      BY <1>3
    <3>. QED  BY <3>1, <2>3, OneLess, Sizes DEF Counted
  <2>5. /\ Cardinality(StreamsOf(i)') = IF streaming[c] = "open"
                                        THEN Cardinality(StreamsOf(i)) - 1
                                        ELSE Cardinality(StreamsOf(i))
        /\ streaming[c] = "open" => Cardinality(StreamsOf(i)) > 0
        /\ Cardinality(StreamsOf(i)) \in Nat
    <3>1. StreamsOf(i)' = StreamsOf(i) \ {c}
      BY <1>3
    <3>2. CASE streaming[c] = "open"
      BY <3>1, <3>2, <2>3, OneLess
    <3>3. CASE streaming[c] # "open"
      <4>1. StreamsOf(i)' = StreamsOf(i)
        BY <3>1, <3>3, <2>3
      <4>. QED  BY <4>1, <3>3, <2>3, FS_CardinalityType
    <3>. QED  BY <3>2, <3>3
  <2>6. /\ fReferenceCount[i] = Cardinality(UsersOf(i)) + Cardinality(DescribesOf(i))
        /\ numReplicas[i] = Cardinality(StreamsOf(i)) + Cardinality(DescribesOf(i))
        /\ fReferenceCount[i] > 0
        /\ fReferenceCount' = [fReferenceCount EXCEPT ![i] = @ - 1]
    <3>1. fReferenceCount[i] > 0
      BY <2>3, <2>4 DEF Counted
    <3>. QED  BY <3>1, <2>2, <2>3 DEF Counted, Release, Decremented, Inv, TypeOK
  <2>7. /\ numReplicas' = [numReplicas EXCEPT ![i] =
                             IF streaming[c] = "open" THEN @ - 1 ELSE @]
        /\ numReplicas' \in [Sessions -> Nat]
    <3>1. streaming[c] = "open" => numReplicas[i] - 1 \in Nat
      BY <2>4, <2>5, <2>6
    <3>2. numReplicas' = [numReplicas EXCEPT ![i] = IF streaming[c] = "open" THEN @ - 1 ELSE @]
      BY <2>2 DEF ReclaimStream
    <3>. QED  BY <3>1, <3>2 DEF Inv, TypeOK
  <2>8. ASSUME NEW j \in Sessions PROVE Counted(j)'
    <3>1. CASE j = i
      <4>1. /\ fReferenceCount'[i] = fReferenceCount[i] - 1
            /\ numReplicas'[i] = IF streaming[c] = "open" THEN numReplicas[i] - 1
                                                          ELSE numReplicas[i]
        BY <2>6, <2>7 DEF Inv, TypeOK
      <4>2. DescribesOf(i)' = DescribesOf(i)
        BY <1>3
      <4>. QED  BY <3>1, <4>1, <4>2, <2>3, <2>4, <2>5, <2>6 DEF Counted
    <3>2. CASE j # i
      <4>1. c \notin UsersOf(j)
        BY <3>2, <2>1 DEF UsersOf
      <4>2. UsersOf(j)' = UsersOf(j) /\ StreamsOf(j)' = StreamsOf(j)
        BY <4>1, <1>3 DEF StreamsOf
      <4>. QED  BY <3>2, <4>2, <1>3, <2>6, <2>7 DEF Counted, Inv, TypeOK
    <3>. QED  BY <3>1, <3>2
  <2>9. fReferenceCount'[i] = 0 => UsersOf(i)' = {} /\ DescribesOf(i)' = {} /\ numReplicas'[i] = 0
    <3>1. SUFFICES ASSUME fReferenceCount'[i] = 0
                   PROVE  UsersOf(i)' = {} /\ DescribesOf(i)' = {} /\ numReplicas'[i] = 0
      OBVIOUS
    <3>2. Counted(i)'
      BY <2>8
    <3>3. UsersOf(i)' = {} /\ DescribesOf(i)' = {}
      BY <3>1, <3>2, NobodyLeft DEF Counted
    <3>4. StreamsOf(i)' = {}
      BY <3>3 DEF StreamsOf
    <3>. QED  BY <3>2, <3>3, <3>4, FS_EmptySet DEF Counted
  <2>10. /\ Objects'
         /\ fServerMediaSessions' \in [Names -> Sessions \cup {None}]
         /\ status' \in [Sessions -> {"unmade", "kept", "dying", "closed"}]
         /\ replicator' \in [Sessions -> {"open", "closed"}]
         /\ fReferenceCount' \in [Sessions -> Nat]
         /\ status'[i] \in {"kept", "dying"} \/ fReferenceCount'[i] = 0
         /\ \A j \in Sessions : j # i => status'[j] = status[j]
    BY <2>1, <2>2, <2>6, <2>9, <1>1, Released
  <2>11. TypeOK'
    BY <2>7, <2>10, <1>1 DEF Inv, TypeOK
  <2>12. Users'
    <3>1. ASSUME NEW j \in Sessions, Alive(j), UsersOf(j)' # {} \/ DescribesOf(j)' # {}
          PROVE  Alive(j)'
      <4>1. CASE j = i
        <5>1. fReferenceCount'[i] # 0
          BY <4>1, <3>1, <2>9
        <5>. QED  BY <4>1, <5>1, <2>10 DEF Alive
      <4>2. CASE j # i
        BY <4>2, <3>1, <2>10 DEF Alive
      <4>. QED  BY <4>1, <4>2
    <3>2. ASSUME NEW x \in Clients, fOurServerMediaSession'[x] # None
          PROVE  Alive(fOurServerMediaSession[x])'
      <4>1. /\ x # c /\ fOurServerMediaSession'[x] = fOurServerMediaSession[x]
            /\ fOurServerMediaSession[x] \in Sessions /\ Alive(fOurServerMediaSession[x])
        BY <3>2, <1>2 DEF Inv, TypeOK, Users
      <4>. QED  BY <3>1, <3>2, <4>1 DEF UsersOf, Alive
    <3>3. ASSUME NEW d \in DOMAIN describing PROVE Alive(describing[d])'
      BY <3>1, <1>1 DEF Inv, TypeOK, Users, DescribesOf, Alive
    <3>. QED
      BY <3>2, <3>3, <1>1, <1>2 DEF Users, Inv
  <2>13. Phases'
    BY <1>1 DEF Inv, Phases
  <2>. QED  BY <2>8, <2>10, <2>11, <2>12, <2>13 DEF Inv
<1>. QED
  BY <1>4, <1>5

-----------------------------------------------------------------------------
(* The system.                                                             *)

LEMMA InitInv == Init => Inv
<1>. SUFFICES ASSUME Init PROVE Inv
  OBVIOUS
<1>1. TypeOK
  <2>1. describing \in Seq(Sessions) /\ Len(describing) <= MaxNesting
    BY BoundsAssumption DEF Init
  <2>2. made \in 0..MaxSessions
    BY BoundsAssumption DEF Init
  <2>. QED  BY <2>1, <2>2 DEF Init, TypeOK
<1>2. ASSUME NEW i \in Sessions PROVE Counted(i)
  <2>1. UsersOf(i) = {} /\ DescribesOf(i) = {} /\ StreamsOf(i) = {}
    BY NoneAssumption DEF Init, UsersOf, DescribesOf, StreamsOf, Sessions
  <2>. QED  BY <2>1, FS_EmptySet DEF Init, Counted
<1>3. Users /\ Phases
  BY DEF Init, Users, Phases
<1>4. Objects
  BY BoundsAssumption DEF Init, Objects, Entry, Life, Alive, Sessions
<1>. QED
  BY <1>1, <1>2, <1>3, <1>4 DEF Inv

\* Shutting down only changes the phase.
LEMMA PhaseKeeps ==
  ASSUME Inv, ShutDown \/ Finish \/ UNCHANGED vars
  PROVE  Inv'
<1>1. UNCHANGED <<sessions, clients, describing, reused>>
  BY DEF ShutDown, Finish, vars
<1>2. TypeOK' /\ Users' /\ Objects' /\ \A i \in Sessions : Counted(i)'
  <2>1. phase' \in {"up", "closing", "gone"}
    BY DEF ShutDown, Finish, vars, Inv, TypeOK
  <2>2. TypeOK'
    BY <1>1, <2>1 DEF sessions, clients, Inv, TypeOK
  <2>3. Users' /\ Objects'
    BY <1>1 DEF sessions, clients, Inv, Users, Alive, Objects, Entry, Life
  <2>4. \A i \in Sessions : Counted(i)'
    BY <1>1 DEF sessions, clients, Inv, Counted, UsersOf, StreamsOf, DescribesOf
  <2>. QED  BY <2>2, <2>3, <2>4
<1>3. Phases'
  BY <1>1 DEF ShutDown, Finish, vars, Inv, Phases, TableIsEmpty, sessions, clients
<1>. QED
  BY <1>2, <1>3 DEF Inv

LEMMA NextInv == Inv /\ [Next]_vars => Inv'
<1>. SUFFICES ASSUME Inv, [Next]_vars PROVE Inv'
  OBVIOUS
<1>1. ASSUME NEW n \in Names, AddSession(n) PROVE Inv'
  BY <1>1, AddSessionKeeps
<1>2. ASSUME NEW n \in Names, DelSession(n) \/ RemoveLeft(n) PROVE Inv'
  BY <1>2, RemovedByName DEF DelSession, RemoveLeft
<1>3. ASSUME NEW n \in Names, Describe(n) PROVE Inv'
  BY <1>3, DescribeKeeps
<1>4. ASSUME NEW c \in Clients, NEW n \in Names, Setup(c, n) PROVE Inv'
  BY <1>4, SetupKeeps
<1>5. ASSUME NEW c \in Clients, StreamEnds(c) \/ EndClient(c) PROVE Inv'
  BY <1>5, StreamEndsKeeps, EndClientKeeps
<1>6. CASE Described
  BY <1>6, DescribedKeeps
<1>7. CASE ShutDown \/ Finish \/ UNCHANGED vars
  BY <1>7, PhaseKeeps
<1>. QED
  BY <1>1, <1>2, <1>3, <1>4, <1>5, <1>6, <1>7 DEF Next

LEMMA Invariant == Spec => []Inv
BY InitInv, NextInv, PTL DEF Spec

\* A session has one reference for each client session and each DESCRIBE that uses
\* it, and its replicator one replica for each of their streams, however requests
\* nest and sessions are replaced.
THEOREM CountsAreExact == Spec => []CountsExact
<1>1. Inv => CountsExact
  BY DEF Inv, Counted, CountsExact, StreamsOf
<1>. QED
  BY <1>1, Invariant, PTL

\* No session is deleted under a client session, under a DESCRIBE in its nested
\* loop, or while it is in the table (ServerMediaSession's reference count).
THEOREM UsersSafe == Spec => []UsesAlive
<1>1. Inv => UsesAlive
  BY DEF Inv, Users, Objects, Entry, UsesAlive
<1>. QED
  BY <1>1, Invariant, PTL

\* A session that is deleted closes its replicator, and with it the camera: when
\* ~LiveMediaSubsession looks, no replica is left.
THEOREM NoReplicatorLeft == Spec => []ReplicatorsClosed
<1>1. Inv => ReplicatorsClosed
  BY DEF Inv, Objects, Life, ReplicatorsClosed
<1>. QED
  BY <1>1, Invariant, PTL

\* A session that took a free name stays reachable under it until it is removed, and
\* is deleted by the time the server is gone (the finding about replaced sessions is
\* the only way to lose one).
THEOREM FreshIsKept == Spec => []FreshKept
<1>1. Inv => FreshKept
  <2>. SUFFICES ASSUME Inv, NEW i \in Sessions, Alive(i), streamName[i] \notin reused
                PROVE  /\ status[i] = "kept" => fServerMediaSessions[streamName[i]] = i
                       /\ phase # "gone"
    BY DEF FreshKept
  <2>1. /\ streamName[i] \in Names
        /\ fServerMediaSessions[streamName[i]] = IF status[i] = "kept" THEN i ELSE None
        /\ status[i] = "dying" => fReferenceCount[i] # 0
    BY DEF Inv, Objects, Life
  <2>2. ASSUME phase = "gone" PROVE FALSE
    <3>1. describing = <<>> /\ fClientSessions = {} /\ TableIsEmpty
      BY <2>2 DEF Inv, Phases
    <3>2. status[i] # "kept"
      BY <2>1, <3>1, NoneAssumption DEF TableIsEmpty, Sessions
    <3>3. UsersOf(i) = {} /\ DescribesOf(i) = {}
      BY <3>1, NoneAssumption DEF UsersOf, DescribesOf, Inv, Users, Sessions
    <3>4. fReferenceCount[i] = 0
      BY <3>3, FS_EmptySet DEF Inv, Counted
    <3>. QED  BY <2>1, <3>2, <3>4 DEF Alive
  <2>. QED  BY <2>1, <2>2
<1>. QED
  BY <1>1, Invariant, PTL
=============================================================================
