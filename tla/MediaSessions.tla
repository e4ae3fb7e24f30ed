---------------------------- MODULE MediaSessions ----------------------------
(***************************************************************************)
(* The media sessions of the RTSP server and who keeps them alive.         *)
(*                                                                         *)
(* The application adds and removes sessions by name.  A client session    *)
(* that has SETUP a stream, and a DESCRIBE that waits for its SDP lines,   *)
(* hold a reference.  A removed session that is still referenced is only   *)
(* marked: the last user that leaves deletes it, and its stream replicator *)
(* with it.                                                                *)
(*                                                                         *)
(* Everything runs on the event-loop thread.  The only interleaving comes  *)
(* from DESCRIBE: it runs an event loop of its own, in which every other   *)
(* request and command is handled, so requests nest like calls on a stack. *)
(* Sessions have one (video) track, as LiveMediaFactory makes them today.  *)
(***************************************************************************)
EXTENDS Integers, Sequences, FiniteSets

CONSTANTS
    Names,           \* stream names
    Clients,         \* session ids of RTSP client sessions
    None,            \* no media session
    MaxSessions,     \* bound: ServerMediaSession objects made
    MaxNesting       \* bound: nested event loops

ASSUME BoundsAssumption == MaxSessions \in Nat /\ MaxNesting \in Nat
ASSUME NoneAssumption   == None \notin Names \cup 1..MaxSessions

Sessions == 1..MaxSessions

VARIABLES
    fServerMediaSessions,    \* the session a name is looked up to
    made,                    \* objects made so far
    streamName,
    status,                  \* "unmade", "kept", "dying" (deleteWhenUnreferenced)
                             \* or "closed"
    fReferenceCount,
    hasSDP,                  \* fSDPLines # NULL
    numReplicas,             \* replicas of the session's replicator
    replicator,              \* "open", "closed"
    fClientSessions,         \* the client sessions there are
    fOurServerMediaSession,  \* per client session
    streaming,               \* per client session: its stream, "none" (streamToken
                             \* = NULL), "open", or "ended" (the source has closed)
    describing,              \* the sessions being described, innermost last
    phase,                   \* "up", "closing" or "gone"
    reused                   \* history: the names added while an old session of
                             \* that name was in use

sessions == <<fServerMediaSessions, made, streamName, status, fReferenceCount,
              hasSDP, numReplicas, replicator>>
clients  == <<fClientSessions, fOurServerMediaSession, streaming>>
vars     == <<sessions, clients, describing, phase, reused>>

-----------------------------------------------------------------------------
(* removeServerMediaSession and the release of one reference, on the       *)
(* counts this step leaves behind.                                         *)

\* ~LiveMediaSubsession closes the replicator only if it has no replica.
CloseReplicator(i) ==
    replicator' = [replicator EXCEPT ![i] =
                     IF numReplicas'[i] = 0 THEN "closed" ELSE @]

\* Mutant: the reference count is not looked at.
RemoveAtOnce(i) ==
    /\ fServerMediaSessions' = [fServerMediaSessions EXCEPT ![streamName[i]] = None]
    /\ status' = [status EXCEPT ![i] = "closed"]
    /\ CloseReplicator(i)

RemoveServerMediaSession(i) ==
    /\ fServerMediaSessions' = [fServerMediaSessions EXCEPT ![streamName[i]] = None]
    /\ \/ /\ fReferenceCount'[i] = 0
          /\ status' = [status EXCEPT ![i] = "closed"]
          /\ CloseReplicator(i)
       \/ /\ fReferenceCount'[i] # 0
          /\ status' = [status EXCEPT ![i] = "dying"]
          /\ UNCHANGED replicator

Decremented(i) ==
    [fReferenceCount EXCEPT ![i] = IF @ > 0 THEN @ - 1 ELSE 0]

\* Mutant: whoever leaves does not look at deleteWhenUnreferenced.
ReleaseOnly(i) ==
    /\ fReferenceCount' = Decremented(i)
    /\ UNCHANGED <<fServerMediaSessions, status, replicator>>

Release(i) ==
    /\ fReferenceCount' = Decremented(i)
    /\ IF fReferenceCount'[i] = 0 /\ status[i] = "dying"
       THEN RemoveServerMediaSession(i)
       ELSE UNCHANGED <<fServerMediaSessions, status, replicator>>

-----------------------------------------------------------------------------
(* The commands of the application.                                        *)

InUse(n) == \E i \in Sessions : /\ streamName[i] = n
                                /\ status[i] \in {"kept", "dying"}
                                /\ fReferenceCount[i] # 0

\* Mutant: the session that had the name is not removed.
ReplacedOnly(n, k) ==
    /\ fServerMediaSessions' = [fServerMediaSessions EXCEPT ![n] = k]
    /\ status' = [status EXCEPT ![k] = "kept"]
    /\ replicator' = [replicator EXCEPT ![k] = "open"]

\* The table and the states once a new session k is in the table under n, the
\* session that had the name being removed before.
Replaced(n, k) ==
    LET old == fServerMediaSessions[n] IN
    /\ fServerMediaSessions' = [fServerMediaSessions EXCEPT ![n] = k]
    /\ status' = [i \in Sessions |->
                    CASE i = k   -> "kept"
                      [] i = old -> IF fReferenceCount[i] = 0 THEN "closed" ELSE "dying"
                      [] OTHER   -> status[i]]
    /\ replicator' = [i \in Sessions |->
                        CASE i = k -> "open"
                          [] i = old /\ fReferenceCount[i] = 0 /\ numReplicas[i] = 0 -> "closed"
                          [] OTHER -> replicator[i]]

AddSession(n) ==
    /\ phase = "up" /\ made < MaxSessions
    /\ made' = made + 1
    /\ streamName' = [streamName EXCEPT ![made + 1] = n]
    /\ Replaced(n, made + 1)
    /\ reused' = IF InUse(n) THEN reused \cup {n} ELSE reused
    /\ UNCHANGED <<fReferenceCount, hasSDP, numReplicas, clients, describing, phase>>

DelSession(n) ==
    /\ phase = "up" /\ fServerMediaSessions[n] # None
    /\ UNCHANGED <<fReferenceCount, numReplicas>>
    /\ RemoveServerMediaSession(fServerMediaSessions[n])
    /\ UNCHANGED <<made, streamName, hasSDP, clients, describing, phase, reused>>

-----------------------------------------------------------------------------
(* DESCRIBE.  With SDP lines at hand it changes nothing.  Without, it      *)
(* makes a dummy stream source (a replica) and waits in a nested loop.     *)

Describe(n) ==
    LET i == fServerMediaSessions[n] IN
    /\ phase = "up" /\ Len(describing) < MaxNesting
    /\ i # None /\ ~hasSDP[i]
    /\ fReferenceCount' = [fReferenceCount EXCEPT ![i] = @ + 1]
    /\ numReplicas' = [numReplicas EXCEPT ![i] = @ + 1]
    /\ describing' = Append(describing, i)
    /\ UNCHANGED <<fServerMediaSessions, made, streamName, status, hasSDP, replicator,
                   clients, phase, reused>>

Described ==
    LET i == describing[Len(describing)] IN
    /\ describing # <<>>
    /\ hasSDP' = [hasSDP EXCEPT ![i] = TRUE]
    /\ numReplicas' = [numReplicas EXCEPT ![i] = @ - 1]
    /\ Release(i)
    /\ describing' = SubSeq(describing, 1, Len(describing) - 1)
    /\ UNCHANGED <<made, streamName, clients, phase, reused>>

-----------------------------------------------------------------------------
(* SETUP, and the end of a client session.                                 *)

\* Mutant: every SETUP of a client session takes a reference.
BindAgain(c, i) ==
    /\ fOurServerMediaSession[c] \in {None, i}
    /\ fOurServerMediaSession' = [fOurServerMediaSession EXCEPT ![c] = i]
    /\ fReferenceCount' = [fReferenceCount EXCEPT ![i] = @ + 1]

\* The client session is bound to the session it first asks for.
Bind(c, i) ==
    \/ /\ fOurServerMediaSession[c] = None
       /\ fOurServerMediaSession' = [fOurServerMediaSession EXCEPT ![c] = i]
       /\ fReferenceCount' = [fReferenceCount EXCEPT ![i] = @ + 1]
    \/ /\ fOurServerMediaSession[c] = i
       /\ UNCHANGED <<fOurServerMediaSession, fReferenceCount>>

\* Either the track does not exist, or its stream is made anew: a stream it
\* had is deleted first.
SetUpTrack(c, i) ==
    \/ UNCHANGED <<streaming, numReplicas>>
    \/ /\ streaming' = [streaming EXCEPT ![c] = "open"]
       /\ numReplicas' = [numReplicas EXCEPT ![i] = IF streaming[c] = "open" THEN @ ELSE @ + 1]

Setup(c, n) ==
    LET i == fServerMediaSessions[n] IN
    /\ phase = "up"
    /\ fClientSessions' = fClientSessions \cup {c}
    /\ \/ i # None /\ Bind(c, i) /\ SetUpTrack(c, i)
       \/ /\ i = None \/ fOurServerMediaSession[c] \notin {None, i}    \* "not found", "bad"
          /\ UNCHANGED <<fOurServerMediaSession, fReferenceCount, streaming, numReplicas>>
    /\ UNCHANGED <<fServerMediaSessions, made, streamName, status, hasSDP, replicator,
                   describing, phase, reused>>

\* The source closes: the stream is torn down, its token is kept (StreamState).
StreamEnds(c) ==
    LET i == fOurServerMediaSession[c] IN
    /\ phase = "up" /\ streaming[c] = "open"
    /\ streaming' = [streaming EXCEPT ![c] = "ended"]
    /\ numReplicas' = [numReplicas EXCEPT ![i] = @ - 1]
    /\ UNCHANGED <<fServerMediaSessions, made, streamName, status, fReferenceCount, hasSDP,
                   replicator, fClientSessions, fOurServerMediaSession, describing, phase, reused>>

\* Mutant: the stream is not deleted with the client session.
StreamKept(c, i) == UNCHANGED numReplicas

\* ~RTSPClientSession reclaims the stream, then ~ClientSession the reference.
ReclaimStream(c, i) ==
    numReplicas' = [numReplicas EXCEPT ![i] = IF streaming[c] = "open" THEN @ - 1 ELSE @]

\* TEARDOWN, the liveness timeout, the end of the TCP connection a stream is
\* sent over, or the end of the server: the client session is deleted.
EndClient(c) ==
    LET i == fOurServerMediaSession[c] IN
    /\ c \in fClientSessions /\ phase # "gone"
    /\ fClientSessions' = fClientSessions \ {c}
    /\ fOurServerMediaSession' = [fOurServerMediaSession EXCEPT ![c] = None]
    /\ streaming' = [streaming EXCEPT ![c] = "none"]
    /\ \/ i # None /\ ReclaimStream(c, i) /\ Release(i)
       \/ i = None /\ UNCHANGED <<fServerMediaSessions, status, fReferenceCount,
                                  numReplicas, replicator>>
    /\ UNCHANGED <<made, streamName, hasSDP, describing, phase, reused>>

-----------------------------------------------------------------------------
(* cleanup, once the event loop has been left: first the client sessions   *)
(* (EndClient), then every session in the table.                           *)

ShutDown ==
    /\ phase = "up" /\ describing = <<>>
    /\ phase' = "closing"
    /\ UNCHANGED <<sessions, clients, describing, reused>>

RemoveLeft(n) ==
    /\ phase = "closing" /\ fClientSessions = {}
    /\ fServerMediaSessions[n] # None
    /\ UNCHANGED <<fReferenceCount, numReplicas>>
    /\ RemoveServerMediaSession(fServerMediaSessions[n])
    /\ UNCHANGED <<made, streamName, hasSDP, clients, describing, phase, reused>>

TableIsEmpty == \A n \in Names : fServerMediaSessions[n] = None

Finish ==
    /\ phase = "closing" /\ fClientSessions = {} /\ TableIsEmpty
    /\ phase' = "gone"
    /\ UNCHANGED <<sessions, clients, describing, reused>>

-----------------------------------------------------------------------------
Init ==
    /\ fServerMediaSessions = [n \in Names |-> None]
    /\ made = 0
    /\ streamName = [i \in Sessions |-> None]
    /\ status = [i \in Sessions |-> "unmade"]
    /\ fReferenceCount = [i \in Sessions |-> 0]
    /\ hasSDP = [i \in Sessions |-> FALSE]
    /\ numReplicas = [i \in Sessions |-> 0]
    /\ replicator = [i \in Sessions |-> "closed"]
    /\ fClientSessions = {}
    /\ fOurServerMediaSession = [c \in Clients |-> None]
    /\ streaming = [c \in Clients |-> "none"]
    /\ describing = <<>>
    /\ phase = "up"
    /\ reused = {}

Next ==
    \/ \E n \in Names : AddSession(n) \/ DelSession(n) \/ Describe(n) \/ RemoveLeft(n)
    \/ \E c \in Clients, n \in Names : Setup(c, n)
    \/ \E c \in Clients : StreamEnds(c) \/ EndClient(c)
    \/ Described \/ ShutDown \/ Finish

Spec == Init /\ [][Next]_vars

\* A nested loop ends at the latest after ten polls; a client session ends when
\* its client leaves or has been silent for the reclamation time.
Fairness == WF_vars(Described) /\ \A c \in Clients : WF_vars(EndClient(c))

FairSpec == Spec /\ Fairness

-----------------------------------------------------------------------------
Alive(i) == status[i] \in {"kept", "dying"}

\* Types.
TypeOK ==
    /\ fServerMediaSessions \in [Names -> Sessions \cup {None}]
    /\ made \in 0..MaxSessions
    /\ streamName \in [Sessions -> Names \cup {None}]
    /\ status \in [Sessions -> {"unmade", "kept", "dying", "closed"}]
    /\ fReferenceCount \in [Sessions -> Nat]
    /\ hasSDP \in [Sessions -> BOOLEAN]
    /\ numReplicas \in [Sessions -> Nat]
    /\ replicator \in [Sessions -> {"open", "closed"}]
    /\ fClientSessions \subseteq Clients
    /\ fOurServerMediaSession \in [Clients -> Sessions \cup {None}]
    /\ streaming \in [Clients -> {"none", "open", "ended"}]
    /\ describing \in Seq(Sessions) /\ Len(describing) <= MaxNesting
    /\ phase \in {"up", "closing", "gone"} /\ reused \subseteq Names

\* No session is deleted under a client session, under a DESCRIBE that is
\* still in its nested loop (the comment at RTSPServer.cpp:393), or while the
\* table still leads to it.
UsesAlive ==
    /\ \A c \in Clients : fOurServerMediaSession[c] # None
                              => Alive(fOurServerMediaSession[c])
    /\ \A d \in DOMAIN describing : Alive(describing[d])
    /\ \A n \in Names : fServerMediaSessions[n] # None
                            => status[fServerMediaSessions[n]] = "kept"

DescribesOf(i) == {d \in DOMAIN describing : describing[d] = i}
UsersOf(i)     == {c \in Clients : fOurServerMediaSession[c] = i}

\* The two counts are those of the users there are: a session is referenced
\* once by each client session and each DESCRIBE, its replicator has one replica
\* for each open stream and each DESCRIBE.
CountsExact ==
    \A i \in Sessions :
        /\ fReferenceCount[i] = Cardinality(UsersOf(i)) + Cardinality(DescribesOf(i))
        /\ numReplicas[i] = Cardinality({c \in UsersOf(i) : streaming[c] = "open"})
                              + Cardinality(DescribesOf(i))

\* The replicator, and with it the camera, of a deleted session is closed: the
\* test at LiveMediaSubsession.cc:13 never leaves one behind.
ReplicatorsClosed == \A i \in Sessions : status[i] = "closed" => replicator[i] = "closed"

\* What was added and not removed is what clients find under its name.
AddedStaysReachable ==
    \A i \in Sessions : status[i] = "kept" => fServerMediaSessions[streamName[i]] = i

\* The same for the names that were never added over a session in use; and once
\* the server is gone, so is every session it was given under such names.
FreshKept ==
    \A i \in Sessions :
        Alive(i) /\ streamName[i] \notin reused
            => /\ status[i] = "kept" => fServerMediaSessions[streamName[i]] = i
               /\ phase # "gone"

\* A removed session is deleted once its clients are gone, however requests nest:
\* there is always a time to come when no removed session is left.
RemovedIsClosed == []<>(\A i \in Sessions : status[i] # "dying")

=============================================================================
