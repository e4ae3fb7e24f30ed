-------------------------- MODULE ClientConnections --------------------------
(***************************************************************************)
(* The RTSP connections: how requests are read, framed, handled and        *)
(* answered while handlers nest.                                           *)
(*                                                                         *)
(* A DESCRIBE may run the event loop inside itself (module SdpPolling).    *)
(* In that loop other connections are served, and the same one too: its    *)
(* next bytes, or its end, are handled by a second call of                 *)
(* handleRequestBytes on the same object, with the same buffer.            *)
(*                                                                         *)
(* A request is two pieces, its head and the empty line that ends it; a    *)
(* piece stands for any number of bytes.  RTSP over TLS or HTTP, message   *)
(* bodies and a full request buffer are left out.                          *)
(***************************************************************************)
EXTENDS SdpPolling, FiniteSets

CONSTANTS
    Connections,           \* RTSPClientConnection objects, one per client
    None,
    Asks                   \* bound: what each client asks for, in order: a
                           \* subsession to be described, or None for anything else

ASSUME ConnectionsAssumption ==
    /\ None \notin Connections
    /\ Asks \in [Connections -> Seq(Subsessions \cup {None})]

\* Socket numbers; -1 as in the code.
SocketNums == 1..Cardinality(Connections)

NoRequest == [request |-> 0, kind |-> None, end |-> FALSE]

VARIABLES
    exists,                \* per connection: "no", "yes", "deleted"
    fOurSocket,
    fClientOutputSocket,
    fIsActive,
    fRecursionCount,
    fRequestBuffer,        \* the pieces seen so far
    fLastCRLF,             \* where a request ends in it; 0 after a reset
    fCurrentCSeq,          \* a pointer: the request, and the call it points into
    sockets,               \* the process's sockets: the client at the other end
    calls,                 \* running handleRequestBytes, innermost last
    sent,                  \* per client: requests sent,
    inbox,                 \*   what the server has not read,
    answers,               \*   the CSeqs of the answers it got,
    left,                  \*   and whether it has closed its end
    inherited,             \* history, per client: did its socket get a number that
                           \*   another connection still kept?
    reentered              \*   has it been read from under a call on itself?

objects == <<exists, fOurSocket, fClientOutputSocket, fIsActive, fRecursionCount>>
buffer  == <<fRequestBuffer, fLastCRLF>>
client  == <<sent, inbox, answers, left>>
history == <<inherited, reentered>>
vars    == <<objects, buffer, fCurrentCSeq, sockets, calls, client, history, pollingVars>>

Top == calls[Len(calls)]

\* Is the thread in an event loop, the outermost or a nested one?
InEventLoop == IF calls = << >> THEN TRUE ELSE Top.at = "loop"

-----------------------------------------------------------------------------
(* Clients.  What they do shows only when the thread looks at its sockets, *)
(* so they act when it does.                                               *)

\* accept gives the lowest number that is free; a connection may still keep it
\* as its own: it has ended, and calls on it are running.
Connect(c) ==
    LET free == {f \in SocketNums : sockets[f] = None}
        f    == CHOOSE n \in free : \A m \in free : n <= m IN
    /\ InEventLoop /\ exists[c] = "no" /\ free # {}
    /\ inherited' = [inherited EXCEPT ![c] =
                        \E d \in Connections : f \in {fOurSocket[d], fClientOutputSocket[d]}]
    /\ sockets' = [sockets EXCEPT ![f] = c]
    /\ exists' = [exists EXCEPT ![c] = "yes"]
    /\ fOurSocket' = [fOurSocket EXCEPT ![c] = f]
    /\ fClientOutputSocket' = [fClientOutputSocket EXCEPT ![c] = f]
    /\ UNCHANGED <<fIsActive, fRecursionCount, buffer, fCurrentCSeq, calls, client, reentered,
                   pollingVars>>

\* (Also before the last request is answered.)
Send(c) ==
    LET n == sent[c] + 1 IN
    /\ InEventLoop /\ exists[c] = "yes" /\ ~left[c] /\ n \in DOMAIN Asks[c]
    /\ sent' = [sent EXCEPT ![c] = n]
    /\ inbox' = [inbox EXCEPT ![c] = @ \o <<[request |-> n, kind |-> Asks[c][n], end |-> FALSE],
                                            [request |-> n, kind |-> Asks[c][n], end |-> TRUE]>>]
    /\ UNCHANGED <<objects, buffer, fCurrentCSeq, sockets, calls, answers, left, history,
                   pollingVars>>

\* (A client that leaves takes its answers with it, so that they tell no states
\* apart that are alike from then on.)
Leave(c) ==
    /\ InEventLoop /\ exists[c] = "yes" /\ ~left[c]
    /\ left' = [left EXCEPT ![c] = TRUE]
    /\ answers' = [answers EXCEPT ![c] = << >>]
    /\ UNCHANGED <<objects, buffer, fCurrentCSeq, sockets, calls, sent, inbox, history,
                   pollingVars>>

-----------------------------------------------------------------------------
(* incomingRequestHandler and handleRequestBytes.  A call of the latter is *)
(* a record: its connection, and whether it has a request to handle        *)
(* ("bytes") or is in the nested loop of a DESCRIBE ("loop").              *)

Closed(numbers) == sockets' = [f \in SocketNums |-> IF f \in numbers THEN None ELSE sockets[f]]

\* Mutant: the socket is closed, its number is kept.
CloseSocketsOnly(c) ==
    /\ Closed({fOurSocket[c]})
    /\ UNCHANGED <<exists, fOurSocket, fClientOutputSocket>>

CloseSockets(c) ==
    /\ Closed({fOurSocket[c]})
    /\ fOurSocket' = [fOurSocket EXCEPT ![c] = -1]
    /\ UNCHANGED <<exists, fClientOutputSocket>>

\* The destructor: it closes the output socket as well if the two differ.
Delete(c) ==
    /\ Closed({fClientOutputSocket[c], fOurSocket[c]})
    /\ exists' = [exists EXCEPT ![c] = "deleted"]
    /\ fOurSocket' = [fOurSocket EXCEPT ![c] = -1]
    /\ fClientOutputSocket' = [fClientOutputSocket EXCEPT ![c] = -1]

\* Mutant: a call deletes the object whatever calls are around it.
DeleteAtOnce(c) == IF fIsActive'[c] THEN UNCHANGED <<exists, fOurSocket, fClientOutputSocket, sockets>>
                                    ELSE Delete(c)

\* Mutant: a call closes the socket and leaves the object to another.
CloseOnly(c) == IF fIsActive'[c] THEN UNCHANGED <<exists, fOurSocket, fClientOutputSocket, sockets>>
                                 ELSE CloseSockets(c)

\* A call returns: an object that is no longer active is deleted by its
\* outermost call.
GoAway(c) ==
    IF fIsActive'[c] THEN UNCHANGED <<exists, fOurSocket, fClientOutputSocket, sockets>>
    ELSE IF fRecursionCount'[c] > 0 THEN CloseSockets(c)
    ELSE Delete(c)

\* Where a request ends: where an earlier call has found it to end, or at the
\* first empty line.
Ends(bytes, last) == IF last # 0 THEN {last} ELSE {i \in DOMAIN bytes : bytes[i].end}

\* The socket of c is readable, and its handler is set.
Readable(c) ==
    /\ InEventLoop /\ exists[c] = "yes" /\ fOurSocket[c] # -1
    /\ sockets[fOurSocket[c]] = c

\* New bytes are appended to the buffer; a call goes on if they end a request.
ReadBytes(c) ==
    /\ Readable(c)
    /\ \E m \in 1..Len(inbox[c]) :
          /\ fRequestBuffer' = [fRequestBuffer EXCEPT ![c] = @ \o SubSeq(inbox[c], 1, m)]
          /\ inbox' = [inbox EXCEPT ![c] = SubSeq(@, m + 1, Len(@))]
    /\ IF Ends(fRequestBuffer'[c], fLastCRLF[c]) = {}
       THEN UNCHANGED <<calls, fRecursionCount>>
       ELSE /\ calls' = Append(calls, [conn |-> c, at |-> "bytes"])
            /\ fRecursionCount' = [fRecursionCount EXCEPT ![c] = @ + 1]
    /\ reentered' = [reentered EXCEPT ![c] = @ \/ fRecursionCount[c] > 0]
    /\ UNCHANGED <<exists, fOurSocket, fClientOutputSocket, fIsActive, fLastCRLF, fCurrentCSeq,
                   sockets, sent, answers, left, inherited, pollingVars>>

\* The client has gone: the call returns at once.
ReadEnd(c) ==
    /\ Readable(c) /\ inbox[c] = << >> /\ left[c]
    /\ fIsActive' = [fIsActive EXCEPT ![c] = FALSE]
    /\ UNCHANGED fRecursionCount
    /\ GoAway(c)
    /\ UNCHANGED <<buffer, fCurrentCSeq, calls, client, history, pollingVars>>

Read(c) == ReadBytes(c) \/ ReadEnd(c)

\* Mutant: the buffer is emptied, where the request ended is not forgotten.
Emptied(c, rest, last) ==
    /\ fRequestBuffer' = [fRequestBuffer EXCEPT ![c] = rest]
    /\ fLastCRLF' = [fLastCRLF EXCEPT ![c] = last]

ResetRequestBuffer(c, rest, last) ==
    /\ fRequestBuffer' = [fRequestBuffer EXCEPT ![c] = rest]
    /\ fLastCRLF' = [fLastCRLF EXCEPT ![c] = 0]

\* The response is sent, and what follows the request is handled next.  The
\* arithmetic takes a buffer that has been reset meanwhile for a request of
\* one byte (fLastCRLF is then three before the buffer).
Answer(c, cseq, last) ==
    LET to == IF fClientOutputSocket[c] = -1 THEN None ELSE sockets[fClientOutputSocket[c]]
        size == IF last = 0 THEN 1 ELSE last
        rest == SubSeq(fRequestBuffer[c], size + 1, Len(fRequestBuffer[c])) IN
    /\ answers' = [d \in Connections |-> IF d = to /\ ~left[d]
                                         THEN Append(answers[d], cseq) ELSE answers[d]]
    /\ ResetRequestBuffer(c, rest, last)
    /\ UNCHANGED <<fIsActive, sent, inbox, left, history>>
    /\ IF Ends(rest, 0) = {}
       THEN /\ calls' = SubSeq(calls, 1, Len(calls) - 1)
            /\ fRecursionCount' = [fRecursionCount EXCEPT ![c] = @ - 1]
            /\ GoAway(c)
       ELSE /\ calls' = [calls EXCEPT ![Len(calls)].at = "bytes"]
            /\ UNCHANGED <<fRecursionCount, exists, fOurSocket, fClientOutputSocket, sockets>>

\* The request in the buffer; one without its head does not parse.
Parsed(c, end) == IF end = 2 THEN fRequestBuffer[c][1] ELSE NoRequest

\* A DESCRIBE whose subsession has no SDP lines yet makes them first, at once
\* or in a loop of its own.
HandleRequest ==
    LET c == Top.conn
        ends == Ends(fRequestBuffer[c], fLastCRLF[c])
        end == CHOOSE i \in ends : \A j \in ends : i <= j
        parsed == Parsed(c, end) IN
    /\ calls # << >> /\ Top.at = "bytes"
    /\ fCurrentCSeq' = IF parsed = NoRequest THEN fCurrentCSeq
                       ELSE [fCurrentCSeq EXCEPT ![c] =
                               [request |-> parsed.request, call |-> Len(calls)]]
    /\ IF parsed.kind # None /\ fSDPLines[parsed.kind] = "null"
       THEN SdpLines(parsed.kind)
       ELSE UNCHANGED pollingVars
    /\ IF Len(loops') > Len(loops)
       THEN /\ calls' = [calls EXCEPT ![Len(calls)].at = "loop"]
            /\ fLastCRLF' = [fLastCRLF EXCEPT ![c] = end]
            /\ UNCHANGED <<objects, fRequestBuffer, sockets, client, history>>
       ELSE Answer(c, parsed.request, end)

\* A DESCRIBE leaves its nested loop and is answered.  If a later call has set
\* the CSeq, and has returned, the pointer leads nowhere.
Described ==
    LET c == Top.conn
        cseq == fCurrentCSeq[c] IN
    /\ calls # << >> /\ Top.at = "loop"
    /\ LoopReturns
    /\ \E n \in {cseq.request} \cup (IF cseq.call > Len(calls) THEN {0} ELSE {}) :
          Answer(c, n, fLastCRLF[c])
    /\ UNCHANGED fCurrentCSeq

\* Polls, and what the camera does, are events of the loop.
PollIsMade ==
    /\ InEventLoop
    /\ \E s \in Subsessions : PollingAuxSDPLine(s)
    /\ UNCHANGED <<objects, buffer, fCurrentCSeq, sockets, calls, client, history>>

CameraActs ==
    /\ InEventLoop
    /\ \E s \in Subsessions : ParametersArrive(s) \/ AfterPlayingDummy(s)
    /\ UNCHANGED <<objects, buffer, fCurrentCSeq, sockets, calls, client, history>>

-----------------------------------------------------------------------------
Init ==
    /\ PollingInit
    /\ exists = [c \in Connections |-> "no"]
    /\ fOurSocket = [c \in Connections |-> -1]
    /\ fClientOutputSocket = [c \in Connections |-> -1]
    /\ fIsActive = [c \in Connections |-> TRUE]
    /\ fRecursionCount = [c \in Connections |-> 0]
    /\ fRequestBuffer = [c \in Connections |-> << >>]
    /\ fLastCRLF = [c \in Connections |-> 0]
    /\ fCurrentCSeq = [c \in Connections |-> [request |-> 0, call |-> 0]]
    /\ sockets = [f \in SocketNums |-> None]
    /\ calls = << >>
    /\ sent = [c \in Connections |-> 0]
    /\ inbox = [c \in Connections |-> << >>]
    /\ answers = [c \in Connections |-> << >>]
    /\ left = [c \in Connections |-> FALSE]
    /\ inherited = [c \in Connections |-> FALSE]
    /\ reentered = [c \in Connections |-> FALSE]

\* A call that has begun, and does not wait in a loop.
CallGoesOn == HandleRequest \/ Described

Next ==
    \/ \E c \in Connections : Connect(c) \/ Send(c) \/ Leave(c) \/ Read(c)
    \/ PollIsMade \/ CameraActs \/ CallGoesOn

Spec == Init /\ [][Next]_vars

\* The thread runs; SingleStep's round over the sockets comes to each that stays
\* readable; a poll that is due is made in whichever loop is innermost.
Fairness ==
    /\ WF_vars(CallGoesOn)
    /\ \A c \in Connections : SF_vars(Read(c))
    /\ SF_vars(PollIsMade)

FairSpec == Spec /\ Fairness

-----------------------------------------------------------------------------
(* Properties.                                                             *)

\* Types, those of the polling included.
TypeOK ==
    /\ PollingTypeOK
    /\ exists \in [Connections -> {"no", "yes", "deleted"}]
    /\ fOurSocket \in [Connections -> SocketNums \cup {-1}]
    /\ fClientOutputSocket \in [Connections -> SocketNums \cup {-1}]
    /\ fIsActive \in [Connections -> BOOLEAN]
    /\ fRecursionCount \in [Connections -> Nat]
    /\ \A c \in Connections : \A i \in DOMAIN fRequestBuffer[c] :
          fRequestBuffer[c][i].request \in DOMAIN Asks[c]
    /\ fLastCRLF \in [Connections -> Nat]
    /\ fCurrentCSeq \in [Connections -> [request : Nat, call : Nat]]
    /\ sockets \in [SocketNums -> Connections \cup {None}]
    /\ calls \in Seq([conn : Connections, at : {"bytes", "loop"}])
    /\ sent \in [Connections -> Nat]
    /\ left \in [Connections -> BOOLEAN]
    /\ inherited \in [Connections -> BOOLEAN] /\ reentered \in [Connections -> BOOLEAN]

\* No connection object is deleted under a call on it, however calls nest (the
\* comment at RTSPServer.cpp:986).
CallsAlive == \A k \in DOMAIN calls : exists[calls[k].conn] = "yes"

\* The socket a connection reads from is the one of its client, and stays open,
\* whatever other connections end, nest and close (lines 634-646 and 973-993 of
\* the code reset the numbers for that): but for a client whose socket got a
\* number that another connection had still to give up.
SocketsOwned ==
    \A c \in Connections : fOurSocket[c] # -1 /\ ~inherited[c] => sockets[fOurSocket[c]] = c

\* A client gets the answers to its own requests, each once and in order, also
\* when it sends several at a time, and whatever nests in its own DESCRIBE: the
\* others' requests and their ends.  Excepted are the connections
\* that are read from in their own nested loop, where the calls share the buffer
\* and the CSeq, and the numbers that another connection still kept; what goes
\* wrong there stays there.
Undisturbed(c) == ~reentered[c] /\ ~inherited[c]
AnswersInOrder ==
    \A c \in Connections : Undisturbed(c) =>
        \A i \in DOMAIN answers[c] : answers[c][i] = i

\* A client that stays gets as many answers as it has sent requests, however
\* requests nest around its own, its own among them, and whatever the camera
\* does.
EachAnswered ==
    \A c \in Connections : Len(answers[c]) < sent[c] ~>
        Len(answers[c]) >= sent[c] \/ left[c] \/ inherited[c]

\* The connection of a client that leaves is deleted, in the end, also if only
\* an inner call has seen it leave.
LeaversGo ==
    \A c \in Connections : left[c] ~> exists[c] = "deleted" \/ inherited[c]
=============================================================================
