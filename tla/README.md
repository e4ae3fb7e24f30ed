# Verification of livertsp

livertsp is an RTSP server for a camera: it captures frames with ffmpeg,
encodes them as H.264 and streams them to RTSP clients through the live555
library (vendored under `src/live`, and part of what is verified wherever
livertsp depends on its control flow). This directory holds TLA+ modules of the
server's parts, TLC configurations that check them on small instances, and
TLAPS proofs for all instances.

## 1. The system

One process. Threads: `main` (and any other thread of the application that
calls `Control`), the event-loop thread (`LiveTask`), and per running camera a
`decodingTask` and an `encodingTask`. Everything of live555 runs on the
event-loop thread, with two exceptions: `triggerEvent`, which the camera threads
call, and the flag that ends the loop.

| Component | Code | State | Operations | Hard because |
|---|---|---|---|---|
| Life cycle and command channel | `LiveRTSPServer.{cc,hh}`, `Main.cc` | `start`, `stoppedFlag`, `liveThread`, the pipe, `messageBuf` | `Start`, `Stop`, `Control`, `LiveTask`, `ControlMethodDispatch`, destructor | plain flags written by two threads; join against detach; a full pipe; commands left over from one loop to the next |
| Capture source | `FFH264InputSource.{cc,hh}`, `FramedSource.cpp` | `started`, `decoding`, `encoding`, two threads, two queues, NALUs being sent | `startCapture`, `stopCapture`, `doGetNextFrame`, the two tasks, the two trigger handlers | three threads, signalling through a word that is not updated atomically, errors of either worker, restarts |
| Stream replicator | `StreamReplicator.cpp` | primary replica, two lists, frame index, two counters | `getNextFrame`, `deactivateStreamReplica`, `deliverReceivedFrame`, `onSourceClosure` | calls nest; a toggling bit stands for "has had this frame"; replicas leave at any moment |
| Sessions | `GenericMediaServer.cpp`, `RTSPServer.cpp`, `ServerMediaSession`, `OnDemandServerMediaSubsession.cpp`, `LiveMediaSubsession.cc` | table of sessions, reference counts, client sessions and their streams | `add_session`, `del_session`, DESCRIBE, SETUP, TEARDOWN, timeouts, `cleanup` | DESCRIBE runs the event loop inside itself, so requests nest; deletion is put off to the last user |
| Client connections | `RTSPServer.cpp`, `GenericMediaServer.cpp` | socket numbers, request buffer, end-of-request pointer, CSeq pointer, recursion depth | `incomingRequestHandler`, `handleRequestBytes`, `closeSockets`, destructor | a DESCRIBE runs the event loop inside itself, so a connection's handler is called again inside itself, on the same buffer; deletion is put off to the outermost call |
| SDP polling | `H264LiveMediaSubsession.cc` | done flag, poll count, cached line, dummy sink | `getAuxSDPLine`, `pollingAuxSDPLine1` | nested loops that share one flag, a timeout of ten polls |
| Event loop | `BasicTaskScheduler*.cpp`, `DelayQueue.cpp` | `fReadSet` and its limit, the list of socket handlers, trigger table and word, the shortcut for the trigger used last, delay queue | `doEventLoop`, `SingleStep`, `setBackgroundHandling`, `createEventTrigger`, `triggerEvent`, `scheduleDelayedTask` | handlers change all of it and run the loop inside themselves; fairness between sockets, triggers and timers; 32 triggers, FD_SETSIZE; a clock that is set |
| RTP path | `H264or5VideoStreamDiscreteFramer.cpp`, `H264or5VideoRTPSink.cpp`, `MultiFramedRTPSink.cpp`, `RTPSink.cpp` | the fragmenter's buffer and offset, sequence number, timestamp base, pending send | `doGetNextFrame`, `afterGettingFrame1`, `startPlaying`, `stopPlaying`, `presetNextTimestamp` | headers are written over bytes that were sent; PAUSE and PLAY in the middle of a NAL unit |
| Media factory | `LiveMediaFactory.cc`, `LiveMediaInputSource.cc` | tables of creators | `MakeServerMediaSession`, `ParamValidation` | little: pure functions of names |

How they interact: a command written into the pipe by `Control` is executed by
the event loop and adds a media session, with a camera source and a replicator,
to the table. A DESCRIBE makes a dummy replica and lets it run in a nested
event loop until the SDP line is known; a SETUP makes a replica for a stream. The
first replica that asks for a frame makes the source start its two threads,
which report packets and errors through event triggers; the last one that stops
makes the source join them. The closure of the source travels back through the
replicator to the streams, which are torn down.

What makes each part correct:

- *Command channel*: an accepted command is executed once, in order, over any
  number of starts and stops; there is never a second event loop; `Stop` returns,
  never joins a thread that cannot be joined, and leaves flags that permit a
  restart.
- *Capture source*: no wake-up of a waiting consumer and no error is lost;
  `std::terminate` is never called; what was captured earlier is delivered
  earlier; `stopCapture` returns.
- *Replicator*: every active replica gets every frame once and in order; the
  counters mean what the code takes them for; no list leads to a deleted replica;
  a closure reaches everyone who waits.
- *Sessions*: nobody uses a deleted session; a removed session is deleted when
  its last user leaves, and the camera with it; what was added is found under its
  name.
- *Event loop*: `select()` is asked for the open sockets and no others; an event is
  handled for the source that raised it; everything ready gets its turn; a task
  runs once, not before its time, in order, and is only called off by its owner.
- *RTP path*: NAL units arrive whole, in order and at most once; marker bits and
  timestamps tell the frames apart.
- *Connections and SDP polling*: a client gets its own answers, in order; no object
  or sink is used after it was deleted; nested DESCRIBEs all end, and tell the same.

## 2. Modules

| Module | Models | State and actions |
|---|---|---|
| `CaptureSource` | the capture source with its three threads | `pc` of each worker, `live` for the event-loop thread; one action per stretch of code between two points where another thread can see the state. `triggerEvent` is a load and a store. Frames and packets are the number of the capture they come from. |
| `ControlServer` | life cycle and command channel | every access to `start` and `stoppedFlag` is a step; a read of the pipe is a step; commands are numbered; a DESCRIBE may run an event loop inside the server's (`nested`), which serves the pipe, too, but does not look at `stoppedFlag` |
| `CommandChannel` | what `Control` promises | a queue and the list of what has been executed; `ControlServer` refines it with `queue <- messageBuf \o pipe` |
| `MediaSessions` | sessions, client sessions, nested DESCRIBEs, shutdown | everything is on one thread: one action per request or command; a DESCRIBE is two actions, between which every other may happen, and they nest like a stack |
| `SdpPolling` | how a DESCRIBE waits for the parameter sets | `loops` is the stack of nested event loops; a poll, a closing camera and the return of the innermost loop are actions |
| `ClientConnections` | connections, over `SdpPolling` | extends `SdpPolling`: its actions are taken inside the handling of requests (`HandleRequest`, `Described`) and by the loop that is innermost (`PollIsMade`, `CameraActs`). `calls` is the stack of running `handleRequestBytes`; a request is two pieces, its head and the empty line that ends it; clients connect, send and leave at any time. Two history variables say to which connections one of the two disturbances of section 3 has happened: `inherited` (its socket got a number that another connection still keeps) and `reentered` (it was read from under a call on itself) |
| `EventLoop` | `SingleStep`, socket handlers, event triggers | `loops` is the stack of nested `doEventLoop`s and the handlers they are in; a step picks the handler as `SingleStep` does, a handler opens, closes or gives back sockets, makes and deletes sources, raises events, runs a loop |
| `DelayQueue` | `DelayQueue.cpp` and the tasks of `SingleStep` | the queue is the sequence of entries with what each has left after its predecessor; a new token is a number that neither an owner nor an entry has (the code counts up); the clock moves in any step and may be set back or forward. `call` is history: whose task runs, and which owner calls what |
| `Timers` | what the scheduler promises of delayed tasks | what each task has left, and `call`: a task runs and an owner schedules, puts off or calls off his own task in a step that shows it, so that no alarm can go in any other; `DelayQueue` refines it, `call` included |
| `DataPath` | packets of the encoder, NAL units, fragments, RTP packets | a byte is a record that says which byte of which NAL unit it is; `Encode`, `Deliver`, `SendNext`, `Play`, `Pause`, `Skip` (other clients read), `Restart`; the receiver is external, RFC 6184 |
| `NaluStream` | what the path from encoder to receiver promises | `DataPath` refines it with the receiver's last NAL unit |
| `StreamReplicator` | the replicator, its source and its consumers | a nest of calls is one step: the member functions are operators from a state record to the set of states they may leave, because the source may answer inside the call; the loops of `onSourceClosure` take one replica per step |
| `MC...` | values for TLC: symmetries, the NALU sizes of a packet | |
| `CaptureSourceProofs`, `ControlServerProofs`, `MediaSessionsProofs`, `ClientConnectionsProofs`, `StreamReplicatorProofs`, `EventLoopProofs`, `DelayQueueProofs`, `DataPathProofs` | theorems | |

An operator marked "Mutant" is a plausible bug; `PROJECT.json` names the
definition it stands in for and the property that catches it. `PROJECT.json`
also maps every definition to the lines it models.

Abstractions. Names and SDP text are left out everywhere, bytes and RTP except in
`DataPath`, time except in `DataPath` and `DelayQueue`. A trigger's
client data is always the source. In `EventLoop` only readable sockets occur (the
server registers nothing else, but for connections over TLS and tunnels), a
`select()` that fails with EBADF would abort and is ruled out by the property, and
`moveSocketHandling` is missing: only clients and multicast sessions use it. In
`DataPath` there is one destination per stream (`LiveMediaSubsession.cc:6` says no
source is reused), the replicator serves a request at once or later, a packet is
lost or arrives before the next one is sent, and the end of the stream by a closure
is left to `MediaSessions`. ffmpeg is an environment that gives a frame,
says "not yet", refuses or fails; V4L2 too. A consumer asks for its next frame
from a task of its own, as `MultiFramedRTPSink` does. In `StreamReplicator` a
capture that has closed does not fail to start a second time inside its own
closure, and frames of length zero are left out (`CaptureSource` has them). In
`MediaSessions` a session has one track, as `LiveMediaFactory` makes it today
(there is no audio source yet).

## 3. Runs

Passing runs:

| Run | Constants | Shows |
|---|---|---|
| `capture_signalling` | 2 frames, 2 captures, atomic word, packets of 0, 1 and 2 NALUs (137 261 states) | no lost wake-up or error, no `std::terminate`; `stopCapture` returns, a waiting consumer is served, an error ends in a closure |
| `capture_racy` | as above, word as built, codecs that refuse input | the order of captures over a restart depends neither on the word nor on the codecs (types and thread life cycle: theorems, section 4) |
| `control` | 2 clients, pipe of 2, 3 commands, 2 starts, reads that fail, a DESCRIBE with a loop of its own (66 149) | as long as no read fails, `Start` and `Stop` return (`Stop` unless it waits for room in a full pipe), flags are clean and no thread is left at rest; always one event loop at a time; the command channel is implemented and accepted commands are executed |
| `sessions_lifetime` | 2 names reused freely, 2 clients, 3 sessions, DESCRIBE nested twice (325 717) | no use after deletion, exact counts, no replicator left behind, removed sessions go; a session whose name was free stays reachable and is closed at shutdown |
| `requests_nesting` | 2 clients, 3 requests, 2 streams of which one is shared, 2 empty polls; clients connect and leave during each other's calls and send before they are answered (76 127) | no poll outlives its sink, nested DESCRIBEs tell the same, no object is deleted under a call; sockets stay with their client and whoever stays is answered, who leaves is cleaned up, unless the connection inherited a number; answers are in order, unless the connection itself was re-entered or inherited a number, whatever that did to the others |
| `replicator` | 3 replicas, of streams and of DESCRIBEs, 2 frames, closing source (95 634) | until a closure every frame once and in order to every active replica; who waits is served; counters exact, assertions hold, no delivery without a primary; no list leads to a deleted replica; a closure reaches all who wait |
| `event_loop` | 3 socket numbers of which FD_SETSIZE allows all, 3 sources for 2 triggers, loops nested in handlers (392 496) | `select()` covers the open sockets; triggers and events have one owner; a readable socket and a raised event are handled |
| `delay_queue` | 2 tasks beside the scheduler's own tick, delays 0 and 3 of which `select()` is asked in steps of 2, a loop that comes up to 2 late, a clock set back and forward by 1, a nested loop (171 022) | tasks run once and in order, and an alarm goes only with its task's run or by its owner's call; no task runs early and `select()` sleeps past none by more than the clock was set; what is due runs |
| `data_path` | NAL units of 1, 4, 5 and 9 bytes, RTP payloads of 4, a buffer of 8, 4 NAL units, losses of one packet at a time, restarts, two pts in any order (1 015 653) | NAL units arrive whole and in order; the marker bit, the timestamps and the numbers told in a PLAY fit the packets |

Runs in which TLC refutes what a comment of the code says:

| Run | What happens |
|---|---|
| `capture_lost_signal` | `fTriggersAwaitingHandling \|= id` (`BasicTaskScheduler0.cpp:142`) is a load and a store: the encoder's store erases the error bit of the decoder (or the event loop's clearing does), and the source falls silent without a closure. The header says the function may be called from an external thread. |
| `sessions_replaced` | a session is replaced by one of the same name while it is used; when its last user leaves, `removeServerMediaSession` takes the *name* out of the table (`GenericMediaServer.cpp:78`), which is the new session by then: unreachable, and never deleted |
| `replicator_stall` | r1 is primary with a frame, r2 has had it, r3 has not asked yet. r1 leaves (line 122: no replacement), r2 waits in the "next frame" list, r3 leaves: the check at line 187 requires a primary, so nothing is completed and nothing is read; r2 waits for ever |

Further disagreements TLC finds with other constants (not listed as runs):

- `OneThreadPerTrigger`, any constants with `AtomicTriggers = FALSE`: both
  workers raise `selfDestruct` (`FFH264InputSource.cc:145`, `:277`), encoder and
  event loop raise `frameNotify` (`:202`, `:748`), although the header
  (`UsageEnvironment.hh:157`) forbids two threads for one id.
- `ClosureMeansError`, `MaxStarts = 2`: a worker fails, the consumer stops and
  starts again before the event loop comes to the trigger, and the pending
  `selfDestruct` closes the new capture.
- `StopReturns` with `CodecRefuses = TRUE`: `retry` is set by the first EAGAIN
  and never reset (`cc:158-206`, `:343-464`). If the codec then accepts every
  submission, the same packet is submitted for ever, the task never looks at its
  flag again, and `stopCapture` hangs in `join`.
- `FramesInOrder` continued behind a closure: the source closes while it is
  being read; `onSourceClosure` tears down a stream; its deactivation takes
  "not awaiting data" for "frame arrived" (line 187) and delivers the primary's
  old buffer to the others.
- `NoInternalError` with `SourceMayClose` and `PrimaryMayLeave`: a delivery
  completed inside the closure starts a read (line 287), the closure clears the
  primary (line 245), and the frame that arrives dereferences NULL (line 217).
- `NoInternalError` and `CountersExact` with `PrimaryMayLeave = TRUE`: a replica
  that has had the stranded frame becomes the primary; its index and the
  replicator's are toggled together, from then on "has had" and "has not" are
  exchanged for it, and the assertion at line 265 fails.
- `AnswersInOrder` of `ClientConnections` without `~reentered`: while a
  DESCRIBE is in its nested loop, the client's next bytes are appended to the same
  buffer. `fLastCRLF` still points to the end of the DESCRIBE, so the inner call
  takes it for the request (`RTSPServer.cpp:735-747`), executes it a second time
  and resets the buffer; the outer call then answers with a CSeq that points into
  the frame of the inner one (`:801`, `:416`), and takes the reset buffer for a
  request of one byte (`:971`). `EachAnswered` still holds of such a connection (it gets at least as many answers as it sent
  requests), and the other connections are not affected (`AnswersInOrder` is asked of them).
- `SocketsOwned`, `AnswersInOrder`, `EachAnswered` and `LeaversGo` without the exception for
  `inherited`: a client leaves during its DESCRIBE;
  the inner call closes the socket and keeps its number in `fClientOutputSocket`
  (`RTSPServer.cpp:984`). A client that connects now gets that number, receives the
  answer to the other's DESCRIBE, and has its socket closed when the outer call
  deletes the connection (`:639-641`).
- `ControlServer` after a failed read: the loop detaches its own thread and sets
  `stoppedFlag` for itself, while `Stop` may be about to join that thread. In the loop of
  a DESCRIBE, which goes on in spite of the flag, a second failed read detaches the
  thread again; `detach()` throws, and the program ends (`LiveRTSPServer.cc:419-422`).
  `CallsReturn`,
  `NeverTerminates` and `CleanAtRest` hold only as long as no read fails, which is how they are stated
  (`failed`; the comment at `LiveRTSPServer.cc:125` has it on its list: "review stop
  flow, selfdone"). `CallsReturn` also excepts a `Stop` that waits for room in a pipe
  which nobody empties any more (`WriteBlocks`): the loop looks at the flag before
  the pipe, and the writers have filled it.
- `SocketsServed` of `EventLoop` without its condition: a socket that is given back to
  the server (`RTPInterface.cpp:436-468`, `RTSPServer.cpp:657-660`) enters the list of
  handlers in front again; if that happens again and again, the search from the
  last socket served always finds it, and the sockets behind it starve. The
  property is for sockets while nobody is given back for ever.
- `FramesAreMarked` across a PLAY: `startStream` starts the sink before it presets
  the timestamp (`OnDemandServerMediaSubsession.cpp:216`, `:222`). If the replica answers
  at once, which it does when packets were left in the queue, the first packet of
  a frame goes out with the old base and the rest of the frame with the new one; a
  second PLAY in the middle of a frame does the same. `RTPSink.hh:58` says the preset
  "ensures that the next timestamp to be used will correspond to the current
  'wall clock' time": it does, for a packet that is not the frame's first.
- Presentation times of `DataPath` are not monotonic: after a restart the pts begin at
  0, and `last_pts` still is that of the capture before (`FFH264InputSource.cc:751`), so the first packet
  goes back by the length of the old capture and the second one jumps to the clock;
  B frames, which the preset "slower" turns on, go back as well.
- `ImplementsNaluStream` without `EncoderAssumption`: `extractFrame` looks for the long
  start code first, so that a NAL unit between a short and a long one is merged
  with the one before it. x264 puts the long codes first in a packet. With two
  slices per frame `FramesAreMarked` fails, as `H264or5VideoStreamDiscreteFramer.cpp:161`
  says it will.

### Bounds, and why they are enough

Frames, captures, commands, starts, sessions and nesting are bounded by
constants in the guards. Two captures are the fewest in which something stale
can reach the next one, two frames the fewest that can be out of order or be
left behind by one trigger. Two starts do the same for the server; a pipe of two
packets fills up with two clients. Three replicas are the fewest for a primary,
a replica that has had the frame and one that has not; the fourth makes both
lists longer than one while a closure walks through them: with 4 replicas and 2
frames (151 315 states) all invariants hold, and with `PrimaryMayLeave` (3
replicas, 332 237 states) `NoDanglingReplica` and `ClosureReachesAll` do; the finding
`replicator_stall` and the list above say what does not. Three sessions are one
replaced, one replacing and one beside them (a fourth, with the sessions symmetric,
gives 1 144 229 states and the same answer). Two connections nest in each other and in
themselves; `MaxNesting = 4` is more than the three requests need, so it cuts nothing off. Of sockets, one is the server's and stays, two come and go; with two that stay
and two that go (453 000 states) the properties hold too. `FD_SETSIZE` is the number of sockets in
the run, the case beyond it is in the theorem. Two tasks of the application are one before and one
behind any place in the queue; a lag may be as long as the
granularity, and the clock is set by less than one delay (3) and by more than the other (0). Payloads of 4 bytes leave 2 for data in a fragment, so that the
lengths 4, 5 and 9 are a single packet, two full ones, and four of which the buffer cuts off the
last byte; sequence numbers (mod 4) and timestamps (mod 8) wrap. `CHECK_DEADLOCK FALSE` is said where
the system may end (the server is destroyed) or where an owner that waits for
ever is not an error of the property being asked about; `CaptureSource` is
checked for deadlock.

### Fairness

- `CaptureSource`: weak fairness of each worker and of the event loop's own
  steps (the operating system runs every thread); strong fairness of each
  trigger's turn, because `SingleStep` goes round all triggers between any two
  handlers (`BasicTaskScheduler.cpp:187-207`).
- `ControlServer`: weak fairness of `main` inside a call and of the event loop;
  strong fairness of a blocked `write` (the kernel wakes writers whenever there
  is room), of the dispatch of the pipe (`SingleStep` resumes behind the last
  socket it handled) and of the end of a DESCRIBE's loop (at the latest after ten
  polls: `EachAnswered` of `ClientConnections`).
- `EventLoop`: weak fairness of one thing, that the innermost `SingleStep` goes on
  (`GoesOn`): handlers return, one thread runs. A socket stays readable until it is handled. Which
  handler comes next is not a matter of fairness: it is the search of `SingleStep`.
- `DelayQueue`: the same, that the innermost `SingleStep` goes on. Time passes as
  `select()` sleeps; nested loops need not end.
- `DataPath`: none; it has safety properties only.
- `MediaSessions`: a nested DESCRIBE ends (`EachAnswered` of `ClientConnections` is
  why it does: at the latest after ten polls); a
  client session ends (TEARDOWN, or the liveness timeout of 30 s).
- `ClientConnections`: weak fairness of a call that does not wait in a loop (the
  thread runs); strong fairness of reading each socket that stays readable and of
  the polls that are due: both come round in `SingleStep`, in whichever loop is
  innermost. Neither the camera nor the clients have to do anything.
- `StreamReplicator`: an active consumer asks for its next frame (its sink's
  send task), a camera that is being read delivers, the closure's loops go on.
  A replica never has to stop or leave.

## 4. Proofs

All for every value of the constants, under the named assumptions of the
modules (bounds are natural numbers, modes are Booleans, `"main"` is not a client).

`CaptureSourceProofs`

- `TypeCorrect`: `Spec => []TypeOK`, in two halves (control and queues) for each
  group of actions.
- `NoTerminate`: `Spec => NeverTerminates`. The property is about steps; the
  invariant that carries it is `Joining`: a worker's thread exists exactly while
  the capture is started or being joined, and the event loop's place says which of
  the two joins are behind it. It is inductive with the types only.
- `ErrorsSignalled` (`AtomicTriggers = TRUE`): inductive together with `Joining`,
  which is what rules out that a new capture begins under an old error.
- `CapturesOrdered`: `Spec => []CapturesInOrder`, for the code as built. The
  invariant `Chain` puts the frame the encoder took last (`current`) between what
  has been through the encoder and what has not; each step moves the ends of
  one or two of the sequences (`ChainMoves`), which lemmas about sequences in order
  turn into the next state's chain.
- `WakeupsKept` (`AtomicTriggers = TRUE`, `OnlyFirstIsEmpty`): the invariant `Waking`
  adds the places inside `doGetNextFrame`, where the look-ahead has not yet raised the
  trigger for what is left in the queue; `RestNotEmpty` says that no empty NALU is left
  once the first one of a packet is delivered. The hypothesis cannot be weaker:
  a NALU of length zero ends a request without a delivery, and the loop looks ahead only
  when it takes a packet, so with an empty NALU behind another one (splits `<<0, 0>>` or
  `<<1, 0>>` in `MCNaluSplits`) TLC finds `NoLostWakeup` violated. `splitNalu` finds
  such a NALU where a start code follows another at once or ends the packet, which
  x264 does not write. Packets with no NALU at all are covered.

`ControlServerProofs`

- `TypeCorrect`, with the pipe within its capacity (all of these with DESCRIBEs that run a loop
  of their own, and with the `detach()` that throws there).
- `ChannelImplemented`: `Spec => Channel!Spec`, step by step: `Write` is
  `Accept`, an iteration of `Parse` is `Execute`, all the rest stutters. The
  invariant is the numbering: what was executed, what is in the buffer and what is
  in the pipe are consecutive numbers, and the buffer is empty where the dispatch
  clears it, which is why `messageBuf.clear()` loses nothing.
- `StopTerminatesNothing` and `StopIsClean`: `NeverTerminates` and `CleanAtRest`, both of
  which are about servers whose reads have not failed. They follow from
  `Spec => [](failed \/ Lifecycle)`, where `Lifecycle` ties the place of `main` to the
  place of the event loop, the flags and the threads: a loop may only be alive in
  the states in which `stop` is still going to join it, so no destructor of a
  joinable thread is ever reached.
- `OneLoop`: `Spec => OneEventLoop`, a property of steps, also with reads that fail: a thread is
  only started when `liveThread` is not joinable, and a loop that detached itself is past its last access.

`MediaSessionsProofs`: one invariant, `Inv`, for any number of names, clients,
sessions and nested DESCRIBEs; its parts need each other.

- `CountsAreExact`: `Spec => []CountsExact`. `Counted` says of each session that its two
  counts are the sizes of the sets of its client sessions, streams and DESCRIBEs;
  each action adds or takes one element of one of them.
- `UsersSafe`: `Spec => []UsesAlive`, however requests nest. A session that was removed
  while it is used has a reference (`Life`), and by `Counted` the count is zero only
  when the last user has left.
- `NoReplicatorLeft`: `Spec => []ReplicatorsClosed`: a session that is deleted has no
  replica, because it has no user, so the test at `LiveMediaSubsession.cc:13` closes
  its replicator.
- `FreshIsKept`: `Spec => []FreshKept`. What `removeServerMediaSession` takes out is a
  name, perhaps that of another session. `Life` says that a removed session leaves its
  name free, unless the name was added again over a session in use; so for the
  other names the last user of a removed session takes nothing out. `sessions_replaced` shows
  what happens to those that are excepted.

`StreamReplicatorProofs`: for any number of replicas and frames, with a source that may
close, under `PrimaryMayLeave = FALSE` (no primary leaves with a frame that others have
not asked for; `replicator_stall` shows what happens then).

- `CountersAreExact`, `InternalErrorsNever`, `FramesComeInOrder`, `NobodyDangles`,
  `NobodyLeftWaiting`: `CountersExact`, `NoInternalError`, `FramesInOrder`,
  `NoDanglingReplica` and `ClosureReachesAll`, from one invariant. Because the calls nest, it
  has two levels. `Core` holds inside a call, too: the primary and those in the
  "current" list have not had the frame, those in the "next" list have (`ListsRight`),
  the counters are the numbers of active and of served replicas (`CountersRight`),
  who is served has the frame and the others the one before (`FramesRight`). `Quiet`
  holds when the call returns: someone is yet to ask for a frame that is pending
  (`YetToAsk`), otherwise nobody is ahead of the others. There is one lemma for each
  member function: from `Core`, `deliverReceivedFrame` makes `Quiet` (`Delivered`,
  from `Copied` and `Completed`), so do an answer of the source (`Arrived`, `Asked`), a
  request (`Requested`) and a departure (`OtherLeft`, `PrimaryLeft`, `Deactivated`).
  In a closure nothing may be read; that the loops hand over one replica after the
  other without a delivery that starts a read rests on the same `YetToAsk`.

`ClientConnectionsProofs`

- `PollingSinkSafe` and `PollingSdpConsistent`: `SinkOutlivesPolls` and `SdpTellsAll`
  for `PollingSpec`, where any DESCRIBE may come in any loop. The inductive
  invariant `PollInv` says of each subsession: while a poll is scheduled nothing has
  been decided and the owner of the sink is in its loop (`Undecided`); the pointer
  to the sink is only given up for the line (`SinkOrLine`, without which a second
  DESCRIBE could play a second sink under the flag of the first); the lines that
  are written agree with the line that is known (`SameLines`); polls are counted
  from zero (`FreshCount`, for the types).
- `ComposesPolling`: `Spec => PollingSpec`, the requests of the connections use
  the polling in no other way than `SdpPolling` allows. A request must name a
  subsession for that, so it rests on `FramingInvariant`: only the innermost call
  handles a request, the request is in the buffer whole, and `fLastCRLF` points into
  the buffer, although the calls nested in a DESCRIBE empty the same buffer.
- `SinkSafe` and `SdpConsistent`: what is proved of the polling, for any
  number of clients, requests and nested calls; whenever they send.
- `NoCallOnDeleted`: `Spec => []CallsAlive`, whenever clients connect, send and leave. The
  invariant adds that `fRecursionCount` of an object is the number of calls that run on
  it (`Counted`): an object is deleted where its own count falls to zero or where
  it is zero, and so never under a call, however deep the calls nest.
- `SocketsAreOwned`: `Spec => []SocketsOwned` and `AnswersComeInOrder`:
  `Spec => []AnswersInOrder`, with no assumption on what clients do: they connect, end and
  send several requests in anybody's nested loop. The exceptions are in the properties and
  name one connection each, so the theorems say that who is re-entered or inherits a number
  spoils nothing for those to whom neither happens. `SocketInv` says of each connection that did
  not inherit its number whether it still has the socket (`Held`), has given it up with the number still kept
  (`LetGo`) or is rid of both (`Gone`). `OrderInv` says of an undisturbed connection that what was sent and not
  answered is in the buffer and the network, in order and without a gap (`InStep`), with at most
  one call running on it (`OneCall`), whose answer comes next.

`EventLoopProofs`

- `SelectIsRight`: `Spec => []SelectCoversAll`, for any number of sockets, also beyond
  `FD_SETSIZE`, and any nesting. The invariant: the list of handlers has one entry
  for each open socket below `FD_SETSIZE`, `fReadSet` is their set, and
  `fMaxNumSockets` exceeds them all (it may be too large, line 90 of
  `BasicTaskScheduler.cpp` lowers it by one at most).
- `TriggersAreOwned`: `Spec => []TriggersOwned`: the shortcut's mask and number agree,
  trigger 0 belongs to nobody, and a source holds only triggers whose handler
  is its own; from it, every event is handled for the one who raised it.

`DelayQueueProofs`: for any finite set of tasks, any delays and nesting, and a clock that may be
set back and forward.

- `DelayQueueImplementsTimers`: `Spec => ImplementsTimers`. Runs and owners' calls are visible steps of
  `Timers`; in all others time passes and nothing else changes. So the theorem says that
  a task runs when it is due and no other was due earlier, that it runs once, and that an
  alarm goes in no other way than by its run or its own owner's call. The list keeps differences,
  the abstract scheduler what each task has left. `Listed` relates the two: the list
  holds each scheduled task once, sorted, and the differences are those between the
  tasks' times, so that the sums give the times back (`SumsTelescope`).
  `synchronize`, which takes the time that has passed from the first entries, an insertion,
  which splits a difference in two, and a removal, which joins two, each have a lemma on
  what they do to it (`SynchronizedListed`, `AddEntryListed`, `RemoveEntryListed`).
- An owner's token is that of his own entry or of none (`TokensKept`), without which a late
  `unscheduleDelayedTask` would call off somebody else's task. The model takes a number
  nobody has for a new token, where the code counts up an `intptr_t`; that there is one
  rests on owners and entries together being fewer than the numbers
  (`NewTokenIsNew`, a pigeonhole argument).
- `TasksRunOnTime`: `Spec => OnTime`, about real time. `Good` says how far the queue's
  measure of what is left may be from it: by how far the clock was set back (`behind`) or
  forward (`ahead`) while the task waited, and what has passed since the last look is yet to
  be taken off. `SleepsNoLonger` carries
  the timeout from its computation to `select()`.

`DataPathProofs`: for any packets whose long start codes come first and that hold one
frame each (`EncoderAssumption`, what libx264 does), any sizes of buffer and packets, any
widths of sequence numbers and timestamps.

- `FragmentContinues`: one call of the fragmenter, for every buffer, offset and packet
  size of at least 3: the fragment fits into a packet, the offset moves on and
  reaches the end exactly with the last fragment, the headers overwrite nothing that
  is still to be sent, and the payload is the bytes between the offsets.
- `SplitIsWhole`: what `splitNalu` returns for every such packet. It is a recursive
  function; instead of an induction over a predicate, the proof takes the least
  number of NAL units before the end at which the function differs from its value.
- `PathImplementsNaluStream`: `Spec => ImplementsNaluStream`. The invariant `PathInv` ties
  the parts together by the number of the NAL unit that was delivered last: the
  queues of the source hold the NAL units after it, in order and without a gap
  (`SourceRight`); what the fragmenter holds is it, sent up to the offset (`StreamRight`);
  the receiver has what was sent of it and everything before, or knows that it misses
  something (`ReceiverRight`, with the number of packets lost since it got one, which must
  stay below the number of sequence numbers, or it could not tell: `LossAssumption`).
  `PacketGoes` shows this for a packet that arrives or is lost, whoever sends it; a
  PAUSE empties the fragmenter and makes the receiver's gap.
- `PathMarksFrames`: `Spec => FramesAreMarked`, from the same invariant with
  `LinkRight`, which says what the last packet has already settled about the next one.
  It needs that the times of a frame are one (a packet of the encoder is split before the
  next one is stamped), and that a base set back by a time, plus that time, is the base
  again in unsigned arithmetic (`ModBack`).

Only model-checked: liveness (no prover here does fairness), `StreamReplicator` with a
primary that may strand a frame. A type invariant is part of the invariants of the proofs
(`TypeCorrect`); the runs do not repeat it.

## 5. Not modelled, and why

RTCP and RTP over the RTSP connection (`RTCP.cpp`, `RTPInterface.cpp`; the sockets they take
over and give back are in `EventLoop`), H.265, the text of RTSP messages,
authentication, HTTP tunnelling, TLS (vendored, text and I/O); ffmpeg and x264 (external, modelled by
what they may answer); libev, easylogging, nlohmann (no state the server depends
on); `stash/`, the empty `*ADTS*`, `Simple*` and `H265*` files, `mcore/` helpers.

## 6. Plan

1. Capture source, command channel, sessions, replicator, connections with SDP
   polling, event loop, delay queue, RTP path: modelled (this text).
2. What `ClientConnections` leaves out: message bodies (`Content-Length`), a full
   request buffer, answers that cannot be sent; `MediaSessions` and
   `ClientConnections` composed, so that a session may be removed under a poll.
3. The framing of control messages that are longer than a read (1024 bytes,
   `LiveRTSPServer.cc:356`), which the command channel leaves out.
4. Composition of `CaptureSource` and `StreamReplicator` through the interface of
   `FramedSource` (an abstract source both agree on), and of both with `DataPath`.
5. Proofs: every invariant and action property that a passing run checks has its theorem;
   new ones come with what items 2 to 4 add.
