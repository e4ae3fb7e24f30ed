------------------------------ MODULE DataPath ------------------------------
(***************************************************************************)
(* The way of the video data: the encoder's packets are split into NAL     *)
(* units (FFH264InputSource), read one by one through a replica            *)
(* (H264or5VideoStreamDiscreteFramer), cut into fragments that fit into an *)
(* RTP packet (H264or5Fragmenter), numbered, stamped and sent              *)
(* (H264VideoRTPSink, MultiFramedRTPSink, RTPSink), and put together again *)
(* by a receiver (external, RFC 6184).  The client may PLAY and PAUSE at   *)
(* any point; packets get lost.                                            *)
(*                                                                         *)
(* A byte is a record that says what it is: byte "at" (1 is the header) of *)
(* NAL unit "nalu", or a FU indicator (at = 0) or FU header (at = -1) made *)
(* from its header byte, or a part of a start code (at = -2).  The         *)
(* replicator serves the request of a replica at once or later, as its     *)
(* other replicas allow (module StreamReplicator).                         *)
(***************************************************************************)
EXTENDS Integers, Sequences, FiniteSets, FiniteSetsExt, SequencesExt

CONSTANTS
    Packets,         \* what the encoder may put into a packet: sequences of
                     \* NAL units [vcl, len, code], code "long" or "short"
    BufferMax,       \* OutPacketBuffer::maxSize, the fragmenter's buffer
    MaxOutput,       \* fMaxOutputPacketSize, the payload of an RTP packet
    SeqSpace, TsSpace,   \* sequence numbers and timestamps are unsigned numbers
    FirstSeq, FirstBase,   \* where they start (random)
    Frame,           \* time between two frames, by their pts
    MaxNalus, MaxPts, MaxQueue, MaxTime, MaxLost   \* bounds: NAL units, pts,
                     \* encoded packets not taken, clock, packets lost
                     \* one after another

\* A middle fragment needs room for a byte of data.
ASSUME SizeAssumption == MaxOutput \in Nat /\ MaxOutput >= 3 /\ BufferMax \in Nat \ {0}
ASSUME NumberAssumption ==
    /\ SeqSpace \in Nat \ {0} /\ FirstSeq \in 0..(SeqSpace - 1)
    /\ TsSpace \in Nat \ {0} /\ FirstBase \in 0..(TsSpace - 1)
    /\ Frame \in Nat /\ MaxPts \in Nat
\* A receiver does not notice a loss of 65536 packets in a row.
ASSUME LossAssumption == MaxLost \in Nat /\ MaxLost < SeqSpace
ASSUME PacketAssumption ==
    Packets \subseteq Seq([vcl : BOOLEAN, len : Nat, code : {"long", "short"}])
\* libx264: the long start codes come first in a packet; one slice per frame,
\* the last NAL unit of its packet.
ASSUME EncoderAssumption ==
    \A p \in Packets :
        /\ Len(p) > 0
        /\ \A i \in 1..Len(p) : p[i].len > 0 /\ (p[i].vcl <=> i = Len(p))
        /\ \A i, j \in 1..Len(p) : i < j /\ p[j].code = "long" => p[i].code = "long"

VARIABLES
    offered,         \* history: the NAL units made so far, with their frame
    src,             \* FFH264InputSource
    now,             \* gettimeofday
    stream,          \* the framer, the fragmenter and the sink of the client
    receiver,        \* external: what the client does with the packets
    last,            \* history: the packet sent last
    link,            \* history: what is known of the packet sent next
    lost             \* history: packets lost since one arrived

vars == <<offered, src, now, stream, receiver, last, link, lost>>

Byte(n, k) == [nalu |-> n, at |-> k, start |-> FALSE, end |-> FALSE]
NoByte == Byte(0, 0)

Bytes(n) == [k \in 1..offered[n].len |-> Byte(n, k)]

-----------------------------------------------------------------------------
(* The source.                                                             *)

\* The fields of src: encodedPackets, nalus_sending, used (the pts that the
\* packets of this capture have had), last_pts, last_tv (= pts_sending).
SourceInit == [encodedPackets |-> << >>, nalus_sending |-> << >>, used |-> {},
               last_pts |-> 0, last_tv |-> 0]

\* The encoder numbers the frames 0, 1, ... and may put out their packets in
\* another order (B frames).
Encode(p, pts) ==
    /\ Len(offered) + Len(p) <= MaxNalus /\ Len(src.encodedPackets) < MaxQueue
    /\ pts \notin src.used
    /\ LET unit == IF offered = << >> THEN 1 ELSE Last(offered).unit + 1
           units == [i \in 1..Len(p) |->
                        [n |-> Len(offered) + i, code |-> p[i].code]]
       IN  /\ offered' = offered \o [i \in 1..Len(p) |->
                             [len |-> p[i].len, vcl |-> p[i].vcl, unit |-> unit]]
           /\ src' = [src EXCEPT !.encodedPackets =
                                     Append(@, [pts |-> pts, units |-> units]),
                                 !.used = @ \cup {pts}]
    /\ UNCHANGED <<now, stream, receiver, last, link, lost>>

\* extractFrame in a packet's units from number i on: it looks for a long start
\* code first, also for the end.
LongFrom(units, i) == {j \in i..Len(units) : units[j].code = "long"}
FirstOf(units, i) == IF LongFrom(units, i) # {} THEN Min(LongFrom(units, i)) ELSE i
LastOf(units, i) == IF LongFrom(units, i + 1) # {} THEN Min(LongFrom(units, i + 1)) - 1 ELSE i

\* The bytes of units i to j: the start codes between them stay in.
Extracted(units, i, j) ==
    Bytes(units[i].n) \o
    FlattenSeq([k \in 1..(j - i) |-> <<Byte(units[i + k].n, -2)>> \o Bytes(units[i + k].n)])

splitNalu(units) ==
    LET f[i \in 1..(Len(units) + 1)] ==
            IF i > Len(units) THEN << >>
            ELSE LET b == FirstOf(units, i)
                     e == LastOf(units, b)
                 IN  <<Extracted(units, b, e)>> \o f[e + 1]
    IN  f[1]

HasNalu == src.nalus_sending # << >> \/ src.encodedPackets # << >>

\* doGetNextFrame up to the choice of the NAL unit.  A packet's presentation
\* time is that of the previous one, moved by the difference of their pts; the
\* clock, when last_pts is 0, which the first packet of a capture leaves.
NextPacket(t) ==
    IF src.nalus_sending # << >> THEN src
    ELSE LET pkt == Head(src.encodedPackets)
         IN  [src EXCEPT !.encodedPackets = Tail(@),
                         !.nalus_sending = splitNalu(pkt.units),
                         !.last_pts = pkt.pts,
                         !.last_tv = IF src.last_pts = 0 THEN t
                                     ELSE @ + (pkt.pts - src.last_pts) * Frame]

\* The source delivers a NAL unit at time t: the first of packet.nalus_sending.
Taken(packet) == [packet EXCEPT !.nalus_sending = Tail(@)]

\* startCapture after a stop: the pts start again; the queues are kept.
Restart ==
    /\ ~stream.playing
    /\ src.used # {}
    /\ src' = [src EXCEPT !.used = {}]
    /\ UNCHANGED <<offered, now, stream, receiver, last, link, lost>>

-----------------------------------------------------------------------------
(* The stream of the client.                                               *)

\* The fields of stream: playing (fAreCurrentlyPlaying), awaiting (the replica
\* is asked for a NAL unit), pictureEndMarker of the framer; of the fragmenter
\* fInputBuffer (its valid bytes; the C index is one less), fCurDataOffset,
\* fLastFragmentCompletedNALUnit and fPresentationTime; of the sink due (sendNext
\* is scheduled), fSeqNo, fTimestampBase, preset (fNextTimestampHasBeenPreset),
\* and packet, the packet that the handler sends (NoPacket between handlers).
NoPacket == [seq |-> -1, ts |-> 0, marker |-> FALSE, payload |-> << >>]

Reset(s) == [s EXCEPT !.fInputBuffer = <<NoByte>>, !.fCurDataOffset = 1,
                      !.fLastFragmentCompletedNALUnit = TRUE]

StreamInit ==
    [playing |-> FALSE, awaiting |-> FALSE, pictureEndMarker |-> FALSE,
     fInputBuffer |-> <<NoByte>>, fCurDataOffset |-> 1,
     fLastFragmentCompletedNALUnit |-> TRUE, fPresentationTime |-> 0,
     due |-> FALSE, fSeqNo |-> FirstSeq, fTimestampBase |-> FirstBase,
     preset |-> FALSE, packet |-> NoPacket]

\* The base that the next call of convertToRTPTimestamp uses for time t.
BaseFor(s, t) == IF s.preset THEN (s.fTimestampBase - t) % TsSpace ELSE s.fTimestampBase
convertToRTPTimestamp(s, t) == (BaseFor(s, t) + t) % TsSpace

\* The end of a frame: that of a NAL unit that the framer thinks ends it.
EndOfAnyFragment(s) == s.pictureEndMarker
EndsFrame(s) == s.fLastFragmentCompletedNALUnit /\ s.pictureEndMarker

\* afterGettingFrame1, doSpecialFrameHandling and sendPacketIfNecessary of the
\* sink: one frame (here, a fragment) per packet.
SentPacket(s, payload) ==
    LET t == s.fPresentationTime
        marker == EndsFrame(s)
    IN  [s EXCEPT !.packet = [seq |-> s.fSeqNo, ts |-> convertToRTPTimestamp(s, t),
                              marker |-> marker, payload |-> payload],
                  !.pictureEndMarker = @ /\ ~marker,
                  !.fTimestampBase = BaseFor(s, t),
                  !.preset = FALSE,
                  !.fSeqNo = (@ + 1) % SeqSpace,
                  !.due = TRUE]

\* What would be sent of a NAL unit from the offset on, with two header bytes.
RestWithOneHeader(valid, offset) == 1 + valid - offset
Rest(valid, offset) == 2 + valid - offset

\* doGetNextFrame of the fragmenter, when there is data: the fragment, the new
\* buffer and offset, and whether the NAL unit is complete.
Fragment(buffer, offset) ==
    LET valid == Len(buffer)
        indicator == [buffer[2] EXCEPT !.at = 0]
        header == [buffer[2] EXCEPT !.at = -1, !.start = TRUE]
        first == <<indicator, header>> \o SubSeq(buffer, 3, valid)
        rest == Rest(valid, offset)
        complete == rest <= MaxOutput
        size == IF complete THEN rest ELSE MaxOutput
        next == [buffer EXCEPT ![offset - 1] = buffer[1],
                               ![offset] = [buffer[2] EXCEPT !.start = FALSE,
                                                             !.end = complete]]
    IN  IF offset = 1 /\ valid - 1 <= MaxOutput
        THEN [payload |-> Tail(buffer), buffer |-> buffer, offset |-> valid, complete |-> TRUE]
        ELSE IF offset = 1
        THEN [payload |-> SubSeq(first, 1, MaxOutput), buffer |-> first,
              offset |-> MaxOutput, complete |-> FALSE]
        ELSE [payload |-> SubSeq(next, offset - 1, offset - 2 + size), buffer |-> next,
              offset |-> offset + (size - 2), complete |-> complete]

\* The fragment goes to the sink; then the buffer is empty if all of it is sent.
Delivered(s) ==
    LET f == Fragment(s.fInputBuffer, s.fCurDataOffset)
        done == f.offset >= Len(f.buffer)
    IN  SentPacket([s EXCEPT !.fInputBuffer = IF done THEN <<NoByte>> ELSE f.buffer,
                             !.fCurDataOffset = IF done THEN 1 ELSE f.offset,
                             !.fLastFragmentCompletedNALUnit = f.complete],
                   f.payload)

\* The replica answers: the framer guesses that a VCL NAL unit ends the frame,
\* the fragmenter keeps as much as its buffer holds, and delivers at once.
Answered(s, packet) ==
    LET bytes == Head(packet.nalus_sending)
        kept == SubSeq(bytes, 1, Min({Len(bytes), BufferMax}))
    IN  Delivered([s EXCEPT !.awaiting = FALSE,
                            !.pictureEndMarker = offered[bytes[1].nalu].vcl,
                            !.fInputBuffer = @ \o kept,
                            !.fPresentationTime = packet.last_tv])

\* presetNextTimestamp: the packet sent next is stamped with the clock.
Preset(s, t) == [s EXCEPT !.fTimestampBase = convertToRTPTimestamp(s, t), !.preset = TRUE]

-----------------------------------------------------------------------------
(* The receiver (external).                                                *)

\* The fields: next (the sequence number it expects), partial (the NAL unit it
\* puts together), got, gap.  A NAL unit that is not a prefix of one the encoder
\* made, of the length that the buffer holds, is Garbage.
Garbage == -1
ReceiverInit == [next |-> FirstSeq, partial |-> << >>, got |-> 0, gap |-> TRUE]

Complete(r, bytes) ==
    LET n == Head(bytes).nalu
        whole == SubSeq(Bytes(n), 1, Min({offered[n].len, BufferMax}))
    IN  [r EXCEPT !.got = IF bytes = whole THEN n ELSE Garbage,
                  !.gap = FALSE, !.partial = << >>]

Received(r, packet) ==
    LET s == [r EXCEPT !.next = (packet.seq + 1) % SeqSpace,
                       !.partial = IF packet.seq = r.next THEN @ ELSE << >>]
        head == Head(packet.payload)
        fu == packet.payload[2]
        data == SubSeq(packet.payload, 3, Len(packet.payload))
        partial == IF fu.start THEN <<Byte(fu.nalu, 1)>> \o data
                   ELSE IF s.partial = << >> THEN << >> ELSE s.partial \o data
    IN  IF head.at # 0 THEN Complete(s, packet.payload)
        ELSE IF fu.end /\ partial # << >> THEN Complete(s, partial)
        ELSE [s EXCEPT !.partial = partial]

\* The packet that the step has sent arrives or is lost.
Arrives(s) ==
    /\ stream' = [s EXCEPT !.packet = NoPacket]
    /\ last' = [seq |-> s.packet.seq, ts |-> s.packet.ts, marker |-> s.packet.marker,
                nalu |-> Head(s.packet.payload).nalu]
    /\ \/ receiver' = Received(receiver, s.packet) /\ lost' = 0
       \/ lost < MaxLost /\ lost' = lost + 1 /\ receiver' = [receiver EXCEPT !.gap = TRUE]

-----------------------------------------------------------------------------
(* The steps.                                                              *)

Clock == {t \in {now, now + 1} : t <= MaxTime}
NothingSent == [seq |-> -1, ts |-> 0, marker |-> FALSE, nalu |-> 0]
NotLinked == [is |-> "none", seq |-> 0, ts |-> 0]
Follows == [NotLinked EXCEPT !.is = "follows"]
Announced(s) == [is |-> "announced", seq |-> s.fSeqNo, ts |-> s.fTimestampBase]

Init == /\ offered = << >> /\ src = SourceInit /\ now = 1
        /\ stream = StreamInit /\ receiver = ReceiverInit
        /\ last = NothingSent
        /\ link = NotLinked /\ lost = 0

\* startStream for a stream that does not play: the sink asks for the first
\* fragment, which the replica may deliver at once; then the timestamp is preset,
\* and reported to the client together with the next sequence number.
Play(t) ==
    /\ ~stream.playing
    /\ now' = t
    /\ \/ /\ stream' = Preset([stream EXCEPT !.playing = TRUE, !.awaiting = TRUE], t)
          /\ UNCHANGED <<src, receiver, last, lost>>
       \/ LET packet == NextPacket(t)
          IN  /\ HasNalu
              /\ src' = Taken(packet)
              /\ Arrives(Preset(Answered([stream EXCEPT !.playing = TRUE], packet), t))
    /\ link' = Announced(stream')
    /\ UNCHANGED offered

\* A PLAY of a stream that plays: only the timestamp is preset.
PlayAgain(t) ==
    /\ stream.playing
    /\ now' = t
    /\ stream' = Preset(stream, t)
    /\ last' = NothingSent /\ link' = Announced(stream')
    /\ UNCHANGED <<offered, src, receiver, lost>>

\* StreamState::pause: sendNext is unscheduled, the request withdrawn, and the
\* fragmenter forgets what it has not sent.
Pause ==
    /\ stream.playing
    /\ stream' = [Reset(stream) EXCEPT !.playing = FALSE, !.awaiting = FALSE, !.due = FALSE]
    /\ receiver' = [receiver EXCEPT !.gap = TRUE]
    /\ last' = NothingSent /\ link' = NotLinked
    /\ UNCHANGED <<offered, src, now, lost>>

\* sendNext: the next fragment, or a request for a NAL unit.
SendNext ==
    /\ stream.due
    /\ LET s == [stream EXCEPT !.due = FALSE]
       IN  IF Len(s.fInputBuffer) > 1
           THEN Arrives(Delivered(s)) /\ link' = Follows
           ELSE /\ stream' = [s EXCEPT !.awaiting = TRUE]
                /\ UNCHANGED <<receiver, last, link, lost>>
    /\ UNCHANGED <<offered, src, now>>

\* The source, through the replicator, answers the request.
Deliver(t) ==
    /\ stream.awaiting /\ HasNalu
    /\ now' = t
    /\ LET packet == NextPacket(t)
       IN  src' = Taken(packet) /\ Arrives(Answered(stream, packet))
    /\ link' = Follows
    /\ UNCHANGED offered

\* While this stream is paused other replicas may read.
Skip(t) ==
    /\ ~stream.playing /\ HasNalu
    /\ now' = t
    /\ src' = Taken(NextPacket(t))
    /\ UNCHANGED <<offered, stream, receiver, last, link, lost>>

Next ==
    \/ \E p \in Packets, pts \in 0..MaxPts : Encode(p, pts)
    \/ Restart
    \/ \E t \in Clock : Play(t)
    \/ \E t \in Clock : PlayAgain(t)
    \/ \E t \in Clock : Deliver(t)
    \/ \E t \in Clock : Skip(t)
    \/ Pause
    \/ SendNext

Spec == Init /\ [][Next]_vars

-----------------------------------------------------------------------------
(* Properties.                                                             *)

\* The receiver gets the encoder's NAL units whole, in order and at most once,
\* and misses one only after a loss or a pause; one that is longer than the
\* fragmenter's buffer arrives without its end.  This is about the splitting of
\* packets, the fragmenter, which writes its headers over bytes that it has
\* sent, and the packets' numbers.
Promise == INSTANCE NaluStream WITH
               offered <- Len(offered), got <- receiver.got, gap <- receiver.gap
ImplementsNaluStream == Promise!Spec

\* Of two packets sent one after the other, the marker bit of the first says
\* whether the second begins another frame, and packets of one frame have one
\* timestamp; the packet after a PLAY has the number and the timestamp that the
\* client was told.  The framer guesses the end of a frame, the fragmenter the
\* end of its NAL unit, and a PLAY changes the base of the timestamps while the
\* fragments of a frame may still be waiting.
Unit(packet) == offered[packet.nalu].unit
FramesAreMarked ==
    [][last' # last /\ last' # NothingSent =>
          CASE link.is = "follows" ->
                   /\ last.marker <=> Unit(last') # Unit(last)
                   /\ Unit(last') = Unit(last) => last'.ts = last.ts
            [] link.is = "announced" ->
                   last'.seq = link.seq /\ last'.ts = link.ts
            [] OTHER -> TRUE]_vars
=============================================================================
