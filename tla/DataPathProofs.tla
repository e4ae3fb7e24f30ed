--------------------------- MODULE DataPathProofs ---------------------------
(***************************************************************************)
(* The way of the video data is a NaluStream, and its packets tell where   *)
(* frames end, for every size of buffer and packet, any number of packets  *)
(* and any widths of sequence numbers and timestamps (module DataPath).    *)
(* The operators come first: the fragmenter's arithmetic, remainders, the  *)
(* splitting of packets, fragments and the receiver; then what holds of    *)
(* the source, the stream and the receiver between two steps.              *)
(***************************************************************************)
EXTENDS DataPath, SequenceTheorems, WellFoundedInduction, TLAPS

Octet == [nalu : Nat, at : Int, start : BOOLEAN, end : BOOLEAN]

\* How the fragment f continues a buffer whose bytes up to the offset are sent.
\* It fits into a packet; the offset moves on, to the end exactly in the last
\* fragment; what is not sent yet is not overwritten by the headers; and the
\* payload holds, after its two headers, the bytes between the offsets.
Continues(f, buffer, offset) ==
    /\ Len(f.payload) \in 1..MaxOutput
    /\ f.buffer \in Seq(Octet) /\ Len(f.buffer) = Len(buffer)
    /\ f.offset \in (offset + 1)..Len(buffer)
    /\ f.complete <=> f.offset = Len(buffer)
    /\ \A k \in (f.offset + 1)..Len(buffer) : f.buffer[k] = buffer[k]
    /\ offset = 1 /\ f.complete => f.payload = Tail(buffer)
    /\ offset = 1 /\ ~f.complete => /\ Len(f.payload) = f.offset
                                    /\ \A i \in 3..Len(f.payload) : f.payload[i] = buffer[i]
    /\ offset > 1 => /\ Len(f.payload) = 2 + f.offset - offset
                     /\ \A i \in 3..Len(f.payload) : f.payload[i] = buffer[offset - 2 + i]

\* A buffer with data: the header of the NAL unit, at index 2, and more; the
\* offset of a buffer that is partly sent is at least that of its header.
HasData(buffer, offset) ==
    /\ buffer \in Seq(Octet) /\ Len(buffer) >= 2
    /\ offset \in 1..(Len(buffer) - 1)

\* The header bytes that are made of the NAL unit's header.
LEMMA HeaderBytes ==
    ASSUME NEW b \in Octet, NEW c \in BOOLEAN
    PROVE  /\ [b EXCEPT !.at = 0] \in Octet
           /\ [b EXCEPT !.at = -1, !.start = TRUE] \in Octet
           /\ [b EXCEPT !.start = FALSE, !.end = c] \in Octet
<1>1. [b EXCEPT !.at = 0] \in Octet
  BY DEF Octet
<1>2. [b EXCEPT !.at = -1, !.start = TRUE] \in Octet
  <2>1. -1 \in Int
    OBVIOUS
  <2> QED
    BY <2>1 DEF Octet
<1>3. [b EXCEPT !.start = FALSE, !.end = c] \in Octet
  BY DEF Octet
<1> QED
  BY <1>1, <1>2, <1>3

\* Every fragment continues the buffer, whatever the sizes.  This is
\* H264or5Fragmenter::doGetNextFrame, its three cases.
THEOREM FragmentContinues ==
    ASSUME NEW buffer, NEW offset, HasData(buffer, offset)
    PROVE  Continues(Fragment(buffer, offset), buffer, offset)
<1> DEFINE valid == Len(buffer)
           indicator == [buffer[2] EXCEPT !.at = 0]
           header == [buffer[2] EXCEPT !.at = -1, !.start = TRUE]
           first == <<indicator, header>> \o SubSeq(buffer, 3, valid)
           complete == Rest(valid, offset) <= MaxOutput
           size == IF complete THEN Rest(valid, offset) ELSE MaxOutput
           next == [buffer EXCEPT ![offset - 1] = buffer[1],
                                  ![offset] = [buffer[2] EXCEPT !.start = FALSE,
                                                                !.end = complete]]
           f == Fragment(buffer, offset)
<1>0. /\ buffer \in Seq(Octet) /\ valid \in Nat /\ valid >= 2
      /\ offset \in Nat /\ offset >= 1 /\ offset < valid
      /\ MaxOutput \in Nat /\ MaxOutput >= 3
      /\ buffer[1] \in Octet /\ buffer[2] \in Octet
  BY SizeAssumption DEF HasData
<1>1. CASE offset = 1 /\ valid - 1 <= MaxOutput
  <2>1. /\ f.payload = Tail(buffer) /\ f.buffer = buffer
        /\ f.offset = valid /\ f.complete = TRUE
    BY <1>1 DEF Fragment
  <2>2. Len(Tail(buffer)) = valid - 1
    BY <1>0
  <2>3. Continues(f, buffer, offset)
    <3> HIDE DEF f
    <3> QED BY <1>0, <1>1, <2>1, <2>2 DEF Continues
  <2> QED
    BY <2>3
<1>2. CASE offset = 1 /\ ~(valid - 1 <= MaxOutput)
  <2>1. /\ f.payload = SubSeq(first, 1, MaxOutput) /\ f.buffer = first
        /\ f.offset = MaxOutput /\ f.complete = FALSE
    BY <1>2 DEF Fragment
  <2>2. indicator \in Octet /\ header \in Octet
    BY <1>0, HeaderBytes
  <2>3. /\ SubSeq(buffer, 3, valid) \in Seq(Octet)
        /\ Len(SubSeq(buffer, 3, valid)) = valid - 2
        /\ \A i \in 1..(valid - 2) : SubSeq(buffer, 3, valid)[i] = buffer[i + 2]
    BY <1>0, <1>2
  <2>4. <<indicator, header>> \in Seq(Octet) /\ Len(<<indicator, header>>) = 2
    BY <2>2
  <2>5. /\ first \in Seq(Octet) /\ Len(first) = valid
        /\ \A k \in 3..valid : first[k] = buffer[k]
    <3> HIDE DEF indicator, header
    <3> QED BY <1>0, <2>3, <2>4
  <2>6. /\ Len(SubSeq(first, 1, MaxOutput)) = MaxOutput
        /\ \A i \in 3..MaxOutput : SubSeq(first, 1, MaxOutput)[i] = buffer[i]
    <3> HIDE DEF first
    <3> QED BY <1>0, <1>2, <2>5
  <2>7. Continues(f, buffer, offset)
    <3> HIDE DEF f, first
    <3> QED BY <1>0, <1>2, <2>1, <2>5, <2>6 DEF Continues
  <2> QED
    BY <2>7
<1>3. CASE offset # 1
  <2>1. /\ f.payload = SubSeq(next, offset - 1, offset - 2 + size) /\ f.buffer = next
        /\ f.offset = offset + (size - 2) /\ f.complete = complete
    BY <1>3 DEF Fragment
  <2>2. /\ size \in 3..MaxOutput /\ offset + (size - 2) \in (offset + 1)..valid
        /\ complete <=> offset + (size - 2) = valid
    BY <1>0, <1>3 DEF Rest
  <2>3. [buffer[2] EXCEPT !.start = FALSE, !.end = complete] \in Octet
    <3>1. complete \in BOOLEAN
      OBVIOUS
    <3> HIDE DEF complete
    <3> QED BY <1>0, <3>1, HeaderBytes
  <2>4. /\ next \in Seq(Octet) /\ Len(next) = valid
        /\ \A k \in (offset + 1)..valid : next[k] = buffer[k]
    <3> HIDE DEF complete
    <3> QED BY <1>0, <1>3, <2>3
  <2>5. /\ Len(SubSeq(next, offset - 1, offset - 2 + size)) = size
        /\ \A i \in 3..size : SubSeq(next, offset - 1, offset - 2 + size)[i]
                                  = buffer[offset - 2 + i]
    <3> HIDE DEF next, size, complete
    <3>1. /\ offset - 1 \in Nat \ {0} /\ size \in Nat
          /\ offset - 2 + size \in Nat /\ offset - 2 + size <= valid
      BY <1>0, <1>3, <2>2
    <3>2. /\ Len(SubSeq(next, offset - 1, offset - 2 + size)) = size
          /\ \A i \in 1..size : SubSeq(next, offset - 1, offset - 2 + size)[i]
                                    = next[offset - 2 + i]
      BY <1>0, <2>4, <3>1
    <3> QED
      BY <1>0, <2>2, <2>4, <3>1, <3>2
  <2>6. Continues(f, buffer, offset)
    <3> HIDE DEF f, next, size, complete
    <3>1. size \in 1..MaxOutput /\ size = 2 + f.offset - offset
      BY <1>0, <2>1, <2>2
    <3>2. f.complete <=> f.offset = Len(buffer)
      BY <2>1, <2>2, Zenon
    <3>3. /\ f.offset \in (offset + 1)..Len(buffer)
          /\ \A k \in (f.offset + 1)..Len(buffer) : f.buffer[k] = buffer[k]
      BY <1>0, <2>1, <2>2, <2>4
    <3>4. /\ Len(f.payload) = size
          /\ \A i \in 3..Len(f.payload) : f.payload[i] = buffer[offset - 2 + i]
      BY <2>1, <2>5, Zenon
    <3>5. offset > 1 /\ offset # 1
      BY <1>0, <1>3
    <3> QED
      BY <2>1, <2>4, <3>1, <3>2, <3>3, <3>4, <3>5, Zenon DEF Continues
  <2> QED
    BY <2>6
<1> QED
  BY <1>1, <1>2, <1>3

-----------------------------------------------------------------------------
(* Numbers.                                                                *)

\* A remainder, and the number it is the remainder of.
LEMMA ModParts ==
  ASSUME NEW m \in Nat \ {0}, NEW a \in Int
  PROVE  a = m * (a \div m) + (a % m) /\ a \div m \in Int /\ a % m \in 0..(m - 1)
OBVIOUS

\* A number is divided in one way.
LEMMA ModUnique ==
  ASSUME NEW m \in Nat \ {0}, NEW q \in Int, NEW p \in Int,
         NEW r \in 0..(m - 1), NEW s \in 0..(m - 1), m * q + r = m * p + s
  PROVE  q = p /\ r = s
OBVIOUS

LEMMA ModSmall ==
  ASSUME NEW m \in Nat \ {0}, NEW a \in 0..(m - 1)
  PROVE  a % m = a
OBVIOUS

\* The number after a.
LEMMA ModNext ==
  ASSUME NEW m \in Nat \ {0}, NEW a \in 0..(m - 1)
  PROVE  (a + 1) % m = IF a + 1 = m THEN 0 ELSE a + 1
OBVIOUS

\* A timestamp whose base was set back by t is at t what it was told.
LEMMA ModBack ==
  ASSUME NEW m \in Nat \ {0}, NEW b \in 0..(m - 1), NEW t \in Int
  PROVE  (((b - t) % m) + t) % m = b
<1> DEFINE r == (b - t) % m
           q == (b - t) \div m
           s == (r + t) % m
           p == (r + t) \div m
<1>1. b - t = m * q + r /\ q \in Int /\ r \in 0..(m - 1)
  <2>1. b - t \in Int
    OBVIOUS
  <2> HIDE DEF q, r
  <2>2. \A a \in Int : a = m * (a \div m) + (a % m) /\ a \div m \in Int /\ a % m \in 0..(m - 1)
    BY ModParts
  <2>3. QED
    BY <2>1, <2>2 DEF q, r
<1>2. r + t = m * p + s /\ p \in Int /\ s \in 0..(m - 1)
  BY <1>1, ModParts
<1> HIDE DEF r, q, s, p
<1>3. m * 0 + b = m * (q + p) + s
  BY <1>1, <1>2
<1>4. b = s
  <2>1. 0 \in Int /\ q + p \in Int
    BY <1>1, <1>2
  <2>2. QED
    BY <1>2, <1>3, <2>1, ModUnique
<1>5. QED
  BY <1>4 DEF s, r

\* The smaller of two numbers.
LEMMA MinOfTwo ==
  ASSUME NEW a \in Int, NEW b \in Int
  PROVE  Min({a, b}) = IF a <= b THEN a ELSE b
<1>1. \E m \in {a, b} : \A y \in {a, b} : m <= y
  OBVIOUS
<1>2. PICK m : m = Min({a, b})
  OBVIOUS
<1>3. m \in {a, b} /\ \A y \in {a, b} : m <= y
  BY <1>1, <1>2 DEF Min
<1>4. QED
  BY <1>2, <1>3

-----------------------------------------------------------------------------
(* The splitting of packets.                                               *)

Codes == {"long", "short"}
Units == [n : Nat, code : Codes]
NalusMade == Seq([len : Nat \ {0}, vcl : BOOLEAN, unit : Nat])

\* NAL units with a long start code come first.
LongFirst(u) ==
    \A i, j \in 1..Len(u) : i < j /\ u[j].code = "long" => u[i].code = "long"

\* In such a packet a NAL unit begins where the search begins, and ends before the
\* next one.
LEMMA UnitByUnit ==
  ASSUME NEW u \in Seq(Units), LongFirst(u), NEW i \in 1..Len(u)
  PROVE  FirstOf(u, i) = i /\ LastOf(u, i) = i
<1>0. Len(u) \in Nat /\ i \in Nat
  OBVIOUS
<1>1. ASSUME NEW k \in 1..(Len(u) + 1), LongFrom(u, k) # {}
      PROVE  Min(LongFrom(u, k)) = k
  <2>1. PICK j \in LongFrom(u, k) : TRUE
    BY <1>1
  <2>2. j \in k..Len(u) /\ u[j].code = "long"
    BY <2>1 DEF LongFrom
  <2>3. k \in 1..Len(u) /\ u[k].code = "long"
    BY <1>0, <2>2 DEF LongFirst
  <2>4. k \in LongFrom(u, k) /\ \A y \in LongFrom(u, k) : k <= y
    BY <1>0, <2>3 DEF LongFrom
  <2>5. PICK m : m = Min(LongFrom(u, k))
    OBVIOUS
  <2>6. m \in LongFrom(u, k) /\ \A y \in LongFrom(u, k) : m <= y
    BY <2>4, <2>5 DEF Min
  <2>7. m \in Int
    BY <2>6, <1>0 DEF LongFrom
  <2>8. m = k
    BY <2>4, <2>6, <2>7, <1>0
  <2>9. QED
    BY <2>5, <2>8
<1>2. FirstOf(u, i) = i
  BY <1>0, <1>1 DEF FirstOf
<1>3. LastOf(u, i) = i
  BY <1>0, <1>1 DEF LastOf
<1>4. QED
  BY <1>2, <1>3

\* The first k bytes of NAL unit n.
Prefix(n, k) == [i \in 1..k |-> Byte(n, i)]

LEMMA PrefixProperties ==
  ASSUME NEW n \in Nat, NEW k \in Nat
  PROVE  /\ Prefix(n, k) \in Seq(Octet) /\ Len(Prefix(n, k)) = k
         /\ \A i \in 1..k : Prefix(n, k)[i] = Byte(n, i)
<1>1. \A i \in 1..k : Byte(n, i) \in Octet
  BY DEF Byte, Octet
<1>2. QED
  BY <1>1 DEF Prefix

\* Between the first and the last byte of one NAL unit there is no start code.
LEMMA ExtractedOne ==
  ASSUME NEW u, NEW i \in Nat, u[i].n \in Nat, offered[u[i].n].len \in Nat
  PROVE  Extracted(u, i, i) = Bytes(u[i].n)
<1> DEFINE codes == [k \in 1..(i - i) |-> <<Byte(u[i + k].n, -2)>> \o Bytes(u[i + k].n)]
<1>1. codes = << >>
  <2>1. 1..(i - i) = {}
    OBVIOUS
  <2>2. QED
    BY <2>1
<1> HIDE DEF codes
<1>2. FlattenSeq(codes) = << >>
  BY <1>1 DEF FlattenSeq
<1>3. Bytes(u[i].n) \in Seq(Octet)
  BY PrefixProperties DEF Bytes, Prefix
<1>4. Bytes(u[i].n) \o << >> = Bytes(u[i].n)
  BY <1>3
<1>5. QED
  BY <1>2, <1>4 DEF Extracted, codes

\* The packet is split into exactly its NAL units.
THEOREM SplitIsWhole ==
  ASSUME NEW u \in Seq(Units), LongFirst(u),
         \A i \in 1..Len(u) : offered[u[i].n].len \in Nat
  PROVE  splitNalu(u) = [i \in 1..Len(u) |-> Bytes(u[i].n)]
<1> DEFINE P == 1..(Len(u) + 1)
           step(f, i) == IF i > Len(u) THEN << >>
                         ELSE LET b == FirstOf(u, i)
                                  e == LastOf(u, b)
                              IN  <<Extracted(u, b, e)>> \o f[e + 1]
           g == [i \in P |-> [k \in 1..(Len(u) + 1 - i) |-> Bytes(u[i + k - 1].n)]]
           split == CHOOSE f : f = [i \in P |-> step(f, i)]
<1>0. Len(u) \in Nat
  OBVIOUS
<1>1. splitNalu(u) = split[1]
  BY Zenon DEF splitNalu
<1>2. ASSUME NEW f, NEW i \in 1..Len(u)
      PROVE  step(f, i) = <<Bytes(u[i].n)>> \o f[i + 1]
  <2>1. FirstOf(u, i) = i /\ LastOf(u, i) = i
    BY UnitByUnit
  <2>2. u[i].n \in Nat /\ i \in Nat
    <3>1. u[i] \in Units
      BY <1>0
    <3>2. QED
      BY <3>1 DEF Units
  <2>3. Extracted(u, i, i) = Bytes(u[i].n)
    BY <2>2, ExtractedOne
  <2>4. QED
    BY <1>0, <2>1, <2>3
<1>3. \A f : step(f, Len(u) + 1) = << >>
  BY <1>0
<1> HIDE DEF step
<1>4. ASSUME NEW i \in 1..Len(u)
      PROVE  g[i] = <<Bytes(u[i].n)>> \o g[i + 1]
  <2> DEFINE n == Len(u) + 1 - i
  <2>1. n \in Nat /\ n >= 1 /\ i \in P /\ i + 1 \in P
    BY <1>0
  <2>2. g[i] = [k \in 1..n |-> Bytes(u[i + k - 1].n)]
    BY <2>1
  <2>3. g[i + 1] = [k \in 1..(n - 1) |-> Bytes(u[i + 1 + k - 1].n)]
    BY <2>1
  <2>4. QED
    BY <2>1, <2>2, <2>3, SMTT(60)
<1>5. g = [i \in P |-> step(g, i)]
  <2>1. ASSUME NEW i \in P
        PROVE  g[i] = step(g, i)
    <3>1. CASE i = Len(u) + 1
      <4>1. g[i] = [k \in 1..0 |-> Bytes(u[i + k - 1].n)]
        BY <1>0, <3>1
      <4>2. g[i] = << >>
        BY <4>1
      <4>3. QED
        BY <1>3, <3>1, <4>2
    <3>2. CASE i \in 1..Len(u)
      BY <1>2, <1>4, <3>2
    <3>3. QED
      BY <1>0, <3>1, <3>2
  <2> HIDE DEF P
  <2>2. g = [i \in P |-> g[i]]
    OBVIOUS
  <2> HIDE DEF g
  <2>3. [i \in P |-> g[i]] = [i \in P |-> step(g, i)]
    BY <2>1, Zenon
  <2>4. QED
    BY <2>2, <2>3
<1>6. split = [i \in P |-> step(split, i)]
  <2> HIDE DEF g, P
  <2>1. \E f : f = [i \in P |-> step(f, i)]
    BY <1>5
  <2>2. QED
    BY <2>1, Zenon
<1> HIDE DEF split, g
<1>7. ASSUME NEW i \in P
      PROVE  split[i] = step(split, i)
  <2> HIDE DEF P
  <2>1. QED
    BY <1>6, <1>7, Zenon
<1>8. \A k \in 0..Len(u) : split[Len(u) + 1 - k] = g[Len(u) + 1 - k]
  <2> DEFINE Wrong == {k \in 0..Len(u) : split[Len(u) + 1 - k] # g[Len(u) + 1 - k]}
  <2>1. SUFFICES ASSUME Wrong # {} PROVE FALSE
    OBVIOUS
  <2>2. Wrong \subseteq Nat
    BY <1>0
  <2> HIDE DEF Wrong
  <2>3. PICK k \in Wrong : \A j \in Wrong : ~(j < k)
    <3>1. PICK k \in Wrong : \A j \in Wrong : <<j, k>> \notin OpToRel(<, Nat)
      BY <2>1, <2>2, WFMin, NatLessThanWellFounded
    <3>2. \A j \in Wrong : <<j, k>> \notin {ss \in Nat \X Nat : ss[1] < ss[2]}
      BY <3>1 DEF OpToRel
    <3>3. QED
      BY <2>2, <3>2
  <2>4. k \in 0..Len(u) /\ split[Len(u) + 1 - k] # g[Len(u) + 1 - k]
    BY DEF Wrong
  <2>5. CASE k = 0
    <3>1. Len(u) + 1 \in P
      BY <1>0
    <3>2. split[Len(u) + 1] = << >> /\ g[Len(u) + 1] = << >>
      BY <1>3, <1>5, <1>7, <3>1, Zenon
    <3>3. QED
      BY <1>0, <2>4, <2>5, <3>2
  <2>6. CASE k # 0
    <3> DEFINE i == Len(u) + 1 - k
    <3>1. i \in 1..Len(u) /\ i \in P /\ k - 1 \in 0..Len(u) /\ i + 1 = Len(u) + 1 - (k - 1)
      BY <1>0, <2>4, <2>6
    <3>2. k - 1 \notin Wrong
      BY <1>0, <2>3, <2>4
    <3>3. split[i + 1] = g[i + 1]
      BY <3>1, <3>2 DEF Wrong
    <3> HIDE DEF i
    <3>4. split[i] = step(split, i)
      BY <1>7, <3>1
    <3>5. step(split, i) = <<Bytes(u[i].n)>> \o split[i + 1]
      BY <1>2, <3>1
    <3>6. split[i] = g[i]
      BY <1>4, <3>1, <3>3, <3>4, <3>5, Zenon
    <3>7. QED
      BY <2>4, <3>6 DEF i
  <2>7. QED
    BY <2>5, <2>6
<1>9. split[1] = g[1]
  <2>1. Len(u) \in 0..Len(u) /\ Len(u) + 1 - Len(u) = 1
    BY <1>0
  <2>2. QED
    BY <1>8, <2>1
<1>10. g[1] = [i \in 1..Len(u) |-> Bytes(u[i].n)]
  <2>1. g[1] = [k \in 1..Len(u) |-> Bytes(u[1 + k - 1].n)]
    BY <1>0 DEF g
  <2>2. \A k \in 1..Len(u) : 1 + k - 1 = k
    OBVIOUS
  <2>3. [k \in 1..Len(u) |-> Bytes(u[1 + k - 1].n)] = [k \in 1..Len(u) |-> Bytes(u[k].n)]
    BY <2>2
  <2>4. QED
    BY <2>1, <2>3
<1>11. QED
  BY <1>1, <1>9, <1>10

-----------------------------------------------------------------------------
(* The fragmenter and the receiver.                                        *)

\* What the fragmenter's buffer holds of NAL unit n.
Size(n) == IF offered[n].len <= BufferMax THEN offered[n].len ELSE BufferMax

\* Of NAL unit n the buffer b has been sent up to the offset o.
Loaded(b, o, n) ==
    /\ b \in Seq(Octet) /\ Len(b) = 1 + Size(n) /\ o \in 1..(Len(b) - 1)
    /\ o > 1 => b[1].nalu = n /\ b[1].at = 0 /\ b[2].nalu = n
    /\ \A k \in (o + 1)..Len(b) : b[k] = Byte(n, k - 1)

\* The payload of a packet with all of NAL unit n, and with a fragment of it.
Single(p, n) == p = Prefix(n, Size(n))
FragmentOf(p, n, from, to) ==
    /\ p \in Seq(Octet) /\ Len(p) >= 3
    /\ p[1].nalu = n /\ p[1].at = 0 /\ p[2].nalu = n
    /\ p[2].start <=> from = 1
    /\ p[2].end <=> to = 1 + Size(n)
    /\ LET first == IF from = 1 THEN 2 ELSE from
       IN  SubSeq(p, 3, Len(p)) = [i \in 1..(to - first) |-> Byte(n, first - 1 + i)]

\* The headers of the fragments name the NAL unit and say where they belong.
LEMMA FragmentHeaders ==
  ASSUME NEW n \in Nat, NEW b, NEW o, Loaded(b, o, n)
  PROVE  LET f == Fragment(b, o)
         IN  /\ ~f.complete => f.buffer[1].nalu = n /\ f.buffer[1].at = 0 /\ f.buffer[2].nalu = n
             /\ \/ o = 1 /\ f.complete
                \/ /\ f.payload[1].nalu = n /\ f.payload[1].at = 0 /\ f.payload[2].nalu = n
                   /\ f.payload[2].start = (o = 1) /\ f.payload[2].end = f.complete
                   /\ f.payload \in Seq(Octet) /\ Len(f.payload) >= 3
<1> DEFINE valid == Len(b)
           indicator == [b[2] EXCEPT !.at = 0]
           header == [b[2] EXCEPT !.at = -1, !.start = TRUE]
           first == <<indicator, header>> \o SubSeq(b, 3, valid)
           complete == Rest(valid, o) <= MaxOutput
           size == IF complete THEN Rest(valid, o) ELSE MaxOutput
           second == [b[2] EXCEPT !.start = FALSE, !.end = complete]
           next == [b EXCEPT ![o - 1] = b[1], ![o] = second]
           f == Fragment(b, o)
<1>0. /\ b \in Seq(Octet) /\ valid \in Nat /\ valid >= 2 /\ o \in Nat /\ o >= 1 /\ o < valid
      /\ MaxOutput \in Nat /\ MaxOutput >= 3 /\ b[1] \in Octet /\ b[2] \in Octet
  <2>1. b \in Seq(Octet) /\ valid \in Nat /\ o \in Nat /\ o >= 1 /\ o < valid
    BY DEF Loaded
  <2>2. QED
    BY <2>1, SizeAssumption
<1>1. CASE o = 1 /\ valid - 1 <= MaxOutput
  <2>1. f.complete = TRUE
    BY <1>1 DEF Fragment
  <2>2. QED
    BY <1>1, <2>1
<1>2. CASE o = 1 /\ ~(valid - 1 <= MaxOutput)
  <2>1. /\ f.payload = SubSeq(first, 1, MaxOutput) /\ f.buffer = first /\ f.complete = FALSE
    BY <1>2 DEF Fragment
  <2>2. indicator \in Octet /\ header \in Octet
    BY <1>0, HeaderBytes
  <2>3. b[2] = Byte(n, 1)
    <3>1. 2 \in (o + 1)..Len(b)
      BY <1>0, <1>2
    <3>2. QED
      BY <3>1 DEF Loaded
  <2>4. /\ indicator.nalu = n /\ indicator.at = 0
        /\ header.nalu = n /\ header.start = TRUE /\ header.end = FALSE
    BY <2>3 DEF Byte
  <2>5. /\ SubSeq(b, 3, valid) \in Seq(Octet) /\ Len(SubSeq(b, 3, valid)) = valid - 2
    BY <1>0, <1>2
  <2> HIDE DEF indicator, header
  <2>6. /\ first \in Seq(Octet) /\ Len(first) = valid
        /\ first[1] = indicator /\ first[2] = header
    BY <1>0, <2>2, <2>5
  <2> HIDE DEF first, f
  <2>7. /\ f.payload \in Seq(Octet) /\ Len(f.payload) = MaxOutput
        /\ f.payload[1] = indicator /\ f.payload[2] = header
    BY <1>0, <1>2, <2>1, <2>6
  <2>8. (o = 1) = TRUE /\ Len(f.payload) >= 3
    BY <1>0, <1>2, <2>7
  <2>9. f.payload[2].start = (o = 1) /\ f.payload[2].end = f.complete
    BY <2>1, <2>4, <2>7, <2>8, Zenon
  <2>10. f.buffer[1].nalu = n /\ f.buffer[1].at = 0 /\ f.buffer[2].nalu = n
    BY <2>1, <2>4, <2>6, Zenon
  <2>11. f.payload[1].nalu = n /\ f.payload[1].at = 0 /\ f.payload[2].nalu = n
    BY <2>4, <2>7, Zenon
  <2>12. QED
    BY <2>7, <2>8, <2>9, <2>10, <2>11, Zenon DEF f
<1>3. CASE o # 1
  <2>1. /\ f.payload = SubSeq(next, o - 1, o - 2 + size) /\ f.buffer = next
        /\ f.complete = complete
    BY <1>3 DEF Fragment
  <2>2. /\ size \in 3..MaxOutput /\ o - 2 + size \in 1..valid /\ o - 1 \in 1..valid
    BY <1>0, <1>3 DEF Rest
  <2>3. complete \in BOOLEAN
    OBVIOUS
  <2> HIDE DEF complete
  <2>4. /\ second \in Octet /\ second.nalu = b[2].nalu
        /\ second.start = FALSE /\ second.end = complete
    <3>1. second \in Octet
      BY <1>0, <2>3, HeaderBytes
    <3>2. second.nalu = b[2].nalu /\ second.start = FALSE /\ second.end = complete
      BY <1>0 DEF Octet
    <3>3. QED
      BY <3>1, <3>2
  <2>5. b[1].nalu = n /\ b[1].at = 0 /\ b[2].nalu = n
    BY <1>0, <1>3 DEF Loaded
  <2> HIDE DEF second, size, f
  <2>6. /\ next \in Seq(Octet) /\ Len(next) = valid
        /\ next[o - 1] = b[1] /\ next[o] = second
        /\ \A k \in 1..2 : k # o - 1 /\ k # o => next[k] = b[k]
    BY <1>0, <1>3, <2>4
  <2> HIDE DEF next
  <2>7. /\ f.payload \in Seq(Octet) /\ Len(f.payload) = size
        /\ f.payload[1] = b[1] /\ f.payload[2] = second
    <3>1. SubSeq(next, o - 1, o - 2 + size) \in Seq(Octet)
      BY <2>2, <2>6
    <3>2. Len(SubSeq(next, o - 1, o - 2 + size)) = size
      BY <1>0, <2>2, <2>6
    <3>3. \A i \in 1..2 : SubSeq(next, o - 1, o - 2 + size)[i] = next[o - 2 + i]
      BY <1>0, <2>2, <2>6
    <3>4. o - 2 + 1 = o - 1 /\ o - 2 + 2 = o
      BY <1>0
    <3>5. 1 \in 1..2 /\ 2 \in 1..2
      OBVIOUS
    <3>6. f.payload[1] = b[1] /\ f.payload[2] = second
      BY <2>1, <2>6, <3>3, <3>4, <3>5, Zenon
    <3>7. QED
      BY <2>1, <3>1, <3>2, <3>6, Zenon
  <2>8. next[1].nalu = n /\ next[1].at = 0
    <3>1. CASE o = 2
      BY <2>5, <2>6, <3>1
    <3>2. CASE o # 2
      BY <1>0, <1>3, <2>5, <2>6, <3>2
    <3>3. QED
      BY <3>1, <3>2
  <2>9. next[2].nalu = n
    <3>1. CASE o = 2
      BY <2>4, <2>5, <2>6, <3>1
    <3>2. CASE o = 3
      BY <2>5, <2>6, <3>2
    <3>3. CASE o # 2 /\ o # 3
      BY <1>0, <1>3, <2>5, <2>6, <3>3
    <3>4. QED
      BY <3>1, <3>2, <3>3
  <2>10. (o = 1) = FALSE
    BY <1>3
  <2>11. /\ f.payload[2].start = (o = 1) /\ f.payload[2].end = f.complete
    BY <2>1, <2>4, <2>7, <2>10, Zenon
  <2>12. f.payload[1].nalu = n /\ f.payload[1].at = 0 /\ f.payload[2].nalu = n
    BY <2>4, <2>5, <2>7, Zenon
  <2>13. f.payload \in Seq(Octet) /\ Len(f.payload) >= 3
    BY <2>2, <2>7
  <2>14. QED
    BY <2>1, <2>8, <2>9, <2>11, <2>12, <2>13, Zenon DEF f
<1>4. QED
  BY <1>1, <1>2, <1>3

\* A fragment of NAL unit n is the bytes between the offsets, and leaves the rest.
LEMMA Fragmented ==
  ASSUME NEW n \in Nat, Size(n) \in Nat, NEW b, NEW o, Loaded(b, o, n)
  PROVE  LET f == Fragment(b, o)
         IN  /\ f.offset \in (o + 1)..Len(b) /\ Len(f.buffer) = Len(b)
             /\ f.complete <=> f.offset = Len(b)
             /\ ~f.complete => Loaded(f.buffer, f.offset, n) /\ f.offset > 1
             /\ o = 1 /\ f.complete => Single(f.payload, n)
             /\ ~(o = 1 /\ f.complete) => FragmentOf(f.payload, n, o, f.offset)
<1> DEFINE f == Fragment(b, o)
           first == IF o = 1 THEN 2 ELSE o
           data == SubSeq(f.payload, 3, Len(f.payload))
           bytes == [i \in 1..(f.offset - first) |-> Byte(n, first - 1 + i)]
<1>0. /\ b \in Seq(Octet) /\ Len(b) \in Nat /\ o \in Nat /\ o >= 1 /\ o < Len(b)
      /\ HasData(b, o)
  BY DEF Loaded, HasData
<1>1. Continues(f, b, o)
  BY <1>0, FragmentContinues
<1>2. /\ ~f.complete => f.buffer[1].nalu = n /\ f.buffer[1].at = 0 /\ f.buffer[2].nalu = n
      /\ \/ o = 1 /\ f.complete
         \/ /\ f.payload[1].nalu = n /\ f.payload[1].at = 0 /\ f.payload[2].nalu = n
            /\ f.payload[2].start = (o = 1) /\ f.payload[2].end = f.complete
            /\ f.payload \in Seq(Octet) /\ Len(f.payload) >= 3
  BY FragmentHeaders
<1> HIDE DEF f
<1>3. /\ f.offset \in (o + 1)..Len(b) /\ Len(f.buffer) = Len(b) /\ f.buffer \in Seq(Octet)
      /\ f.complete <=> f.offset = Len(b)
      /\ \A k \in (f.offset + 1)..Len(b) : f.buffer[k] = b[k]
  BY <1>1 DEF Continues
<1>4. ASSUME ~f.complete
      PROVE  Loaded(f.buffer, f.offset, n) /\ f.offset > 1
  <2>1. f.offset \in 1..(Len(b) - 1) /\ f.offset > 1
    BY <1>0, <1>3, <1>4
  <2>2. \A k \in (f.offset + 1)..Len(b) : f.buffer[k] = Byte(n, k - 1)
    <3>1. \A k \in (f.offset + 1)..Len(b) : k \in (o + 1)..Len(b)
      BY <1>0, <1>3
    <3>2. QED
      BY <1>3, <3>1 DEF Loaded
  <2>3. QED
    BY <1>2, <1>3, <1>4, <2>1, <2>2 DEF Loaded
<1>5. ASSUME o = 1, f.complete
      PROVE  Single(f.payload, n)
  <2>1. f.payload = Tail(b)
    BY <1>1, <1>5 DEF Continues
  <2>2. Size(n) \in Nat /\ Len(b) = 1 + Size(n)
    BY <1>0 DEF Loaded
  <2>3. /\ Tail(b) \in Seq(Octet) /\ Len(Tail(b)) = Size(n)
        /\ \A i \in 1..Size(n) : Tail(b)[i] = b[i + 1]
    BY <1>0, <2>2
  <2>4. \A i \in 1..Size(n) : b[i + 1] = Byte(n, i)
    <3>1. \A i \in 1..Size(n) : i + 1 \in (o + 1)..Len(b) /\ i + 1 - 1 = i
      BY <1>5, <2>2
    <3>2. QED
      BY <3>1 DEF Loaded
  <2>5. Tail(b) = Prefix(n, Size(n))
    <3>1. Tail(b) = [i \in 1..Size(n) |-> Tail(b)[i]]
      <4>1. \A t \in Seq(Octet) : t = [i \in 1..Len(t) |-> t[i]]
        OBVIOUS
      <4>2. QED
        BY <2>3, <4>1, Zenon
    <3>2. \A i \in 1..Size(n) : Tail(b)[i] = Byte(n, i)
      BY <2>3, <2>4
    <3>3. QED
      BY <3>1, <3>2 DEF Prefix
  <2>6. QED
    BY <2>1, <2>5 DEF Single
<1>6. ASSUME ~(o = 1 /\ f.complete)
      PROVE  FragmentOf(f.payload, n, o, f.offset)
  <2>1. /\ f.payload[1].nalu = n /\ f.payload[1].at = 0 /\ f.payload[2].nalu = n
        /\ f.payload[2].start = (o = 1) /\ f.payload[2].end = f.complete
        /\ f.payload \in Seq(Octet) /\ Len(f.payload) >= 3
    BY <1>2, <1>6
  <2>2. Len(b) = 1 + Size(n)
    BY DEF Loaded
  <2>3. /\ f.payload[2].start <=> o = 1
        /\ f.payload[2].end <=> f.offset = 1 + Size(n)
    BY <1>3, <2>1, <2>2, Zenon
  <2>4. /\ Len(f.payload) = 2 + f.offset - first
        /\ \A i \in 3..Len(f.payload) : f.payload[i] = b[first - 2 + i]
    <3>1. CASE o = 1
      <4>1. ~f.complete /\ first = 2
        BY <1>6, <3>1
      <4>2. Len(f.payload) = f.offset /\ \A i \in 3..Len(f.payload) : f.payload[i] = b[i]
        BY <1>1, <3>1, <4>1 DEF Continues
      <4>3. Len(f.payload) = 2 + f.offset - first /\ \A i \in 3..Len(f.payload) : first - 2 + i = i
        BY <1>0, <1>3, <4>1, <4>2
      <4>4. QED
        BY <4>2, <4>3
    <3>2. CASE o # 1
      BY <1>0, <1>1, <3>2 DEF Continues
    <3>3. QED
      BY <3>1, <3>2
  <2>5. first \in Nat /\ first >= 2 /\ first >= o /\ f.offset - first \in Nat /\ f.offset \in Nat
    BY <1>0, <1>3, <2>1, <2>4
  <2> HIDE DEF first
  <2>6. /\ data \in Seq(Octet) /\ Len(data) = f.offset - first
        /\ \A i \in 1..(f.offset - first) : data[i] = f.payload[i + 2]
    <3>1. PICK p : p = f.payload
      OBVIOUS
    <3>2. p \in Seq(Octet) /\ Len(p) >= 3 /\ Len(p) = 2 + f.offset - first
      BY <2>1, <2>4, <3>1, Zenon
    <3>3. Len(p) \in Nat /\ Len(p) - 2 = f.offset - first
      BY <2>5, <3>2
    <3>4. /\ SubSeq(p, 3, Len(p)) \in Seq(Octet) /\ Len(SubSeq(p, 3, Len(p))) = Len(p) - 2
          /\ \A i \in 1..(Len(p) - 2) : SubSeq(p, 3, Len(p))[i] = p[i + 2]
      BY <3>2, <3>3
    <3>5. QED
      BY <3>1, <3>3, <3>4, Zenon
  <2>7. ASSUME NEW i \in 1..(f.offset - first)
        PROVE  data[i] = Byte(n, first - 1 + i)
    <3>1. i + 2 \in 3..Len(f.payload) /\ first - 2 + (i + 2) = first + i
      BY <2>4, <2>5
    <3>2. first + i \in (o + 1)..Len(b) /\ first + i - 1 = first - 1 + i
      BY <1>0, <1>3, <2>5
    <3>3. b[first + i] = Byte(n, first - 1 + i)
      <4>1. \A k \in (o + 1)..Len(b) : b[k] = Byte(n, k - 1)
        BY DEF Loaded
      <4>2. QED
        BY <3>2, <4>1, <2>5 DEF Byte
    <3>4. QED
      BY <2>4, <2>6, <3>1, <3>3
  <2> HIDE DEF data
  <2>8. data = bytes
    <3>1. data = [i \in 1..(f.offset - first) |-> data[i]]
      BY <2>5, <2>6
    <3>2. QED
      BY <2>7, <3>1
  <2>9. QED
    BY <2>1, <2>3, <2>8 DEF FragmentOf, data, first
<1>7. QED
  BY <1>3, <1>4, <1>5, <1>6 DEF f

\* The sizes of NAL units, and what the receiver compares with.
LEMMA WholeNalu ==
  ASSUME offered \in NalusMade, NEW n \in 1..Len(offered)
  PROVE  /\ n \in Nat /\ Size(n) \in Nat \ {0} /\ offered[n].len \in Nat \ {0}
         /\ Bytes(n) = Prefix(n, offered[n].len)
         /\ SubSeq(Bytes(n), 1, Min({Len(Bytes(n)), BufferMax})) = Prefix(n, Size(n))
         /\ SubSeq(Bytes(n), 1, Min({offered[n].len, BufferMax})) = Prefix(n, Size(n))
<1>1. offered[n].len \in Nat \ {0} /\ n \in Nat
  <2>1. offered[n] \in [len : Nat \ {0}, vcl : BOOLEAN, unit : Nat]
    BY ElementOfSeq DEF NalusMade
  <2>2. QED
    BY <2>1
<1>2. Size(n) \in Nat \ {0} /\ Size(n) <= offered[n].len
  BY <1>1, SizeAssumption DEF Size
<1>3. Min({offered[n].len, BufferMax}) = Size(n)
  BY <1>1, SizeAssumption, MinOfTwo DEF Size
<1>4. Bytes(n) = Prefix(n, offered[n].len)
  BY DEF Bytes, Prefix
<1>5. /\ Bytes(n) \in Seq(Octet) /\ Len(Bytes(n)) = offered[n].len
      /\ \A i \in 1..offered[n].len : Bytes(n)[i] = Byte(n, i)
  BY <1>1, <1>4, PrefixProperties
<1>6. SubSeq(Bytes(n), 1, Size(n)) = Prefix(n, Size(n))
  <2>1. /\ SubSeq(Bytes(n), 1, Size(n)) \in Seq(Octet)
        /\ Len(SubSeq(Bytes(n), 1, Size(n))) = Size(n)
        /\ \A i \in 1..Size(n) : SubSeq(Bytes(n), 1, Size(n))[i] = Bytes(n)[i]
    BY <1>1, <1>2, <1>5
  <2>2. \A t \in Seq(Octet) : t = [i \in 1..Len(t) |-> t[i]]
    OBVIOUS
  <2>3. SubSeq(Bytes(n), 1, Size(n)) = [i \in 1..Size(n) |-> SubSeq(Bytes(n), 1, Size(n))[i]]
    BY <2>1, <2>2, Zenon
  <2>4. \A i \in 1..Size(n) : SubSeq(Bytes(n), 1, Size(n))[i] = Byte(n, i)
    BY <1>1, <1>2, <1>5, <2>1
  <2>5. QED
    BY <2>3, <2>4 DEF Prefix
<1>7. QED
  BY <1>1, <1>2, <1>3, <1>4, <1>5, <1>6

\* Bytes that follow one another.
LEMMA PrefixGrows ==
  ASSUME NEW n \in Nat, NEW j \in Nat, NEW k \in Nat, j <= k
  PROVE  Prefix(n, j) \o [i \in 1..(k - j) |-> Byte(n, j + i)] = Prefix(n, k)
<1> DEFINE more == [i \in 1..(k - j) |-> Byte(n, j + i)]
<1>1. /\ Prefix(n, j) \in Seq(Octet) /\ Len(Prefix(n, j)) = j
      /\ \A i \in 1..j : Prefix(n, j)[i] = Byte(n, i)
  BY PrefixProperties
<1>2. /\ Prefix(n, k) \in Seq(Octet) /\ Len(Prefix(n, k)) = k
      /\ \A i \in 1..k : Prefix(n, k)[i] = Byte(n, i)
  BY PrefixProperties
<1>3. more \in Seq(Octet) /\ Len(more) = k - j
  <2>1. \A i \in 1..(k - j) : Byte(n, j + i) \in Octet
    BY DEF Byte, Octet
  <2>2. k - j \in Nat
    OBVIOUS
  <2>3. QED
    BY <2>1, <2>2
<1>4. \A i \in (j + 1)..k : more[i - j] = Byte(n, i)
  <2>1. \A i \in (j + 1)..k : i - j \in 1..(k - j) /\ j + (i - j) = i
    OBVIOUS
  <2>2. QED
    BY <2>1
<1> HIDE DEF more
<1>5. /\ Prefix(n, j) \o more \in Seq(Octet) /\ Len(Prefix(n, j) \o more) = k
      /\ \A i \in 1..k : (Prefix(n, j) \o more)[i] =
                             IF i <= j THEN Prefix(n, j)[i] ELSE more[i - j]
  BY <1>1, <1>3
<1>6. \A i \in 1..k : (Prefix(n, j) \o more)[i] = Prefix(n, k)[i]
  BY <1>1, <1>2, <1>4, <1>5
<1>7. QED
  BY <1>2, <1>5, <1>6, SeqEqual DEF more

Receivers == [next : 0..(SeqSpace - 1), partial : Seq(Octet), got : Nat, gap : BOOLEAN]
Sent == [seq : Int, ts : Int, marker : BOOLEAN, payload : Seq(Octet)]

\* What the receiver knows of the NAL unit when a packet arrives.
Partial(r, p) == IF p.seq = r.next THEN r.partial ELSE << >>

LEMMA ReceivesSingle ==
  ASSUME offered \in NalusMade, NEW n \in 1..Len(offered), NEW r \in Receivers,
         NEW p \in Sent, p.seq \in 0..(SeqSpace - 1), Single(p.payload, n)
  PROVE  Received(r, p) = [next |-> (p.seq + 1) % SeqSpace, partial |-> << >>,
                           got |-> n, gap |-> FALSE]
<1> DEFINE s == [r EXCEPT !.next = (p.seq + 1) % SeqSpace, !.partial = Partial(r, p)]
           whole == SubSeq(Bytes(n), 1, Min({offered[n].len, BufferMax}))
<1>1. n \in Nat /\ Size(n) \in Nat \ {0} /\ whole = Prefix(n, Size(n))
  BY WholeNalu
<1>2. p.payload = whole
  BY <1>1 DEF Single
<1>3. Head(p.payload) = Byte(n, 1)
  <2>1. /\ Prefix(n, Size(n)) \in Seq(Octet) /\ Len(Prefix(n, Size(n))) = Size(n)
        /\ \A i \in 1..Size(n) : Prefix(n, Size(n))[i] = Byte(n, i)
    BY <1>1, PrefixProperties
  <2>2. Prefix(n, Size(n))[1] = Byte(n, 1)
    <3>1. Size(n) \in Nat \ {0}
      BY <1>1
    <3>2. 1 \in 1..Size(n)
      BY <3>1
    <3>3. QED
      BY <2>1, <3>2
  <2>3. Head(Prefix(n, Size(n))) = Prefix(n, Size(n))[1]
    OBVIOUS
  <2>4. QED
    BY <2>2, <2>3 DEF Single
<1>4. Head(p.payload).at = 1 /\ Head(p.payload).nalu = n
  BY <1>3 DEF Byte
<1>5. Received(r, p) = Complete(s, p.payload)
  <2>1. Head(p.payload).at # 0
    BY <1>4
  <2>2. QED
    BY <2>1 DEF Received, Partial
<1>6. Complete(s, p.payload) = [s EXCEPT !.got = n, !.gap = FALSE, !.partial = << >>]
  BY <1>2, <1>4 DEF Complete
<1>7. [s EXCEPT !.got = n, !.gap = FALSE, !.partial = << >>]
        = [next |-> (p.seq + 1) % SeqSpace, partial |-> << >>, got |-> n, gap |-> FALSE]
  <2>1. PICK x, y : x = (p.seq + 1) % SeqSpace /\ y = Partial(r, p)
    OBVIOUS
  <2>2. s = [r EXCEPT !.next = x, !.partial = y]
    BY <2>1
  <2> HIDE DEF s
  <2>3. s = [next |-> x, partial |-> y, got |-> r.got, gap |-> r.gap]
    BY <2>2 DEF Receivers
  <2>4. [s EXCEPT !.got = n, !.gap = FALSE, !.partial = << >>]
          = [next |-> x, partial |-> << >>, got |-> n, gap |-> FALSE]
    <3>1. PICK a : a = [s EXCEPT !.got = n]
      OBVIOUS
    <3>2. a = [next |-> x, partial |-> y, got |-> n, gap |-> r.gap]
      BY <2>3, <3>1
    <3>3. PICK b : b = [a EXCEPT !.gap = FALSE]
      OBVIOUS
    <3>4. b = [next |-> x, partial |-> y, got |-> n, gap |-> FALSE]
      BY <3>2, <3>3
    <3>5. PICK c : c = [b EXCEPT !.partial = << >>]
      OBVIOUS
    <3>6. c = [next |-> x, partial |-> << >>, got |-> n, gap |-> FALSE]
      BY <3>4, <3>5
    <3>7. QED
      BY <3>1, <3>3, <3>5, <3>6, Zenon
  <2>5. QED
    BY <2>1, <2>4
<1>8. QED
  BY <1>5, <1>6, <1>7, Zenon

\* A fragment begins a NAL unit, goes on with what there is of it, or ends it.
LEMMA ReceivesFragment ==
  ASSUME offered \in NalusMade, NEW n \in 1..Len(offered), NEW r \in Receivers,
         NEW p \in Sent, p.seq \in 0..(SeqSpace - 1),
         NEW from \in Nat \ {0}, NEW to \in (from + 1)..(1 + Size(n)),
         from = 1 => to <= Size(n),
         FragmentOf(p.payload, n, from, to),
         from = 1 \/ Partial(r, p) = << >> \/ Partial(r, p) = Prefix(n, from - 1)
  PROVE  LET s == Received(r, p)
             whole == Partial(r, p) # << >> /\ from > 1 /\ to = 1 + Size(n)
         IN  /\ s \in Receivers /\ s.next = (p.seq + 1) % SeqSpace
             /\ s.got = IF whole THEN n ELSE r.got
             /\ s.gap = IF whole THEN FALSE ELSE r.gap
             /\ s.partial = IF whole \/ (from > 1 /\ Partial(r, p) = << >>) THEN << >>
                            ELSE Prefix(n, to - 1)
<1> DEFINE next == (p.seq + 1) % SeqSpace
           s == [r EXCEPT !.next = next, !.partial = Partial(r, p)]
           data == SubSeq(p.payload, 3, Len(p.payload))
           fu == p.payload[2]
           head == Head(p.payload)
           partial == IF fu.start THEN <<Byte(fu.nalu, 1)>> \o data
                      ELSE IF s.partial = << >> THEN << >> ELSE s.partial \o data
<1>1. n \in Nat /\ Size(n) \in Nat \ {0} /\ from \in Nat /\ to \in Nat /\ to > from
  <2>1. n \in Nat /\ Size(n) \in Nat \ {0}
    BY WholeNalu, Zenon
  <2>2. QED
    BY <2>1
<1>2. Received(r, p) = IF head.at # 0 THEN Complete(s, p.payload)
                       ELSE IF fu.end /\ partial # << >> THEN Complete(s, partial)
                       ELSE [s EXCEPT !.partial = partial]
  BY DEF Received, Partial
<1>3. /\ head.at = 0 /\ fu.nalu = n
      /\ fu.start <=> from = 1
      /\ fu.end <=> to = 1 + Size(n)
  <2>1. head = p.payload[1]
    BY DEF FragmentOf
  <2>2. QED
    BY <2>1, Zenon DEF FragmentOf
<1>4. next \in 0..(SeqSpace - 1)
  <2>1. p.seq + 1 \in Int /\ SeqSpace \in Nat \ {0}
    BY NumberAssumption
  <2>2. QED
    BY <2>1, ModParts
<1>5. Partial(r, p) \in Seq(Octet)
  BY DEF Partial, Receivers
<1> HIDE DEF next
<1>6. /\ s \in Receivers /\ s.next = next /\ s.partial = Partial(r, p)
      /\ s.got = r.got /\ s.gap = r.gap
  BY <1>4, <1>5 DEF Receivers
<1>7. <<Byte(n, 1)>> = Prefix(n, 1)
  BY DEF Prefix
<1>8. CASE from = 1
  <2>1. data = [i \in 1..((to - 1) - 1) |-> Byte(n, 1 + i)]
    <3>1. data = [i \in 1..(to - 2) |-> Byte(n, 2 - 1 + i)]
      BY <1>8 DEF FragmentOf
    <3>2. to - 2 = (to - 1) - 1 /\ 2 - 1 = 1
      BY <1>1
    <3>3. QED
      BY <3>1, <3>2
  <2>2. <<Byte(n, 1)>> \o data = Prefix(n, to - 1)
    <3>1. to - 1 \in Nat /\ 1 <= to - 1
      BY <1>1, <1>8
    <3>2. QED
      <4>1. 1 \in Nat
        OBVIOUS
      <4>2. Prefix(n, 1) \o [i \in 1..((to - 1) - 1) |-> Byte(n, 1 + i)] = Prefix(n, to - 1)
        BY <1>1, <3>1, <4>1, PrefixGrows, Zenon
      <4>3. QED
        BY <1>7, <2>1, <4>2, Zenon
  <2> HIDE DEF data
  <2>3. partial = Prefix(n, to - 1)
    BY <1>3, <1>8, <2>2
  <2>4. to # 1 + Size(n) /\ ~(from > 1)
    BY <1>1, <1>8
  <2> HIDE DEF partial, s, fu, head
  <2>5. Received(r, p) = [s EXCEPT !.partial = partial]
    BY <1>2, <1>3, <2>4
  <2>6. Prefix(n, to - 1) \in Seq(Octet)
    BY <1>1, PrefixProperties
  <2>7. [s EXCEPT !.partial = partial] \in Receivers
    BY <1>6, <2>3, <2>6 DEF Receivers
  <2>8. QED
    BY <1>6, <2>3, <2>4, <2>5, <2>7 DEF Receivers, next
<1>9. CASE from > 1 /\ Partial(r, p) = << >>
  <2>1. partial = << >>
    BY <1>1, <1>3, <1>6, <1>9
  <2> HIDE DEF partial, s, fu, head
  <2>2. Received(r, p) = [s EXCEPT !.partial = << >>]
    BY <1>2, <1>3, <2>1
  <2>3. [s EXCEPT !.partial = << >>] \in Receivers
    <3>1. << >> \in Seq(Octet)
      OBVIOUS
    <3>2. QED
      BY <1>6, <3>1 DEF Receivers
  <2>4. QED
    BY <1>6, <1>9, <2>2, <2>3 DEF Receivers, next
<1>10. CASE from > 1 /\ Partial(r, p) # << >>
  <2>1. Partial(r, p) = Prefix(n, from - 1) /\ from - 1 \in Nat /\ to - 1 \in Nat /\ from - 1 <= to - 1
    BY <1>1, <1>10
  <2>2. data = [i \in 1..((to - 1) - (from - 1)) |-> Byte(n, (from - 1) + i)]
    <3>1. data = [i \in 1..(to - from) |-> Byte(n, from - 1 + i)]
      <4>1. from # 1
        BY <1>1, <1>10
      <4>2. QED
        BY <4>1, Zenon DEF FragmentOf
    <3>2. to - from = (to - 1) - (from - 1)
      BY <1>1
    <3>3. QED
      BY <3>1, <3>2
  <2>3. Partial(r, p) \o data = Prefix(n, to - 1)
    <3>1. Prefix(n, from - 1) \o [i \in 1..((to - 1) - (from - 1)) |-> Byte(n, (from - 1) + i)]
            = Prefix(n, to - 1)
      BY <1>1, <2>1, PrefixGrows, Zenon
    <3>2. QED
      BY <2>1, <2>2, <3>1, Zenon
  <2> HIDE DEF data
  <2>4. partial = Prefix(n, to - 1)
    <3>1. ~fu.start
      BY <1>1, <1>3, <1>10
    <3>2. QED
      BY <1>6, <1>10, <2>3, <3>1, Zenon
  <2>5. Prefix(n, to - 1) \in Seq(Octet) /\ Prefix(n, to - 1) # << >>
        /\ Head(Prefix(n, to - 1)).nalu = n
    <3>1. /\ Prefix(n, to - 1) \in Seq(Octet) /\ Len(Prefix(n, to - 1)) = to - 1
          /\ \A i \in 1..(to - 1) : Prefix(n, to - 1)[i] = Byte(n, i)
      BY <1>1, <2>1, PrefixProperties, Zenon
    <3>2. 1 \in 1..(to - 1)
      BY <1>1
    <3>3. Prefix(n, to - 1) # << >> /\ Prefix(n, to - 1)[1] = Byte(n, 1)
      BY <3>1, <3>2
    <3>4. Head(Prefix(n, to - 1)) = Prefix(n, to - 1)[1]
      OBVIOUS
    <3>5. QED
      BY <3>1, <3>3, <3>4 DEF Byte
  <2> HIDE DEF partial, s, fu, head
  <2>6. CASE to = 1 + Size(n)
    <3>1. Received(r, p) = Complete(s, partial)
      BY <1>2, <1>3, <2>4, <2>5, <2>6
    <3>2. partial = SubSeq(Bytes(n), 1, Min({offered[n].len, BufferMax}))
      <4>1. to - 1 = Size(n)
        BY <1>1, <2>6
      <4>2. QED
        BY <2>4, <4>1, WholeNalu
    <3>3. Complete(s, partial) = [s EXCEPT !.got = n, !.gap = FALSE, !.partial = << >>]
      BY <2>4, <2>5, <3>2 DEF Complete
    <3>4. [s EXCEPT !.got = n, !.gap = FALSE, !.partial = << >>] \in Receivers
      <4>1. << >> \in Seq(Octet)
        OBVIOUS
      <4>2. QED
        BY <1>1, <1>6, <4>1 DEF Receivers
    <3>5. QED
      BY <1>6, <1>10, <2>6, <3>1, <3>3, <3>4 DEF Receivers, next
  <2>7. CASE to # 1 + Size(n)
    <3>1. Received(r, p) = [s EXCEPT !.partial = partial]
      BY <1>2, <1>3, <2>7
    <3>2. [s EXCEPT !.partial = partial] \in Receivers
      BY <1>6, <2>4, <2>5 DEF Receivers
    <3>3. QED
      BY <1>6, <1>10, <2>4, <2>7, <3>1, <3>2 DEF Receivers, next
  <2>8. QED
    BY <2>6, <2>7
<1>11. from = 1 \/ from > 1
  BY <1>1
<1>12. QED
  BY <1>8, <1>9, <1>10, <1>11, Zenon

-----------------------------------------------------------------------------
(* A packet on its way.                                                    *)

\* The receiver, which expects the number next, has missed the last k packets
\* before the one that is numbered seq.
Ahead(seq, next, k) == seq = next + k \/ seq = next + k - SeqSpace

LEMMA AheadOne ==
  ASSUME NEW seq \in 0..(SeqSpace - 1), NEW next \in 0..(SeqSpace - 1),
         NEW k \in 0..(SeqSpace - 1), Ahead(seq, next, k)
  PROVE  /\ Ahead((seq + 1) % SeqSpace, next, k + 1)
         /\ (seq + 1) % SeqSpace \in 0..(SeqSpace - 1)
         /\ seq = next <=> k = 0
<1>1. (seq + 1) % SeqSpace = IF seq + 1 = SeqSpace THEN 0 ELSE seq + 1
  BY NumberAssumption, ModNext
<1>2. QED
  BY <1>1, NumberAssumption DEF Ahead

\* The receiver r before the packet seq with NAL unit n from the offset o on: what it
\* has of n is what was sent of it, or it knows that it misses something.
Before(r, seq, n, o, k) ==
    /\ r \in Receivers
    /\ Ahead(seq, r.next, k)
    /\ k > 0 => r.gap
    /\ k = 0 /\ o > 1 => r.partial = << >> \/ r.partial = Prefix(n, o - 1)
    /\ o > 1 /\ r.partial = << >> => r.gap
    /\ r.got < n
    /\ ~r.gap => r.got = n - 1

\* The receiver is right after a packet, whose fragment ends at the offset to.
LEMMA PacketReceived ==
  ASSUME offered \in NalusMade, NEW n \in 1..Len(offered), NEW b, NEW o, Loaded(b, o, n),
         NEW p \in Sent, p.seq \in 0..(SeqSpace - 1), p.payload = Fragment(b, o).payload,
         NEW k \in 0..(SeqSpace - 1), NEW r, Before(r, p.seq, n, o, k)
  PROVE  LET s == Received(r, p)
             f == Fragment(b, o)
         IN  /\ s \in Receivers /\ s.next = (p.seq + 1) % SeqSpace
             /\ \/ s.got = r.got /\ s.gap = r.gap
                \/ s.got = n /\ ~s.gap /\ (n = r.got + 1 \/ r.gap)
             /\ ~f.complete => /\ s.got = r.got /\ s.gap = r.gap
                               /\ s.partial = << >> => s.gap
                               /\ s.partial = << >> \/ s.partial = Prefix(n, f.offset - 1)
             /\ f.complete => s.gap \/ s.got = n
<1> DEFINE s == Received(r, p)
           f == Fragment(b, o)
<1>1. n \in Nat /\ Size(n) \in Nat \ {0}
  BY WholeNalu, Zenon
<1>2. /\ r \in Receivers /\ r.next \in 0..(SeqSpace - 1) /\ r.got \in Nat /\ r.got < n
      /\ r.gap \in BOOLEAN
      /\ ~r.gap => r.got = n - 1
  BY DEF Before, Receivers
<1>3. p.seq = r.next <=> k = 0
  BY <1>2, AheadOne DEF Before
<1>4. /\ o = 1 \/ Partial(r, p) = << >> \/ Partial(r, p) = Prefix(n, o - 1)
      /\ o > 1 /\ Partial(r, p) = << >> => r.gap
  <2>1. o \in Nat /\ o >= 1
    BY DEF Loaded
  <2>2. CASE k = 0
    BY <1>3, <2>1, <2>2 DEF Before, Partial
  <2>3. CASE k # 0
    <3>1. k > 0
      BY <2>3
    <3>2. QED
      BY <1>3, <2>3, <3>1 DEF Before, Partial
  <2>4. QED
    BY <2>2, <2>3
<1>5. /\ f.offset \in (o + 1)..Len(b)
      /\ f.complete <=> f.offset = Len(b)
      /\ o = 1 /\ f.complete => Single(f.payload, n)
      /\ ~(o = 1 /\ f.complete) => FragmentOf(f.payload, n, o, f.offset)
  <2>1. Size(n) \in Nat
    BY <1>1
  <2>2. QED
    BY <1>1, <2>1, Fragmented, Zenon
<1>6. Len(b) = 1 + Size(n) /\ o \in Nat \ {0}
  BY DEF Loaded
<1>7. p.payload = f.payload
  OBVIOUS
<1> HIDE DEF f
<1>8. CASE o = 1 /\ f.complete
  <2>1. s = [next |-> (p.seq + 1) % SeqSpace, partial |-> << >>, got |-> n, gap |-> FALSE]
    BY <1>2, <1>5, <1>7, <1>8, ReceivesSingle, Zenon
  <2>2. (p.seq + 1) % SeqSpace \in 0..(SeqSpace - 1)
    BY <1>2, AheadOne DEF Before
  <2>3. n = r.got + 1 \/ r.gap
    BY <1>1, <1>2
  <2> HIDE DEF s
  <2>4. /\ s.next = (p.seq + 1) % SeqSpace /\ s.got = n /\ s.gap = FALSE
    BY <2>1
  <2>5. s \in Receivers
    <3>1. << >> \in Seq(Octet)
      OBVIOUS
    <3>2. QED
      BY <1>1, <2>1, <2>2, <3>1 DEF Receivers
  <2>6. QED
    BY <1>8, <2>3, <2>4, <2>5, Zenon DEF s, f
<1>9. CASE ~(o = 1 /\ f.complete)
  <2> DEFINE whole == Partial(r, p) # << >> /\ o > 1 /\ f.offset = 1 + Size(n)
  <2>1. /\ f.offset \in (o + 1)..(1 + Size(n))
        /\ o = 1 => f.offset <= Size(n)
    BY <1>1, <1>5, <1>6, <1>9
  <2>2. FragmentOf(p.payload, n, o, f.offset)
    BY <1>5, <1>7, <1>9, Zenon
  <2>3. /\ s \in Receivers /\ s.next = (p.seq + 1) % SeqSpace
        /\ s.got = IF whole THEN n ELSE r.got
        /\ s.gap = IF whole THEN FALSE ELSE r.gap
        /\ s.partial = IF whole \/ (o > 1 /\ Partial(r, p) = << >>) THEN << >>
                       ELSE Prefix(n, f.offset - 1)
    BY <1>2, <1>4, <1>6, <2>1, <2>2, ReceivesFragment, Zenon
  <2> HIDE DEF s
  <2>4. CASE whole
    <3>1. f.complete /\ s.got = n /\ s.gap = FALSE
      BY <1>5, <1>6, <2>3, <2>4, Zenon
    <3>2. n = r.got + 1 \/ r.gap
      BY <1>1, <1>2
    <3>3. QED
      BY <2>3, <3>1, <3>2, Zenon DEF s, f
  <2>5. CASE ~whole
    <3>1. s.got = r.got /\ s.gap = r.gap
      BY <2>3, <2>5, Zenon
    <3>2. o > 1 /\ Partial(r, p) = << >> => s.partial = << >> /\ r.gap
      BY <1>4, <2>3, Zenon
    <3>3. ~(o > 1 /\ Partial(r, p) = << >>) => s.partial = Prefix(n, f.offset - 1)
      BY <2>3, <2>5, Zenon
    <3>4. Prefix(n, f.offset - 1) # << >>
      <4>1. f.offset - 1 \in Nat \ {0}
        BY <1>1, <1>6, <2>1
      <4>2. Len(Prefix(n, f.offset - 1)) = f.offset - 1
        BY <1>1, <4>1, PrefixProperties
      <4>3. QED
        BY <4>1, <4>2
    <3>5. f.complete => s.gap
      <4>1. f.complete => o > 1 /\ f.offset = 1 + Size(n)
        BY <1>5, <1>6, <1>9
      <4>2. QED
        BY <2>5, <3>1, <3>2, <4>1, Zenon
    <3>6. s.partial = << >> => s.gap
      BY <3>1, <3>2, <3>3, <3>4, Zenon
    <3>7. QED
      BY <2>3, <3>1, <3>2, <3>3, <3>5, <3>6, Zenon DEF s, f
  <2>6. QED
    BY <2>4, <2>5
<1>10. QED
  BY <1>8, <1>9

-----------------------------------------------------------------------------
(* The client's stream.                                                    *)

SeqNos == 0..(SeqSpace - 1)
Stamps == 0..(TsSpace - 1)
Streams == [playing : BOOLEAN, awaiting : BOOLEAN, pictureEndMarker : BOOLEAN,
            fInputBuffer : Seq(Octet), fCurDataOffset : Nat,
            fLastFragmentCompletedNALUnit : BOOLEAN, fPresentationTime : Int,
            due : BOOLEAN, fSeqNo : SeqNos, fTimestampBase : Stamps,
            preset : BOOLEAN, packet : Sent]

\* There is a NAL unit in the buffer of which something is to be sent.
Holds(s) == Len(s.fInputBuffer) > 1

LEMMA CompleteIsBoolean ==
  ASSUME NEW b, NEW o
  PROVE  Fragment(b, o).complete \in BOOLEAN
<1>1. CASE o = 1 /\ Len(b) - 1 <= MaxOutput
  BY <1>1 DEF Fragment
<1>2. CASE o = 1 /\ ~(Len(b) - 1 <= MaxOutput)
  BY <1>2 DEF Fragment
<1>3. CASE o # 1
  <2>1. Fragment(b, o).complete = (Rest(Len(b), o) <= MaxOutput)
    BY <1>3, Zenon DEF Fragment
  <2>2. (Rest(Len(b), o) <= MaxOutput) \in BOOLEAN
    OBVIOUS
  <2>3. QED
    BY <2>1, <2>2, Zenon
<1>4. QED
  BY <1>1, <1>2, <1>3

\* Bases and timestamps are unsigned numbers of their width.
LEMMA StampsTyped ==
  ASSUME NEW s \in Streams, NEW t \in Int
  PROVE  BaseFor(s, t) \in Stamps /\ convertToRTPTimestamp(s, t) \in Stamps
<1>1. s.fTimestampBase \in Stamps /\ TsSpace \in Nat \ {0}
  BY NumberAssumption DEF Streams
<1>2. \A x \in Int : x % TsSpace \in Stamps
  BY <1>1, ModParts DEF Stamps
<1>3. BaseFor(s, t) \in Stamps
  <2>1. s.fTimestampBase - t \in Int
    BY <1>1 DEF Stamps
  <2>2. QED
    BY <1>1, <1>2, <2>1, Zenon DEF BaseFor
<1>4. BaseFor(s, t) + t \in Int
  BY <1>3 DEF Stamps
<1>5. QED
  BY <1>2, <1>3, <1>4, Zenon DEF convertToRTPTimestamp

\* The sink numbers and stamps what it gets.
LEMMA SentPacketIs ==
  ASSUME NEW s \in Streams, NEW payload \in Seq(Octet)
  PROVE  LET d == SentPacket(s, payload)
             t == s.fPresentationTime
         IN  /\ d \in Streams
             /\ d.packet.seq = s.fSeqNo /\ d.packet.payload = payload
             /\ d.packet.ts = convertToRTPTimestamp(s, t)
             /\ d.packet.marker = EndsFrame(s)
             /\ d.pictureEndMarker = (s.pictureEndMarker /\ ~EndsFrame(s))
             /\ d.fTimestampBase = BaseFor(s, t) /\ d.preset = FALSE
             /\ d.fSeqNo = (s.fSeqNo + 1) % SeqSpace /\ d.due = TRUE
             /\ d.playing = s.playing /\ d.awaiting = s.awaiting
             /\ d.fInputBuffer = s.fInputBuffer /\ d.fCurDataOffset = s.fCurDataOffset
             /\ d.fPresentationTime = s.fPresentationTime
<1> DEFINE t == s.fPresentationTime
           p == [seq |-> s.fSeqNo, ts |-> convertToRTPTimestamp(s, t),
                 marker |-> EndsFrame(s), payload |-> payload]
           m == s.pictureEndMarker /\ ~EndsFrame(s)
           base == BaseFor(s, t)
           next == (s.fSeqNo + 1) % SeqSpace
           d == [s EXCEPT !.packet = p, !.pictureEndMarker = m, !.fTimestampBase = base,
                          !.preset = FALSE, !.fSeqNo = next, !.due = TRUE]
<1>1. SentPacket(s, payload) = d
  BY DEF SentPacket
<1>2. EndsFrame(s) \in BOOLEAN /\ m \in BOOLEAN
  BY DEF EndsFrame
<1>3. t \in Int /\ s.fSeqNo \in SeqNos
  BY DEF Streams
<1>4. base \in Stamps /\ convertToRTPTimestamp(s, t) \in Stamps
  BY <1>3, StampsTyped
<1>5. p \in Sent
  BY <1>2, <1>3, <1>4 DEF Sent, Stamps, SeqNos
<1>6. next \in SeqNos
  <2>1. s.fSeqNo + 1 \in Int /\ SeqSpace \in Nat \ {0}
    BY <1>3, NumberAssumption DEF SeqNos
  <2>2. QED
    BY <2>1, ModParts DEF SeqNos
<1>7. /\ p.seq = s.fSeqNo /\ p.payload = payload
      /\ p.ts = convertToRTPTimestamp(s, t) /\ p.marker = EndsFrame(s)
  BY Zenon
<1> HIDE DEF p, m, base, next
<1>8. d \in Streams
  BY <1>2, <1>4, <1>5, <1>6 DEF Streams
<1>9. /\ d.packet = p /\ d.pictureEndMarker = m /\ d.fTimestampBase = base
      /\ d.preset = FALSE /\ d.fSeqNo = next /\ d.due = TRUE
      /\ d.playing = s.playing /\ d.awaiting = s.awaiting
      /\ d.fInputBuffer = s.fInputBuffer /\ d.fCurDataOffset = s.fCurDataOffset
      /\ d.fPresentationTime = s.fPresentationTime
  BY DEF Streams
<1> HIDE DEF d
<1>10. QED
  BY <1>1, <1>7, <1>8, <1>9, Zenon DEF m, base, next

\* The stream s is about to send from NAL unit n.
Sending(s, n) ==
    /\ s \in Streams /\ s.playing /\ ~s.awaiting
    /\ Loaded(s.fInputBuffer, s.fCurDataOffset, n)
    /\ s.pictureEndMarker <=> offered[n].vcl

LEMMA DeliveredIs ==
  ASSUME offered \in NalusMade, NEW n \in 1..Len(offered), NEW s, Sending(s, n)
  PROVE  LET d == Delivered(s)
             f == Fragment(s.fInputBuffer, s.fCurDataOffset)
             t == s.fPresentationTime
         IN  /\ d \in Streams /\ d.playing /\ ~d.awaiting /\ d.preset = FALSE
             /\ d.fSeqNo = (s.fSeqNo + 1) % SeqSpace /\ d.fPresentationTime = t
             /\ d.fTimestampBase = BaseFor(s, t)
             /\ d.packet.seq = s.fSeqNo /\ d.packet.payload = f.payload
             /\ Head(d.packet.payload).nalu = n
             /\ d.packet.ts = convertToRTPTimestamp(s, t)
             /\ d.packet.marker <=> f.complete /\ offered[n].vcl
             /\ f.complete => d.fInputBuffer = <<NoByte>> /\ d.fCurDataOffset = 1
             /\ ~f.complete => /\ Loaded(d.fInputBuffer, d.fCurDataOffset, n)
                               /\ d.fCurDataOffset = f.offset /\ d.fCurDataOffset > 1
                               /\ d.pictureEndMarker <=> offered[n].vcl
<1> DEFINE b == s.fInputBuffer
           o == s.fCurDataOffset
           f == Fragment(b, o)
           done == f.offset >= Len(f.buffer)
           e == [s EXCEPT !.fInputBuffer = IF done THEN <<NoByte>> ELSE f.buffer,
                          !.fCurDataOffset = IF done THEN 1 ELSE f.offset,
                          !.fLastFragmentCompletedNALUnit = f.complete]
           d == SentPacket(e, f.payload)
<1>1. Delivered(s) = d
  BY DEF Delivered
<1>2. /\ s \in Streams /\ s.playing /\ ~s.awaiting /\ Loaded(b, o, n)
      /\ s.pictureEndMarker <=> offered[n].vcl
  BY DEF Sending
<1>3. n \in Nat /\ Size(n) \in Nat \ {0} /\ Size(n) \in Nat
  <2>1. n \in Nat /\ Size(n) \in Nat \ {0}
    BY WholeNalu, Zenon
  <2>2. QED
    BY <2>1
<1>4. /\ f.offset \in (o + 1)..Len(b) /\ Len(f.buffer) = Len(b)
      /\ f.complete <=> f.offset = Len(b)
      /\ ~f.complete => Loaded(f.buffer, f.offset, n) /\ f.offset > 1
      /\ o = 1 /\ f.complete => Single(f.payload, n)
      /\ ~(o = 1 /\ f.complete) => FragmentOf(f.payload, n, o, f.offset)
  BY <1>2, <1>3, Fragmented, Zenon
<1>5. o \in Nat /\ Len(b) \in Nat /\ f.offset \in Nat /\ (done <=> f.complete)
  <2>1. o \in Nat /\ Len(b) \in Nat
    BY <1>2 DEF Loaded
  <2>2. QED
    BY <1>4, <2>1
<1>6. f.complete \in BOOLEAN
  BY CompleteIsBoolean
<1>7. f.payload \in Seq(Octet) /\ Head(f.payload).nalu = n
  <2>1. CASE o = 1 /\ f.complete
    <3>1. f.payload = Prefix(n, Size(n))
      BY <1>4, <2>1, Zenon DEF Single
    <3>2. /\ Prefix(n, Size(n)) \in Seq(Octet)
          /\ \A i \in 1..Size(n) : Prefix(n, Size(n))[i] = Byte(n, i)
      BY <1>3, PrefixProperties
    <3>3. Prefix(n, Size(n))[1] = Byte(n, 1)
      <4>1. 1 \in 1..Size(n)
        BY <1>3
      <4>2. QED
        BY <3>2, <4>1
    <3>4. Head(Prefix(n, Size(n))) = Prefix(n, Size(n))[1]
      OBVIOUS
    <3>5. QED
      BY <3>1, <3>2, <3>3, <3>4 DEF Byte
  <2>2. CASE ~(o = 1 /\ f.complete)
    <3>1. f.payload \in Seq(Octet) /\ f.payload[1].nalu = n
      BY <1>4, <2>2, Zenon DEF FragmentOf
    <3>2. Head(f.payload) = f.payload[1]
      OBVIOUS
    <3>3. QED
      BY <3>1, <3>2, Zenon
  <2>3. QED
    BY <2>1, <2>2
<1>8. <<NoByte>> \in Seq(Octet)
  BY DEF NoByte, Byte, Octet
<1>9. ~done => f.buffer \in Seq(Octet)
  BY <1>4, <1>5 DEF Loaded
<1> HIDE DEF f, done
<1>10. /\ e \in Streams
       /\ e.fInputBuffer = (IF done THEN <<NoByte>> ELSE f.buffer)
       /\ e.fCurDataOffset = (IF done THEN 1 ELSE f.offset)
       /\ e.fLastFragmentCompletedNALUnit = f.complete
       /\ e.playing = s.playing /\ e.awaiting = s.awaiting
       /\ e.pictureEndMarker = s.pictureEndMarker
       /\ e.fPresentationTime = s.fPresentationTime /\ e.fSeqNo = s.fSeqNo
       /\ e.fTimestampBase = s.fTimestampBase /\ e.preset = s.preset
  BY <1>2, <1>5, <1>6, <1>8, <1>9 DEF Streams
<1> HIDE DEF e
<1>11. EndsFrame(e) <=> f.complete /\ offered[n].vcl
  BY <1>2, <1>10, Zenon DEF EndsFrame
<1>12. /\ d \in Streams
       /\ d.packet.seq = e.fSeqNo /\ d.packet.payload = f.payload
       /\ d.packet.ts = convertToRTPTimestamp(e, e.fPresentationTime)
       /\ d.packet.marker = EndsFrame(e)
       /\ d.pictureEndMarker = (e.pictureEndMarker /\ ~EndsFrame(e))
       /\ d.fTimestampBase = BaseFor(e, e.fPresentationTime) /\ d.preset = FALSE
       /\ d.fSeqNo = (e.fSeqNo + 1) % SeqSpace /\ d.due = TRUE
       /\ d.playing = e.playing /\ d.awaiting = e.awaiting
       /\ d.fInputBuffer = e.fInputBuffer /\ d.fCurDataOffset = e.fCurDataOffset
       /\ d.fPresentationTime = e.fPresentationTime
  BY <1>7, <1>10, SentPacketIs, Zenon
<1>13. /\ BaseFor(e, e.fPresentationTime) = BaseFor(s, s.fPresentationTime)
       /\ convertToRTPTimestamp(e, e.fPresentationTime)
            = convertToRTPTimestamp(s, s.fPresentationTime)
  <2>1. BaseFor(e, e.fPresentationTime) = BaseFor(s, s.fPresentationTime)
    BY <1>10, Zenon DEF BaseFor
  <2>2. QED
    BY <1>10, <2>1, Zenon DEF convertToRTPTimestamp
<1> HIDE DEF d
<1>14. f.complete => d.fInputBuffer = <<NoByte>> /\ d.fCurDataOffset = 1
  BY <1>5, <1>10, <1>12, Zenon
<1>15. ~f.complete => /\ Loaded(d.fInputBuffer, d.fCurDataOffset, n)
                      /\ d.fCurDataOffset = f.offset /\ d.fCurDataOffset > 1
                      /\ d.pictureEndMarker <=> offered[n].vcl
  <2>1. SUFFICES ASSUME ~f.complete
                 PROVE  /\ Loaded(d.fInputBuffer, d.fCurDataOffset, n)
                        /\ d.fCurDataOffset = f.offset /\ d.fCurDataOffset > 1
                        /\ d.pictureEndMarker <=> offered[n].vcl
    OBVIOUS
  <2>2. d.fInputBuffer = f.buffer /\ d.fCurDataOffset = f.offset
    BY <1>5, <1>10, <1>12, <2>1, Zenon
  <2>3. d.pictureEndMarker <=> offered[n].vcl
    BY <1>2, <1>10, <1>11, <1>12, <2>1, Zenon
  <2>4. QED
    BY <1>4, <2>1, <2>2, <2>3, Zenon
<1>16. QED
  BY <1>1, <1>2, <1>7, <1>10, <1>11, <1>12, <1>13, <1>14, <1>15, Zenon DEF f

\* The part of it that does not depend on the fragment.
LEMMA DeliveredBase ==
  ASSUME offered \in NalusMade, NEW n \in 1..Len(offered), NEW s, Sending(s, n)
  PROVE  /\ Delivered(s) \in Streams /\ Delivered(s).preset = FALSE
         /\ Delivered(s).fTimestampBase = BaseFor(s, s.fPresentationTime)
<1> DEFINE d == Delivered(s)
           f == Fragment(s.fInputBuffer, s.fCurDataOffset)
           t == s.fPresentationTime
<1>1. /\ d \in Streams /\ d.playing /\ ~d.awaiting /\ d.preset = FALSE
      /\ d.fSeqNo = (s.fSeqNo + 1) % SeqSpace /\ d.fPresentationTime = t
      /\ d.fTimestampBase = BaseFor(s, t)
      /\ d.packet.seq = s.fSeqNo /\ d.packet.payload = f.payload
      /\ Head(d.packet.payload).nalu = n
      /\ d.packet.ts = convertToRTPTimestamp(s, t)
      /\ d.packet.marker <=> f.complete /\ offered[n].vcl
      /\ f.complete => d.fInputBuffer = <<NoByte>> /\ d.fCurDataOffset = 1
      /\ ~f.complete => /\ Loaded(d.fInputBuffer, d.fCurDataOffset, n)
                        /\ d.fCurDataOffset = f.offset /\ d.fCurDataOffset > 1
                        /\ d.pictureEndMarker <=> offered[n].vcl
  BY DeliveredIs, Zenon
<1>2. QED
  BY <1>1, Zenon

-----------------------------------------------------------------------------
(* The source's queues.                                                    *)

Queued == [pts : Int, units : Seq(Units)]
Sources == [encodedPackets : Seq(Queued), nalus_sending : Seq(Seq(Octet)),
            used : SUBSET Int, last_pts : Int, last_tv : Int]

\* The first NAL unit of the packets behind packet i of the queue q, and behind the
\* NAL units that are being sent.
Behind(q, i) == IF i = Len(q) THEN Len(offered) + 1 ELSE q[i + 1].units[1].n
FirstWaiting(s) == Behind(s.encodedPackets, 0)

\* The NAL unit that is delivered next.
NextNalu(s) == FirstWaiting(s) - Len(s.nalus_sending)

\* A packet is one frame, its only VCL NAL unit is the last one.
PacketRight(u) ==
    /\ u \in Seq(Units) /\ Len(u) > 0 /\ LongFirst(u)
    /\ \A i \in 1..Len(u) : /\ u[i].n = u[1].n + i - 1 /\ u[i].n \in 1..Len(offered)
                            /\ offered[u[i].n].vcl <=> i = Len(u)

QueueRight(q) ==
    \A j \in 1..Len(q) : /\ PacketRight(q[j].units)
                         /\ q[j].units[1].n + Len(q[j].units) = Behind(q, j)

\* The source delivers all NAL units of the encoder in their order.
SourceRight(s) ==
    /\ s \in Sources
    /\ QueueRight(s.encodedPackets)
    /\ NextNalu(s) \in 1..(Len(offered) + 1)
    /\ \A i \in 1..Len(s.nalus_sending) :
          /\ s.nalus_sending[i] = Bytes(NextNalu(s) + i - 1)
          /\ offered[NextNalu(s) + i - 1].vcl <=> i = Len(s.nalus_sending)
    /\ FirstWaiting(s) > 1 => offered[FirstWaiting(s) - 1].vcl

LEMMA FirstWaitingTyped ==
  ASSUME offered \in NalusMade, NEW s, SourceRight(s)
  PROVE  FirstWaiting(s) \in 1..(Len(offered) + 1) /\ Len(s.nalus_sending) \in Nat
<1> DEFINE q == s.encodedPackets
<1>1. q \in Seq(Queued) /\ s.nalus_sending \in Seq(Seq(Octet))
  BY DEF SourceRight, Sources
<1>2. Len(q) \in Nat /\ Len(s.nalus_sending) \in Nat /\ Len(offered) \in Nat
  BY <1>1 DEF NalusMade
<1>3. CASE Len(q) = 0
  BY <1>2, <1>3 DEF FirstWaiting, Behind
<1>4. CASE Len(q) # 0
  <2>1. 1 \in 1..Len(q)
    BY <1>2, <1>4
  <2>2. PacketRight(q[1].units)
    BY <2>1, Zenon DEF SourceRight, QueueRight
  <2> DEFINE u == q[1].units
  <2>3. 1 \in 1..Len(u)
    BY <2>2 DEF PacketRight
  <2>4. u[1].n \in 1..Len(offered)
    BY <2>2, <2>3, Zenon DEF PacketRight
  <2>5. FirstWaiting(s) = q[0 + 1].units[1].n
    BY <1>4 DEF FirstWaiting, Behind
  <2>6. QED
    BY <1>2, <2>4, <2>5
<1>5. QED
  BY <1>3, <1>4

\* The NAL unit that is taken is the next one; a VCL NAL unit is its packet's last.
LEMMA TakenRight ==
  ASSUME offered \in NalusMade, NEW s, SourceRight(s), s.nalus_sending # << >>
  PROVE  /\ SourceRight(Taken(s)) /\ NextNalu(Taken(s)) = NextNalu(s) + 1
         /\ NextNalu(s) \in 1..Len(offered)
         /\ Head(s.nalus_sending) = Bytes(NextNalu(s))
         /\ Taken(s).last_tv = s.last_tv
         /\ ~offered[NextNalu(s)].vcl => Taken(s).nalus_sending # << >>
<1> DEFINE m == s.nalus_sending
           e == Taken(s)
           n == NextNalu(s)
<1>1. /\ s \in Sources /\ m \in Seq(Seq(Octet)) /\ m # << >> /\ Len(m) \in Nat /\ Len(m) >= 1
  BY DEF SourceRight, Sources
<1>2. /\ n \in 1..(Len(offered) + 1) /\ Len(offered) \in Nat
      /\ FirstWaiting(s) \in 1..(Len(offered) + 1) /\ n = FirstWaiting(s) - Len(m)
  BY FirstWaitingTyped DEF SourceRight, NextNalu, NalusMade
<1>3. /\ Tail(m) \in Seq(Seq(Octet)) /\ Len(Tail(m)) = Len(m) - 1
      /\ \A i \in 1..(Len(m) - 1) : Tail(m)[i] = m[i + 1]
  BY <1>1
<1> HIDE DEF m
<1>4. /\ e \in Sources /\ e.nalus_sending = Tail(m) /\ e.encodedPackets = s.encodedPackets
      /\ e.last_tv = s.last_tv
  BY <1>1, <1>3 DEF Taken, Sources, m
<1> HIDE DEF e
<1>5. FirstWaiting(e) = FirstWaiting(s)
  BY <1>4, Zenon DEF FirstWaiting
<1>6. NextNalu(e) = n + 1
  <2>1. NextNalu(e) = FirstWaiting(s) - (Len(m) - 1)
    BY <1>3, <1>4, <1>5 DEF NextNalu
  <2>2. QED
    BY <1>1, <1>2, <2>1
<1>7. n \in 1..Len(offered)
  BY <1>1, <1>2
<1> HIDE DEF n
<1>8. \A i \in 1..Len(m) : m[i] = Bytes(n + i - 1) /\ (offered[n + i - 1].vcl <=> i = Len(m))
  BY Zenon DEF SourceRight, m, n
<1>9. Head(m) = Bytes(n) /\ (offered[n].vcl <=> 1 = Len(m))
  <2>1. 1 \in 1..Len(m) /\ n + 1 - 1 = n
    BY <1>1, <1>7
  <2>2. m[1] = Bytes(n) /\ (offered[n].vcl <=> 1 = Len(m))
    BY <1>8, <2>1, Zenon
  <2>3. Head(m) = m[1]
    OBVIOUS
  <2>4. QED
    BY <2>2, <2>3, Zenon
<1>10. ASSUME NEW i \in 1..Len(e.nalus_sending)
       PROVE  /\ e.nalus_sending[i] = Bytes(NextNalu(e) + i - 1)
              /\ offered[NextNalu(e) + i - 1].vcl <=> i = Len(e.nalus_sending)
  <2>1. /\ i \in 1..(Len(m) - 1) /\ i + 1 \in 1..Len(m)
        /\ NextNalu(e) + i - 1 = n + (i + 1) - 1
        /\ i = Len(m) - 1 <=> i + 1 = Len(m)
    BY <1>1, <1>3, <1>4, <1>6, <1>7
  <2>2. e.nalus_sending[i] = m[i + 1]
    BY <1>3, <1>4, <2>1, Zenon
  <2>3. Len(e.nalus_sending) = Len(m) - 1
    BY <1>3, <1>4
  <2>4. QED
    BY <1>8, <2>1, <2>2, <2>3, Zenon
<1>11. SourceRight(e)
  <2>1. NextNalu(e) \in 1..(Len(offered) + 1)
    BY <1>2, <1>6, <1>7
  <2>2. QED
    BY <1>4, <1>5, <1>10, <2>1, Zenon DEF SourceRight
<1>12. ~offered[n].vcl => e.nalus_sending # << >>
  <2>1. 1 # Len(m) => Len(Tail(m)) # 0
    BY <1>1, <1>3
  <2>2. Len(<< >>) = 0
    OBVIOUS
  <2>3. QED
    BY <1>4, <1>9, <2>1, <2>2, Zenon
<1>13. QED
  BY <1>4, <1>6, <1>7, <1>9, <1>11, <1>12, Zenon DEF e, m, n

\* The choice of the packet keeps the next NAL unit, and the presentation time of a
\* packet that is not through.
LEMMA NextPacketRight ==
  ASSUME offered \in NalusMade, SourceRight(src), HasNalu, NEW t \in Int
  PROVE  LET s == NextPacket(t)
         IN  /\ SourceRight(s) /\ NextNalu(s) = NextNalu(src) /\ s.nalus_sending # << >>
             /\ src.nalus_sending # << >> => s.last_tv = src.last_tv
<1> DEFINE s == NextPacket(t)
<1>1. CASE src.nalus_sending # << >>
  <2>1. s = src
    BY <1>1 DEF NextPacket
  <2>2. QED
    BY <1>1, <2>1, Zenon
<1>2. CASE src.nalus_sending = << >>
  <2> DEFINE q == src.encodedPackets
             pkt == Head(q)
             u == pkt.units
             n == u[1].n
             tv == IF src.last_pts = 0 THEN t
                   ELSE src.last_tv + (pkt.pts - src.last_pts) * Frame
             m == [i \in 1..Len(u) |-> Bytes(u[i].n)]
  <2>1. /\ src \in Sources /\ q \in Seq(Queued) /\ q # << >> /\ Len(q) \in Nat /\ Len(q) >= 1
        /\ Len(offered) \in Nat
    BY <1>2 DEF SourceRight, Sources, HasNalu, NalusMade
  <2>2. /\ Tail(q) \in Seq(Queued) /\ Len(Tail(q)) = Len(q) - 1 /\ Head(q) = q[1]
        /\ \A i \in 1..(Len(q) - 1) : Tail(q)[i] = q[i + 1]
    <3> HIDE DEF q
    <3>1. QED
      BY <2>1
  <2>3. pkt \in Queued /\ pkt.pts \in Int /\ u \in Seq(Units)
    <3>1. pkt \in Queued
      BY <2>1, <2>2, ElementOfSeq
    <3>2. QED
      BY <3>1 DEF Queued
  <2>4. /\ PacketRight(u) /\ n + Len(u) = Behind(q, 1)
    <3>1. 1 \in 1..Len(q)
      BY <2>1
    <3>2. QED
      BY <2>2, <3>1, Zenon DEF SourceRight, QueueRight
  <2>5. /\ Len(u) \in Nat /\ Len(u) >= 1 /\ n \in 1..Len(offered)
        /\ LongFirst(u)
        /\ \A i \in 1..Len(u) : /\ u[i].n = n + i - 1 /\ u[i].n \in 1..Len(offered)
                                /\ offered[u[i].n].vcl <=> i = Len(u)
    <3>1. Len(u) \in Nat /\ Len(u) >= 1
      BY <2>3, <2>4 DEF PacketRight
    <3>2. 1 \in 1..Len(u)
      BY <3>1
    <3>3. QED
      BY <2>4, <3>1, <3>2, Zenon DEF PacketRight
  <2>6. splitNalu(u) = m
    <3>1. \A i \in 1..Len(u) : offered[u[i].n].len \in Nat
      BY <2>5, WholeNalu
    <3>2. QED
      BY <2>3, <2>5, <3>1, SplitIsWhole
  <2>7. \A i \in 1..Len(u) : u[i].n \in Nat /\ offered[u[i].n].len \in Nat
    BY <2>5, WholeNalu
  <2> HIDE DEF u, n
  <2>8. m \in Seq(Seq(Octet)) /\ Len(m) = Len(u) /\ \A i \in 1..Len(u) : m[i] = Bytes(u[i].n)
    <3>1. \A i \in 1..Len(u) : Bytes(u[i].n) \in Seq(Octet)
      <4>1. SUFFICES ASSUME NEW i \in 1..Len(u) PROVE Bytes(u[i].n) \in Seq(Octet)
        OBVIOUS
      <4>2. Bytes(u[i].n) = Prefix(u[i].n, offered[u[i].n].len)
        BY DEF Bytes, Prefix
      <4>3. QED
        BY <2>7, <4>2, PrefixProperties
    <3>2. QED
      BY <2>5, <3>1
  <2>9. tv \in Int
    <3>1. /\ src.last_tv \in Int /\ src.last_pts \in Int /\ Frame \in Int
      BY <2>1, NumberAssumption DEF Sources
    <3>2. (pkt.pts - src.last_pts) * Frame \in Int
      BY <2>3, <3>1
    <3>3. QED
      BY <3>1, <3>2
  <2>10. s = [src EXCEPT !.encodedPackets = Tail(q), !.nalus_sending = m,
                         !.last_pts = pkt.pts, !.last_tv = tv]
    BY <1>2, <2>6 DEF NextPacket, u
  <2> HIDE DEF m, tv, pkt
  <2>11. /\ s \in Sources /\ s.encodedPackets = Tail(q) /\ s.nalus_sending = m
    <3>1. PICK r : r = [src EXCEPT !.encodedPackets = Tail(q), !.nalus_sending = m,
                         !.last_pts = pkt.pts, !.last_tv = tv]
      OBVIOUS
    <3>2. r \in Sources /\ r.encodedPackets = Tail(q) /\ r.nalus_sending = m
      BY <2>1, <2>2, <2>3, <2>8, <2>9, <3>1 DEF Sources
    <3>3. QED
      BY <2>10, <3>1, <3>2, Zenon
  <2> HIDE DEF s, q
  <2>12. \A i \in 0..(Len(q) - 1) : Behind(Tail(q), i) = Behind(q, i + 1)
    <3>1. SUFFICES ASSUME NEW i \in 0..(Len(q) - 1)
                   PROVE  Behind(Tail(q), i) = Behind(q, i + 1)
      OBVIOUS
    <3>2. CASE i = Len(q) - 1
      BY <2>1, <2>2, <3>2 DEF Behind
    <3>3. CASE i # Len(q) - 1
      <4>1. i + 1 \in 1..(Len(q) - 1) /\ i + 1 # Len(q) /\ i + 1 + 1 = i + 2
        BY <2>1, <3>3
      <4>2. i # Len(Tail(q))
        BY <2>2, <3>3, Zenon
      <4>3. QED
        BY <2>2, <4>1, <4>2, Zenon DEF Behind
    <3>4. QED
      BY <3>2, <3>3
  <2>13. FirstWaiting(s) = n + Len(u)
    <3>1. 0 \in 0..(Len(q) - 1) /\ 0 + 1 = 1
      BY <2>1
    <3>2. QED
      BY <2>4, <2>11, <2>12, <3>1, Zenon DEF FirstWaiting, u, n
  <2>14. NextNalu(s) = n
    <3>1. Len(s.nalus_sending) = Len(u)
      BY <2>8, <2>11, Zenon
    <3>2. NextNalu(s) = (n + Len(u)) - Len(u)
      BY <2>13, <3>1, Zenon DEF NextNalu
    <3>3. QED
      BY <2>5, <3>2
  <2>15. NextNalu(src) = n
    <3>1. FirstWaiting(src) = q[0 + 1].units[1].n
      BY <2>1 DEF FirstWaiting, Behind, q
    <3>2. FirstWaiting(src) = n
      BY <2>2, <3>1 DEF n, u, pkt
    <3>3. Len(src.nalus_sending) = 0
      BY <1>2
    <3>4. QED
      BY <2>5, <3>2, <3>3 DEF NextNalu
  <2>16. QueueRight(s.encodedPackets)
    <3>1. SUFFICES ASSUME NEW j \in 1..(Len(q) - 1)
                   PROVE  /\ PacketRight(Tail(q)[j].units)
                          /\ Tail(q)[j].units[1].n + Len(Tail(q)[j].units) = Behind(Tail(q), j)
      BY <2>2, <2>11, Zenon DEF QueueRight
    <3>2. j + 1 \in 1..Len(q) /\ j \in 0..(Len(q) - 1)
      BY <2>1
    <3>3. /\ PacketRight(q[j + 1].units)
          /\ q[j + 1].units[1].n + Len(q[j + 1].units) = Behind(q, j + 1)
      BY <3>2, Zenon DEF SourceRight, QueueRight, q
    <3>4. QED
      BY <2>2, <2>12, <3>2, <3>3, Zenon
  <2>17. ASSUME NEW i \in 1..Len(s.nalus_sending)
         PROVE  /\ s.nalus_sending[i] = Bytes(NextNalu(s) + i - 1)
                /\ offered[NextNalu(s) + i - 1].vcl <=> i = Len(s.nalus_sending)
    <3>1. Len(s.nalus_sending) = Len(u) /\ s.nalus_sending[i] = m[i]
      BY <2>8, <2>11, Zenon
    <3>2. i \in 1..Len(u)
      BY <3>1, Zenon
    <3>3. m[i] = Bytes(u[i].n) /\ u[i].n = n + i - 1 /\ (offered[u[i].n].vcl <=> i = Len(u))
      BY <2>5, <2>8, <3>2, Zenon
    <3>4. QED
      BY <2>14, <3>1, <3>3, Zenon
  <2>18. FirstWaiting(s) > 1 => offered[FirstWaiting(s) - 1].vcl
    <3>1. Len(u) \in 1..Len(u) /\ n + Len(u) - 1 = FirstWaiting(s) - 1
      BY <2>5, <2>13
    <3>2. u[Len(u)].n = FirstWaiting(s) - 1 /\ offered[u[Len(u)].n].vcl
      BY <2>5, <3>1, Zenon
    <3>3. QED
      BY <3>2, Zenon
  <2>19. SourceRight(s)
    <3>1. NextNalu(s) \in 1..(Len(offered) + 1)
      BY <2>1, <2>5, <2>14
    <3>2. QED
      BY <2>11, <2>16, <2>17, <2>18, <3>1, Zenon DEF SourceRight
  <2>20. m # << >>
    <3>1. Len(m) # 0
      BY <2>5, <2>8
    <3>2. QED
      BY <3>1
  <2>21. QED
    BY <1>2, <2>11, <2>14, <2>15, <2>19, <2>20, Zenon DEF s
<1>3. QED
  BY <1>1, <1>2

-----------------------------------------------------------------------------
(* The invariant.                                                          *)

\* A frame ends with its VCL NAL unit.
OfferedRight ==
    /\ offered \in NalusMade
    /\ \A n \in 1..(Len(offered) - 1) :
          offered[n + 1].unit = IF offered[n].vcl THEN offered[n].unit + 1 ELSE offered[n].unit
    /\ Len(offered) > 0 => offered[Len(offered)].vcl

\* The stream s, for which c is the NAL unit that was delivered last, at the time tv.
StreamRight(s, c, tv) ==
    /\ s \in Streams
    /\ ~s.playing => ~s.awaiting /\ ~s.due
    /\ Holds(s) => /\ c \in 1..Len(offered) /\ Sending(s, c)
                   /\ s.fCurDataOffset > 1 /\ s.fPresentationTime = tv
    /\ ~Holds(s) => s.fInputBuffer = <<NoByte>> /\ s.fCurDataOffset = 1

\* The receiver r has the NAL units before the one that is being sent, or knows that
\* it misses one; k packets were lost since it got one.
ReceiverRight(r, s, c, k) ==
    /\ r \in Receivers
    /\ Ahead(s.fSeqNo, r.next, k)
    /\ k > 0 => r.gap
    /\ k = 0 /\ Holds(s) => r.partial = << >> \/ r.partial = Prefix(c, s.fCurDataOffset - 1)
    /\ Holds(s) => r.got < c /\ (r.partial = << >> => r.gap)
    /\ r.got <= c
    /\ ~r.gap => r.got = IF Holds(s) THEN c - 1 ELSE c
    /\ ~s.playing => r.gap

\* What is known of the packet that is sent next, m being the last one.
LinkRight(l, m, s, c, tv) ==
    /\ l.is \in {"none", "announced", "follows"}
    /\ s.playing <=> l.is # "none"
    /\ l.is = "announced" => s.preset /\ l.seq = s.fSeqNo /\ l.ts = s.fTimestampBase
    /\ l.is = "follows" =>
          /\ ~s.preset /\ c \in 1..Len(offered) /\ m.nalu = c /\ s.fPresentationTime = tv
          /\ m.ts = (s.fTimestampBase + tv) % TsSpace
          /\ m.marker <=> offered[c].vcl /\ ~Holds(s)

Current == NextNalu(src) - 1

PathInv ==
    /\ OfferedRight /\ SourceRight(src) /\ now \in Int
    /\ StreamRight(stream, Current, src.last_tv)
    /\ lost \in 0..MaxLost
    /\ \E k \in 0..lost : ReceiverRight(receiver, stream, Current, k)
    /\ LinkRight(link, last, stream, Current, src.last_tv)

PromiseStep == [Promise!Next]_<<Len(offered), receiver.got, receiver.gap>>

\* A buffer that holds nothing.
LEMMA NothingHeld ==
  ASSUME NEW s, s.fInputBuffer = <<NoByte>>
  PROVE  ~Holds(s)
<1>1. Len(<<NoByte>>) = 1
  OBVIOUS
<1>2. Len(s.fInputBuffer) = 1
  BY <1>1, Zenon
<1>3. QED
  BY <1>2 DEF Holds

\* A packet with a fragment of NAL unit n goes out: e is what the sink makes of the
\* stream s, but for what a PLAY changes in the timestamps.
LEMMA PacketGoes ==
  ASSUME OfferedRight, offered' = offered, lost \in 0..MaxLost, NEW n \in 1..Len(offered),
         NEW s, Sending(s, n), NEW k \in 0..lost,
         Before(receiver, s.fSeqNo, n, s.fCurDataOffset, k),
         NEW e \in Streams,
         /\ e.playing = Delivered(s).playing /\ e.awaiting = Delivered(s).awaiting
         /\ e.fInputBuffer = Delivered(s).fInputBuffer
         /\ e.fCurDataOffset = Delivered(s).fCurDataOffset
         /\ e.pictureEndMarker = Delivered(s).pictureEndMarker
         /\ e.fPresentationTime = Delivered(s).fPresentationTime
         /\ e.fSeqNo = Delivered(s).fSeqNo /\ e.packet = Delivered(s).packet,
         Arrives(e)
  PROVE  /\ StreamRight(stream', n, s.fPresentationTime)
         /\ lost' \in 0..MaxLost
         /\ \E j \in 0..lost' : ReceiverRight(receiver', stream', n, j)
         /\ PromiseStep
         /\ stream'.playing /\ stream'.fPresentationTime = s.fPresentationTime
         /\ stream'.fTimestampBase = e.fTimestampBase /\ stream'.preset = e.preset
         /\ stream'.fSeqNo = e.fSeqNo
         /\ last'.seq = s.fSeqNo /\ last'.nalu = n
         /\ last'.ts = convertToRTPTimestamp(s, s.fPresentationTime)
         /\ last'.marker <=> offered[n].vcl /\ ~Holds(stream')
<1> DEFINE d == Delivered(s)
           b == s.fInputBuffer
           o == s.fCurDataOffset
           f == Fragment(b, o)
           t == s.fPresentationTime
           p == e.packet
           q == stream'
<1>1. offered \in NalusMade /\ n \in Nat /\ Size(n) \in Nat \ {0} /\ Size(n) \in Nat
  <2>1. offered \in NalusMade
    BY DEF OfferedRight
  <2>2. n \in Nat /\ Size(n) \in Nat \ {0}
    BY <2>1, WholeNalu, Zenon
  <2>3. QED
    BY <2>1, <2>2
<1>2. s \in Streams /\ s.playing /\ Loaded(b, o, n) /\ s.fSeqNo \in SeqNos
  BY DEF Sending, Streams
<1>3. /\ d \in Streams /\ d.playing /\ ~d.awaiting
      /\ d.fSeqNo = (s.fSeqNo + 1) % SeqSpace /\ d.fPresentationTime = t
      /\ d.packet.seq = s.fSeqNo /\ d.packet.payload = f.payload
      /\ Head(d.packet.payload).nalu = n
      /\ d.packet.ts = convertToRTPTimestamp(s, t)
      /\ d.packet.marker <=> f.complete /\ offered[n].vcl
      /\ f.complete => d.fInputBuffer = <<NoByte>> /\ d.fCurDataOffset = 1
      /\ ~f.complete => /\ Loaded(d.fInputBuffer, d.fCurDataOffset, n)
                        /\ d.fCurDataOffset = f.offset /\ d.fCurDataOffset > 1
                        /\ d.pictureEndMarker <=> offered[n].vcl
  BY <1>1, DeliveredIs, Zenon
<1> HIDE DEF d, f
<1>4. p \in Sent /\ p.seq \in SeqNos /\ p.seq = s.fSeqNo /\ p.payload = f.payload
  BY <1>2, <1>3 DEF Streams, d
<1>5. /\ q \in Streams /\ q.playing /\ ~q.awaiting
      /\ q.fSeqNo = (s.fSeqNo + 1) % SeqSpace /\ q.fPresentationTime = t
      /\ q.fInputBuffer = d.fInputBuffer /\ q.fCurDataOffset = d.fCurDataOffset
      /\ q.pictureEndMarker = d.pictureEndMarker
      /\ q.fTimestampBase = e.fTimestampBase /\ q.preset = e.preset /\ q.fSeqNo = e.fSeqNo
  <2>1. NoPacket \in Sent
    BY DEF NoPacket, Sent
  <2>2. q = [e EXCEPT !.packet = NoPacket]
    BY DEF Arrives
  <2>3. /\ q \in Streams /\ q.playing = e.playing /\ q.awaiting = e.awaiting
        /\ q.fSeqNo = e.fSeqNo /\ q.fPresentationTime = e.fPresentationTime
        /\ q.fInputBuffer = e.fInputBuffer /\ q.fCurDataOffset = e.fCurDataOffset
        /\ q.pictureEndMarker = e.pictureEndMarker
        /\ q.fTimestampBase = e.fTimestampBase /\ q.preset = e.preset
    BY <2>1, <2>2 DEF Streams
  <2>4. QED
    BY <1>3, <2>3, Zenon DEF d
<1>6. /\ last'.seq = s.fSeqNo /\ last'.nalu = n
      /\ last'.ts = convertToRTPTimestamp(s, t)
      /\ last'.marker <=> f.complete /\ offered[n].vcl
  <2>1. last' = [seq |-> p.seq, ts |-> p.ts, marker |-> p.marker, nalu |-> Head(p.payload).nalu]
    BY DEF Arrives
  <2>2. /\ last'.seq = p.seq /\ last'.ts = p.ts /\ last'.marker = p.marker
        /\ last'.nalu = Head(p.payload).nalu
    BY <2>1, Zenon
  <2>3. QED
    BY <1>3, <2>2, Zenon DEF d
<1>7. Holds(q) <=> ~f.complete
  <2>1. f.complete => ~Holds(q)
    BY <1>3, <1>5, NothingHeld, Zenon
  <2>2. ASSUME ~f.complete
        PROVE  Holds(q)
    <3>1. Loaded(q.fInputBuffer, q.fCurDataOffset, n)
      BY <1>3, <1>5, <2>2, Zenon
    <3>2. QED
      BY <1>1, <3>1 DEF Loaded, Holds
  <2>3. QED
    BY <2>1, <2>2
<1>8. StreamRight(q, n, t)
  <2>1. Holds(q) => Sending(q, n) /\ q.fCurDataOffset > 1
    BY <1>3, <1>5, <1>7, Zenon DEF Sending
  <2>2. QED
    BY <1>3, <1>5, <1>7, <2>1, Zenon DEF StreamRight
<1>9. /\ lost \in Nat /\ MaxLost \in Nat /\ lost <= MaxLost /\ MaxLost < SeqSpace
      /\ k \in 0..(SeqSpace - 1) /\ SeqSpace \in Nat \ {0}
  BY LossAssumption, NumberAssumption
<1>10. /\ receiver \in Receivers /\ receiver.got < n /\ receiver.got \in Nat
       /\ receiver.gap \in BOOLEAN
       /\ ~receiver.gap => receiver.got = n - 1
       /\ receiver.next \in SeqNos
  BY DEF Before, Receivers, SeqNos
<1>11. /\ q.fSeqNo \in SeqNos /\ Ahead(q.fSeqNo, receiver.next, k + 1)
  BY <1>2, <1>5, <1>9, <1>10, AheadOne DEF Before, SeqNos
<1> HIDE DEF q
<1>12. CASE receiver' = Received(receiver, p) /\ lost' = 0
  <2> DEFINE r == receiver'
  <2>1. /\ r \in Receivers /\ r.next = (p.seq + 1) % SeqSpace
        /\ \/ r.got = receiver.got /\ r.gap = receiver.gap
           \/ r.got = n /\ ~r.gap /\ (n = receiver.got + 1 \/ receiver.gap)
        /\ ~f.complete => /\ r.got = receiver.got /\ r.gap = receiver.gap
                          /\ r.partial = << >> => r.gap
                          /\ r.partial = << >> \/ r.partial = Prefix(n, f.offset - 1)
        /\ f.complete => r.gap \/ r.got = n
    <3>1. Before(receiver, p.seq, n, o, k)
      BY <1>4, Zenon
    <3>2. p.payload = Fragment(b, o).payload
      BY <1>4, Zenon DEF f
    <3>3. p.seq \in 0..(SeqSpace - 1)
      BY <1>4, Zenon DEF SeqNos
    <3> HIDE DEF p, b, o
    <3>4. LET w == Received(receiver, p)
              g == Fragment(b, o)
          IN  /\ w \in Receivers /\ w.next = (p.seq + 1) % SeqSpace
              /\ \/ w.got = receiver.got /\ w.gap = receiver.gap
                 \/ w.got = n /\ ~w.gap /\ (n = receiver.got + 1 \/ receiver.gap)
              /\ ~g.complete => /\ w.got = receiver.got /\ w.gap = receiver.gap
                                /\ w.partial = << >> => w.gap
                                /\ w.partial = << >> \/ w.partial = Prefix(n, g.offset - 1)
              /\ g.complete => w.gap \/ w.got = n
      BY <1>1, <1>2, <1>4, <1>9, <3>1, <3>2, <3>3, PacketReceived
    <3>5. QED
      BY <1>12, <3>4, Zenon DEF f
  <2>2. Ahead(q.fSeqNo, r.next, 0)
    <3>1. q.fSeqNo = r.next
      BY <1>4, <1>5, <2>1, Zenon DEF q
    <3>2. r.next + 0 = r.next
      BY <2>1 DEF Receivers
    <3>3. QED
      BY <3>1, <3>2, Zenon DEF Ahead
  <2> HIDE DEF r
  <2>3. r.got \in Nat /\ r.got <= n
    BY <1>1, <1>10, <2>1
  <2>4. Holds(q) => /\ r.got < n
                    /\ r.partial = << >> => r.gap
                    /\ r.partial = << >> \/ r.partial = Prefix(n, q.fCurDataOffset - 1)
    BY <1>3, <1>5, <1>7, <1>10, <2>1, Zenon DEF q
  <2>5. ~r.gap => r.got = IF Holds(q) THEN n - 1 ELSE n
    BY <1>7, <1>10, <2>1, Zenon DEF q
  <2>6. ReceiverRight(r, q, n, 0)
    <3>1. ~(0 > 0)
      OBVIOUS
    <3>2. QED
      BY <1>5, <2>1, <2>2, <2>3, <2>4, <2>5, <3>1, Zenon DEF ReceiverRight, q
  <2>7. PromiseStep
    <3>1. CASE r.got = receiver.got /\ r.gap = receiver.gap
      BY <3>1 DEF PromiseStep, r
    <3>2. CASE r.got = n /\ ~r.gap /\ (n = receiver.got + 1 \/ receiver.gap)
      <4>1. n \in (receiver.got + 1)..Len(offered)
        BY <1>10
      <4>2. r.gap = FALSE
        BY <2>1, <3>2 DEF Receivers
      <4>3. Promise!Receive(n)
        BY <3>2, <4>2, Zenon DEF Promise!Receive, r
      <4>4. QED
        BY <4>1, <4>3, Zenon DEF PromiseStep, Promise!Next
    <3>3. QED
      BY <2>1, <3>1, <3>2
  <2>8. lost' \in 0..MaxLost /\ 0 \in 0..lost'
    BY <1>9, <1>12
  <2>9. QED
    BY <1>5, <1>6, <1>7, <1>8, <2>6, <2>7, <2>8, Zenon DEF q, r
<1>13. CASE lost < MaxLost /\ lost' = lost + 1 /\ receiver' = [receiver EXCEPT !.gap = TRUE]
  <2> DEFINE r == receiver'
  <2>1. /\ r \in Receivers /\ r.next = receiver.next /\ r.got = receiver.got /\ r.gap = TRUE
    BY <1>10, <1>13 DEF Receivers
  <2> HIDE DEF r
  <2>2. ReceiverRight(r, q, n, k + 1)
    <3>1. k + 1 > 0 /\ k + 1 # 0 /\ r.got < n /\ r.got <= n
      BY <1>1, <1>9, <1>10, <2>1
    <3>2. QED
      BY <1>11, <2>1, <3>1, Zenon DEF ReceiverRight
  <2>3. PromiseStep
    <3>1. Promise!Miss
      BY <2>1 DEF Promise!Miss, r
    <3>2. QED
      BY <3>1, Zenon DEF PromiseStep, Promise!Next
  <2>4. lost' \in 0..MaxLost /\ k + 1 \in 0..lost'
    BY <1>9, <1>13
  <2>5. QED
    BY <1>5, <1>6, <1>7, <1>8, <2>2, <2>3, <2>4, Zenon DEF q, r
<1>14. QED
  BY <1>12, <1>13 DEF Arrives, p

-----------------------------------------------------------------------------
(* The steps that leave the encoder's NAL units as they are.               *)

\* What is said of the next state when no NAL unit is made.
LEMMA SourcePrimed ==
  ASSUME offered' = offered
  PROVE  /\ SourceRight(src)' <=> SourceRight(src')
         /\ NextNalu(src)' = NextNalu(src')
<1>1. FirstWaiting(src)' = FirstWaiting(src')
  BY Zenon DEF FirstWaiting, Behind
<1>2. NextNalu(src)' = NextNalu(src')
  BY <1>1, Zenon DEF NextNalu
<1>3. QueueRight(src.encodedPackets)' <=> QueueRight(src'.encodedPackets)
  BY DEF QueueRight, Behind, PacketRight
<1>4. \A n : Bytes(n)' = Bytes(n)
  BY DEF Bytes
<1>5. QED
  BY <1>1, <1>2, <1>3, <1>4 DEF SourceRight

LEMMA StreamPrimed ==
  ASSUME offered' = offered
  PROVE  /\ StreamRight(stream, Current, src.last_tv)' <=> StreamRight(stream', Current', src'.last_tv)
         /\ LinkRight(link, last, stream, Current, src.last_tv)'
              <=> LinkRight(link', last', stream', Current', src'.last_tv)
         /\ \A k : ReceiverRight(receiver, stream, Current, k)'
                    <=> ReceiverRight(receiver', stream', Current', k)
<1>1. Sending(stream, Current)' <=> Sending(stream', Current')
  <2>1. Size(Current)' = Size(Current')
    BY Zenon DEF Size
  <2>2. Loaded(stream.fInputBuffer, stream.fCurDataOffset, Current)'
          <=> Loaded(stream'.fInputBuffer, stream'.fCurDataOffset, Current')
    BY <2>1, Zenon DEF Loaded
  <2>3. QED
    BY <2>2, Zenon DEF Sending
<1>2. StreamRight(stream, Current, src.last_tv)' <=> StreamRight(stream', Current', src'.last_tv)
  BY <1>1, Zenon DEF StreamRight, Holds
<1>3. LinkRight(link, last, stream, Current, src.last_tv)'
        <=> LinkRight(link', last', stream', Current', src'.last_tv)
  BY Zenon DEF LinkRight, Holds
<1>4. \A k : ReceiverRight(receiver, stream, Current, k)'
               <=> ReceiverRight(receiver', stream', Current', k)
  BY Zenon DEF ReceiverRight, Holds
<1>5. QED
  BY <1>2, <1>3, <1>4, Zenon

LEMMA PathInvPrimed ==
  ASSUME OfferedRight, offered' = offered, SourceRight(src'), now' \in Int,
         NEW c, NextNalu(src') - 1 = c,
         StreamRight(stream', c, src'.last_tv), lost' \in 0..MaxLost,
         \E k \in 0..lost' : ReceiverRight(receiver', stream', c, k),
         LinkRight(link', last', stream', c, src'.last_tv)
  PROVE  PathInv'
<1>1. SourceRight(src)' /\ Current' = c
  BY SourcePrimed, Zenon DEF Current
<1>2. OfferedRight'
  BY Zenon DEF OfferedRight
<1>3. StreamRight(stream, Current, src.last_tv)'
  BY <1>1, StreamPrimed, Zenon
<1>4. LinkRight(link, last, stream, Current, src.last_tv)'
  BY <1>1, StreamPrimed, Zenon
<1>5. PICK k \in 0..lost' : ReceiverRight(receiver', stream', c, k)
  OBVIOUS
<1>6. ReceiverRight(receiver, stream, Current, k)'
  BY <1>1, <1>5, StreamPrimed, Zenon
<1>7. (\E j \in 0..lost : ReceiverRight(receiver, stream, Current, j))'
  BY <1>5, <1>6, Zenon
<1>8. QED
  BY <1>1, <1>2, <1>3, <1>4, <1>7, Zenon DEF PathInv

\* What FramesAreMarked says of a step.
MarkedStep ==
    last' # last /\ last' # NothingSent =>
        CASE link.is = "follows" ->
                 /\ last.marker <=> Unit(last') # Unit(last)
                 /\ Unit(last') = Unit(last) => last'.ts = last.ts
          [] link.is = "announced" ->
                 last'.seq = link.seq /\ last'.ts = link.ts
          [] OTHER -> TRUE

\* The parts of the invariant that the steps need.
LEMMA PathParts ==
  ASSUME PathInv
  PROVE  /\ OfferedRight /\ offered \in NalusMade /\ SourceRight(src) /\ now \in Int
         /\ stream \in Streams /\ src \in Sources /\ lost \in 0..MaxLost
         /\ Current \in Int /\ NextNalu(src) - 1 = Current
         /\ NextNalu(src) = Current + 1 /\ Current \in 0..Len(offered)
         /\ src.last_tv \in Int
<1>1. /\ OfferedRight /\ offered \in NalusMade /\ SourceRight(src) /\ now \in Int
      /\ stream \in Streams /\ lost \in 0..MaxLost
  BY Zenon DEF PathInv, OfferedRight, StreamRight
<1>2. src \in Sources /\ NextNalu(src) \in 1..(Len(offered) + 1)
  BY <1>1, Zenon DEF SourceRight
<1>3. Len(offered) \in Nat
  BY <1>1 DEF NalusMade
<1>4. QED
  BY <1>1, <1>2, <1>3 DEF Current, Sources

LEMMA RestartRight ==
  ASSUME PathInv, Restart
  PROVE  PathInv' /\ PromiseStep /\ MarkedStep
<1>1. /\ OfferedRight /\ SourceRight(src) /\ src \in Sources /\ NextNalu(src) - 1 = Current
  BY PathParts, Zenon
<1>2. /\ src'.encodedPackets = src.encodedPackets /\ src'.nalus_sending = src.nalus_sending
      /\ src'.last_tv = src.last_tv /\ src' \in Sources
  BY <1>1 DEF Restart, Sources
<1>3. FirstWaiting(src') = FirstWaiting(src) /\ NextNalu(src') = NextNalu(src)
  BY <1>2, Zenon DEF NextNalu, FirstWaiting
<1>4. SourceRight(src')
  BY <1>1, <1>2, <1>3, Zenon DEF SourceRight
<1>5. PathInv'
  <2>1. /\ offered' = offered /\ now' = now /\ stream' = stream /\ receiver' = receiver
        /\ last' = last /\ link' = link /\ lost' = lost
    BY Zenon DEF Restart
  <2>2. NextNalu(src') - 1 = Current
    BY <1>1, <1>3, Zenon
  <2>3. /\ StreamRight(stream', Current, src'.last_tv)
        /\ \E k \in 0..lost' : ReceiverRight(receiver', stream', Current, k)
        /\ LinkRight(link', last', stream', Current, src'.last_tv)
        /\ lost' \in 0..MaxLost /\ now' \in Int
    BY <1>2, <2>1, Zenon DEF PathInv
  <2>4. QED
    BY <1>1, <1>4, <2>1, <2>2, <2>3, PathInvPrimed, Zenon
<1>6. QED
  BY <1>5, Zenon DEF Restart, PromiseStep, MarkedStep

LEMMA ClockIsInt ==
  ASSUME now \in Int, NEW t \in Clock
  PROVE  t \in Int
BY DEF Clock

LEMMA PlayAgainRight ==
  ASSUME PathInv, NEW t \in Clock, PlayAgain(t)
  PROVE  PathInv' /\ PromiseStep /\ MarkedStep
<1> DEFINE q == stream'
           base == convertToRTPTimestamp(stream, t)
<1>1. /\ OfferedRight /\ SourceRight(src) /\ src \in Sources /\ NextNalu(src) - 1 = Current
      /\ stream \in Streams /\ now \in Int
  BY PathParts, Zenon
<1>2. t \in Int
  BY <1>1, ClockIsInt
<1>3. base \in Stamps
  BY <1>1, <1>2, StampsTyped
<1>4. /\ stream.playing /\ now' = t /\ link' = Announced(q)
      /\ q = [stream EXCEPT !.fTimestampBase = base, !.preset = TRUE]
      /\ last' = NothingSent /\ offered' = offered /\ src' = src /\ receiver' = receiver
      /\ lost' = lost
  BY Zenon DEF PlayAgain, Preset
<1> HIDE DEF base
<1>5. /\ q \in Streams /\ q.playing = stream.playing /\ q.awaiting = stream.awaiting
      /\ q.pictureEndMarker = stream.pictureEndMarker /\ q.due = stream.due
      /\ q.fInputBuffer = stream.fInputBuffer /\ q.fCurDataOffset = stream.fCurDataOffset
      /\ q.fPresentationTime = stream.fPresentationTime /\ q.fSeqNo = stream.fSeqNo
      /\ q.fTimestampBase = base /\ q.preset = TRUE
  BY <1>1, <1>3, <1>4 DEF Streams
<1> HIDE DEF q
<1>6. Holds(q) <=> Holds(stream)
  BY <1>5, Zenon DEF Holds
<1>7. StreamRight(q, Current, src.last_tv)
  <2>1. StreamRight(stream, Current, src.last_tv)
    BY Zenon DEF PathInv
  <2>2. QED
    BY <1>5, <1>6, <2>1, Zenon DEF StreamRight, Sending
<1>8. \E k \in 0..lost : ReceiverRight(receiver, q, Current, k)
  <2>1. PICK k \in 0..lost : ReceiverRight(receiver, stream, Current, k)
    BY Zenon DEF PathInv
  <2>2. ReceiverRight(receiver, q, Current, k)
    BY <1>5, <1>6, <2>1, Zenon DEF ReceiverRight
  <2>3. QED
    BY <2>2
<1>9. LinkRight(link', last', q, Current, src.last_tv)
  <2>1. link'.is = "announced" /\ link'.seq = q.fSeqNo /\ link'.ts = q.fTimestampBase
    BY <1>4 DEF Announced, NotLinked
  <2>2. QED
    BY <1>4, <1>5, <2>1 DEF LinkRight
<1>10. PathInv'
  <2>1. lost' \in 0..MaxLost /\ now' \in Int
    BY <1>2, <1>4, Zenon DEF PathInv
  <2>2. QED
    BY <1>1, <1>4, <1>7, <1>8, <1>9, <2>1, PathInvPrimed, Zenon DEF q
<1>11. QED
  BY <1>4, <1>10, Zenon DEF PromiseStep, MarkedStep

LEMMA PauseRight ==
  ASSUME PathInv, Pause
  PROVE  PathInv' /\ PromiseStep /\ MarkedStep
<1> DEFINE q == stream'
           r == receiver'
<1>1. /\ OfferedRight /\ SourceRight(src) /\ src \in Sources /\ NextNalu(src) - 1 = Current
      /\ stream \in Streams /\ now \in Int
  BY PathParts, Zenon
<1>2. /\ q = [Reset(stream) EXCEPT !.playing = FALSE, !.awaiting = FALSE, !.due = FALSE]
      /\ r = [receiver EXCEPT !.gap = TRUE]
      /\ last' = NothingSent /\ link' = NotLinked
      /\ offered' = offered /\ src' = src /\ now' = now /\ lost' = lost
  BY Zenon DEF Pause
<1>3. <<NoByte>> \in Seq(Octet)
  BY DEF NoByte, Byte, Octet
<1>4. PICK e : e = Reset(stream)
  OBVIOUS
<1>5. e \in Streams /\ e.fInputBuffer = <<NoByte>> /\ e.fCurDataOffset = 1 /\ e.fSeqNo = stream.fSeqNo
  BY <1>1, <1>3, <1>4 DEF Reset, Streams
<1>6. q = [e EXCEPT !.playing = FALSE, !.awaiting = FALSE, !.due = FALSE]
  BY <1>2, <1>4, Zenon
<1>7. /\ q \in Streams /\ q.fInputBuffer = <<NoByte>> /\ q.fCurDataOffset = 1
      /\ q.fSeqNo = stream.fSeqNo /\ q.playing = FALSE /\ q.awaiting = FALSE /\ q.due = FALSE
  BY <1>5, <1>6 DEF Streams
<1> HIDE DEF q
<1>8. ~Holds(q)
  BY <1>7, NothingHeld
<1>9. StreamRight(q, Current, src.last_tv)
  BY <1>7, <1>8, Zenon DEF StreamRight
<1>10. PICK k \in 0..lost : ReceiverRight(receiver, stream, Current, k)
  BY Zenon DEF PathInv
<1>11. /\ r \in Receivers /\ r.next = receiver.next /\ r.got = receiver.got /\ r.gap = TRUE
       /\ r.partial = receiver.partial
  BY <1>2, <1>10 DEF ReceiverRight, Receivers
<1> HIDE DEF r
<1>12. ReceiverRight(r, q, Current, k)
  BY <1>7, <1>8, <1>10, <1>11, Zenon DEF ReceiverRight
<1>13. LinkRight(link', last', q, Current, src.last_tv)
  <2>1. link'.is = "none"
    BY <1>2 DEF NotLinked
  <2>2. QED
    BY <1>7, <2>1 DEF LinkRight
<1>14. PathInv'
  <2>1. lost' \in 0..MaxLost /\ now' \in Int
    BY <1>2, Zenon DEF PathInv
  <2>2. QED
    BY <1>1, <1>2, <1>9, <1>10, <1>12, <1>13, <2>1, PathInvPrimed, Zenon DEF q, r
<1>15. Promise!Miss
  BY <1>2, <1>11 DEF Promise!Miss, r
<1>16. QED
  BY <1>2, <1>14, <1>15, Zenon DEF PromiseStep, MarkedStep, Promise!Next

\* A preset base makes the timestamp of the next packet what was announced.
LEMMA StampIs ==
  ASSUME NEW s \in Streams, NEW t \in Int
  PROVE  /\ s.preset => convertToRTPTimestamp(s, t) = s.fTimestampBase
         /\ ~s.preset => convertToRTPTimestamp(s, t) = (s.fTimestampBase + t) % TsSpace
<1>1. s.fTimestampBase \in 0..(TsSpace - 1) /\ TsSpace \in Nat \ {0}
  BY NumberAssumption DEF Streams, Stamps
<1>2. CASE s.preset
  <2>1. convertToRTPTimestamp(s, t) = (((s.fTimestampBase - t) % TsSpace) + t) % TsSpace
    BY <1>2, Zenon DEF convertToRTPTimestamp, BaseFor
  <2>2. QED
    BY <1>1, <1>2, <2>1, ModBack, Zenon
<1>3. CASE ~s.preset
  BY <1>3, Zenon DEF convertToRTPTimestamp, BaseFor
<1>4. QED
  BY <1>2, <1>3

LEMMA SendNextRight ==
  ASSUME PathInv, SendNext
  PROVE  PathInv' /\ PromiseStep /\ MarkedStep
<1> DEFINE s == [stream EXCEPT !.due = FALSE]
           c == Current
           tv == src.last_tv
           q == stream'
<1>1. /\ OfferedRight /\ SourceRight(src) /\ src \in Sources /\ NextNalu(src) - 1 = c
      /\ stream \in Streams /\ now \in Int /\ lost \in 0..MaxLost /\ offered \in NalusMade
      /\ tv \in Int
  BY PathParts, Zenon
<1>2. /\ s \in Streams /\ s.playing = stream.playing /\ s.awaiting = stream.awaiting
      /\ s.pictureEndMarker = stream.pictureEndMarker /\ s.preset = stream.preset
      /\ s.fInputBuffer = stream.fInputBuffer /\ s.fCurDataOffset = stream.fCurDataOffset
      /\ s.fPresentationTime = stream.fPresentationTime /\ s.fSeqNo = stream.fSeqNo
      /\ s.fTimestampBase = stream.fTimestampBase
  BY <1>1 DEF Streams
<1>3. Holds(s) <=> Holds(stream)
  BY <1>2, Zenon DEF Holds
<1>4. /\ stream.due /\ offered' = offered /\ src' = src /\ now' = now
      /\ IF Holds(s) THEN Arrives(Delivered(s)) /\ link' = Follows
         ELSE /\ q = [s EXCEPT !.awaiting = TRUE]
              /\ receiver' = receiver /\ last' = last /\ link' = link /\ lost' = lost
  BY Zenon DEF SendNext, Holds
<1>5. StreamRight(stream, c, tv) /\ LinkRight(link, last, stream, c, tv)
  BY Zenon DEF PathInv
<1>6. PICK k \in 0..lost : ReceiverRight(receiver, stream, c, k)
  BY Zenon DEF PathInv
<1>7. stream.playing
  BY <1>4, <1>5, Zenon DEF StreamRight
<1> HIDE DEF s
<1>8. CASE Holds(stream)
  <2>1. /\ c \in 1..Len(offered) /\ Sending(stream, c)
        /\ stream.fCurDataOffset > 1 /\ stream.fPresentationTime = tv
    BY <1>5, <1>8, Zenon DEF StreamRight
  <2>2. Sending(s, c)
    BY <1>2, <2>1, Zenon DEF Sending
  <2>3. Before(receiver, s.fSeqNo, c, s.fCurDataOffset, k)
    BY <1>2, <1>6, <1>8, Zenon DEF Before, ReceiverRight
  <2>4. Delivered(s) \in Streams
    BY <1>1, <2>1, <2>2, DeliveredBase
  <2>5. Arrives(Delivered(s)) /\ link' = Follows
    BY <1>3, <1>4, <1>8, Zenon
  <2>6. /\ StreamRight(q, c, s.fPresentationTime)
        /\ lost' \in 0..MaxLost
        /\ \E j \in 0..lost' : ReceiverRight(receiver', q, c, j)
        /\ PromiseStep
        /\ q.playing /\ q.fPresentationTime = s.fPresentationTime
        /\ q.fTimestampBase = Delivered(s).fTimestampBase /\ q.preset = Delivered(s).preset
        /\ q.fSeqNo = Delivered(s).fSeqNo
        /\ last'.seq = s.fSeqNo /\ last'.nalu = c
        /\ last'.ts = convertToRTPTimestamp(s, s.fPresentationTime)
        /\ last'.marker <=> offered[c].vcl /\ ~Holds(q)
    BY <1>1, <1>4, <2>1, <2>2, <2>3, <2>4, <2>5, PacketGoes
  <2>7. /\ Delivered(s).preset = FALSE
        /\ Delivered(s).fTimestampBase = BaseFor(s, s.fPresentationTime)
    BY <1>1, <2>1, <2>2, DeliveredBase
  <2>8. s.fPresentationTime = tv
    BY <1>2, <2>1
  <2>9. LinkRight(link', last', q, c, tv)
    <3>1. link'.is = "follows"
      BY <2>5 DEF Follows, NotLinked
    <3>2. last'.ts = (q.fTimestampBase + tv) % TsSpace
      BY <2>6, <2>7, <2>8, Zenon DEF convertToRTPTimestamp
    <3>3. ~q.preset
      BY <2>6, <2>7, Zenon
    <3> HIDE DEF q
    <3>4. QED
      BY <2>1, <2>6, <2>8, <3>1, <3>2, <3>3 DEF LinkRight
  <2>10. PathInv'
    BY <1>1, <1>4, <2>6, <2>8, <2>9, PathInvPrimed, Zenon
  <2>11. MarkedStep
    <3>1. ASSUME link.is = "follows"
          PROVE  /\ last.marker <=> Unit(last') # Unit(last)
                 /\ Unit(last') = Unit(last) => last'.ts = last.ts
      <4>1. /\ ~stream.preset /\ last.nalu = c /\ last.ts = (stream.fTimestampBase + tv) % TsSpace
            /\ last.marker <=> offered[c].vcl /\ ~Holds(stream)
        BY <1>5, <3>1, Zenon DEF LinkRight
      <4>2. Unit(last') = Unit(last)
        BY <2>6, <4>1, Zenon DEF Unit
      <4>3. last'.ts = last.ts
        BY <1>1, <1>2, <2>6, <2>8, <4>1, StampIs, Zenon
      <4>4. QED
        BY <1>8, <4>1, <4>2, <4>3, Zenon
    <3>2. ASSUME link.is = "announced"
          PROVE  last'.seq = link.seq /\ last'.ts = link.ts
      <4>1. stream.preset /\ link.seq = stream.fSeqNo /\ link.ts = stream.fTimestampBase
        BY <1>5, <3>2, Zenon DEF LinkRight
      <4>2. last'.ts = s.fTimestampBase
        BY <1>1, <1>2, <2>6, <2>8, <4>1, StampIs, Zenon
      <4>3. QED
        BY <1>2, <2>6, <4>1, <4>2, Zenon
    <3>3. QED
      BY <3>1, <3>2 DEF MarkedStep
  <2>12. QED
    BY <2>6, <2>10, <2>11, Zenon
<1>9. CASE ~Holds(stream)
  <2>1. /\ q = [s EXCEPT !.awaiting = TRUE]
        /\ receiver' = receiver /\ last' = last /\ link' = link /\ lost' = lost
    BY <1>3, <1>4, <1>9, Zenon
  <2>2. /\ q \in Streams /\ q.playing = stream.playing
        /\ q.preset = stream.preset
        /\ q.fInputBuffer = stream.fInputBuffer /\ q.fCurDataOffset = stream.fCurDataOffset
        /\ q.fPresentationTime = stream.fPresentationTime /\ q.fSeqNo = stream.fSeqNo
        /\ q.fTimestampBase = stream.fTimestampBase
    BY <1>2, <2>1 DEF Streams
  <2> HIDE DEF q
  <2>3. ~Holds(q)
    BY <1>9, <2>2, Zenon DEF Holds
  <2>4. StreamRight(q, c, tv)
    BY <1>5, <1>7, <1>9, <2>2, <2>3, Zenon DEF StreamRight
  <2>5. ReceiverRight(receiver, q, c, k)
    BY <1>6, <1>7, <1>9, <2>2, <2>3, Zenon DEF ReceiverRight
  <2>6. LinkRight(link, last, q, c, tv)
    BY <1>5, <1>9, <2>2, <2>3, Zenon DEF LinkRight
  <2>7. \E j \in 0..lost' : ReceiverRight(receiver', q, c, j)
    BY <1>6, <2>1, <2>5, Zenon
  <2>8. PathInv'
    BY <1>1, <1>4, <2>1, <2>4, <2>6, <2>7, PathInvPrimed, Zenon DEF q
  <2>9. QED
    BY <1>4, <2>1, <2>8, Zenon DEF PromiseStep, MarkedStep
<1>10. QED
  BY <1>8, <1>9

\* The source delivers the NAL unit after the current one.  Inside a frame its time
\* does not change.
LEMMA NaluTaken ==
  ASSUME PathInv, HasNalu, NEW t \in Clock
  PROVE  LET p == NextPacket(t)
             n == Current + 1
         IN  /\ SourceRight(p) /\ p.nalus_sending # << >> /\ p.last_tv \in Int
             /\ n \in 1..Len(offered) /\ NextNalu(p) = n /\ Head(p.nalus_sending) = Bytes(n)
             /\ SourceRight(Taken(p)) /\ NextNalu(Taken(p)) - 1 = n
             /\ Taken(p).last_tv = p.last_tv
             /\ Current >= 1 /\ ~offered[Current].vcl => p.last_tv = src.last_tv
<1> DEFINE p == NextPacket(t)
           n == Current + 1
<1>1. /\ offered \in NalusMade /\ SourceRight(src) /\ src \in Sources /\ Current \in Int
      /\ NextNalu(src) = n /\ now \in Int /\ NextNalu(src) - 1 = Current
  BY PathParts, Zenon
<1>2. t \in Int
  BY <1>1, ClockIsInt
<1>3. /\ SourceRight(p) /\ NextNalu(p) = n /\ p.nalus_sending # << >>
      /\ src.nalus_sending # << >> => p.last_tv = src.last_tv
  BY <1>1, <1>2, NextPacketRight, Zenon
<1> HIDE DEF p
<1>4. /\ SourceRight(Taken(p)) /\ NextNalu(Taken(p)) = n + 1 /\ n \in 1..Len(offered)
      /\ Head(p.nalus_sending) = Bytes(n) /\ Taken(p).last_tv = p.last_tv
  <2>1. /\ SourceRight(Taken(p)) /\ NextNalu(Taken(p)) = NextNalu(p) + 1
        /\ NextNalu(p) \in 1..Len(offered)
        /\ Head(p.nalus_sending) = Bytes(NextNalu(p)) /\ Taken(p).last_tv = p.last_tv
    BY <1>1, <1>3, TakenRight
  <2>2. QED
    BY <1>3, <2>1, Zenon
<1>5. p.last_tv \in Int
  BY <1>3 DEF SourceRight, Sources
<1>6. Current >= 1 /\ ~offered[Current].vcl => src.nalus_sending # << >>
  <2>1. SUFFICES ASSUME Current >= 1, src.nalus_sending = << >>
                 PROVE  offered[Current].vcl
    OBVIOUS
  <2>2. Len(src.nalus_sending) = 0
    BY <2>1
  <2>3. FirstWaiting(src) \in Int
    BY <1>1, FirstWaitingTyped
  <2>4. FirstWaiting(src) = Current + 1
    BY <1>1, <2>2, <2>3 DEF NextNalu
  <2>5. FirstWaiting(src) > 1 /\ FirstWaiting(src) - 1 = Current
    BY <1>1, <2>1, <2>4
  <2>6. QED
    BY <1>1, <2>5 DEF SourceRight
<1>7. NextNalu(Taken(p)) - 1 = n
  BY <1>1, <1>4
<1>8. QED
  BY <1>3, <1>4, <1>5, <1>6, <1>7, Zenon DEF p

LEMMA SkipRight ==
  ASSUME PathInv, NEW t \in Clock, Skip(t)
  PROVE  PathInv' /\ PromiseStep /\ MarkedStep
<1> DEFINE p == NextPacket(t)
           n == Current + 1
           c == Current
<1>1. /\ OfferedRight /\ c \in Int /\ now \in Int
  BY PathParts, Zenon
<1>2. /\ ~stream.playing /\ HasNalu /\ now' = t /\ src' = Taken(p)
      /\ offered' = offered /\ stream' = stream /\ receiver' = receiver /\ last' = last
      /\ link' = link /\ lost' = lost
  BY Zenon DEF Skip
<1>3. SourceRight(src') /\ NextNalu(src') - 1 = n
  BY <1>2, NaluTaken, Zenon
<1>4. ~Holds(stream)
  BY <1>2, Zenon DEF PathInv, StreamRight, Sending
<1>5. StreamRight(stream, n, src'.last_tv)
  BY <1>2, <1>4, Zenon DEF PathInv, StreamRight
<1>6. PICK k \in 0..lost : ReceiverRight(receiver, stream, c, k)
  BY Zenon DEF PathInv
<1>7. ReceiverRight(receiver, stream, n, k)
  <2>1. receiver.got \in Int /\ receiver.got <= c /\ receiver.gap
    BY <1>2, <1>6 DEF ReceiverRight, Receivers
  <2>2. receiver.got <= n
    BY <1>1, <2>1
  <2>3. QED
    BY <1>4, <1>6, <2>1, <2>2, Zenon DEF ReceiverRight
<1>8. LinkRight(link, last, stream, n, src'.last_tv)
  <2>1. LinkRight(link, last, stream, c, src.last_tv)
    BY Zenon DEF PathInv
  <2>2. link.is = "none"
    BY <1>2, <2>1, Zenon DEF LinkRight
  <2>3. QED
    BY <1>2, <2>2 DEF LinkRight
<1>9. PathInv'
  <2>1. lost' \in 0..MaxLost /\ now' \in Int
    BY <1>1, <1>2, ClockIsInt, Zenon DEF PathInv
  <2>2. \E j \in 0..lost' : ReceiverRight(receiver', stream', n, j)
    BY <1>2, <1>6, <1>7, Zenon
  <2> HIDE DEF n
  <2>3. QED
    BY <1>1, <1>2, <1>3, <1>5, <1>8, <2>1, <2>2, PathInvPrimed, Zenon
<1>10. QED
  BY <1>2, <1>9, Zenon DEF PromiseStep, MarkedStep

\* The stream that the answer of the source is put into.
Filled(s, packet) ==
    LET bytes == Head(packet.nalus_sending)
        kept == SubSeq(bytes, 1, Min({Len(bytes), BufferMax}))
    IN  [s EXCEPT !.awaiting = FALSE,
                  !.pictureEndMarker = offered[bytes[1].nalu].vcl,
                  !.fInputBuffer = @ \o kept,
                  !.fPresentationTime = packet.last_tv]

LEMMA AnsweredIs ==
  ASSUME offered \in NalusMade, NEW n \in 1..Len(offered),
         NEW s \in Streams, s.playing, s.fInputBuffer = <<NoByte>>, s.fCurDataOffset = 1,
         NEW p, Head(p.nalus_sending) = Bytes(n), p.last_tv \in Int
  PROVE  LET w == Filled(s, p)
         IN  /\ Answered(s, p) = Delivered(w) /\ Sending(w, n)
             /\ w.fCurDataOffset = 1 /\ w.fPresentationTime = p.last_tv
             /\ w.fSeqNo = s.fSeqNo /\ w.fTimestampBase = s.fTimestampBase
             /\ w.preset = s.preset
<1> DEFINE w == Filled(s, p)
           b == <<NoByte>> \o Prefix(n, Size(n))
<1>1. Answered(s, p) = Delivered(w)
  BY Zenon DEF Answered, Filled
<1>2. /\ n \in Nat /\ Size(n) \in Nat \ {0} /\ offered[n].len \in Nat \ {0}
      /\ Bytes(n) = Prefix(n, offered[n].len)
      /\ SubSeq(Bytes(n), 1, Min({Len(Bytes(n)), BufferMax})) = Prefix(n, Size(n))
  BY WholeNalu
<1>3. Bytes(n)[1].nalu = n
  <2>1. 1 \in 1..offered[n].len
    BY <1>2
  <2>2. \A i \in 1..offered[n].len : Prefix(n, offered[n].len)[i] = Byte(n, i)
    BY <1>2, PrefixProperties
  <2>3. Bytes(n)[1] = Byte(n, 1)
    BY <1>2, <2>1, <2>2
  <2>4. QED
    BY <2>3 DEF Byte
<1>4. offered[n].vcl \in BOOLEAN
  <2>1. offered[n] \in [len : Nat \ {0}, vcl : BOOLEAN, unit : Nat]
    BY ElementOfSeq DEF NalusMade
  <2>2. QED
    BY <2>1
<1>5. w = [s EXCEPT !.awaiting = FALSE, !.pictureEndMarker = offered[n].vcl,
                    !.fInputBuffer = b, !.fPresentationTime = p.last_tv]
  <2>1. w = [s EXCEPT !.awaiting = FALSE, !.pictureEndMarker = offered[n].vcl,
                      !.fInputBuffer = @ \o Prefix(n, Size(n)), !.fPresentationTime = p.last_tv]
    BY <1>2, <1>3, Zenon DEF Filled
  <2>2. QED
    BY <2>1
<1>6. /\ b \in Seq(Octet) /\ Len(b) = 1 + Size(n) /\ 1 \in 1..(Len(b) - 1)
      /\ \A k \in (1 + 1)..Len(b) : b[k] = Byte(n, k - 1)
  <2>1. <<NoByte>> \in Seq(Octet) /\ Len(<<NoByte>>) = 1
    BY DEF NoByte, Byte, Octet
  <2>2. /\ Prefix(n, Size(n)) \in Seq(Octet) /\ Len(Prefix(n, Size(n))) = Size(n)
        /\ \A i \in 1..Size(n) : Prefix(n, Size(n))[i] = Byte(n, i)
    BY <1>2, PrefixProperties
  <2> DEFINE a == <<NoByte>>
             d == Prefix(n, Size(n))
  <2> HIDE DEF a, d
  <2>3. b = a \o d
    BY Zenon DEF a, d
  <2>4. /\ a \in Seq(Octet) /\ Len(a) = 1 /\ d \in Seq(Octet) /\ Len(d) = Size(n)
        /\ \A i \in 1..Size(n) : d[i] = Byte(n, i)
    BY <2>1, <2>2, Zenon DEF a, d
  <2>5. /\ a \o d \in Seq(Octet) /\ Len(a \o d) = 1 + Size(n)
        /\ \A i \in 1..(1 + Size(n)) : (a \o d)[i] = IF i <= 1 THEN a[i] ELSE d[i - 1]
    <3>1. /\ a \o d \in Seq(Octet) /\ Len(a \o d) = Len(a) + Len(d)
          /\ \A i \in 1..(Len(a) + Len(d)) :
                (a \o d)[i] = IF i <= Len(a) THEN a[i] ELSE d[i - Len(a)]
      <4>1. a \in Seq(Octet) /\ d \in Seq(Octet)
        BY <2>4, Zenon
      <4>2. QED
        BY <4>1, ConcatProperties, Zenon
    <3>2. QED
      BY <2>4, <3>1, Zenon
  <2>6. \A k \in (1 + 1)..(1 + Size(n)) : (a \o d)[k] = Byte(n, k - 1)
    BY <1>2, <2>4, <2>5
  <2>7. 1 \in 1..((1 + Size(n)) - 1)
    BY <1>2
  <2>8. QED
    BY <2>3, <2>5, <2>6, <2>7, Zenon
<1> HIDE DEF b, w
<1>7. Loaded(b, 1, n)
  <2>1. ~(1 > 1)
    OBVIOUS
  <2>2. QED
    BY <1>6, <2>1, Zenon DEF Loaded
<1>8. /\ w \in Streams /\ w.playing = s.playing /\ w.awaiting = FALSE
      /\ w.pictureEndMarker = offered[n].vcl /\ w.fInputBuffer = b /\ w.fCurDataOffset = 1
      /\ w.fPresentationTime = p.last_tv /\ w.fSeqNo = s.fSeqNo
      /\ w.fTimestampBase = s.fTimestampBase /\ w.preset = s.preset
  BY <1>4, <1>5, <1>6 DEF Streams
<1>9. Sending(w, n)
  BY <1>7, <1>8, Zenon DEF Sending
<1>10. QED
  BY <1>1, <1>8, <1>9, Zenon DEF w

\* A packet that begins a NAL unit: with what the last one said, it is as FramesAreMarked
\* has it.
LEMMA BeginsMarked ==
  ASSUME PathInv, ~Holds(stream), NEW tv \in Int, Current + 1 \in 1..Len(offered),
         Current >= 1 /\ ~offered[Current].vcl => tv = src.last_tv,
         last'.nalu = Current + 1, last'.seq = stream.fSeqNo,
         stream.preset => last'.ts = stream.fTimestampBase,
         ~stream.preset => last'.ts = (stream.fTimestampBase + tv) % TsSpace
  PROVE  MarkedStep
<1> DEFINE c == Current
<1>1. /\ OfferedRight /\ offered \in NalusMade /\ c \in Int
      /\ LinkRight(link, last, stream, c, src.last_tv)
  BY PathParts, Zenon DEF PathInv
<1>2. ASSUME link.is = "follows"
      PROVE  /\ last.marker <=> Unit(last') # Unit(last)
             /\ Unit(last') = Unit(last) => last'.ts = last.ts
  <2>1. /\ ~stream.preset /\ c \in 1..Len(offered) /\ last.nalu = c
        /\ last.ts = (stream.fTimestampBase + src.last_tv) % TsSpace
        /\ last.marker <=> offered[c].vcl /\ ~Holds(stream)
    BY <1>1, <1>2, Zenon DEF LinkRight
  <2>2. c \in 1..(Len(offered) - 1) /\ c >= 1
    BY <1>1, <2>1 DEF NalusMade
  <2>3. offered[c + 1].unit = IF offered[c].vcl THEN offered[c].unit + 1 ELSE offered[c].unit
    BY <1>1, <2>2, Zenon DEF OfferedRight
  <2>4. offered[c].unit \in Nat
    <3>1. offered[c] \in [len : Nat \ {0}, vcl : BOOLEAN, unit : Nat]
      BY <1>1, <2>1, ElementOfSeq DEF NalusMade
    <3>2. QED
      BY <3>1
  <2>5. Unit(last') = offered[c + 1].unit /\ Unit(last) = offered[c].unit
    BY <2>1, Zenon DEF Unit
  <2>6. Unit(last') # Unit(last) <=> offered[c].vcl
    BY <2>3, <2>4, <2>5
  <2>7. ~offered[c].vcl => last'.ts = last.ts
    BY <2>1, <2>2, Zenon
  <2>8. QED
    BY <2>1, <2>6, <2>7, Zenon
<1>3. ASSUME link.is = "announced"
      PROVE  last'.seq = link.seq /\ last'.ts = link.ts
  BY <1>1, <1>3, Zenon DEF LinkRight
<1>4. QED
  BY <1>2, <1>3 DEF MarkedStep

\* The stream s of which the source fills the empty buffer.
LEMMA FilledRight ==
  ASSUME PathInv, ~Holds(stream), HasNalu, NEW t \in Clock,
         NEW s \in Streams, s.playing, s.fInputBuffer = <<NoByte>>, s.fCurDataOffset = 1,
         s.fSeqNo = stream.fSeqNo, NEW k \in 0..lost, ReceiverRight(receiver, stream, Current, k)
  PROVE  LET n == Current + 1
             p == NextPacket(t)
             w == Filled(s, p)
         IN  /\ Answered(s, p) = Delivered(w) /\ Sending(w, n)
             /\ Before(receiver, w.fSeqNo, n, w.fCurDataOffset, k)
             /\ w.fPresentationTime = p.last_tv
             /\ w.fSeqNo = s.fSeqNo /\ w.fTimestampBase = s.fTimestampBase
             /\ w.preset = s.preset
<1> DEFINE n == Current + 1
           p == NextPacket(t)
           w == Filled(s, p)
<1>1. /\ n \in 1..Len(offered) /\ Head(p.nalus_sending) = Bytes(n) /\ p.last_tv \in Int
  BY NaluTaken, Zenon
<1>2. /\ offered \in NalusMade /\ Current \in Int
  BY PathParts, Zenon
<1> HIDE DEF p, n
<1>3. /\ Answered(s, p) = Delivered(w) /\ Sending(w, n)
      /\ w.fCurDataOffset = 1 /\ w.fPresentationTime = p.last_tv
      /\ w.fSeqNo = s.fSeqNo /\ w.fTimestampBase = s.fTimestampBase
      /\ w.preset = s.preset
  BY <1>1, <1>2, AnsweredIs
<1>4. /\ receiver \in Receivers /\ Ahead(stream.fSeqNo, receiver.next, k)
      /\ k > 0 => receiver.gap
      /\ receiver.got <= Current /\ receiver.got \in Int
      /\ ~receiver.gap => receiver.got = Current
  BY DEF ReceiverRight, Receivers
<1>5. receiver.got < n /\ (~receiver.gap => receiver.got = n - 1)
  BY <1>2, <1>4 DEF n
<1> HIDE DEF w
<1>6. Before(receiver, w.fSeqNo, n, w.fCurDataOffset, k)
  <2>1. ~(w.fCurDataOffset > 1)
    BY <1>3
  <2>2. QED
    BY <1>3, <1>4, <1>5, <2>1, Zenon DEF Before
<1>7. QED
  BY <1>3, <1>6, Zenon DEF n, p, w

LEMMA DeliverRight ==
  ASSUME PathInv, NEW t \in Clock, Deliver(t)
  PROVE  PathInv' /\ PromiseStep /\ MarkedStep
<1> DEFINE p == NextPacket(t)
           n == Current + 1
           w == Filled(stream, p)
           tv == p.last_tv
           q == stream'
<1>1. /\ OfferedRight /\ offered \in NalusMade /\ Current \in Int /\ now \in Int
      /\ stream \in Streams /\ lost \in 0..MaxLost
      /\ StreamRight(stream, Current, src.last_tv)
  BY PathParts, Zenon DEF PathInv
<1>2. /\ stream.awaiting /\ HasNalu /\ now' = t /\ src' = Taken(p)
      /\ Arrives(Answered(stream, p)) /\ link' = Follows /\ offered' = offered
  BY Zenon DEF Deliver
<1>3. /\ n \in 1..Len(offered) /\ tv \in Int
      /\ SourceRight(src') /\ NextNalu(src') - 1 = n /\ src'.last_tv = tv
      /\ Current >= 1 /\ ~offered[Current].vcl => tv = src.last_tv
  BY <1>2, NaluTaken, Zenon
<1>4. /\ ~Holds(stream) /\ stream.playing
      /\ stream.fInputBuffer = <<NoByte>> /\ stream.fCurDataOffset = 1
  BY <1>1, <1>2, Zenon DEF StreamRight, Sending
<1>5. PICK k \in 0..lost : ReceiverRight(receiver, stream, Current, k)
  BY Zenon DEF PathInv
<1>6. /\ Answered(stream, p) = Delivered(w) /\ Sending(w, n)
      /\ Before(receiver, w.fSeqNo, n, w.fCurDataOffset, k)
      /\ w.fPresentationTime = tv
      /\ w.fSeqNo = stream.fSeqNo /\ w.fTimestampBase = stream.fTimestampBase
      /\ w.preset = stream.preset
  BY <1>1, <1>2, <1>4, <1>5, FilledRight, Zenon
<1> HIDE DEF w, p, n
<1>7. /\ Delivered(w) \in Streams /\ Delivered(w).preset = FALSE
      /\ Delivered(w).fTimestampBase = BaseFor(w, w.fPresentationTime)
  BY <1>1, <1>3, <1>6, DeliveredBase
<1>8. Arrives(Delivered(w))
  BY <1>2, <1>6, Zenon
<1>9. /\ StreamRight(q, n, w.fPresentationTime)
      /\ lost' \in 0..MaxLost
      /\ \E j \in 0..lost' : ReceiverRight(receiver', q, n, j)
      /\ PromiseStep
      /\ q.playing /\ q.fPresentationTime = w.fPresentationTime
      /\ q.fTimestampBase = Delivered(w).fTimestampBase /\ q.preset = Delivered(w).preset
      /\ q.fSeqNo = Delivered(w).fSeqNo
      /\ last'.seq = w.fSeqNo /\ last'.nalu = n
      /\ last'.ts = convertToRTPTimestamp(w, w.fPresentationTime)
      /\ last'.marker <=> offered[n].vcl /\ ~Holds(q)
  BY <1>1, <1>2, <1>3, <1>6, <1>7, <1>8, PacketGoes
<1>10. LinkRight(link', last', q, n, tv)
  <2>1. link'.is = "follows"
    BY <1>2 DEF Follows, NotLinked
  <2>2. last'.ts = (q.fTimestampBase + tv) % TsSpace
    BY <1>6, <1>7, <1>9, Zenon DEF convertToRTPTimestamp
  <2>3. ~q.preset
    BY <1>7, <1>9, Zenon
  <2> HIDE DEF q
  <2>4. QED
    BY <1>3, <1>6, <1>9, <2>1, <2>2, <2>3 DEF LinkRight
<1>11. PathInv'
  <2>1. now' \in Int
    BY <1>1, <1>2, ClockIsInt
  <2>2. QED
    BY <1>1, <1>2, <1>3, <1>6, <1>9, <1>10, <2>1, PathInvPrimed, Zenon
<1>12. MarkedStep
  <2>1. w \in Streams
    BY <1>6, Zenon DEF Sending
  <2>2. /\ w.preset => convertToRTPTimestamp(w, tv) = w.fTimestampBase
        /\ ~w.preset => convertToRTPTimestamp(w, tv) = (w.fTimestampBase + tv) % TsSpace
    BY <1>3, <2>1, StampIs
  <2>3. /\ stream.preset => last'.ts = stream.fTimestampBase
        /\ ~stream.preset => last'.ts = (stream.fTimestampBase + tv) % TsSpace
    BY <1>6, <1>9, <2>2, Zenon
  <2>4. last'.seq = stream.fSeqNo /\ last'.nalu = Current + 1 /\ Current + 1 \in 1..Len(offered)
    BY <1>3, <1>6, <1>9, Zenon DEF n
  <2>5. QED
    BY <1>3, <1>4, <2>3, <2>4, BeginsMarked, Zenon
<1>13. QED
  BY <1>9, <1>11, <1>12, Zenon

LEMMA PlayRight ==
  ASSUME PathInv, NEW t \in Clock, Play(t)
  PROVE  PathInv' /\ PromiseStep /\ MarkedStep
<1> DEFINE c == Current
           q == stream'
<1>1. /\ OfferedRight /\ offered \in NalusMade /\ c \in Int /\ now \in Int
      /\ stream \in Streams /\ lost \in 0..MaxLost
      /\ SourceRight(src) /\ NextNalu(src) - 1 = c
      /\ StreamRight(stream, c, src.last_tv) /\ LinkRight(link, last, stream, c, src.last_tv)
  BY PathParts, Zenon DEF PathInv
<1>2. t \in Int
  BY <1>1, ClockIsInt
<1>3. /\ ~stream.playing /\ now' = t /\ offered' = offered /\ link' = Announced(q)
  BY Zenon DEF Play
<1>4. link.is = "none"
  BY <1>1, <1>3, Zenon DEF LinkRight
<1>5. MarkedStep
  BY <1>4 DEF MarkedStep
<1>6. /\ ~Holds(stream) /\ stream.fInputBuffer = <<NoByte>> /\ stream.fCurDataOffset = 1
      /\ ~stream.awaiting /\ ~stream.due
  BY <1>1, <1>3, Zenon DEF StreamRight, Sending
<1>7. PICK k \in 0..lost : ReceiverRight(receiver, stream, c, k)
  BY Zenon DEF PathInv
<1>8. link'.is = "announced" /\ link'.seq = q.fSeqNo /\ link'.ts = q.fTimestampBase
  BY <1>3 DEF Announced, NotLinked
<1>9. CASE /\ q = Preset([stream EXCEPT !.playing = TRUE, !.awaiting = TRUE], t)
           /\ UNCHANGED <<src, receiver, last, lost>>
  <2>1. PICK s : s = [stream EXCEPT !.playing = TRUE, !.awaiting = TRUE]
    OBVIOUS
  <2>2. /\ s \in Streams /\ s.playing = TRUE
        /\ s.fInputBuffer = stream.fInputBuffer /\ s.fCurDataOffset = stream.fCurDataOffset
        /\ s.fSeqNo = stream.fSeqNo
    BY <1>1, <2>1 DEF Streams
  <2>3. convertToRTPTimestamp(s, t) \in Stamps
    BY <1>2, <2>2, StampsTyped
  <2> DEFINE base == convertToRTPTimestamp(s, t)
  <2> HIDE DEF base
  <2>4. q = [s EXCEPT !.fTimestampBase = base, !.preset = TRUE]
    BY <1>9, <2>1, Zenon DEF Preset, base
  <2>5. base \in Stamps
    BY <2>3, Zenon DEF base
  <2>6. /\ q \in Streams /\ q.playing = TRUE /\ q.preset = TRUE
        /\ q.fInputBuffer = stream.fInputBuffer /\ q.fCurDataOffset = stream.fCurDataOffset
        /\ q.fSeqNo = stream.fSeqNo
    BY <2>2, <2>4, <2>5 DEF Streams
  <2>7. src' = src /\ receiver' = receiver /\ last' = last /\ lost' = lost
    BY <1>9, Zenon
  <2> HIDE DEF q
  <2>8. ~Holds(q)
    BY <1>6, <2>6, Zenon DEF Holds
  <2>9. StreamRight(q, c, src.last_tv)
    BY <1>6, <2>6, <2>8, Zenon DEF StreamRight
  <2>10. ReceiverRight(receiver, q, c, k)
    BY <1>7, <1>6, <2>6, <2>8, Zenon DEF ReceiverRight
  <2>11. LinkRight(link', last', q, c, src.last_tv)
    BY <1>8, <2>6 DEF LinkRight
  <2>12. lost' \in 0..MaxLost /\ now' \in Int /\ \E j \in 0..lost' : ReceiverRight(receiver', q, c, j)
    BY <1>1, <1>2, <1>3, <1>7, <2>7, <2>10, Zenon
  <2>13. PathInv'
    BY <1>1, <1>3, <2>7, <2>9, <2>11, <2>12, PathInvPrimed, Zenon DEF q
  <2>14. QED
    BY <1>3, <1>5, <2>7, <2>13, Zenon DEF PromiseStep
<1>10. CASE /\ HasNalu
            /\ src' = Taken(NextPacket(t))
            /\ Arrives(Preset(Answered([stream EXCEPT !.playing = TRUE], NextPacket(t)), t))
  <2> DEFINE p == NextPacket(t)
             n == c + 1
             tv == p.last_tv
  <2>1. PICK s : s = [stream EXCEPT !.playing = TRUE]
    OBVIOUS
  <2>2. /\ s \in Streams /\ s.playing = TRUE
        /\ s.fInputBuffer = <<NoByte>> /\ s.fCurDataOffset = 1 /\ s.fSeqNo = stream.fSeqNo
    BY <1>1, <1>6, <2>1 DEF Streams
  <2>3. /\ n \in 1..Len(offered) /\ tv \in Int
        /\ SourceRight(src') /\ NextNalu(src') - 1 = n /\ src'.last_tv = tv
    BY <1>10, NaluTaken, Zenon
  <2> DEFINE w == Filled(s, p)
             d == Delivered(w)
             e == Preset(d, t)
             base == convertToRTPTimestamp(d, t)
  <2>4. /\ Answered(s, p) = d /\ Sending(w, n)
        /\ Before(receiver, w.fSeqNo, n, w.fCurDataOffset, k)
        /\ w.fPresentationTime = tv
    BY <1>6, <1>7, <1>10, <2>2, FilledRight, Zenon
  <2> HIDE DEF w, p, n
  <2>5. d \in Streams
    BY <1>1, <2>3, <2>4, DeliveredBase
  <2>6. Arrives(e)
    BY <1>10, <2>1, <2>4, Zenon DEF p
  <2>7. base \in Stamps
    BY <1>2, <2>5, StampsTyped
  <2>8. e = [d EXCEPT !.fTimestampBase = base, !.preset = TRUE]
    BY Zenon DEF Preset
  <2> HIDE DEF d, e, base
  <2>9. /\ e \in Streams
        /\ e.playing = d.playing /\ e.awaiting = d.awaiting
        /\ e.fInputBuffer = d.fInputBuffer /\ e.fCurDataOffset = d.fCurDataOffset
        /\ e.pictureEndMarker = d.pictureEndMarker
        /\ e.fPresentationTime = d.fPresentationTime
        /\ e.fSeqNo = d.fSeqNo /\ e.packet = d.packet /\ e.preset = TRUE
    BY <2>5, <2>7, <2>8 DEF Streams
  <2>10. /\ e.playing = Delivered(w).playing /\ e.awaiting = Delivered(w).awaiting
         /\ e.fInputBuffer = Delivered(w).fInputBuffer
         /\ e.fCurDataOffset = Delivered(w).fCurDataOffset
         /\ e.pictureEndMarker = Delivered(w).pictureEndMarker
         /\ e.fPresentationTime = Delivered(w).fPresentationTime
         /\ e.fSeqNo = Delivered(w).fSeqNo /\ e.packet = Delivered(w).packet
    BY <2>9, Zenon DEF d
  <2>11. /\ StreamRight(q, n, w.fPresentationTime)
         /\ lost' \in 0..MaxLost
         /\ \E j \in 0..lost' : ReceiverRight(receiver', q, n, j)
         /\ PromiseStep
         /\ q.playing /\ q.fPresentationTime = w.fPresentationTime
         /\ q.fTimestampBase = e.fTimestampBase /\ q.preset = e.preset
         /\ q.fSeqNo = e.fSeqNo
    BY <1>1, <1>3, <2>3, <2>4, <2>6, <2>9, <2>10, PacketGoes
  <2> HIDE DEF q
  <2>12. LinkRight(link', last', q, n, tv)
    BY <1>8, <2>9, <2>11 DEF LinkRight
  <2>13. now' \in Int
    BY <1>2, <1>3
  <2>14. PathInv'
    BY <1>1, <1>3, <2>3, <2>4, <2>11, <2>12, <2>13, PathInvPrimed, Zenon DEF q
  <2>15. QED
    BY <1>5, <2>11, <2>14, Zenon
<1>11. QED
  BY <1>9, <1>10, Zenon DEF Play

-----------------------------------------------------------------------------
(* The encoder makes NAL units.                                            *)

\* It adds one frame, whose last NAL unit is the VCL one.
LEMMA OfferedGrows ==
  ASSUME OfferedRight, NEW p \in Packets, NEW pts, Encode(p, pts)
  PROVE  /\ OfferedRight' /\ Len(p) \in Nat \ {0} /\ Len(offered) \in Nat
         /\ Len(offered') = Len(offered) + Len(p)
         /\ \A n \in 1..Len(offered) : offered'[n] = offered[n]
         /\ \A i \in 1..Len(p) : offered'[Len(offered) + i].vcl <=> i = Len(p)
<1> DEFINE N == Len(offered)
           L == Len(p)
           unit == IF offered = << >> THEN 1 ELSE Last(offered).unit + 1
           Made == [len : Nat \ {0}, vcl : BOOLEAN, unit : Nat]
           new == [i \in 1..L |-> [len |-> p[i].len, vcl |-> p[i].vcl, unit |-> unit]]
<1>1. offered \in Seq(Made) /\ N \in Nat
  BY DEF OfferedRight, NalusMade
<1>2. p \in Seq([vcl : BOOLEAN, len : Nat, code : {"long", "short"}]) /\ L \in Nat \ {0}
  <2>1. p \in Seq([vcl : BOOLEAN, len : Nat, code : {"long", "short"}])
    BY PacketAssumption, Zenon
  <2>2. L \in Nat
    BY <2>1
  <2>3. L > 0
    BY EncoderAssumption, Zenon
  <2>4. QED
    BY <2>1, <2>2, <2>3
<1>3. \A i \in 1..L : /\ p[i].len \in Nat \ {0} /\ p[i].vcl \in BOOLEAN
                      /\ p[i].vcl <=> i = L
  <2>1. SUFFICES ASSUME NEW i \in 1..L
                 PROVE  /\ p[i].len \in Nat \ {0} /\ p[i].vcl \in BOOLEAN
                        /\ p[i].vcl <=> i = L
    OBVIOUS
  <2>2. p[i] \in [vcl : BOOLEAN, len : Nat, code : {"long", "short"}]
    BY <1>2, ElementOfSeq
  <2>3. p[i].len > 0 /\ (p[i].vcl <=> i = L)
    BY EncoderAssumption, Zenon
  <2>4. QED
    BY <2>2, <2>3
<1>4. N > 0 => /\ offered[N] \in Made /\ Last(offered) = offered[N]
               /\ offered # << >> /\ offered[N].vcl
  <2>1. ASSUME N > 0
        PROVE  /\ offered[N] \in Made /\ Last(offered) = offered[N]
               /\ offered # << >> /\ offered[N].vcl
    <3>1. N \in 1..N
      BY <1>1, <2>1
    <3>2. offered[N] \in Made
      BY <1>1, <3>1, ElementOfSeq
    <3>3. Last(offered) = offered[N]
      BY Zenon DEF Last
    <3>4. QED
      BY <2>1, <3>2, <3>3 DEF OfferedRight
  <2>2. QED
    BY <2>1
<1>5. unit \in Nat /\ (N > 0 => unit = offered[N].unit + 1)
  BY <1>1, <1>4
<1>6. offered' = offered \o new
  BY Zenon DEF Encode
<1> HIDE DEF unit
<1>7. /\ new \in Seq(Made) /\ Len(new) = L
      /\ \A i \in 1..L : new[i].vcl = p[i].vcl /\ new[i].unit = unit
  BY <1>2, <1>3, <1>5
<1> HIDE DEF new
<1>8. /\ offered' \in Seq(Made) /\ Len(offered') = N + L
      /\ \A n \in 1..(N + L) : offered'[n] = IF n <= N THEN offered[n] ELSE new[n - N]
  <2>1. /\ offered \o new \in Seq(Made) /\ Len(offered \o new) = N + Len(new)
        /\ \A n \in 1..(N + Len(new)) :
              (offered \o new)[n] = IF n <= N THEN offered[n] ELSE new[n - N]
    <3>1. offered \in Seq(Made) /\ new \in Seq(Made)
      BY <1>1, <1>7, Zenon
    <3>2. QED
      BY <3>1, ConcatProperties, Zenon
  <2>2. QED
    BY <1>6, <1>7, <2>1, Zenon
<1> HIDE DEF Made, N, L
<1>9. /\ \A n \in 1..N : offered'[n] = offered[n]
      /\ \A i \in 1..L : offered'[N + i] = new[i]
  <2>1. \A n \in 1..N : offered'[n] = offered[n]
    BY <1>1, <1>2, <1>8 DEF N
  <2>2. ASSUME NEW i \in 1..L
        PROVE  offered'[N + i] = new[i]
    <3>1. N + i \in 1..(N + L) /\ ~(N + i <= N) /\ (N + i) - N = i
      BY <1>1, <1>2
    <3>2. \A m \in 1..(N + L) : ~(m <= N) => offered'[m] = new[m - N]
      BY <1>8, Zenon
    <3>3. offered'[N + i] = new[(N + i) - N]
      BY <3>1, <3>2, Zenon
    <3>4. QED
      BY <3>1, <3>3, Zenon
  <2>3. QED
    BY <2>1, <2>2
<1>10. \A i \in 1..L : /\ offered'[N + i].vcl <=> i = L
                       /\ offered'[N + i].unit = unit
  <2>1. SUFFICES ASSUME NEW i \in 1..L
                 PROVE  (offered'[N + i].vcl <=> i = L) /\ offered'[N + i].unit = unit
    OBVIOUS
  <2>2. offered'[N + i] = new[i]
    BY <1>9
  <2>3. new[i].vcl = p[i].vcl /\ new[i].unit = unit
    BY <1>7, Zenon
  <2>4. p[i].vcl <=> i = L
    BY <1>3, Zenon
  <2>5. QED
    BY <2>2, <2>3, <2>4, Zenon
<1>11. ASSUME NEW n \in 1..(Len(offered') - 1)
       PROVE  offered'[n + 1].unit = IF offered'[n].vcl THEN offered'[n].unit + 1 ELSE offered'[n].unit
  <2>1. CASE n < N
    <3>1. n \in 1..N /\ n + 1 \in 1..N /\ n \in 1..(N - 1)
      BY <1>1, <2>1
    <3>2. offered[n + 1].unit = IF offered[n].vcl THEN offered[n].unit + 1 ELSE offered[n].unit
      BY <3>1, Zenon DEF OfferedRight, N
    <3>3. QED
      BY <1>9, <3>1, <3>2, Zenon
  <2>2. CASE n = N
    <3>1. N > 0 /\ n \in 1..N /\ 1 \in 1..L
      BY <1>1, <1>2, <2>2
    <3>2. offered'[n].vcl /\ offered'[n].unit + 1 = unit
      BY <1>4, <1>5, <1>9, <2>2, <3>1, Zenon
    <3>3. QED
      BY <1>10, <2>2, <3>1, <3>2, Zenon
  <2>3. CASE n > N
    <3> DEFINE i == n - N
    <3>1. i \in 1..L /\ i + 1 \in 1..L /\ i # L /\ n = N + i /\ n + 1 = N + (i + 1)
      BY <1>1, <1>2, <1>8, <2>3
    <3> HIDE DEF i
    <3>2. QED
      BY <1>10, <3>1, Zenon
  <2>4. n < N \/ n = N \/ n > N
    BY <1>1
  <2>5. QED
    BY <2>1, <2>2, <2>3, <2>4, Zenon
<1>12. offered'[Len(offered')].vcl
  <2>1. L \in 1..L
    BY <1>2
  <2>2. QED
    BY <1>8, <1>10, <2>1, Zenon
<1>13. OfferedRight'
  BY <1>8, <1>11, <1>12, Zenon DEF OfferedRight, NalusMade, Made
<1>14. QED
  BY <1>1, <1>2, <1>8, <1>9, <1>10, <1>13, Zenon DEF N, L

\* The new packet goes to the end of the queue; what is delivered next stays.
LEMMA EncodedSource ==
  ASSUME PathInv, NEW p \in Packets, NEW pts \in 0..MaxPts, Encode(p, pts)
  PROVE  SourceRight(src)' /\ NextNalu(src)' = NextNalu(src)
<1> DEFINE N == Len(offered)
           L == Len(p)
<1>1. /\ OfferedRight /\ SourceRight(src) /\ src \in Sources /\ offered \in NalusMade
  BY PathParts, Zenon
<1>2. /\ OfferedRight' /\ L \in Nat \ {0} /\ N \in Nat
      /\ Len(offered') = N + L
      /\ \A n \in 1..N : offered'[n] = offered[n]
      /\ \A i \in 1..L : offered'[N + i].vcl <=> i = L
  BY <1>1, OfferedGrows, Zenon
<1>3. PICK q : q = src.encodedPackets
  OBVIOUS
<1>4. PICK u : u = [i \in 1..L |-> [n |-> N + i, code |-> p[i].code]]
  OBVIOUS
<1>5. PICK r : r = Append(q, [pts |-> pts, units |-> u])
  OBVIOUS
<1>6. /\ u \in Seq(Units) /\ Len(u) = L
      /\ \A i \in 1..L : u[i].n = N + i /\ u[i].code = p[i].code
  <2>1. \A i \in 1..L : p[i].code \in Codes
    <3>1. SUFFICES ASSUME NEW i \in 1..L
                   PROVE  p[i].code \in Codes
      OBVIOUS
    <3>2. p \in Seq([vcl : BOOLEAN, len : Nat, code : {"long", "short"}])
      BY PacketAssumption, Zenon
    <3>3. p[i] \in [vcl : BOOLEAN, len : Nat, code : {"long", "short"}]
      BY <3>2, ElementOfSeq
    <3>4. QED
      BY <3>3 DEF Codes
  <2>2. QED
    BY <1>2, <1>4, <2>1 DEF Units
<1>7. /\ q \in Seq(Queued) /\ Len(q) \in Nat
      /\ r \in Seq(Queued) /\ Len(r) = Len(q) + 1
      /\ \A j \in 1..Len(q) : r[j] = q[j]
      /\ r[Len(q) + 1].units = u
  <2>1. q \in Seq(Queued)
    BY <1>1, <1>3 DEF Sources
  <2>2. pts \in Int
    BY NumberAssumption
  <2>3. PICK k : k = [pts |-> pts, units |-> u]
    OBVIOUS
  <2>4. k \in Queued /\ k.units = u
    BY <1>6, <2>2, <2>3 DEF Queued
  <2>5. r = Append(q, k)
    BY <1>5, <2>3, Zenon
  <2>6. /\ r \in Seq(Queued) /\ Len(r) = Len(q) + 1
        /\ \A j \in 1..Len(q) : r[j] = q[j]
        /\ r[Len(q) + 1] = k
    BY <2>1, <2>4, <2>5, AppendProperties
  <2>7. QED
    BY <2>1, <2>4, <2>6
<1>8. /\ src'.encodedPackets = r /\ src'.nalus_sending = src.nalus_sending
      /\ src'.last_tv = src.last_tv /\ src'.last_pts = src.last_pts /\ src' \in Sources
  <2>1. pts \in Int
    BY NumberAssumption
  <2>2. src' = [src EXCEPT !.encodedPackets = Append(@, [pts |-> pts, units |-> u]),
                           !.used = @ \cup {pts}]
    BY <1>4, Zenon DEF Encode
  <2>3. src' = [src EXCEPT !.encodedPackets = r, !.used = src.used \cup {pts}]
    BY <1>1, <1>3, <1>5, <2>2 DEF Sources
  <2>4. QED
    BY <1>1, <1>7, <2>1, <2>3 DEF Sources
<1>9. PacketRight(u)'
  <2>1. LongFirst(u)
    BY <1>2, <1>6, EncoderAssumption DEF LongFirst
  <2>2. \A i \in 1..Len(u) : /\ u[i].n = u[1].n + i - 1 /\ u[i].n \in 1..Len(offered')
                             /\ offered'[u[i].n].vcl <=> i = Len(u)
    <3>1. SUFFICES ASSUME NEW i \in 1..Len(u)
                   PROVE  /\ u[i].n = u[1].n + i - 1 /\ u[i].n \in 1..Len(offered')
                          /\ offered'[u[i].n].vcl <=> i = Len(u)
      OBVIOUS
    <3>2. 1 \in 1..L /\ i \in 1..L
      BY <1>2, <1>6
    <3>3. u[i].n = N + i /\ u[1].n = N + 1
      BY <1>6, <3>2, Zenon
    <3>4. offered'[u[i].n].vcl <=> i = Len(u)
      BY <1>2, <1>6, <3>2, <3>3, Zenon
    <3>5. QED
      BY <1>2, <3>2, <3>3, <3>4
  <2>3. Len(u) > 0
    BY <1>2, <1>6
  <2>4. QED
    BY <1>6, <2>1, <2>2, <2>3, Zenon DEF PacketRight
<1>10. ASSUME NEW v, PacketRight(v)
       PROVE  PacketRight(v)'
  <2>1. /\ v \in Seq(Units) /\ Len(v) > 0 /\ LongFirst(v)
        /\ \A i \in 1..Len(v) : /\ v[i].n = v[1].n + i - 1 /\ v[i].n \in 1..N
                                /\ offered[v[i].n].vcl <=> i = Len(v)
    BY <1>10, Zenon DEF PacketRight
  <2>2. 1..N \subseteq 1..Len(offered')
    BY <1>2
  <2>3. \A i \in 1..Len(v) : /\ v[i].n = v[1].n + i - 1 /\ v[i].n \in 1..Len(offered')
                             /\ offered'[v[i].n].vcl <=> i = Len(v)
    BY <1>2, <2>1, <2>2, Zenon
  <2>4. QED
    BY <2>1, <2>3, Zenon DEF PacketRight
<1>11. ASSUME NEW j \in 0..Len(q)
       PROVE  Behind(r, j)' = Behind(q, j)
  <2>1. j # Len(r)
    BY <1>7
  <2>2. Behind(r, j)' = r[j + 1].units[1].n
    BY <2>1, Zenon DEF Behind
  <2>3. CASE j = Len(q)
    <3>1. 1 \in 1..L
      BY <1>2
    <3>2. u[1].n = N + 1
      BY <1>6, <3>1, Zenon
    <3>3. QED
      BY <1>7, <2>2, <2>3, <3>2, Zenon DEF Behind
  <2>4. CASE j # Len(q)
    <3>1. j + 1 \in 1..Len(q)
      BY <1>7, <2>4
    <3>2. QED
      BY <1>7, <2>2, <2>4, <3>1, Zenon DEF Behind
  <2>5. QED
    BY <2>3, <2>4
<1>12. QueueRight(src.encodedPackets)'
  <2>1. SUFFICES ASSUME NEW j \in 1..Len(r)
                 PROVE  /\ PacketRight(r[j].units)'
                        /\ r[j].units[1].n + Len(r[j].units) = Behind(r, j)'
    BY <1>8, Zenon DEF QueueRight, PacketRight, Behind
  <2>2. CASE j = Len(q) + 1
    <3>1. 1 \in 1..L
      BY <1>2
    <3>2. u[1].n = N + 1
      BY <1>6, <3>1, Zenon
    <3>3. r[j].units = u /\ j = Len(r)
      BY <1>7, <2>2, Zenon
    <3>4. Behind(r, j)' = Len(offered') + 1
      BY <3>3, Zenon DEF Behind
    <3>5. u[1].n + Len(u) = Len(offered') + 1
      BY <1>2, <1>6, <3>2
    <3>6. QED
      BY <1>9, <3>3, <3>4, <3>5, Zenon
  <2>3. CASE j # Len(q) + 1
    <3>1. j \in 1..Len(q) /\ j \in 0..Len(q)
      BY <1>7, <2>3
    <3>2. /\ PacketRight(q[j].units)
          /\ q[j].units[1].n + Len(q[j].units) = Behind(q, j)
      BY <1>1, <1>3, <3>1, Zenon DEF SourceRight, QueueRight
    <3>3. r[j] = q[j]
      BY <1>7, <3>1, Zenon
    <3>4. PacketRight(q[j].units)' /\ Behind(r, j)' = Behind(q, j)
      BY <1>10, <1>11, <3>1, <3>2, Zenon
    <3>5. QED
      BY <3>2, <3>3, <3>4, Zenon
  <2>4. QED
    BY <2>2, <2>3
<1>13. FirstWaiting(src)' = FirstWaiting(src)
  <2>1. 0 \in 0..Len(q)
    BY <1>7
  <2>2. Behind(r, 0)' = Behind(q, 0)
    BY <1>11, <2>1, Zenon
  <2>3. QED
    BY <1>3, <1>8, <2>2, Zenon DEF FirstWaiting, Behind
<1>14. NextNalu(src)' = NextNalu(src)
  BY <1>8, <1>13, Zenon DEF NextNalu
<1>15. /\ FirstWaiting(src) \in 1..(N + 1) /\ Len(src.nalus_sending) \in Nat
       /\ NextNalu(src) \in 1..(N + 1) /\ NextNalu(src) = FirstWaiting(src) - Len(src.nalus_sending)
  BY <1>1, FirstWaitingTyped, Zenon DEF SourceRight, NextNalu
<1>16. ASSUME NEW i \in 1..Len(src.nalus_sending)
       PROVE  /\ src.nalus_sending[i] = Bytes(NextNalu(src) + i - 1)'
              /\ offered'[NextNalu(src) + i - 1].vcl <=> i = Len(src.nalus_sending)
  <2>1. PICK n : n = NextNalu(src) + i - 1
    OBVIOUS
  <2>2. n \in 1..N
    <3>1. PICK a, b, l : a = FirstWaiting(src) /\ b = NextNalu(src) /\ l = Len(src.nalus_sending)
      OBVIOUS
    <3>2. a \in 1..(N + 1) /\ b \in 1..(N + 1) /\ b = a - l /\ l \in Nat
      BY <1>15, <3>1, Zenon
    <3>3. n = b + i - 1 /\ i \in 1..l
      BY <2>1, <3>1, Zenon
    <3> HIDE DEF N
    <3>4. QED
      BY <1>2, <3>2, <3>3
  <2>3. offered'[n] = offered[n]
    BY <1>2, <2>2, Zenon
  <2>4. /\ src.nalus_sending[i] = Bytes(n)
        /\ offered[n].vcl <=> i = Len(src.nalus_sending)
    BY <1>1, <2>1, Zenon DEF SourceRight
  <2>5. Bytes(n)' = Bytes(n)
    BY <2>3, Zenon DEF Bytes
  <2>6. Bytes(NextNalu(src) + i - 1)' = Bytes(n)'
    BY <1>14, <2>1, Zenon DEF Bytes
  <2>7. QED
    BY <2>1, <2>3, <2>4, <2>5, <2>6, Zenon
<1>17. FirstWaiting(src) > 1 => offered'[FirstWaiting(src) - 1].vcl
  <2>1. FirstWaiting(src) > 1 => FirstWaiting(src) - 1 \in 1..N
    BY <1>2, <1>15
  <2>2. QED
    BY <1>1, <1>2, <2>1, Zenon DEF SourceRight
<1>18. NextNalu(src) \in 1..(Len(offered') + 1)
  BY <1>2, <1>15
<1>19. SourceRight(src)'
  BY <1>8, <1>12, <1>13, <1>14, <1>16, <1>17, <1>18, Zenon DEF SourceRight
<1>20. QED
  BY <1>14, <1>19

LEMMA EncodeRight ==
  ASSUME PathInv, NEW p \in Packets, NEW pts \in 0..MaxPts, Encode(p, pts)
  PROVE  PathInv' /\ PromiseStep /\ MarkedStep
<1> DEFINE N == Len(offered)
<1>1. /\ OfferedRight /\ lost \in 0..MaxLost /\ now \in Int
      /\ src \in Sources /\ stream \in Streams
  BY PathParts, Zenon
<1>2. /\ OfferedRight' /\ Len(p) \in Nat \ {0} /\ N \in Nat
      /\ Len(offered') = N + Len(p)
      /\ \A n \in 1..N : offered'[n] = offered[n]
  BY <1>1, OfferedGrows, Zenon
<1>3. SourceRight(src)' /\ NextNalu(src)' = NextNalu(src)
  BY EncodedSource, Zenon
<1>4. /\ now' = now /\ stream' = stream /\ receiver' = receiver /\ last' = last
      /\ link' = link /\ lost' = lost
  BY Zenon DEF Encode
<1>5. src'.last_tv = src.last_tv
  BY <1>1 DEF Encode, Sources
<1>6. Current' = Current
  BY <1>3, Zenon DEF Current
<1>7. 1..N \subseteq 1..Len(offered')
  BY <1>2
<1>8. PICK c : c = Current
  OBVIOUS
<1>9. ASSUME c \in 1..N, Sending(stream, c)
      PROVE  Sending(stream, c)'
  <2>1. offered'[c] = offered[c]
    BY <1>2, <1>9, Zenon
  <2>2. Size(c)' = Size(c)
    BY <2>1, Zenon DEF Size
  <2>3. Loaded(stream.fInputBuffer, stream.fCurDataOffset, c)'
    BY <1>4, <1>9, <2>2, Zenon DEF Sending, Loaded
  <2>4. QED
    BY <1>4, <1>9, <2>1, <2>3, Zenon DEF Sending
<1>10. StreamRight(stream, c, src.last_tv) /\ LinkRight(link, last, stream, c, src.last_tv)
  BY <1>8, Zenon DEF PathInv
<1>11. StreamRight(stream, c, src.last_tv)'
  BY <1>4, <1>5, <1>7, <1>9, <1>10, Zenon DEF StreamRight, Holds
<1>12. LinkRight(link, last, stream, c, src.last_tv)'
  <2>1. c \in 1..N => offered'[c] = offered[c]
    BY <1>2, Zenon
  <2>2. QED
    BY <1>4, <1>5, <1>7, <1>10, <2>1, Zenon DEF LinkRight, Holds
<1>13. PICK k \in 0..lost : ReceiverRight(receiver, stream, c, k)
  BY <1>8, Zenon DEF PathInv
<1>14. ReceiverRight(receiver, stream, c, k)'
  BY <1>4, <1>13, Zenon DEF ReceiverRight, Holds
<1>15. StreamRight(stream, Current, src.last_tv)'
  BY <1>6, <1>8, <1>9, <1>11, Zenon DEF StreamRight, Sending, Loaded, Size
<1>16. LinkRight(link, last, stream, Current, src.last_tv)'
  BY <1>6, <1>8, <1>12, Zenon DEF LinkRight
<1>17. (\E j \in 0..lost : ReceiverRight(receiver, stream, Current, j))'
  <2>1. ReceiverRight(receiver, stream, Current, k)'
    BY <1>6, <1>8, <1>14, Zenon DEF ReceiverRight
  <2>2. QED
    BY <1>4, <1>13, <2>1, Zenon
<1>18. PathInv'
  BY <1>1, <1>2, <1>3, <1>4, <1>15, <1>16, <1>17, Zenon DEF PathInv
<1>19. PromiseStep
  <2>1. Len(offered') > Len(offered)
    BY <1>2
  <2>2. receiver'.got = receiver.got /\ receiver'.gap = receiver.gap
    BY <1>4, Zenon
  <2>3. Promise!Offer
    BY <2>1, <2>2 DEF Promise!Offer
  <2>4. QED
    BY <2>3, Zenon DEF PromiseStep, Promise!Next
<1>20. QED
  BY <1>4, <1>18, <1>19, Zenon DEF MarkedStep

-----------------------------------------------------------------------------
(* The theorems.                                                           *)

LEMMA PathInit ==
  ASSUME Init
  PROVE  PathInv /\ Promise!Init
<1>1. /\ offered = << >> /\ src = SourceInit /\ now = 1
      /\ stream = StreamInit /\ receiver = ReceiverInit
      /\ last = NothingSent /\ link = NotLinked /\ lost = 0
  BY Zenon DEF Init
<1>2. Len(offered) = 0 /\ offered \in NalusMade
  BY <1>1 DEF NalusMade
<1>3. OfferedRight
  BY <1>2 DEF OfferedRight
<1>4. /\ src.encodedPackets = << >> /\ src.nalus_sending = << >> /\ src \in Sources
      /\ src.last_tv = 0
  BY <1>1 DEF SourceInit, Sources
<1>5. FirstWaiting(src) = 1 /\ NextNalu(src) = 1
  BY <1>2, <1>4 DEF FirstWaiting, NextNalu, Behind
<1>6. SourceRight(src)
  BY <1>2, <1>4, <1>5 DEF SourceRight, QueueRight
<1>7. Current = 0
  BY <1>5 DEF Current
<1>8. <<NoByte>> \in Seq(Octet)
  BY DEF NoByte, Byte, Octet
<1>9. /\ stream \in Streams /\ stream.fInputBuffer = <<NoByte>> /\ stream.fCurDataOffset = 1
      /\ stream.fSeqNo = FirstSeq /\ ~stream.playing /\ ~stream.awaiting /\ ~stream.due
  <2>1. NoPacket \in Sent
    BY DEF NoPacket, Sent
  <2>2. FirstSeq \in SeqNos /\ FirstBase \in Stamps
    BY NumberAssumption DEF SeqNos, Stamps
  <2>3. QED
    BY <1>1, <1>8, <2>1, <2>2 DEF StreamInit, Streams
<1>10. ~Holds(stream)
  BY <1>9, NothingHeld
<1>11. StreamRight(stream, Current, src.last_tv)
  BY <1>9, <1>10, Zenon DEF StreamRight
<1>12. /\ receiver \in Receivers /\ receiver.next = FirstSeq /\ receiver.got = 0
       /\ receiver.gap = TRUE
  BY <1>1, NumberAssumption DEF ReceiverInit, Receivers
<1>13. ReceiverRight(receiver, stream, Current, 0)
  BY <1>7, <1>9, <1>10, <1>12, NumberAssumption DEF ReceiverRight, Ahead
<1>14. LinkRight(link, last, stream, Current, src.last_tv)
  BY <1>1, <1>9 DEF LinkRight, NotLinked
<1>15. lost \in 0..MaxLost /\ 0 \in 0..lost /\ now \in Int
  BY <1>1, LossAssumption
<1>16. PathInv
  BY <1>3, <1>6, <1>11, <1>13, <1>14, <1>15, Zenon DEF PathInv
<1>17. Promise!Init
  BY <1>2, <1>12 DEF Promise!Init
<1>18. QED
  BY <1>16, <1>17

LEMMA PathStep ==
  ASSUME PathInv, [Next]_vars
  PROVE  PathInv' /\ PromiseStep /\ [MarkedStep]_vars
<1>1. ASSUME NEW p \in Packets, NEW pts \in 0..MaxPts, Encode(p, pts)
      PROVE  PathInv' /\ PromiseStep /\ MarkedStep
  BY <1>1, EncodeRight
<1>2. ASSUME Restart
      PROVE  PathInv' /\ PromiseStep /\ MarkedStep
  BY <1>2, RestartRight
<1>3. ASSUME NEW t \in Clock, Play(t)
      PROVE  PathInv' /\ PromiseStep /\ MarkedStep
  BY <1>3, PlayRight
<1>4. ASSUME NEW t \in Clock, PlayAgain(t)
      PROVE  PathInv' /\ PromiseStep /\ MarkedStep
  BY <1>4, PlayAgainRight
<1>5. ASSUME NEW t \in Clock, Deliver(t)
      PROVE  PathInv' /\ PromiseStep /\ MarkedStep
  BY <1>5, DeliverRight
<1>6. ASSUME NEW t \in Clock, Skip(t)
      PROVE  PathInv' /\ PromiseStep /\ MarkedStep
  BY <1>6, SkipRight
<1>7. ASSUME Pause
      PROVE  PathInv' /\ PromiseStep /\ MarkedStep
  BY <1>7, PauseRight
<1>8. ASSUME SendNext
      PROVE  PathInv' /\ PromiseStep /\ MarkedStep
  BY <1>8, SendNextRight
<1>9. ASSUME UNCHANGED vars
      PROVE  PathInv' /\ PromiseStep
  <2>1. /\ offered' = offered /\ src' = src /\ now' = now /\ stream' = stream
        /\ receiver' = receiver /\ last' = last /\ link' = link /\ lost' = lost
    BY <1>9, Zenon DEF vars
  <2>2. NextNalu(src') - 1 = Current /\ OfferedRight /\ SourceRight(src)
    BY <2>1, PathParts, Zenon
  <2>3. PathInv'
    BY <2>1, <2>2, PathInvPrimed, Zenon DEF PathInv
  <2>4. QED
    BY <2>1, <2>3, Zenon DEF PromiseStep
<1>10. CASE Next
  BY <1>1, <1>2, <1>3, <1>4, <1>5, <1>6, <1>7, <1>8, <1>10, Zenon DEF Next
<1>11. CASE UNCHANGED vars
  BY <1>9, <1>11, Zenon
<1>12. QED
  BY <1>10, <1>11

\* What the source, the fragmenter, the sink and the receiver hold always agrees with
\* the NAL units that the encoder made.
THEOREM PathInvariant == Spec => []PathInv
<1>1. Init => PathInv
  BY PathInit
<1>2. PathInv /\ [Next]_vars => PathInv'
  BY PathStep
<1>3. QED
  BY <1>1, <1>2, PTL DEF Spec

\* The path does what NaluStream says: the receiver has the encoder's NAL units whole,
\* in order and at most once, and misses one only after a loss or a pause.
THEOREM PathImplementsNaluStream == Spec => ImplementsNaluStream
<1>1. Init => Promise!Init
  BY PathInit
<1>2. PathInv /\ [Next]_vars
        => [Promise!Next]_<<Len(offered), receiver.got, receiver.gap>>
  BY PathStep DEF PromiseStep
<1>3. QED
  BY <1>1, <1>2, PathInvariant, PTL DEF Spec, ImplementsNaluStream, Promise!Spec

\* The marker bits say where frames end, a frame has one timestamp, and the packet after
\* a PLAY is the announced one.
THEOREM PathMarksFrames == Spec => FramesAreMarked
<1>1. PathInv /\ [Next]_vars => [MarkedStep]_vars
  BY PathStep
<1>2. QED
  BY <1>1, PathInvariant, PTL DEF Spec, FramesAreMarked, MarkedStep
=============================================================================
