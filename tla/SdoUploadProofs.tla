-------------------------- MODULE SdoUploadProofs --------------------------
(***************************************************************************)
(* Proofs about SdoUpload, for every object, size of segment, sub-block    *)
(* and buffer its assumption allows, and any number of faults: the server  *)
(* reads within its buffer (WithinBuffer), and an upload that the client   *)
(* reports as done is true (UploadTrue).                                   *)
(*                                                                         *)
(* An upload by blocks is true because of its CRC, which is that of the    *)
(* whole object once it is sent (Window).  A segmented upload has no CRC;  *)
(* it is true because the toggle bit, over a bus that keeps the order of   *)
(* frames, tells the answer that is due from one that comes again          *)
(* (Alternation).                                                          *)
(***************************************************************************)
EXTENDS SdoUpload, SequenceTheorems, TLAPS

----------------------------------------------------------------------------
(* The inductive invariant                                                 *)

\* What may be on its way in either direction.
Requests ==
       [cs : {"upload", "startBlocks", "endAck", "abort"}]
  \cup [cs : {"blockUpload"}, blksize : {ClientBlock}, threshold : {Threshold}]
  \cup [cs : {"segmentRequest"}, toggle : {0, 1}]
  \cup [cs : {"ack"}, seqno : Nat, blksize : {ClientBlock}]

Segments == [cs : {"segment"}, toggle : {0, 1}, data : Seq(Byte), last : BOOLEAN]

Answers ==
       [cs : {"abort"}]
  \cup [cs : {"uploaded"}, data : {data}]
  \cup [cs : {"uploadOpen", "blockOpen"}, size : Nat]
  \cup Segments
  \cup [cs : {"block"}, seqno : Nat, last : BOOLEAN, data : Seq(Byte)]
  \cup [cs : {"endBlock"}, noData : Nat, crc : {data}]

ServerStates == {"IDLE", "UPLOAD_SEGMENT_REQ", "UPLOAD_BLK_INITIATE_REQ2",
  "UPLOAD_BLK_SUBBLOCK_SREQ", "UPLOAD_BLK_SUBBLOCK_CRSP", "UPLOAD_BLK_END_CRSP"}

Opened == {"start", "UPLOAD_INITIATE_RSP", "UPLOAD_BLK_INITIATE_RSP"}

Typed ==
  /\ data \in Objects /\ known \in BOOLEAN
  /\ state \in ServerStates
  /\ request \in Requests \cup {None}
  /\ toggle \in {0, 1} /\ clientToggle \in {0, 1}
  /\ blksize \in {0, ClientBlock} /\ seqno \in Nat /\ noData \in Nat
  /\ txBuff \in Segments \cup {None}
  /\ toServer \in Seq(Requests) /\ toClient \in Seq(Answers)
  /\ clientSeqno \in Nat
  /\ zeros \in BOOLEAN

Buffers == [buf : Seq(Byte), rd : Nat, offset : Nat, finished : BOOLEAN, crc : Seq(Byte)]

\* The buffer is a window on the object that ends at offset, and its CRC covers
\* all up to there.
Window(s) ==
  /\ s \in Buffers
  /\ s.offset <= Len(data) /\ Len(s.buf) <= s.offset /\ Len(s.buf) <= BufferSize
  /\ s.rd <= Len(s.buf)
  /\ s.buf = SubSeq(data, s.offset - Len(s.buf) + 1, s.offset)
  /\ s.crc = SubSeq(data, 1, s.offset)
  /\ s.finished => s.offset = Len(data)

\* What was sent in this sub-block is still in the buffer, in front of its read position.
SubBlock ==
  /\ state \in {"UPLOAD_BLK_INITIATE_REQ2", "UPLOAD_BLK_SUBBLOCK_SREQ"} => Unread(source) > 0
  /\ state = "UPLOAD_BLK_SUBBLOCK_SREQ" => noData = 0
  /\ state \in {"UPLOAD_BLK_SUBBLOCK_SREQ", "UPLOAD_BLK_SUBBLOCK_CRSP"} =>
       noData < SegBytes /\ seqno > 0 /\ BytesOf(seqno) <= source.rd

\* How far the object has gone out.
Sent(s) == s.offset - Unread(s)

Opening(m) == m.cs \in {"upload", "blockUpload"}
Current(m) == m.cs = "segmentRequest" /\ m.toggle = clientToggle
IsSegment(m) == m.cs = "segment"

\* The segment m goes on where the client is.
Continues(m) ==
  /\ m.data = SubSeq(data, Len(got) + 1, Len(got) + Len(m.data))
  /\ Len(got) + Len(m.data) <= Len(data)
  /\ m.last => Len(got) + Len(m.data) = Len(data)
  /\ state = "UPLOAD_SEGMENT_REQ" => Sent(source) = Len(got) + Len(m.data)

Prefix == Len(got) \in 0 .. Len(data) /\ got = SubSeq(data, 1, Len(got))

Unopened ==
  /\ got = <<>> /\ clientToggle = 0 /\ toggle = 0 /\ txBuff = None
  /\ request # None => Opening(request)
  /\ \A i \in 1 .. Len(toServer) : Opening(toServer[i])
  /\ \A i \in 1 .. Len(toClient) : ~IsSegment(toClient[i])
  /\ state = "UPLOAD_SEGMENT_REQ" => Sent(source) = 0

\* The server has not seen the client's request.
Waiting ==
  /\ state = "UPLOAD_SEGMENT_REQ" => Sent(source) = Len(got)
  /\ \A i \in 1 .. Len(toClient) : IsSegment(toClient[i]) => toClient[i].toggle # clientToggle
  /\ txBuff # None => txBuff.toggle # clientToggle
  /\ \A i, j \in 1 .. Len(toServer) : i < j /\ Current(toServer[i]) => Current(toServer[j])
  /\ request # None /\ Current(request) => \A i \in 1 .. Len(toServer) : Current(toServer[i])
  /\ \/ got = <<>> /\ clientToggle = 0
     \/ /\ request # None => ~Opening(request)
        /\ \A i \in 1 .. Len(toServer) : ~Opening(toServer[i])

\* It has.
Served ==
  /\ \A i \in 1 .. Len(toClient) :
       IsSegment(toClient[i]) /\ toClient[i].toggle = clientToggle => Continues(toClient[i])
  /\ txBuff # None => txBuff.toggle = clientToggle /\ Continues(txBuff)
  /\ \A i, j \in 1 .. Len(toClient) :
       i < j /\ IsSegment(toClient[i]) /\ IsSegment(toClient[j]) /\ toClient[i].toggle = clientToggle
         => toClient[j].toggle = clientToggle
  /\ request # None => Current(request)
  /\ \A i \in 1 .. Len(toServer) : Current(toServer[i])

InStep ==
  /\ step \in Opened => Unopened
  /\ step = "UPLOAD_SEGMENT_RSP" =>
       Prefix /\ IF toggle = clientToggle THEN Waiting ELSE Served

Alternation == ~zeros => InStep

Base == Typed /\ Window(source) /\ SubBlock

IInv == Base /\ Alternation /\ UploadTrue

----------------------------------------------------------------------------
(* Sizes and sequences                                                     *)

LEMMA Sizes ==
  /\ SegBytes \in Nat /\ SegBytes > 0
  /\ ExpBytes \in Nat /\ ExpBytes < SegBytes
  /\ BufferSize \in Nat /\ SegBytes <= BufferSize
  /\ ClientBlock \in Nat /\ ClientBlock > 0
  /\ ClientBlock * SegBytes \in Nat /\ ClientBlock * SegBytes > 0
  /\ ClientBlock * SegBytes <= BufferSize
<1>1. /\ SegBytes \in Nat /\ SegBytes > 0 /\ ClientBlock \in Nat /\ ClientBlock > 0
      /\ BufferSize \in Nat /\ ClientBlock * SegBytes <= BufferSize
      /\ ExpBytes \in Nat /\ ExpBytes < SegBytes
  BY UploadAssumption
<1>2. SegBytes <= ClientBlock * SegBytes
  BY <1>1, SMT
<1> QED BY <1>1, <1>2

LEMMA DataType == ASSUME data \in Objects PROVE data \in Seq(Byte) /\ Len(data) \in Nat /\ Len(data) > 0
BY UploadAssumption

\* A part of a sequence of bytes.
LEMMA Part ==
  ASSUME NEW s \in Seq(Byte), NEW a \in Int, NEW b \in Int, 1 <= a, a <= b + 1, b <= Len(s)
  PROVE  /\ SubSeq(s, a, b) \in Seq(Byte)
         /\ Len(SubSeq(s, a, b)) = b - a + 1
         /\ \A i \in 1 .. b - a + 1 : SubSeq(s, a, b)[i] = s[a + i - 1]
<1>1. \A i \in a .. b : s[i] \in Byte
  OBVIOUS
<1> QED BY <1>1, SubSeqProperties

\* Two parts that meet.
LEMMA Adjacent ==
  ASSUME NEW s \in Seq(Byte), NEW a \in Int, NEW b \in Int, NEW c \in Int,
         1 <= a, a <= b + 1, b <= c, c <= Len(s)
  PROVE  SubSeq(s, a, b) \o SubSeq(s, b + 1, c) = SubSeq(s, a, c)
<1>1. a \in 1 .. Len(s) + 1 /\ b \in a - 1 .. Len(s) /\ c \in b .. Len(s)
  OBVIOUS
<1> QED BY <1>1, ConcatAdjacentSubSeq

\* A part of a part.
LEMMA PartOfPart ==
  ASSUME NEW s \in Seq(Byte), NEW a \in Int, NEW b \in Int, NEW c \in Int, NEW d \in Int,
         1 <= a, a <= b + 1, b <= Len(s), 1 <= c, c <= d + 1, d <= b - a + 1
  PROVE  SubSeq(SubSeq(s, a, b), c, d) = SubSeq(s, a + c - 1, a + d - 1)
<1> DEFINE t == SubSeq(s, a, b)
           l == SubSeq(t, c, d)
           r == SubSeq(s, a + c - 1, a + d - 1)
<1>1. t \in Seq(Byte) /\ Len(t) = b - a + 1 /\ \A i \in 1 .. b - a + 1 : t[i] = s[a + i - 1]
  BY Part
<1>2. l \in Seq(Byte) /\ Len(l) = d - c + 1 /\ \A i \in 1 .. d - c + 1 : l[i] = t[c + i - 1]
  <2> HIDE DEF t
  <2> QED BY <1>1, Part
<1>3. r \in Seq(Byte) /\ Len(r) = d - c + 1 /\ \A i \in 1 .. d - c + 1 : r[i] = s[a + c - 1 + i - 1]
  BY Part
<1>4. \A i \in 1 .. Len(l) : l[i] = r[i]
  <2> HIDE DEF t, l, r
  <2> TAKE i \in 1 .. Len(l)
  <2>1. c + i - 1 \in 1 .. b - a + 1
    BY <1>2
  <2>2. t[c + i - 1] = s[a + (c + i - 1) - 1]
    BY <1>1, <2>1
  <2>3. a + (c + i - 1) - 1 = a + c - 1 + i - 1
    OBVIOUS
  <2> QED BY <1>2, <1>3, <2>2, <2>3
<1> HIDE DEF l, r
<1>5. l = r
  BY <1>2, <1>3, <1>4, SeqEqual
<1> QED BY <1>5 DEF l, r

----------------------------------------------------------------------------
(* Reading the object                                                      *)

\* The unread bytes are the part of the object that goes out next.
LEMMA UnreadPart ==
  ASSUME data \in Objects, NEW s, Window(s)
  PROVE  /\ Unread(s) \in Nat /\ Unread(s) <= BufferSize /\ Sent(s) \in Nat /\ Sent(s) + Unread(s) = s.offset
         /\ SubSeq(s.buf, s.rd + 1, Len(s.buf)) = SubSeq(data, Sent(s) + 1, s.offset)
<1>1. data \in Seq(Byte) /\ Len(s.buf) \in Nat /\ s.rd \in Nat /\ s.offset \in Nat
      /\ s.rd <= Len(s.buf) /\ Len(s.buf) <= s.offset /\ s.offset <= Len(data)
      /\ Len(s.buf) <= BufferSize
  BY DataType DEF Window, Buffers
<1>2. Unread(s) \in Nat /\ Unread(s) <= BufferSize /\ Sent(s) \in Nat /\ Sent(s) + Unread(s) = s.offset
  BY <1>1, Sizes DEF Unread, Sent
<1> DEFINE a == s.offset - Len(s.buf) + 1
<1>3. a \in Int /\ 1 <= a /\ a <= s.offset + 1 /\ Len(s.buf) = s.offset - a + 1
  BY <1>1
<1>4. SubSeq(SubSeq(data, a, s.offset), s.rd + 1, Len(s.buf)) = SubSeq(data, a + (s.rd + 1) - 1, a + Len(s.buf) - 1)
  <2> DEFINE c == s.rd + 1
             d == Len(s.buf)
  <2>1. a \in Int /\ c \in Int /\ d \in Int /\ 1 <= c /\ c <= d + 1 /\ d <= s.offset - a + 1
    BY <1>1, <1>3
  <2> HIDE DEF a, c, d
  <2>2. SubSeq(SubSeq(data, a, s.offset), c, d) = SubSeq(data, a + c - 1, a + d - 1)
    BY <1>1, <1>3, <2>1, PartOfPart
  <2> QED BY <2>2 DEF c, d
<1>5. a + (s.rd + 1) - 1 = Sent(s) + 1 /\ a + Len(s.buf) - 1 = s.offset
  BY <1>1 DEF Unread, Sent
<1> QED BY <1>2, <1>4, <1>5 DEF Window

\* readFromOd: the window moves, what was sent does not change, and there are
\* as many bytes as are needed, or all that are left.
LEMMA ReadWindow ==
  ASSUME data \in Objects, NEW s, Window(s), NEW n \in Nat, n <= BufferSize
  PROVE  /\ Window(Read(s, n))
         /\ Sent(Read(s, n)) = Sent(s)
         /\ Read(s, n).finished \/ Unread(Read(s, n)) >= n
<1>1. CASE s.finished \/ Unread(s) >= n
  <2>1. Len(SubSeq(s.buf, s.rd + 1, Len(s.buf))) = Unread(s)
    <3>1. s.buf \in Seq(Byte) /\ s.rd \in 0 .. Len(s.buf) /\ Len(s.buf) \in Nat
      BY DEF Window, Buffers
    <3> QED BY <3>1, Part DEF Unread
  <2>2. Read(s, n) = s
    BY <1>1, <2>1 DEF Read
  <2> QED BY <1>1, <2>2
<1>2. CASE ~s.finished /\ Unread(s) < n
  <2> DEFINE rest == SubSeq(s.buf, s.rd + 1, Len(s.buf))
             p    == Sent(s) + 1
             u    == Unread(s)
             off  == s.offset
             top  == Smaller(off + Room(rest), Len(data))
             more == SubSeq(data, off + 1, top)
             r    == Read(s, n)
  <2>1. data \in Seq(Byte) /\ s.crc = SubSeq(data, 1, off)
    BY DataType DEF Window
  <2>2. off \in Nat /\ off <= Len(data) /\ Len(data) \in Nat
    BY DataType DEF Window, Buffers
  <2>3. rest = SubSeq(data, p, off)
    BY UnreadPart
  <2>4. u \in Nat /\ u <= BufferSize /\ Sent(s) \in Nat /\ Sent(s) + u = off
    BY UnreadPart
  <2> HIDE DEF u, off, rest
  <2>5. p \in Nat /\ 1 <= p /\ p <= off + 1 /\ off - p + 1 = u
    BY <2>2, <2>4
  <2> HIDE DEF p
  <2>6. rest \in Seq(Byte) /\ Len(rest) = u
    BY <2>1, <2>2, <2>3, <2>5, Part
  <2>7. /\ top \in Nat /\ off <= top /\ top <= Len(data)
        /\ top # Len(data) => top = off + (BufferSize - u)
        /\ top <= off + (BufferSize - u)
    <3>1. Room(rest) = BufferSize - u
      BY <2>6 DEF Room
    <3> QED BY <2>2, <2>4, <3>1, Sizes DEF Smaller
  <2> HIDE DEF top
  <2>8. more \in Seq(Byte) /\ Len(more) = top - off
    BY <2>1, <2>2, <2>7, Part
  <2>9. r = [buf |-> rest \o more, rd |-> 0, offset |-> off + Len(more),
             finished |-> off + Len(more) = Len(data), crc |-> s.crc \o more]
    <3>1. ~(s.finished \/ Len(rest) >= n)
      BY <1>2, <2>4, <2>6 DEF u
    <3> QED BY <3>1, Zenon DEF Read, Summed, rest, top, off
  <2> HIDE DEF r, more
  <2>10. r.buf = rest \o more /\ r.rd = 0 /\ r.offset = top /\ r.crc = s.crc \o more
         /\ (r.finished <=> top = Len(data)) /\ DOMAIN r = {"buf", "rd", "offset", "finished", "crc"}
    <3>1. off + Len(more) = top
      BY <2>2, <2>7, <2>8
    <3> QED BY <2>9, <3>1
  <2>11. rest \o more = SubSeq(data, p, top)
    <3>1. SubSeq(data, p, off) \o more = SubSeq(data, p, top)
      BY <2>1, <2>2, <2>5, <2>7, Adjacent DEF more
    <3> QED BY <2>3, <3>1
  <2>12. s.crc \o more = SubSeq(data, 1, top)
    <3>1. SubSeq(data, 1, off) \o more = SubSeq(data, 1, top)
      BY <2>1, <2>2, <2>7, Adjacent DEF more
    <3> QED BY <2>1, <3>1
  <2>13. p <= top + 1
    BY <2>2, <2>5, <2>7
  <2>14. SubSeq(data, p, top) \in Seq(Byte) /\ Len(SubSeq(data, p, top)) = top - p + 1
    BY <2>1, <2>5, <2>7, <2>13, Part
  <2>15. SubSeq(data, 1, top) \in Seq(Byte)
    BY <2>1, <2>7, Part
  <2>16. r.buf \in Seq(Byte) /\ Len(r.buf) = top - p + 1 /\ r.crc \in Seq(Byte)
    BY <2>10, <2>11, <2>12, <2>14, <2>15
  <2>17. Len(r.buf) <= BufferSize /\ Len(r.buf) <= top /\ r.offset - Len(r.buf) + 1 = p
    BY <2>2, <2>5, <2>7, <2>10, <2>16, Sizes
  <2>18. r \in Buffers
    BY <2>7, <2>9, <2>10, <2>16 DEF Buffers
  <2>19. r.buf = SubSeq(data, r.offset - Len(r.buf) + 1, r.offset)
    BY <2>10, <2>11, <2>17
  <2>20. Window(r)
    <3>1. r.rd <= Len(r.buf) /\ r.offset <= Len(data) /\ Len(r.buf) <= r.offset
      BY <2>5, <2>7, <2>10, <2>13, <2>16, <2>17
    <3>2. r.crc = SubSeq(data, 1, r.offset) /\ (r.finished => r.offset = Len(data))
      BY <2>10, <2>12
    <3> QED BY <2>17, <2>18, <2>19, <3>1, <3>2 DEF Window
  <2>21. Unread(r) = top - p + 1 /\ Sent(r) = Sent(s)
    <3>1. Unread(r) = top - p + 1
      BY <2>5, <2>7, <2>10, <2>16 DEF Unread
    <3>2. Sent(r) = top - Unread(r)
      BY <2>10 DEF Sent
    <3>3. Sent(s) = p - 1
      BY <2>4 DEF p
    <3> QED BY <2>5, <2>7, <3>1, <3>2, <3>3
  <2>22. r.finished \/ Unread(r) >= n
    BY <2>2, <2>5, <2>7, <2>10, <2>21, Sizes
  <2> QED BY <2>20, <2>21, <2>22 DEF r
<1>3. Unread(s) \in Int
  BY UnreadPart
<1> QED BY <1>1, <1>2, <1>3

\* Moving the read position within what the buffer holds.
LEMMA MoveWindow ==
  ASSUME NEW s, Window(s), NEW k \in Int, s.rd + k >= 0, s.rd + k <= Len(s.buf)
  PROVE  /\ Window([s EXCEPT !.rd = @ + k])
         /\ Unread([s EXCEPT !.rd = @ + k]) = Unread(s) - k
         /\ Sent([s EXCEPT !.rd = @ + k]) = Sent(s) + k
<1> DEFINE t == [s EXCEPT !.rd = @ + k]
<1>1. s \in Buffers /\ s.rd \in Nat /\ Len(s.buf) \in Nat /\ s.offset \in Nat
  BY DEF Window, Buffers
<1>2. t \in Buffers /\ t.buf = s.buf /\ t.rd = s.rd + k /\ t.offset = s.offset
      /\ t.finished = s.finished /\ t.crc = s.crc
  BY <1>1 DEF Buffers
<1> HIDE DEF t
<1>3. Unread(t) = Unread(s) - k /\ Sent(t) = Sent(s) + k
  BY <1>1, <1>2 DEF Unread, Sent
<1>4. Window(t)
  BY <1>2 DEF Window
<1> QED BY <1>3, <1>4 DEF t

\* What was found in the object before anything was sent.
LEMMA StartWindow ==
  ASSUME data \in Objects
  PROVE  Window(NoData) /\ Unread(NoData) = 0 /\ Sent(NoData) = 0 /\ NoData.finished = FALSE
<1>1. data \in Seq(Byte) /\ Len(data) \in Nat
  BY DataType
<1>2. SubSeq(data, 1, 0) = <<>>
  BY SubSeqEmpty
<1>3. NoData \in Buffers /\ NoData.offset - Len(NoData.buf) + 1 = 1
  BY DEF NoData, Buffers
<1> QED BY <1>1, <1>2, <1>3, Sizes DEF Window, NoData, Unread, Sent

\* The next segment is the part of the object behind what was sent, and as long
\* as a segment unless it is the end of what the buffer holds.
LEMMA SegmentPart ==
  ASSUME data \in Objects, NEW s, Window(s)
  PROVE  LET d == NextSegment(s)
         IN /\ d \in Seq(Byte) /\ Len(d) <= SegBytes /\ Len(d) <= Unread(s)
            /\ Len(d) = Unread(s) \/ Len(d) = SegBytes
            /\ d = SubSeq(data, Sent(s) + 1, Sent(s) + Len(d))
<1> DEFINE top == Smaller(s.rd + SegBytes, Len(s.buf))
           a   == s.offset - Len(s.buf) + 1
           d   == NextSegment(s)
<1>1. /\ s.rd \in Nat /\ Len(s.buf) \in Nat /\ s.rd <= Len(s.buf) /\ s.offset \in Nat
      /\ s.offset <= Len(data) /\ Len(s.buf) <= s.offset /\ s.buf \in Seq(Byte) /\ data \in Seq(Byte)
  BY DataType DEF Window, Buffers
<1>2. top \in Nat /\ s.rd <= top /\ top <= Len(s.buf) /\ (top = Len(s.buf) \/ top = s.rd + SegBytes)
      /\ top <= s.rd + SegBytes
  BY <1>1, Sizes DEF Smaller
<1>3. d = SubSeq(s.buf, s.rd + 1, top)
  BY DEF NextSegment
<1> HIDE DEF top, d
<1>4. d \in Seq(Byte) /\ Len(d) = top - s.rd
  <2> DEFINE b == s.rd + 1
  <2>1. b \in Int /\ 1 <= b /\ b <= top + 1 /\ top - b + 1 = top - s.rd
    BY <1>1, <1>2
  <2> HIDE DEF b
  <2>2. SubSeq(s.buf, b, top) \in Seq(Byte) /\ Len(SubSeq(s.buf, b, top)) = top - b + 1
    BY <1>1, <1>2, <2>1, Part
  <2> QED BY <1>3, <2>1, <2>2 DEF b
<1>5. Unread(s) = Len(s.buf) - s.rd
  BY DEF Unread
<1>6. Sent(s) = s.offset - Unread(s)
  BY DEF Sent
<1>7. SubSeq(SubSeq(data, a, s.offset), s.rd + 1, top) = SubSeq(data, Sent(s) + 1, Sent(s) + Len(d))
  <2> DEFINE c == s.rd + 1
  <2>1. /\ a \in Int /\ 1 <= a /\ a <= s.offset + 1
        /\ c \in Int /\ 1 <= c /\ c <= top + 1 /\ top <= s.offset - a + 1
        /\ a + c - 1 = Sent(s) + 1 /\ a + top - 1 = Sent(s) + Len(d)
    <3>1. Unread(s) \in Int /\ Sent(s) \in Int /\ a \in Int /\ c \in Int
      BY <1>1, <1>5, <1>6
    <3>2. 1 <= a /\ a <= s.offset + 1 /\ 1 <= c /\ c <= top + 1 /\ top <= s.offset - a + 1
      BY <1>1, <1>2
    <3>3. a + c - 1 = Sent(s) + 1 /\ a + top - 1 = Sent(s) + Len(d)
      <4>1. a + c - 1 = Sent(s) + 1
        BY <1>1, <1>5, <1>6
      <4>2. a + top - 1 = s.offset - Len(s.buf) + top
        <5>1. s.offset \in Int /\ Len(s.buf) \in Int /\ top \in Int
          BY <1>1, <1>2
        <5> QED BY <5>1
      <4>3. Sent(s) + Len(d) = s.offset - Len(s.buf) + top
        BY <1>1, <1>2, <1>4, <1>5, <1>6
      <4> QED BY <4>1, <4>2, <4>3
    <3> QED BY <3>1, <3>2, <3>3
  <2> HIDE DEF a, c
  <2>2. SubSeq(SubSeq(data, a, s.offset), c, top) = SubSeq(data, a + c - 1, a + top - 1)
    BY <1>1, <1>2, <2>1, PartOfPart
  <2> QED BY <2>1, <2>2 DEF c
<1>8. s.buf = SubSeq(data, a, s.offset)
  BY DEF Window
<1>9. d = SubSeq(data, Sent(s) + 1, Sent(s) + Len(d))
  BY <1>3, <1>7, <1>8
<1>10. Len(d) <= SegBytes /\ Len(d) <= Unread(s) /\ (Len(d) = Unread(s) \/ Len(d) = SegBytes)
  BY <1>1, <1>2, <1>4, <1>5, Sizes
<1> QED BY <1>4, <1>9, <1>10 DEF d

\* The read position after it.
LEMMA AfterSegment ==
  ASSUME data \in Objects, NEW s, Window(s)
  PROVE  LET d == NextSegment(s)
             t == [s EXCEPT !.rd = @ + Len(d)]
         IN /\ Window(t) /\ Unread(t) = Unread(s) - Len(d) /\ Sent(t) = Sent(s) + Len(d)
            /\ t.rd = s.rd + Len(d) /\ t.buf = s.buf
<1> DEFINE d == NextSegment(s)
           t == [s EXCEPT !.rd = @ + Len(d)]
<1>1. Len(d) \in Nat /\ Len(d) <= Unread(s)
  BY SegmentPart
<1>2. s \in Buffers /\ s.rd \in Nat /\ Len(s.buf) \in Nat
  BY DEF Window, Buffers
<1> HIDE DEF d
<1>3. s.rd + Len(d) >= 0 /\ s.rd + Len(d) <= Len(s.buf)
  BY <1>1, <1>2 DEF Unread
<1>4. t.rd = s.rd + Len(d) /\ t.buf = s.buf
  BY <1>2 DEF Buffers
<1>5. Window(t) /\ Unread(t) = Unread(s) - Len(d) /\ Sent(t) = Sent(s) + Len(d)
  <2> DEFINE k == Len(d)
  <2>1. k \in Int /\ s.rd + k >= 0 /\ s.rd + k <= Len(s.buf)
    BY <1>1, <1>3
  <2> HIDE DEF k
  <2>2. /\ Window([s EXCEPT !.rd = @ + k])
        /\ Unread([s EXCEPT !.rd = @ + k]) = Unread(s) - k
        /\ Sent([s EXCEPT !.rd = @ + k]) = Sent(s) + k
    BY <2>1, MoveWindow
  <2> QED BY <2>2 DEF k
<1> QED BY <1>4, <1>5 DEF d

----------------------------------------------------------------------------
(* Frames                                                                  *)

\* An answer goes to the end of what is on its way to the client.
LEMMA Sending ==
  ASSUME Typed, NEW m \in Answers, Answer(m)
  PROVE  toClient' \in Seq(Answers)
BY DEF Typed, Answer

LEMMA AbortSent ==
  ASSUME Typed, AbortUpload
  PROVE  toClient' \in Seq(Answers) /\ state' = "IDLE"
<1>1. [cs |-> "abort"] \in Answers
  BY DEF Answers
<1> QED BY <1>1, Sending DEF AbortUpload

LEMMA Asking ==
  ASSUME Typed, NEW m \in Requests, Request(m)
  PROVE  toServer' \in Seq(Requests)
BY DEF Typed, Request

LEMMA GivingUp ==
  ASSUME Typed, GiveUp
  PROVE  toServer' \in Seq(Requests) /\ step' = "failed"
<1>1. [cs |-> "abort"] \in Requests
  BY DEF Requests
<1> QED BY <1>1, Asking DEF GiveUp

\* The set of answers is fixed once the object is.
LEMMA SameAnswers ==
  ASSUME data' = data
  PROVE  Answers' = Answers /\ (\A s : Window(s) => Window(s)')
BY DEF Answers, Window, Segments

\* None is not a frame.
LEMMA NotNone ==
  ASSUME NEW m \in Requests \cup Answers
  PROVE  m # None /\ m.cs # "none"
BY DEF Requests, Answers, Segments, None

----------------------------------------------------------------------------
(* Buffer and sub-blocks                                                   *)

\* The parts of Typed a step of the server touches.
ServerTyped ==
  /\ state \in ServerStates
  /\ request \in Requests \cup {None}
  /\ toggle \in {0, 1}
  /\ blksize \in {0, ClientBlock} /\ seqno \in Nat /\ noData \in Nat
  /\ txBuff \in Segments \cup {None}
  /\ toClient \in Seq(Answers)
  /\ zeros \in BOOLEAN

\* A segment of a sub-block goes out behind n others.
LEMMA BlockSent ==
  ASSUME Typed, data' = data, NEW s, Window(s), Unread(s) > 0,
         NEW n \in Nat, n * SegBytes <= s.rd, NEW t, SendBlockSegment(s, n, t)
  PROVE  /\ Window(source)' /\ SubBlock'
         /\ state' \in {"IDLE", "UPLOAD_BLK_SUBBLOCK_SREQ", "UPLOAD_BLK_SUBBLOCK_CRSP"}
         /\ seqno' \in Nat /\ noData' \in Nat /\ txBuff' = None /\ toClient' \in Seq(Answers)
<1> DEFINE d   == NextSegment(s)
           u   == [s EXCEPT !.rd = @ + Len(d)]
           pad == SegBytes - Len(d)
           m   == [cs |-> "block", seqno |-> n + 1, last |-> IsLast(s),
                   data |-> d \o [i \in 1 .. pad |-> Pad]]
<1>1. /\ d \in Seq(Byte) /\ Len(d) \in Nat /\ Len(d) <= SegBytes /\ Len(d) <= Unread(s)
      /\ (Len(d) = Unread(s) \/ Len(d) = SegBytes)
  BY SegmentPart DEF Typed
<1>2. Window(u) /\ Unread(u) = Unread(s) - Len(d) /\ u.rd = s.rd + Len(d) /\ u.buf = s.buf
  BY AfterSegment DEF Typed
<1>3. source' = u /\ noData' = pad /\ seqno' = n + 1 /\ txBuff' = None
  BY DEF SendBlockSegment
<1>4. /\ s.rd \in Nat /\ Len(s.buf) \in Nat /\ Unread(s) = Len(s.buf) - s.rd
  BY DEF Window, Buffers, Unread
<1>5. \/ AbortUpload
      \/ /\ state' = IF s.rd + Len(d) = Len(s.buf) \/ n + 1 >= blksize' THEN "UPLOAD_BLK_SUBBLOCK_CRSP"
                     ELSE "UPLOAD_BLK_SUBBLOCK_SREQ"
         /\ Answer(m)
  BY DEF SendBlockSegment
<1> HIDE DEF d, u
<1>6. pad \in Nat /\ pad < SegBytes
  BY <1>1, <1>4, Sizes
<1>7. m \in Answers
  <2>1. [i \in 1 .. pad |-> Pad] \in Seq(Byte)
    BY <1>6, UploadAssumption
  <2>2. IsLast(s) \in BOOLEAN
    BY DEF IsLast, Window, Buffers
  <2>3. d \o [i \in 1 .. pad |-> Pad] \in Seq(Byte)
    BY <1>1, <2>1
  <2> QED BY <2>2, <2>3 DEF Answers
<1> HIDE DEF m
<1>8. toClient' \in Seq(Answers)
  BY <1>5, <1>7, AbortSent, Sending
<1>9. Window(source)'
  BY <1>2, <1>3, SameAnswers
<1>10. state' \in {"IDLE", "UPLOAD_BLK_SUBBLOCK_SREQ", "UPLOAD_BLK_SUBBLOCK_CRSP"}
       /\ (state' = "UPLOAD_BLK_SUBBLOCK_SREQ" => s.rd + Len(d) # Len(s.buf))
  BY <1>5, AbortSent
<1>11. SubBlock'
  <2>1. state' = "UPLOAD_BLK_SUBBLOCK_SREQ" => Unread(u) > 0 /\ pad = 0
    BY <1>1, <1>2, <1>4, <1>10, Sizes
  <2>2. (n + 1) * SegBytes - pad <= u.rd
    <3> DEFINE k == n * SegBytes
               l == (n + 1) * SegBytes
    <3>1. l = k + SegBytes /\ k \in Nat
      BY Sizes
    <3>2. k <= s.rd
      OBVIOUS
    <3> HIDE DEF k, l
    <3>3. l - pad <= u.rd
      BY <1>1, <1>2, <1>4, <3>1, <3>2, Sizes
    <3> QED BY <3>3 DEF l
  <2> HIDE DEF pad
  <2>3. Unread(source)' = Unread(u) /\ BytesOf(seqno)' = (n + 1) * SegBytes - pad /\ source'.rd = u.rd
    BY <1>3 DEF Unread, BytesOf
  <2> QED BY <1>3, <1>6, <1>10, <2>1, <2>2, <2>3 DEF SubBlock
<1> QED BY <1>3, <1>6, <1>8, <1>9, <1>10, <1>11

\* What the server has read before it answers an initiation.
LEMMA Announced ==
  ASSUME data \in Objects, known \in BOOLEAN
  PROVE  LET s == Read(NoData, SegBytes)
         IN /\ Window(s) /\ Sent(s) = 0 /\ Unread(s) > 0
            /\ Indicated(s) \in Nat
            /\ Indicated(s) \in 1 .. ExpBytes => s.buf = data
<1> DEFINE s == Read(NoData, SegBytes)
<1>1. Window(s) /\ Sent(s) = 0 /\ (s.finished \/ Unread(s) >= SegBytes)
  BY StartWindow, ReadWindow, Sizes
<1> HIDE DEF s
<1>2. /\ s.rd \in Nat /\ Len(s.buf) \in Nat /\ s.offset \in Nat /\ s.rd <= Len(s.buf)
      /\ Len(s.buf) <= s.offset /\ s.offset <= Len(data) /\ (s.finished => s.offset = Len(data))
      /\ s.buf = SubSeq(data, s.offset - Len(s.buf) + 1, s.offset)
  BY <1>1 DEF Window, Buffers
<1>3. Len(s.buf) = s.offset /\ Unread(s) = s.offset
  BY <1>1, <1>2 DEF Sent, Unread
<1>4. Unread(s) > 0 /\ Indicated(s) \in Nat
  BY <1>1, <1>2, <1>3, DataType, Sizes DEF Indicated
<1>5. s.finished => s.buf = data
  <2> SUFFICES ASSUME s.finished PROVE s.buf = data
    OBVIOUS
  <2>1. s.offset = Len(data) /\ s.offset - Len(s.buf) + 1 = 1
    BY <1>2, <1>3
  <2>2. data = SubSeq(data, 1, Len(data))
    BY DataType, SubSeqFull
  <2> QED BY <1>2, <2>1, <2>2
<1>6. Indicated(s) \in 1 .. ExpBytes => s.finished
  BY <1>1, <1>2, <1>3, Sizes, DataType DEF Indicated
<1> QED BY <1>1, <1>4, <1>5, <1>6 DEF s

\* The answer to an initiation.
LEMMA Initiated ==
  ASSUME Typed, NEW s, NEW ind \in Nat, ind \in 1 .. ExpBytes => s.buf = data, AnswerInitiation(s, ind)
  PROVE  toClient' \in Seq(Answers) /\ state' \in {"IDLE", "UPLOAD_SEGMENT_REQ"} /\ toggle' \in {0, 1}
<1>1. CASE ind \in 1 .. ExpBytes
  <2>1. [cs |-> "uploaded", data |-> s.buf] \in Answers
    BY <1>1 DEF Answers
  <2> QED BY <1>1, <2>1, Sending DEF AnswerInitiation, Typed
<1>2. CASE ind \notin 1 .. ExpBytes
  <2>1. [cs |-> "uploadOpen", size |-> ind] \in Answers
    BY DEF Answers
  <2> QED BY <1>2, <2>1, Sending DEF AnswerInitiation
<1> QED BY <1>1, <1>2

\* Going back by segments of the sub-block stays within the buffer.
LEMMA GoingBack ==
  ASSUME Base, state \in {"UPLOAD_BLK_SUBBLOCK_SREQ", "UPLOAD_BLK_SUBBLOCK_CRSP"},
         NEW q \in Nat, q < seqno
  PROVE  BytesOf(seqno - q) \in Nat /\ BytesOf(seqno - q) <= source.rd
<1>1. /\ noData \in Nat /\ noData < SegBytes /\ seqno \in Nat /\ SegBytes \in Nat
      /\ seqno * SegBytes - noData <= source.rd /\ source.rd \in Nat
  BY Sizes DEF Base, Typed, SubBlock, BytesOf, Window, Buffers
<1> DEFINE p == seqno - q
<1>2. p \in Nat /\ p >= 1 /\ p <= seqno
  BY <1>1
<1> HIDE DEF p
<1> DEFINE b == p * SegBytes
           c == seqno * SegBytes
<1>3. b \in Nat /\ c \in Nat /\ SegBytes <= b /\ b <= c
  BY <1>1, <1>2, SMT
<1>4. c - noData <= source.rd
  BY <1>1
<1> HIDE DEF b, c
<1>5. b - noData \in Nat /\ b - noData <= source.rd
  BY <1>1, <1>3, <1>4
<1> QED BY <1>5 DEF BytesOf, p, b

\* What a request does.
LEMMA ServeKeeps ==
  ASSUME Base, Serve
  PROVE  ServerTyped' /\ Window(source)' /\ SubBlock'
<1> USE DEF Base
<1>1. /\ data \in Objects /\ known \in BOOLEAN /\ data' = data /\ known' = known
      /\ request \in Requests /\ request' = None
      /\ toggle \in {0, 1} /\ blksize \in {0, ClientBlock} /\ seqno \in Nat /\ noData \in Nat
      /\ txBuff \in Segments \cup {None} /\ zeros \in BOOLEAN
  BY DEF Typed, Serve, InitUpload, InitBlockUpload, UploadSegment, RepeatSegment, StartBlocks,
         Acknowledge, RefuseFrame, Processed, objectVars
<1>2. None \in Segments \cup {None} /\ SegBytes <= BufferSize /\ SegBytes \in Nat
  BY Sizes
<1>3. CASE InitUpload
  <2> DEFINE s == Read(NoData, SegBytes)
             ind == Indicated(s)
  <2>1. Window(s) /\ ind \in Nat /\ (ind \in 1 .. ExpBytes => s.buf = data)
    BY <1>1, Announced
  <2>2. source' = s /\ AnswerInitiation(s, ind) /\ txBuff' = None
        /\ UNCHANGED <<blksize, seqno, noData, zeros>>
    BY <1>3 DEF InitUpload
  <2> HIDE DEF s, ind
  <2>3. toClient' \in Seq(Answers)' /\ state' \in {"IDLE", "UPLOAD_SEGMENT_REQ"} /\ toggle' \in {0, 1}
    BY <1>1, <2>1, <2>2, Initiated, SameAnswers
  <2>4. SubBlock'
    BY <2>3 DEF SubBlock
  <2> QED BY <1>1, <2>1, <2>2, <2>3, <2>4, SameAnswers DEF ServerTyped, ServerStates
<1>4. CASE InitBlockUpload
  <2> DEFINE s == Read(NoData, SegBytes)
             ind == Indicated(s)
  <2>1. Window(s) /\ Unread(s) > 0 /\ ind \in Nat /\ (ind \in 1 .. ExpBytes => s.buf = data)
    BY <1>1, Announced
  <2>2. /\ source' = s /\ txBuff' = None /\ UNCHANGED <<seqno, noData, zeros>>
        /\ \/ AnswerInitiation(s, ind) /\ UNCHANGED blksize
           \/ /\ blksize' = request.blksize /\ UNCHANGED toggle
              /\ \/ AbortUpload
                 \/ /\ state' = "UPLOAD_BLK_INITIATE_REQ2"
                    /\ Answer([cs |-> "blockOpen", size |-> ind])
    BY <1>4 DEF InitBlockUpload
  <2>3. request.blksize \in {0, ClientBlock}
    BY <1>1, <1>4 DEF InitBlockUpload, Requests
  <2> HIDE DEF s, ind
  <2>4. [cs |-> "blockOpen", size |-> ind] \in Answers
    BY <2>1 DEF Answers
  <2>5. /\ toClient' \in Seq(Answers)' /\ toggle' \in {0, 1} /\ blksize' \in {0, ClientBlock}
        /\ state' \in {"IDLE", "UPLOAD_SEGMENT_REQ", "UPLOAD_BLK_INITIATE_REQ2"}
    BY <1>1, <2>1, <2>2, <2>3, <2>4, Initiated, AbortSent, Sending, SameAnswers
  <2>6. SubBlock'
    <3>1. Unread(source') > 0
      BY <2>1, <2>2
    <3> QED BY <2>5, <3>1 DEF SubBlock, Unread
  <2> QED BY <1>1, <2>1, <2>2, <2>5, <2>6, SameAnswers DEF ServerTyped, ServerStates
<1>5. CASE UploadSegment
  <2> DEFINE s == Read(source, SegBytes)
             d == NextSegment(s)
             m == [cs |-> "segment", toggle |-> toggle, data |-> d, last |-> IsLast(s)]
             u == [s EXCEPT !.rd = @ + Len(d)]
  <2>1. Window(s)
    BY <1>1, <1>2, ReadWindow
  <2>2. /\ source' = u /\ toggle' = 1 - toggle /\ UNCHANGED <<blksize, seqno, noData, zeros>>
        /\ \/ AbortUpload /\ txBuff' = None
           \/ state' \in {"IDLE", state} /\ Answer(m) /\ txBuff' = m
        /\ state = "UPLOAD_SEGMENT_REQ"
    BY <1>5 DEF UploadSegment
  <2>3. d \in Seq(Byte) /\ Window(u)
    BY <1>1, <2>1, SegmentPart, AfterSegment
  <2>4. IsLast(s) \in BOOLEAN
    BY <2>1 DEF IsLast, Window, Buffers
  <2>5. m \in Segments
    BY <1>1, <2>3, <2>4 DEF Segments
  <2> HIDE DEF s, m, u
  <2>6. toClient' \in Seq(Answers)' /\ state' \in {"IDLE", "UPLOAD_SEGMENT_REQ"}
    <3>1. m \in Answers
      BY <2>5 DEF Answers
    <3> QED BY <1>1, <2>2, <3>1, AbortSent, Sending, SameAnswers
  <2>7. SubBlock'
    BY <2>6 DEF SubBlock
  <2>8. toggle' \in {0, 1} /\ txBuff' \in Segments \cup {None}
    BY <1>1, <2>2, <2>5
  <2> QED BY <1>1, <2>2, <2>3, <2>6, <2>7, <2>8, SameAnswers DEF ServerTyped, ServerStates
<1>6. CASE RepeatSegment
  <2> DEFINE m == IF txBuff = None THEN Zeros ELSE txBuff
  <2>1. /\ state' = state /\ source' = source /\ UNCHANGED <<toggle, blksize, seqno, noData>>
        /\ Answer(m) /\ txBuff' = None /\ zeros' \in BOOLEAN /\ state = "UPLOAD_SEGMENT_REQ"
    BY <1>1, <1>6 DEF RepeatSegment, countVars
  <2>2. Zeros \in Segments
    <3>1. [i \in 1 .. SegBytes |-> Pad] \in Seq(Byte)
      BY <1>2, UploadAssumption
    <3> QED BY <3>1 DEF Segments, Zeros
  <2>3. m \in Answers
    BY <1>1, <2>2 DEF Answers
  <2> HIDE DEF m
  <2>4. toClient' \in Seq(Answers)'
    BY <1>1, <2>1, <2>3, Sending, SameAnswers
  <2>5. SubBlock'
    BY <2>1 DEF SubBlock
  <2> QED BY <1>1, <2>1, <2>4, <2>5, SameAnswers DEF ServerTyped, ServerStates
<1>7. CASE StartBlocks
  <2>1. /\ state = "UPLOAD_BLK_INITIATE_REQ2" /\ blksize' = blksize /\ toggle' = toggle /\ zeros' = zeros
        /\ SendBlockSegment(source, 0, sizeTran)
    BY <1>7 DEF StartBlocks
  <2>2. Unread(source) > 0 /\ 0 * SegBytes <= source.rd
    BY <1>2, <2>1 DEF SubBlock, Window, Buffers
  <2>3. /\ Window(source)' /\ SubBlock'
        /\ state' \in {"IDLE", "UPLOAD_BLK_SUBBLOCK_SREQ", "UPLOAD_BLK_SUBBLOCK_CRSP"}
        /\ seqno' \in Nat /\ noData' \in Nat /\ txBuff' = None /\ toClient' \in Seq(Answers)
    <3> DEFINE n == 0
    <3>1. n \in Nat /\ n * SegBytes <= source.rd /\ SendBlockSegment(source, n, sizeTran)
      BY <2>1, <2>2
    <3> HIDE DEF n
    <3> QED BY <1>1, <2>2, <3>1, BlockSent
  <2> QED BY <1>1, <2>1, <2>3, SameAnswers DEF ServerTyped, ServerStates
<1>8. CASE Acknowledge
  <2> DEFINE back == IF request.seqno < seqno THEN BytesOf(seqno - request.seqno) ELSE 0
             b    == [source EXCEPT !.rd = @ - back]
             n    == request.blksize * SegBytes
             s    == Read(b, n)
  <2>1. /\ request.seqno \in Nat /\ request.blksize = ClientBlock
        /\ n \in Nat /\ n > 0 /\ n <= BufferSize
    <3>1. request.seqno \in Nat /\ request.blksize = ClientBlock
      BY <1>1, <1>8 DEF Acknowledge, Requests
    <3> QED BY <3>1, Sizes
  <2>2. Window(b)
    <3>1. back \in Nat /\ back <= source.rd
      <4>1. state \in {"UPLOAD_BLK_SUBBLOCK_SREQ", "UPLOAD_BLK_SUBBLOCK_CRSP"}
        BY <1>8 DEF Acknowledge
      <4>2. source.rd \in Nat
        BY DEF Window, Buffers
      <4>3. CASE request.seqno < seqno
        BY <2>1, <4>1, <4>3, GoingBack
      <4> QED BY <4>2, <4>3
    <3>2. source \in Buffers /\ source.rd \in Nat /\ Len(source.buf) \in Nat /\ source.rd <= Len(source.buf)
      BY DEF Window, Buffers
    <3> DEFINE k == 0 - back
    <3> HIDE DEF back
    <3>3. k \in Int /\ source.rd + k >= 0 /\ source.rd + k <= Len(source.buf) /\ source.rd + k = source.rd - back
      BY <3>1, <3>2
    <3> HIDE DEF k
    <3>4. Window([source EXCEPT !.rd = @ + k])
      BY <3>3, MoveWindow
    <3>5. [source EXCEPT !.rd = @ + k] = b
      BY <3>3
    <3> QED BY <3>4, <3>5
  <2>3. /\ txBuff' = None
        /\ blksize' = ClientBlock /\ toggle' = toggle /\ zeros' = zeros
        /\ \/ AbortUpload /\ UNCHANGED <<source, seqno, noData>>
           \/ /\ Unread(s) = 0 /\ source' = s /\ state' = "UPLOAD_BLK_END_CRSP"
              /\ Answer([cs |-> "endBlock", noData |-> noData, crc |-> s.crc])
              /\ UNCHANGED <<seqno, noData>>
           \/ Unread(s) # 0 /\ \E t : SendBlockSegment(s, 0, t)
    <3>1. blksize' = ClientBlock /\ toggle' = toggle /\ zeros' = zeros
      BY <1>8, <2>1 DEF Acknowledge
    <3>2. CASE request.seqno > seqno
      BY <1>8, <3>1, <3>2, Zenon DEF Acknowledge
    <3>3. CASE ~(request.seqno > seqno) /\ Unread(s) = 0
      BY <1>8, <3>1, <3>3, Zenon DEF Acknowledge
    <3>4. CASE ~(request.seqno > seqno) /\ Unread(s) # 0
      BY <1>8, <3>1, <3>4, Zenon DEF Acknowledge, SendBlockSegment
    <3> QED BY <3>2, <3>3, <3>4
  <2> HIDE DEF b, n
  <2>4. Window(s) /\ (s.finished \/ Unread(s) >= n)
    BY <1>1, <2>1, <2>2, ReadWindow
  <2> HIDE DEF s
  <2>5. CASE AbortUpload /\ UNCHANGED <<source, seqno, noData>>
    <3>1. toClient' \in Seq(Answers)' /\ state' = "IDLE"
      BY <1>1, <2>5, AbortSent, SameAnswers
    <3> QED BY <1>1, <2>3, <2>5, <3>1, SameAnswers DEF ServerTyped, ServerStates, SubBlock
  <2>6. CASE /\ Unread(s) = 0 /\ source' = s /\ state' = "UPLOAD_BLK_END_CRSP"
             /\ Answer([cs |-> "endBlock", noData |-> noData, crc |-> s.crc])
             /\ UNCHANGED <<seqno, noData>>
    <3>1. s.crc = data
      <4>1. s.finished /\ s.crc = SubSeq(data, 1, s.offset)
        BY <2>1, <2>4, <2>6 DEF Window
      <4>2. s.offset = Len(data) /\ SubSeq(data, 1, Len(data)) = data
        BY <1>1, <2>4, <4>1, DataType, SubSeqFull DEF Window
      <4> QED BY <4>1, <4>2
    <3>2. [cs |-> "endBlock", noData |-> noData, crc |-> s.crc] \in Answers
      BY <1>1, <3>1 DEF Answers
    <3>3. toClient' \in Seq(Answers)'
      BY <1>1, <2>6, <3>2, Sending, SameAnswers
    <3> QED BY <1>1, <2>3, <2>4, <2>6, <3>3, SameAnswers DEF ServerTyped, ServerStates, SubBlock
  <2>7. CASE Unread(s) # 0 /\ \E t : SendBlockSegment(s, 0, t)
    <3> PICK t : SendBlockSegment(s, 0, t)
      BY <2>7
    <3> DEFINE z == 0
    <3>1. z \in Nat /\ z * SegBytes <= s.rd /\ SendBlockSegment(s, z, t) /\ Unread(s) > 0
      <4>1. Unread(s) \in Nat /\ Unread(s) # 0
        BY <1>1, <2>4, <2>7, UnreadPart
      <4>2. z * SegBytes = 0 /\ s.rd \in Nat
        BY <1>2, <2>4 DEF Window, Buffers
      <4> QED BY <4>1, <4>2
    <3> HIDE DEF z
    <3>2. /\ Window(source)' /\ SubBlock'
          /\ state' \in {"IDLE", "UPLOAD_BLK_SUBBLOCK_SREQ", "UPLOAD_BLK_SUBBLOCK_CRSP"}
          /\ seqno' \in Nat /\ noData' \in Nat /\ txBuff' = None /\ toClient' \in Seq(Answers)
      BY <1>1, <2>4, <3>1, BlockSent
    <3> QED BY <1>1, <2>3, <3>2, SameAnswers DEF ServerTyped, ServerStates
  <2> QED BY <2>3, <2>5, <2>6, <2>7
<1>9. CASE RefuseFrame
  <2>1. /\ AbortUpload /\ txBuff' = None /\ source' = source
        /\ UNCHANGED <<toggle, blksize, seqno, noData, zeros>>
    BY <1>9 DEF RefuseFrame, countVars
  <2>2. toClient' \in Seq(Answers)' /\ state' = "IDLE"
    BY <1>1, <2>1, AbortSent, SameAnswers
  <2>3. SubBlock'
    BY <2>2 DEF SubBlock
  <2> QED BY <1>1, <2>1, <2>2, <2>3, SameAnswers DEF ServerTyped, ServerStates
<1> QED BY <1>3, <1>4, <1>5, <1>6, <1>7, <1>8, <1>9 DEF Serve

LEMMA SendNextKeeps ==
  ASSUME Base, SendNext
  PROVE  ServerTyped' /\ Window(source)' /\ SubBlock'
<1> USE DEF Base
<1>1. /\ data' = data /\ request' = request /\ toggle' = toggle /\ zeros' = zeros /\ blksize' = blksize
      /\ state = "UPLOAD_BLK_SUBBLOCK_SREQ" /\ SendBlockSegment(source, seqno, sizeTran)
  BY DEF SendNext, objectVars
<1>2. /\ data \in Objects /\ request \in Requests \cup {None} /\ toggle \in {0, 1}
      /\ blksize \in {0, ClientBlock} /\ zeros \in BOOLEAN /\ seqno \in Nat
  BY DEF Typed
<1>3. Unread(source) > 0 /\ seqno * SegBytes <= source.rd
  <2>1. Unread(source) > 0 /\ seqno * SegBytes - 0 <= source.rd
    BY <1>1 DEF SubBlock, BytesOf
  <2>2. seqno * SegBytes \in Nat
    BY <1>2, Sizes
  <2> QED BY <2>1, <2>2
<1>4. /\ Window(source)' /\ SubBlock'
      /\ state' \in {"IDLE", "UPLOAD_BLK_SUBBLOCK_SREQ", "UPLOAD_BLK_SUBBLOCK_CRSP"}
      /\ seqno' \in Nat /\ noData' \in Nat /\ txBuff' = None /\ toClient' \in Seq(Answers)
  BY <1>1, <1>2, <1>3, BlockSent
<1> QED BY <1>1, <1>2, <1>4, SameAnswers DEF ServerTyped, ServerStates

LEMMA ServerTimeoutKeeps ==
  ASSUME Base, ServerTimeout
  PROVE  ServerTyped' /\ Window(source)' /\ SubBlock'
<1> USE DEF Base
<1>1. /\ data' = data /\ AbortUpload /\ txBuff' = None
      /\ UNCHANGED <<request, source, toggle, blksize, seqno, noData, zeros>>
  BY DEF ServerTimeout, objectVars, countVars
<1>2. toClient' \in Seq(Answers)' /\ state' = "IDLE"
  BY <1>1, AbortSent, SameAnswers
<1> QED BY <1>1, <1>2, SameAnswers DEF ServerTyped, ServerStates, SubBlock, Typed, Segments

\* Steps that leave the server's transfer alone, or end it.
LEMMA OthersKeep ==
  ASSUME Base, data' = data, state' \in {state, "IDLE"}, toClient' \in Seq(Answers),
         request' \in Requests \cup {None}, txBuff' \in {txBuff, None},
         UNCHANGED <<source, toggle, blksize, seqno, noData, zeros>>
  PROVE  ServerTyped' /\ Window(source)' /\ SubBlock'
<1> USE DEF Base
<1>1. Window(source)'
  BY SameAnswers
<1>2. SubBlock'
  BY DEF SubBlock, Unread, BytesOf
<1> QED BY <1>1, <1>2, SameAnswers DEF ServerTyped, ServerStates, Typed, Segments

\* What the client sends and keeps.
ClientTyped ==
  /\ toServer \in Seq(Requests)
  /\ clientToggle \in {0, 1} /\ clientSeqno \in Nat

LEMMA ReadKeeps ==
  ASSUME Base, ReadFrame
  PROVE  ClientTyped' /\ toClient' \in Seq(Answers) /\ UNCHANGED <<objectVars, serverVars>>
<1> USE DEF Base
<1> DEFINE m == Head(toClient)
<1>1. toClient # <<>> /\ m \in Answers /\ Tail(toClient) \in Seq(Answers)
  BY DEF ReadFrame, Typed
<1>2. toServer \in Seq(Requests) /\ clientToggle \in {0, 1} /\ clientSeqno \in Nat
  BY DEF Typed
<1>3. UNCHANGED <<objectVars, serverVars>> /\ toClient' = Tail(toClient)
  BY DEF ReadFrame, Taken, ReadInitiation, ReadSegment, ReadBlockSegment, ReadEnd, ReadAbort, ReadOther, Ignore
<1>4. ClientTyped'
  <2>1. \A t \in {0, 1} : [cs |-> "segmentRequest", toggle |-> t] \in Requests
    BY DEF Requests
  <2>2. [cs |-> "startBlocks"] \in Requests /\ [cs |-> "endAck"] \in Requests
    BY DEF Requests
  <2>3. CASE ReadInitiation(m)
    <3>1. /\ clientSeqno' \in {clientSeqno, 0} /\ clientToggle' \in {clientToggle, 0}
          /\ \/ UNCHANGED toServer
             \/ Request([cs |-> "segmentRequest", toggle |-> 0])
             \/ Request([cs |-> "startBlocks"])
      BY <2>3 DEF ReadInitiation
    <3> QED BY <1>2, <2>1, <2>2, <3>1, Asking DEF ClientTyped
  <2>4. CASE ReadSegment(m)
    <3>1. /\ clientSeqno' = clientSeqno /\ clientToggle' \in {clientToggle, 1 - clientToggle}
          /\ \/ UNCHANGED toServer \/ GiveUp
             \/ Request([cs |-> "segmentRequest", toggle |-> 1 - clientToggle])
      BY <2>4 DEF ReadSegment
    <3>2. clientToggle' \in {0, 1} /\ 1 - clientToggle \in {0, 1}
      BY <1>2, <3>1
    <3> QED BY <1>2, <2>1, <3>1, <3>2, Asking, GivingUp DEF ClientTyped
  <2>5. CASE ReadBlockSegment(m)
    <3>1. clientToggle' = clientToggle /\ toServer' = toServer
          /\ (clientSeqno' = clientSeqno \/ (SeqnoOf(m) = clientSeqno + 1 /\ clientSeqno' = m.seqno /\ SeqnoOf(m) <= ClientBlock))
      BY <2>5 DEF ReadBlockSegment
    <3>2. SeqnoOf(m) <= ClientBlock => m.cs = "block"
      BY Sizes DEF SeqnoOf
    <3>3. m.cs = "block" => m.seqno \in Nat
      BY <1>1 DEF Answers, Segments
    <3> QED BY <1>2, <3>1, <3>2, <3>3 DEF ClientTyped
  <2>6. CASE ReadEnd(m)
    <3>1. UNCHANGED <<clientToggle, clientSeqno>> /\ (GiveUp \/ Request([cs |-> "endAck"]))
      BY <2>6 DEF ReadEnd
    <3> QED BY <1>2, <2>2, <3>1, Asking, GivingUp DEF ClientTyped
  <2>7. CASE ReadAbort(m) \/ Ignore(m)
    BY <1>2, <2>7 DEF ReadAbort, Ignore, clientVars, ClientTyped
  <2>8. CASE ReadOther(m)
    <3>1. UNCHANGED <<clientToggle, clientSeqno>> /\ GiveUp
      BY <2>8 DEF ReadOther
    <3> QED BY <1>2, <3>1, GivingUp DEF ClientTyped
  <2> QED BY <2>3, <2>4, <2>5, <2>6, <2>7, <2>8 DEF ReadFrame
<1> QED BY <1>1, <1>3, <1>4

LEMMA BaseKept == ASSUME Base, [Next]_vars PROVE Base'
<1> USE DEF Base
<1>1. data' = data /\ known' = known /\ data \in Objects /\ known \in BOOLEAN
  BY DEF Typed, Next, vars, objectVars, Server, Serve, InitUpload, InitBlockUpload, UploadSegment, RepeatSegment,
         StartBlocks, Acknowledge, RefuseFrame, Processed, SendNext, ServerTimeout, Poll, Deliver, Client, Start,
         ReadFrame, ReadInitiation, ReadSegment, ReadBlockSegment, ReadEnd, ReadAbort, ReadOther, Ignore, Taken,
         AcknowledgeBlock, Timeouts, BlockTimeout, TransferTimeout, LoseAnswer, LoseRequest, RepeatRequest
<1>2. ClientTyped /\ toClient \in Seq(Answers) /\ request \in Requests \cup {None}
  BY DEF Typed, ClientTyped
<1> SUFFICES ServerTyped' /\ ClientTyped' /\ Window(source)' /\ SubBlock'
  BY <1>1 DEF Typed, ServerTyped, ClientTyped
<1>3. CASE Serve
  <2>1. UNCHANGED <<toServer, clientToggle, clientSeqno>>
    BY <1>3 DEF Serve, InitUpload, InitBlockUpload, UploadSegment, RepeatSegment, StartBlocks,
         Acknowledge, RefuseFrame, Processed, clientVars
  <2> QED BY <1>2, <1>3, <2>1, ServeKeeps, SameAnswers, <1>1 DEF ClientTyped, Requests
<1>4. CASE SendNext
  BY <1>2, <1>4, SendNextKeeps DEF SendNext, clientVars, ClientTyped, Requests
<1>5. CASE ServerTimeout
  BY <1>2, <1>5, ServerTimeoutKeeps DEF ServerTimeout, clientVars, ClientTyped, Requests
<1>6. CASE Poll
  <2>1. /\ UNCHANGED <<state, request, source, toggle, blksize, seqno, noData, zeros, toServer, toClient, clientToggle, clientSeqno>>
        /\ txBuff' \in {txBuff, None}
    BY <1>6 DEF Poll, countVars, busVars, clientVars
  <2> QED BY <1>1, <1>2, <2>1, OthersKeep DEF ClientTyped, Requests
<1>7. CASE Deliver
  <2>1. /\ UNCHANGED <<source, toggle, blksize, seqno, noData, zeros, txBuff, toClient, clientToggle, clientSeqno>>
        /\ toServer # <<>> /\ toServer' = Tail(toServer)
        /\ request' \in {request, Head(toServer)} /\ state' \in {state, "IDLE"}
    BY <1>7 DEF Deliver, countVars, clientVars
  <2>2. Head(toServer) \in Requests /\ toServer' \in Seq(Requests)
    BY <1>2, <2>1 DEF ClientTyped
  <2> QED BY <1>1, <1>2, <2>1, <2>2, OthersKeep DEF ClientTyped, Requests
<1>8. CASE Start \/ AcknowledgeBlock \/ Timeouts
  <2>1. UNCHANGED <<serverVars, toClient>> /\ clientToggle' = clientToggle /\ clientSeqno' \in {clientSeqno, 0}
    BY <1>8 DEF Start, AcknowledgeBlock, Timeouts, BlockTimeout, TransferTimeout
  <2>2. toServer' \in Seq(Requests)
    <3>1. \/ toServer' = toServer \/ GiveUp \/ Request([cs |-> "upload"])
          \/ Request([cs |-> "blockUpload", blksize |-> ClientBlock, threshold |-> Threshold])
          \/ Request([cs |-> "ack", seqno |-> clientSeqno, blksize |-> ClientBlock])
      BY <1>8, Zenon DEF Start, AcknowledgeBlock, Timeouts, BlockTimeout, TransferTimeout
    <3>2. /\ [cs |-> "upload"] \in Requests
          /\ [cs |-> "blockUpload", blksize |-> ClientBlock, threshold |-> Threshold] \in Requests
          /\ [cs |-> "ack", seqno |-> clientSeqno, blksize |-> ClientBlock] \in Requests
      BY <1>2 DEF Requests, ClientTyped
    <3> QED BY <1>2, <3>1, <3>2, Asking, GivingUp DEF ClientTyped
  <2> QED BY <1>1, <1>2, <2>1, <2>2, OthersKeep DEF serverVars, countVars, ClientTyped, Requests
<1>9. CASE ReadFrame
  <2>1. ClientTyped' /\ toClient' \in Seq(Answers) /\ UNCHANGED <<objectVars, serverVars>>
    BY <1>9, ReadKeeps
  <2> QED BY <1>1, <1>2, <2>1, OthersKeep DEF serverVars, countVars
<1>10. CASE LoseAnswer
  <2>1. UNCHANGED <<serverVars, toServer, clientVars>> /\ toClient # <<>> /\ toClient' = Tail(toClient)
    BY <1>10 DEF LoseAnswer
  <2> QED BY <1>1, <1>2, <2>1, OthersKeep DEF serverVars, countVars, clientVars, ClientTyped, Requests
<1>11. CASE LoseRequest
  <2>1. UNCHANGED <<serverVars, toClient, clientVars>> /\ toServer # <<>> /\ toServer' = Tail(toServer)
    BY <1>11 DEF LoseRequest
  <2> QED BY <1>1, <1>2, <2>1, OthersKeep DEF serverVars, countVars, clientVars, ClientTyped, Requests
<1>12. CASE RepeatRequest
  <2>1. UNCHANGED <<serverVars, toClient, clientVars>> /\ toServer # <<>> /\ toServer' = <<Head(toServer)>> \o toServer
    BY <1>12 DEF RepeatRequest
  <2>2. toServer' \in Seq(Requests)
    BY <1>2, <2>1 DEF ClientTyped
  <2> QED BY <1>1, <1>2, <2>1, <2>2, OthersKeep DEF serverVars, countVars, clientVars, ClientTyped, Requests
<1>13. CASE UNCHANGED vars
  BY <1>1, <1>2, <1>13, OthersKeep DEF vars, serverVars, countVars, busVars, clientVars, ClientTyped, Requests
<1> QED BY <1>3, <1>4, <1>5, <1>6, <1>7, <1>8, <1>9, <1>10, <1>11, <1>12, <1>13 DEF Next, Server, Client

LEMMA BaseInit == ASSUME Init PROVE Base
<1>1. data \in Objects /\ known \in BOOLEAN /\ source = NoData /\ state = "IDLE"
  BY DEF Init
<1>2. Window(source)
  BY <1>1, StartWindow
<1>3. Typed
  <2>1. toServer \in Seq(Requests) /\ toClient \in Seq(Answers)
    BY DEF Init
  <2>2. /\ request \in Requests \cup {None} /\ txBuff \in Segments \cup {None}
        /\ state \in ServerStates /\ zeros \in BOOLEAN
    BY DEF Init, ServerStates
  <2> QED BY <1>1, <2>1, <2>2 DEF Init, Typed
<1> QED BY <1>1, <1>2, <1>3 DEF Base, SubBlock

\* Window and sub-blocks, for any upload: the server's counts, and what the bus carries.
THEOREM Invariance == Spec => []Base
<1>1. Init => Base
  BY BaseInit
<1>2. Base /\ [Next]_vars => Base'
  BY BaseKept
<1> QED BY <1>1, <1>2, PTL DEF Spec

\* The server reads within what its buffer holds, and fills it no further than
\* its end: also when it goes back by segments that may be short, for a number
\* of them that the client chose.
WithinBuffer ==
  source.rd \in 0 .. Len(source.buf) /\ Len(source.buf) <= BufferSize

\* The server reads within its buffer and never overfills it, for any object, any
\* size of buffer and any acknowledgement of the client (readFromOd and the way
\* back in UPLOAD_BLK_SUBBLOCK_CRSP, CO_SDOserver.c).
THEOREM ReadsWithinBuffer == Spec => []WithinBuffer
<1>1. Base => WithinBuffer
  BY DEF Base, Window, Buffers, WithinBuffer
<1> QED BY <1>1, Invariance, PTL

----------------------------------------------------------------------------
(* The toggle bit                                                          *)

\* The frames on their way after one is added, taken or repeated.
LEMMA Appended ==
  ASSUME NEW S, NEW q \in Seq(S), NEW m
  PROVE  /\ Len(Append(q, m)) = Len(q) + 1 /\ Len(q) \in Nat
         /\ \A i \in 1 .. Len(q) : Append(q, m)[i] = q[i]
         /\ Append(q, m)[Len(q) + 1] = m
OBVIOUS

LEMMA Taking ==
  ASSUME NEW S, NEW q \in Seq(S), q # <<>>
  PROVE  /\ Len(Tail(q)) = Len(q) - 1 /\ Len(q) \in Nat /\ Len(q) > 0 /\ Head(q) = q[1]
         /\ \A i \in 1 .. Len(q) - 1 : Tail(q)[i] = q[i + 1]
OBVIOUS

LEMMA Repeating ==
  ASSUME NEW S, NEW q \in Seq(S), q # <<>>
  PROVE  LET r == <<Head(q)>> \o q
         IN /\ Len(r) = Len(q) + 1 /\ Len(q) \in Nat /\ Len(q) > 0
            /\ r[1] = q[1] /\ \A i \in 1 .. Len(q) : r[i + 1] = q[i]
OBVIOUS

\* A step after which fewer answers are on their way, or one more that is no segment,
\* and the upload is where it was.
LEMMA AsideKeeps ==
  ASSUME Base, Alternation, data' = data,
         UNCHANGED <<step, got, clientToggle, toggle, toServer>>,
         request' \in {request, None}, txBuff' \in {txBuff, None}, ~zeros' => ~zeros,
         state' = "UPLOAD_SEGMENT_REQ" => state = "UPLOAD_SEGMENT_REQ" /\ Sent(source)' = Sent(source),
         \/ toClient' = toClient
         \/ toClient # <<>> /\ toClient' = Tail(toClient)
         \/ \E m : ~IsSegment(m) /\ toClient' = Append(toClient, m)
  PROVE  Alternation'
<1>1. toClient \in Seq(Answers)
  BY DEF Base, Typed
<1>2. \E o \in {0, 1} : \A i \in 1 .. Len(toClient') :
         \/ ~IsSegment(toClient'[i])
         \/ i + o \in 1 .. Len(toClient) /\ toClient'[i] = toClient[i + o]
  <2>1. CASE toClient' = toClient
    BY <1>1, <2>1
  <2>2. CASE toClient # <<>> /\ toClient' = Tail(toClient)
    <3>1. \A i \in 1 .. Len(toClient') : i + 1 \in 1 .. Len(toClient) /\ toClient'[i] = toClient[i + 1]
      BY <1>1, <2>2, Taking
    <3> QED BY <3>1
  <2>3. ASSUME NEW m, ~IsSegment(m), toClient' = Append(toClient, m)
        PROVE  \A i \in 1 .. Len(toClient') :
                 \/ ~IsSegment(toClient'[i])
                 \/ i + 0 \in 1 .. Len(toClient) /\ toClient'[i] = toClient[i + 0]
    BY <1>1, <2>3, Appended
  <2> QED BY <2>1, <2>2, <2>3
<1> PICK o \in {0, 1} : \A i \in 1 .. Len(toClient') :
         \/ ~IsSegment(toClient'[i])
         \/ i + o \in 1 .. Len(toClient) /\ toClient'[i] = toClient[i + o]
  BY <1>2
<1>4. \A m : Continues(m) => Continues(m)'
  BY DEF Continues
<1> SUFFICES ASSUME ~zeros' PROVE InStep'
  BY DEF Alternation
<1>7. InStep
  BY DEF Alternation
<1>5. CASE step \in Opened
  <2>1. Unopened
    BY <1>5, <1>7 DEF InStep
  <2>2. Unopened'
    BY <2>1 DEF Unopened
  <2> QED BY <1>5, <2>2 DEF Opened, InStep
<1>6. CASE step = "UPLOAD_SEGMENT_RSP"
  <2>1. Prefix /\ Prefix'
    BY <1>6, <1>7 DEF InStep, Prefix
  <2>2. CASE toggle = clientToggle
    <3>1. Waiting
      BY <1>6, <1>7, <2>2 DEF InStep
    <3>2. Waiting'
      BY <3>1 DEF Waiting, Current
    <3> QED BY <1>6, <2>1, <2>2, <3>2 DEF Opened, InStep
  <2>3. CASE toggle # clientToggle
    <3>1. Served
      BY <1>6, <1>7, <2>3 DEF InStep
    <3>2. Served'
      <4>1. /\ request' # None => Current(request)'
            /\ (\A i \in 1 .. Len(toServer) : Current(toServer[i]))'
        BY <3>1 DEF Served, Current
      <4>2. txBuff' # None => txBuff'.toggle = clientToggle' /\ Continues(txBuff)'
        BY <3>1 DEF Served, Continues
      <4>3. (\A i \in 1 .. Len(toClient) :
               IsSegment(toClient[i]) /\ toClient[i].toggle = clientToggle => Continues(toClient[i]))'
        BY <3>1 DEF Served, Continues, IsSegment
      <4>4. (\A i, j \in 1 .. Len(toClient) :
               i < j /\ IsSegment(toClient[i]) /\ IsSegment(toClient[j]) /\ toClient[i].toggle = clientToggle
                 => toClient[j].toggle = clientToggle)'
        <5> SUFFICES ASSUME NEW i \in 1 .. Len(toClient'), NEW j \in 1 .. Len(toClient'), i < j,
                            IsSegment(toClient'[i]), IsSegment(toClient'[j]), toClient'[i].toggle = clientToggle
                     PROVE  toClient'[j].toggle = clientToggle
          BY DEF IsSegment
        <5>1. /\ i + o \in 1 .. Len(toClient) /\ toClient'[i] = toClient[i + o]
              /\ j + o \in 1 .. Len(toClient) /\ toClient'[j] = toClient[j + o] /\ i + o < j + o
          OBVIOUS
        <5> QED BY <3>1, <5>1 DEF Served
      <4> QED BY <4>1, <4>2, <4>3, <4>4 DEF Served
    <3> QED BY <1>6, <2>1, <2>3, <3>2 DEF Opened, InStep
  <2> QED BY <2>2, <2>3
<1> QED BY <1>5, <1>6 DEF InStep

\* An initiation is answered: none of the client's requests for a segment was seen.
LEMMA OpeningKeeps ==
  ASSUME Base, Alternation, data' = data,
         UNCHANGED <<step, got, clientToggle, toServer, zeros>>,
         request # None, Opening(request), request' = None, txBuff' = None,
         toggle' \in {toggle, 0}, Sent(source)' = 0,
         \E m : ~IsSegment(m) /\ toClient' = Append(toClient, m)
  PROVE  Alternation'
<1>1. \A i \in 1 .. Len(toClient') :
        \/ ~IsSegment(toClient'[i])
        \/ i \in 1 .. Len(toClient) /\ toClient'[i] = toClient[i]
  BY Appended DEF Base, Typed
<1> SUFFICES ASSUME ~zeros' PROVE InStep'
  BY DEF Alternation
<1>2. InStep
  BY DEF Alternation
<1>3. CASE step \in Opened
  <2>1. Unopened
    BY <1>2, <1>3 DEF InStep
  <2>2. Unopened'
    BY <1>1, <2>1 DEF Unopened
  <2> QED BY <1>3, <2>2 DEF Opened, InStep
<1>4. CASE step = "UPLOAD_SEGMENT_RSP"
  <2>1. Prefix /\ Prefix'
    BY <1>2, <1>4 DEF InStep, Prefix
  <2>2. ~Current(request)
    BY DEF Current, Opening
  <2>3. toggle = clientToggle /\ Waiting
    BY <1>2, <1>4, <2>2 DEF InStep, Served
  <2>4. got = <<>> /\ clientToggle = 0 /\ toggle' = clientToggle'
    BY <2>3 DEF Waiting
  <2>5. Waiting'
    BY <1>1, <2>3, <2>4 DEF Waiting, Current
  <2> QED BY <1>4, <2>1, <2>4, <2>5 DEF Opened, InStep
<1> QED BY <1>3, <1>4 DEF InStep

\* The segment the client asked for goes out.
LEMMA SegmentKeeps == ASSUME Base, Alternation, UploadSegment PROVE Alternation'
<1> DEFINE s == Read(source, SegBytes)
           d == NextSegment(s)
           m == [cs |-> "segment", toggle |-> toggle, data |-> d, last |-> IsLast(s)]
           u == [s EXCEPT !.rd = @ + Len(d)]
<1>1. /\ UNCHANGED <<data, step, got, clientToggle, toServer, zeros>>
      /\ state = "UPLOAD_SEGMENT_REQ" /\ request \in Requests /\ request.cs = "segmentRequest"
      /\ request.toggle = toggle /\ request # None /\ request' = None
      /\ toggle' = 1 - toggle /\ source' = u
      /\ \/ txBuff' = None /\ AbortUpload
         \/ state' \in {"IDLE", state} /\ toClient' = Append(toClient, m) /\ txBuff' = m
  BY DEF Base, Typed, UploadSegment, Processed, objectVars, clientVars, Answer
<1>2. data \in Objects /\ toClient \in Seq(Answers) /\ toggle \in {0, 1} /\ clientToggle \in {0, 1}
  BY DEF Base, Typed
<1>3. Window(s) /\ Sent(s) = Sent(source) /\ (s.finished \/ Unread(s) >= SegBytes)
  BY <1>2, ReadWindow, Sizes DEF Base
<1> HIDE DEF s
<1>4. /\ d \in Seq(Byte) /\ Len(d) \in Nat /\ Len(d) <= Unread(s) /\ (Len(d) = Unread(s) \/ Len(d) = SegBytes)
      /\ d = SubSeq(data, Sent(s) + 1, Sent(s) + Len(d))
  BY <1>2, <1>3, SegmentPart
<1>5. Sent(u) = Sent(s) + Len(d)
  BY <1>2, <1>3, AfterSegment
<1>6. /\ Unread(s) \in Nat /\ Sent(s) \in Nat /\ Sent(s) + Unread(s) = s.offset /\ s.offset <= Len(data)
      /\ (s.finished => s.offset = Len(data)) /\ Len(data) \in Nat
  BY <1>2, <1>3, UnreadPart, DataType DEF Window
<1> HIDE DEF d, u
<1>7. Sent(s) + Len(d) <= Len(data)
  BY <1>4, <1>6
<1>8. IsLast(s) => Sent(s) + Len(d) = Len(data)
  BY <1>3, <1>4, <1>6, Sizes DEF IsLast
<1>9. IsLast(s) \in BOOLEAN
  BY <1>3 DEF IsLast, Window, Buffers
<1>10. m \in Answers /\ m.cs = "segment" /\ m.toggle = toggle /\ m.data = d /\ (m.last <=> IsLast(s))
  BY <1>2, <1>4, <1>9 DEF Answers, Segments
<1> HIDE DEF m
<1> PICK x : x = m
  OBVIOUS
<1>11. \/ toClient' = Append(toClient, x) /\ txBuff' = x /\ state' \in {"IDLE", "UPLOAD_SEGMENT_REQ"}
       \/ toClient' = Append(toClient, [cs |-> "abort"]) /\ txBuff' = None /\ state' = "IDLE"
  BY <1>1, <1>10 DEF AbortUpload, Answer
<1>12. /\ Len(toClient') = Len(toClient) + 1 /\ Len(toClient) \in Nat
       /\ \A i \in 1 .. Len(toClient) : toClient'[i] = toClient[i]
       /\ toClient'[Len(toClient) + 1] \in {x, [cs |-> "abort"]}
  <2>1. [cs |-> "abort"] \in Answers
    BY DEF Answers
  <2> QED BY <1>2, <1>10, <1>11, <2>1, Appended
<1> SUFFICES ASSUME ~zeros' PROVE InStep'
  BY DEF Alternation
<1>13. InStep
  BY <1>1 DEF Alternation
<1>14. step \notin Opened
  BY <1>1, <1>13 DEF InStep, Unopened, Opening
<1>15. CASE step = "UPLOAD_SEGMENT_RSP"
  <2>1. Prefix /\ Prefix'
    BY <1>1, <1>13, <1>15 DEF InStep, Prefix
  <2>2. Waiting /\ toggle = clientToggle
    BY <1>1, <1>2, <1>13, <1>15 DEF InStep, Served, Current
  <2>3. toggle' # clientToggle'
    BY <1>1, <1>2, <2>2
  <2>4. Sent(source) = Len(got) /\ \A i \in 1 .. Len(toServer) : Current(toServer[i])
    BY <1>1, <2>2 DEF Waiting, Current
  <2>5. Continues(x)'
    <3>1. Sent(source)' = Len(got) + Len(d)
      BY <1>1, <1>3, <1>5, <2>4 DEF Sent, Unread
    <3>2. /\ d = SubSeq(data, Len(got) + 1, Len(got) + Len(d))
          /\ Len(got) + Len(d) <= Len(data)
          /\ IsLast(s) => Len(got) + Len(d) = Len(data)
      BY <1>3, <1>4, <1>7, <1>8, <2>4
    <3> QED BY <1>1, <1>10, <3>1, <3>2 DEF Continues
  <2>6. \A i \in 1 .. Len(toClient') : IsSegment(toClient'[i]) /\ toClient'[i].toggle = clientToggle =>
          i = Len(toClient) + 1 /\ toClient'[i] = x
    <3>1. \A i \in 1 .. Len(toClient) : IsSegment(toClient[i]) => toClient[i].toggle # clientToggle
      BY <2>2 DEF Waiting
    <3>2. ~IsSegment([cs |-> "abort"])
      BY DEF IsSegment
    <3> QED BY <1>12, <3>1, <3>2
  <2>7. Served'
    <3>1. (\A i \in 1 .. Len(toClient) :
             IsSegment(toClient[i]) /\ toClient[i].toggle = clientToggle => Continues(toClient[i]))'
      BY <1>1, <2>5, <2>6 DEF Continues, IsSegment
    <3>2. txBuff' # None => txBuff'.toggle = clientToggle' /\ Continues(txBuff)'
      BY <1>1, <1>10, <1>11, <2>2, <2>5 DEF Continues
    <3>3. (\A i, j \in 1 .. Len(toClient) :
             i < j /\ IsSegment(toClient[i]) /\ IsSegment(toClient[j]) /\ toClient[i].toggle = clientToggle
               => toClient[j].toggle = clientToggle)'
      <4> SUFFICES ASSUME NEW i \in 1 .. Len(toClient'), NEW j \in 1 .. Len(toClient'), i < j,
                          IsSegment(toClient'[i]), toClient'[i].toggle = clientToggle
                   PROVE  FALSE
        BY <1>1 DEF IsSegment
      <4>1. i = Len(toClient) + 1
        BY <2>6
      <4> QED BY <1>12, <4>1
    <3>4. /\ request' # None => Current(request)'
          /\ (\A i \in 1 .. Len(toServer) : Current(toServer[i]))'
      BY <1>1, <2>4 DEF Current
    <3> QED BY <3>1, <3>2, <3>3, <3>4 DEF Served
  <2> QED BY <1>1, <1>15, <2>1, <2>3, <2>7 DEF InStep, Opened
<1> QED BY <1>1, <1>14, <1>15 DEF InStep

\* The last segment goes out again.
LEMMA RepeatKeeps == ASSUME Base, Alternation, RepeatSegment PROVE Alternation'
<1> SUFFICES ASSUME ~zeros' PROVE InStep'
  BY DEF Alternation
<1> PICK x : x = txBuff
  OBVIOUS
<1>1. /\ UNCHANGED <<data, step, got, clientToggle, toServer, zeros, state, source, toggle>>
      /\ state = "UPLOAD_SEGMENT_REQ" /\ request \in Requests /\ request.cs = "segmentRequest"
      /\ request.toggle # toggle /\ request # None /\ request' = None
      /\ txBuff # None /\ txBuff' = None /\ toClient' = Append(toClient, x)
  BY DEF Base, Typed, RepeatSegment, Processed, objectVars, clientVars, countVars, Answer
<1>2. toClient \in Seq(Answers) /\ toggle \in {0, 1} /\ clientToggle \in {0, 1} /\ x \in Answers
      /\ request.toggle \in {0, 1}
  BY <1>1 DEF Base, Typed, Answers, Requests
<1>3. /\ Len(toClient') = Len(toClient) + 1 /\ Len(toClient) \in Nat
      /\ \A i \in 1 .. Len(toClient) : toClient'[i] = toClient[i]
      /\ toClient'[Len(toClient) + 1] = x
  BY <1>1, <1>2, Appended
<1>4. InStep
  BY <1>1 DEF Alternation
<1>5. step \notin Opened
  BY <1>1, <1>4 DEF InStep, Unopened, Opening
<1>6. CASE step = "UPLOAD_SEGMENT_RSP"
  <2>1. Prefix /\ Prefix'
    BY <1>1, <1>4, <1>6 DEF InStep, Prefix
  <2>2. CASE toggle = clientToggle
    <3>1. Waiting
      BY <1>4, <1>6, <2>2 DEF InStep
    <3>2. (\A i \in 1 .. Len(toClient) : IsSegment(toClient[i]) => toClient[i].toggle # clientToggle)'
      BY <1>1, <1>3, <3>1 DEF Waiting, IsSegment
    <3>3. (\A i, j \in 1 .. Len(toServer) : i < j /\ Current(toServer[i]) => Current(toServer[j]))'
      BY <1>1, <3>1 DEF Waiting, Current
    <3>4. (state = "UPLOAD_SEGMENT_REQ" => Sent(source) = Len(got))'
      BY <1>1, <3>1 DEF Waiting, Sent, Unread
    <3>5. (\/ got = <<>> /\ clientToggle = 0
           \/ /\ request # None => ~Opening(request)
              /\ \A i \in 1 .. Len(toServer) : ~Opening(toServer[i]))'
      BY <1>1, <3>1 DEF Waiting
    <3>6. Waiting'
      BY <1>1, <3>2, <3>3, <3>4, <3>5 DEF Waiting
    <3> QED BY <1>1, <1>6, <2>1, <2>2, <3>6 DEF InStep, Opened
  <2>3. CASE toggle # clientToggle
    <3>1. Served
      BY <1>4, <1>6, <2>3 DEF InStep
    <3>2. (\A i \in 1 .. Len(toClient) :
             IsSegment(toClient[i]) /\ toClient[i].toggle = clientToggle => Continues(toClient[i]))'
      <4>1. \A m : Continues(m) => Continues(m)'
        BY <1>1 DEF Continues, Sent, Unread
      <4>2. txBuff # None => Continues(txBuff)
        BY <3>1 DEF Served
      <4>3. \A i \in 1 .. Len(toClient') : IsSegment(toClient'[i]) /\ toClient'[i].toggle = clientToggle =>
              Continues(toClient'[i])
        BY <1>1, <1>3, <3>1, <4>2 DEF Served
      <4> QED BY <1>1, <4>1, <4>3 DEF Continues, IsSegment
    <3>3. (\A i, j \in 1 .. Len(toClient) :
             i < j /\ IsSegment(toClient[i]) /\ IsSegment(toClient[j]) /\ toClient[i].toggle = clientToggle
               => toClient[j].toggle = clientToggle)'
      <4> SUFFICES ASSUME NEW i \in 1 .. Len(toClient'), NEW j \in 1 .. Len(toClient'), i < j,
                          IsSegment(toClient'[i]), IsSegment(toClient'[j]), toClient'[i].toggle = clientToggle
                   PROVE  toClient'[j].toggle = clientToggle
        BY <1>1 DEF IsSegment
      <4>1. i \in 1 .. Len(toClient)
        BY <1>3
      <4>2. CASE j \in 1 .. Len(toClient)
        BY <1>3, <3>1, <4>1, <4>2 DEF Served
      <4>3. CASE j = Len(toClient) + 1
        BY <1>1, <1>3, <3>1, <4>3 DEF Served
      <4> QED BY <1>3, <4>2, <4>3
    <3>4. (\A i \in 1 .. Len(toServer) : Current(toServer[i]))'
      BY <1>1, <3>1 DEF Served, Current
    <3>5. Served'
      BY <1>1, <3>2, <3>3, <3>4 DEF Served
    <3> QED BY <1>1, <1>6, <2>1, <2>3, <3>5 DEF InStep, Opened
  <2> QED BY <2>2, <2>3
<1> QED BY <1>1, <1>5, <1>6 DEF InStep

\* A request is taken from the bus, lost or repeated.
LEMMA RequestsKeep ==
  ASSUME Base, Alternation, Deliver \/ LoseRequest \/ RepeatRequest
  PROVE  Alternation'
<1> SUFFICES ASSUME ~zeros' PROVE InStep'
  BY DEF Alternation
<1>1. /\ UNCHANGED <<data, step, got, clientToggle, zeros, source, toggle, txBuff, toClient>>
      /\ state' \in {state, "IDLE"} /\ toServer # <<>>
      /\ \/ toServer' = Tail(toServer) /\ (request' = request \/ (request = None /\ request' = Head(toServer)))
         \/ toServer' = <<Head(toServer)>> \o toServer /\ request' = request
  <2>1. CASE Deliver
    <3>1. /\ UNCHANGED <<data, step, got, clientToggle, zeros, source, toggle, txBuff, toClient>>
          /\ state' \in {state, "IDLE"} /\ toServer # <<>> /\ toServer' = Tail(toServer)
      BY <2>1 DEF Deliver, objectVars, countVars, clientVars
    <3>2. request' = request \/ (request = None /\ request' = Head(toServer))
      BY <2>1 DEF Deliver
    <3> QED BY <3>1, <3>2
  <2>2. CASE LoseRequest
    <3>1. /\ UNCHANGED <<data, step, got, clientToggle, zeros, source, toggle, txBuff, toClient, state, request>>
          /\ toServer # <<>> /\ toServer' = Tail(toServer)
      BY <2>2 DEF LoseRequest, objectVars, serverVars, countVars, clientVars
    <3> QED BY <3>1
  <2>3. CASE RepeatRequest
    BY <2>3 DEF RepeatRequest, objectVars, serverVars, countVars, clientVars
  <2> QED BY <2>1, <2>2, <2>3
<1>2. Len(toServer) \in Nat /\ Len(toServer) > 0 /\ Head(toServer) = toServer[1]
  BY <1>1, Taking DEF Base, Typed
<1>7. \E o \in {1, -1} :
        /\ Len(toServer') = Len(toServer) - o
        /\ \A i \in 1 .. Len(toServer') :
             IF i + o < 1 THEN toServer'[i] = toServer[1]
                          ELSE i + o \in 1 .. Len(toServer) /\ toServer'[i] = toServer[i + o]
        /\ request' = request \/ (o = 1 /\ request = None /\ request' = toServer[1])
  <2>1. toServer \in Seq(Requests)
    BY DEF Base, Typed
  <2>2. CASE toServer' = Tail(toServer) /\ (request' = request \/ (request = None /\ request' = Head(toServer)))
    <3>1. Len(toServer') = Len(toServer) - 1 /\ \A i \in 1 .. Len(toServer) - 1 : toServer'[i] = toServer[i + 1]
      BY <1>1, <2>1, <2>2, Taking
    <3> WITNESS 1 \in {1, -1}
    <3> QED BY <1>2, <2>2, <3>1
  <2>3. CASE toServer' = <<Head(toServer)>> \o toServer /\ request' = request
    <3>1. /\ Len(toServer') = Len(toServer) + 1
          /\ toServer'[1] = toServer[1] /\ \A i \in 1 .. Len(toServer) : toServer'[i + 1] = toServer[i]
      BY <1>1, <2>1, <2>3, Repeating
    <3>2. \A i \in 1 .. Len(toServer') :
            IF i + (-1) < 1 THEN toServer'[i] = toServer[1]
                            ELSE i + (-1) \in 1 .. Len(toServer) /\ toServer'[i] = toServer[i + (-1)]
      <4> TAKE i \in 1 .. Len(toServer')
      <4>1. CASE i = 1
        BY <3>1, <4>1
      <4>2. CASE i > 1
        <5>1. i - 1 \in 1 .. Len(toServer) /\ i = (i - 1) + 1 /\ i + (-1) = i - 1
          BY <1>2, <3>1, <4>2
        <5> QED BY <3>1, <5>1
      <4> QED BY <4>1, <4>2
    <3>3. Len(toServer') = Len(toServer) - (-1)
      BY <1>2, <3>1
    <3> WITNESS -1 \in {1, -1}
    <3> QED BY <2>3, <3>2, <3>3
  <2> QED BY <1>1, <2>2, <2>3
<1> PICK o \in {1, -1} :
      /\ Len(toServer') = Len(toServer) - o
      /\ \A i \in 1 .. Len(toServer') :
           IF i + o < 1 THEN toServer'[i] = toServer[1]
                        ELSE i + o \in 1 .. Len(toServer) /\ toServer'[i] = toServer[i + o]
      /\ request' = request \/ (o = 1 /\ request = None /\ request' = toServer[1])
  BY <1>7
<1>3. /\ \A i \in 1 .. Len(toServer') : \E k \in 1 .. Len(toServer) : toServer'[i] = toServer[k]
      /\ request' = request \/ \E k \in 1 .. Len(toServer) : request' = toServer[k]
  BY <1>2
<1>4. InStep
  BY <1>1 DEF Alternation
<1>5. CASE step \in Opened
  <2>1. Unopened
    BY <1>4, <1>5 DEF InStep
  <2>2. Unopened'
    BY <1>1, <1>2, <1>3, <2>1 DEF Unopened, Sent, Unread
  <2> QED BY <1>1, <1>5, <2>2 DEF Opened, InStep
<1>6. CASE step = "UPLOAD_SEGMENT_RSP"
  <2>1. Prefix /\ Prefix'
    BY <1>1, <1>4, <1>6 DEF InStep, Prefix
  <2>2. CASE toggle = clientToggle
    <3>1. Waiting
      BY <1>4, <1>6, <2>2 DEF InStep
    <3>2. (\A i, j \in 1 .. Len(toServer) : i < j /\ Current(toServer[i]) => Current(toServer[j]))'
      <4>1. \A i, j \in 1 .. Len(toServer) : i < j /\ Current(toServer[i]) => Current(toServer[j])
        BY <3>1 DEF Waiting
      <4> SUFFICES ASSUME NEW i \in 1 .. Len(toServer'), NEW j \in 1 .. Len(toServer'), i < j, Current(toServer'[i])
                   PROVE  Current(toServer'[j])
        BY <1>1 DEF Current
      <4>2. CASE i + o < 1
        <5>1. i = 1 /\ o = -1 /\ toServer'[i] = toServer[1]
          BY <4>2
        <5>2. j + o \in 1 .. Len(toServer) /\ toServer'[j] = toServer[j + o]
          BY <5>1
        <5>3. j + o = 1 \/ 1 < j + o
          BY <5>2
        <5>4. Current(toServer[1]) /\ 1 \in 1 .. Len(toServer)
          BY <1>2, <5>1
        <5> QED BY <4>1, <5>2, <5>3, <5>4
      <4>3. CASE i + o >= 1
        <5>1. i + o \in 1 .. Len(toServer) /\ j + o \in 1 .. Len(toServer) /\ i + o < j + o
              /\ toServer'[i] = toServer[i + o] /\ toServer'[j] = toServer[j + o]
          BY <4>3
        <5> QED BY <4>1, <5>1
      <4> QED BY <4>2, <4>3
    <3>3. (request # None /\ Current(request) => \A i \in 1 .. Len(toServer) : Current(toServer[i]))'
      <4> SUFFICES ASSUME request' # None, Current(request'), NEW i \in 1 .. Len(toServer')
                   PROVE  Current(toServer'[i])
        BY <1>1 DEF Current
      <4>1. CASE request' = request
        BY <1>1, <1>3, <3>1, <4>1 DEF Waiting, Current
      <4>2. CASE o = 1 /\ request' = toServer[1]
        <5>1. i + o \in 1 .. Len(toServer) /\ 1 < i + o /\ 1 \in 1 .. Len(toServer) /\ toServer'[i] = toServer[i + o]
          BY <1>2, <4>2
        <5> QED BY <3>1, <4>2, <5>1 DEF Waiting
      <4> QED BY <4>1, <4>2
    <3>4. (\/ got = <<>> /\ clientToggle = 0
           \/ /\ request # None => ~Opening(request)
              /\ \A i \in 1 .. Len(toServer) : ~Opening(toServer[i]))'
      BY <1>1, <1>3, <3>1 DEF Waiting, Opening
    <3>5. /\ (state = "UPLOAD_SEGMENT_REQ" => Sent(source) = Len(got))'
          /\ (\A i \in 1 .. Len(toClient) : IsSegment(toClient[i]) => toClient[i].toggle # clientToggle)'
          /\ (txBuff # None => txBuff.toggle # clientToggle)'
      BY <1>1, <3>1 DEF Waiting, Sent, Unread
    <3>6. Waiting'
      BY <3>2, <3>3, <3>4, <3>5 DEF Waiting
    <3> QED BY <1>1, <1>6, <2>1, <2>2, <3>6 DEF InStep, Opened
  <2>3. CASE toggle # clientToggle
    <3>1. Served
      BY <1>4, <1>6, <2>3 DEF InStep
    <3>2. /\ (request # None => Current(request))'
          /\ (\A i \in 1 .. Len(toServer) : Current(toServer[i]))'
      BY <1>1, <1>3, <3>1 DEF Served, Current
    <3>3. \A m : Continues(m) => Continues(m)'
      BY <1>1 DEF Continues, Sent, Unread
    <3>4. Served'
      BY <1>1, <3>1, <3>2, <3>3 DEF Served, Continues
    <3> QED BY <1>1, <1>6, <2>1, <2>3, <3>4 DEF InStep, Opened
  <2> QED BY <2>2, <2>3
<1> QED BY <1>1, <1>5, <1>6 DEF InStep

\* A segment that goes on where the client is makes a longer part of the object.
LEMMA Extended ==
  ASSUME data \in Objects, Prefix, NEW m, m.data \in Seq(Byte), Continues(m)
  PROVE  LET all == got \o m.data
         IN /\ Len(all) = Len(got) + Len(m.data) /\ Len(all) \in 0 .. Len(data)
            /\ all = SubSeq(data, 1, Len(all)) /\ (m.last => all = data)
<1> DEFINE a == Len(got)
           b == Len(got) + Len(m.data)
           all == got \o m.data
<1>1. /\ data \in Seq(Byte) /\ Len(data) \in Nat /\ a \in Nat /\ a <= Len(data) /\ Len(m.data) \in Nat
      /\ b \in Nat /\ a <= b /\ b <= Len(data) /\ b = a + Len(m.data) /\ (m.last => b = Len(data))
  BY DataType DEF Prefix, Continues
<1>2. got = SubSeq(data, 1, a) /\ m.data = SubSeq(data, a + 1, b)
  BY DEF Prefix, Continues
<1> HIDE DEF a, b
<1>3. SubSeq(data, 1, a) \o SubSeq(data, a + 1, b) = SubSeq(data, 1, b)
  <2>1. data \in Seq(Byte) /\ a \in Int /\ b \in Int /\ 1 <= a + 1 /\ a <= b /\ b <= Len(data)
    BY <1>1
  <2> DEFINE c == 1
  <2>2. c \in Int /\ 1 <= c /\ c <= a + 1
    BY <1>1
  <2> HIDE DEF c
  <2>3. SubSeq(data, c, a) \o SubSeq(data, a + 1, b) = SubSeq(data, c, b)
    BY <2>1, <2>2, Adjacent
  <2> QED BY <2>3 DEF c
<1>4. all = SubSeq(data, 1, b)
  BY <1>2, <1>3
<1>5. Len(SubSeq(data, 1, b)) = b
  BY <1>1, Part
<1>6. SubSeq(data, 1, Len(data)) = data
  BY <1>1, SubSeqFull
<1>7. Len(all) = b
  BY <1>4, <1>5
<1> HIDE DEF all
<1>8. Len(all) = Len(got) + Len(m.data)
  BY <1>7 DEF b
<1>9. Len(all) \in 0 .. Len(data) /\ all = SubSeq(data, 1, Len(all))
  BY <1>1, <1>4, <1>7
<1>10. m.last => all = data
  <2>1. m.last => b = Len(data)
    BY <1>1
  <2> QED BY <1>4, <1>6, <2>1
<1> QED BY <1>8, <1>9, <1>10 DEF all

\* What the client makes of a frame.
LEMMA ReadAlternates ==
  ASSUME Base, Alternation, UploadTrue, ReadFrame
  PROVE  Alternation' /\ UploadTrue'
<1> DEFINE m == Head(toClient)
<1>1. /\ UNCHANGED <<data, state, request, source, toggle, txBuff, zeros>>
      /\ toClient' = Tail(toClient) /\ toClient # <<>>
  <2>1. Taken(m)
    BY DEF ReadFrame, ReadInitiation, ReadSegment, ReadBlockSegment, ReadEnd, ReadAbort, ReadOther, Ignore
  <2> QED BY <2>1, Zenon DEF Taken, objectVars, serverVars, countVars
<1>2. /\ data \in Objects /\ toClient \in Seq(Answers) /\ toServer \in Seq(Requests) /\ m \in Answers
      /\ toggle \in {0, 1} /\ clientToggle \in {0, 1}
  BY <1>1 DEF Base, Typed
<1>3. /\ m = toClient[1] /\ Len(toClient) \in Nat /\ Len(toClient) > 0 /\ Len(toClient') = Len(toClient) - 1
      /\ \A i \in 1 .. Len(toClient') : i + 1 \in 1 .. Len(toClient) /\ toClient'[i] = toClient[i + 1]
  BY <1>1, <1>2, Taking
<1> PICK x : x = m
  OBVIOUS
<1> SUFFICES ASSUME ~zeros' PROVE InStep' /\ (step' = "success" => got' = data)
  BY <1>1 DEF Alternation, UploadTrue
<1>4. InStep /\ (step = "success" => got = data)
  BY <1>1 DEF Alternation, UploadTrue
<1>5. CASE ReadInitiation(m)
  <2>1. CASE m.cs = "uploaded"
    <3>1. step' = "success" /\ got' = m.data
      BY <1>5, <2>1 DEF ReadInitiation
    <3>2. m.data = data
      BY <1>2, <2>1 DEF Answers, Segments
    <3> QED BY <3>1, <3>2 DEF InStep, Opened
  <2>2. CASE m.cs = "blockOpen"
    BY <1>5, <2>2 DEF ReadInitiation, InStep, Opened
  <2>3. CASE m.cs = "uploadOpen"
    <3> PICK r : r = [cs |-> "segmentRequest", toggle |-> 0]
      OBVIOUS
    <3>1. /\ step \in Opened /\ clientToggle' = 0 /\ step' = "UPLOAD_SEGMENT_RSP" /\ got' = got
          /\ toServer' = Append(toServer, r)
      BY <1>5, <2>3 DEF ReadInitiation, Request, Opened
    <3>2. r \in Requests
      BY DEF Requests
    <3>3. /\ Len(toServer') = Len(toServer) + 1 /\ Len(toServer) \in Nat
          /\ \A i \in 1 .. Len(toServer) : toServer'[i] = toServer[i]
          /\ toServer'[Len(toServer) + 1] = r
      BY <1>2, <3>1, <3>2, Appended
    <3>4. Unopened
      BY <1>4, <3>1 DEF InStep
    <3>5. \A y : Opening(y) => ~Current(y)
      BY DEF Opening, Current
    <3>6. Prefix' /\ toggle' = clientToggle'
      <4>1. SubSeq(data, 1, 0) = <<>>
        BY SubSeqEmpty
      <4> QED BY <1>1, <1>2, <3>1, <3>4, <4>1, DataType DEF Unopened, Prefix
    <3>7. Waiting'
      <4>1. /\ state' = "UPLOAD_SEGMENT_REQ" => Sent(source)' = Len(got')
            /\ txBuff' = None /\ got' = <<>> /\ clientToggle' = 0
        BY <1>1, <3>1, <3>4 DEF Unopened, Sent, Unread
      <4>2. (\A i \in 1 .. Len(toClient) : ~IsSegment(toClient[i]))'
        BY <1>3, <3>4 DEF Unopened, IsSegment
      <4>3. \A i \in 1 .. Len(toServer) : ~Current(toServer[i])'
        BY <3>3, <3>4 DEF Unopened, Opening, Current
      <4>4. Current(r)'
        BY <3>1 DEF Current
      <4>5. (\A i, j \in 1 .. Len(toServer) : i < j /\ Current(toServer[i]) => Current(toServer[j]))'
        <5> SUFFICES ASSUME NEW i \in 1 .. Len(toServer'), NEW j \in 1 .. Len(toServer'), i < j
                     PROVE  ~Current(toServer[i])'
          BY DEF Current
        <5>1. i \in 1 .. Len(toServer)
          BY <3>3
        <5> QED BY <4>3, <5>1
      <4>6. request' # None => ~Current(request)'
        BY <1>1, <3>4 DEF Unopened, Opening, Current
      <4> QED BY <4>1, <4>2, <4>5, <4>6 DEF Waiting
    <3> QED BY <3>1, <3>6, <3>7 DEF InStep, Opened
  <2> QED BY <1>5, <2>1, <2>2, <2>3 DEF ReadInitiation
<1>6. CASE ReadSegment(m)
  <2> PICK r : r = [cs |-> "segmentRequest", toggle |-> 1 - clientToggle]
    OBVIOUS
  <2>1. CASE step' = "failed"
    BY <2>1 DEF InStep, Opened
  <2>2. CASE step' # "failed"
    <3>1. /\ step = "UPLOAD_SEGMENT_RSP" /\ IsSegment(m) /\ m.toggle = clientToggle
          /\ got' = got \o m.data /\ clientToggle' = 1 - clientToggle
          /\ \/ m.last /\ step' = "success"
             \/ step' = "UPLOAD_SEGMENT_RSP" /\ toServer' = Append(toServer, r)
      BY <1>6, <2>2 DEF ReadSegment, GiveUp, Request, IsSegment
    <3>2. toggle # clientToggle /\ Served /\ Prefix
      BY <1>3, <1>4, <3>1 DEF InStep, Waiting, Opened
    <3>3. Continues(m) /\ m.data \in Seq(Byte)
      BY <1>2, <1>3, <3>1, <3>2 DEF Served, IsSegment, Answers, Segments
    <3>4. /\ Len(got') = Len(got) + Len(m.data) /\ Len(got') \in 0 .. Len(data)
          /\ got' = SubSeq(data, 1, Len(got')) /\ (m.last => got' = data)
      <4> HIDE DEF m
      <4> QED BY <1>2, <3>1, <3>2, <3>3, Extended
    <3>5. CASE step' = "success"
      BY <3>1, <3>4, <3>5 DEF InStep, Opened
    <3>6. CASE step' = "UPLOAD_SEGMENT_RSP"
      <4>1. r \in Requests /\ r.cs = "segmentRequest" /\ r.toggle = 1 - clientToggle
        BY <1>2 DEF Requests
      <4>2. /\ Len(toServer') = Len(toServer) + 1 /\ Len(toServer) \in Nat
            /\ \A i \in 1 .. Len(toServer) : toServer'[i] = toServer[i]
            /\ toServer'[Len(toServer) + 1] = r
        <5>1. toServer' = Append(toServer, r)
          BY <3>1, <3>6
        <5>2. toServer \in Seq(Requests) /\ r \in Requests
          BY <1>2, <4>1
        <5> QED BY <5>1, <5>2, Appended
      <4>3. toggle' = clientToggle' /\ clientToggle' # clientToggle
        BY <1>1, <1>2, <3>1, <3>2
      <4>4. Prefix'
        BY <1>1, <3>4 DEF Prefix
      <4>5. (state = "UPLOAD_SEGMENT_REQ" => Sent(source) = Len(got))'
        BY <1>1, <3>3, <3>4 DEF Continues, Sent, Unread
      <4>6. (\A i \in 1 .. Len(toClient) : IsSegment(toClient[i]) => toClient[i].toggle # clientToggle)'
        <5> SUFFICES ASSUME NEW i \in 1 .. Len(toClient'), IsSegment(toClient'[i])
                     PROVE  toClient'[i].toggle = clientToggle
          BY <4>3 DEF IsSegment
        <5>1. i + 1 \in 1 .. Len(toClient) /\ toClient'[i] = toClient[i + 1] /\ 1 \in 1 .. Len(toClient) /\ 1 < i + 1
          BY <1>3
        <5> QED BY <1>3, <3>1, <3>2, <5>1 DEF Served
      <4>7. (txBuff # None => txBuff.toggle # clientToggle)'
        BY <1>1, <3>2, <4>3 DEF Served
      <4>8. \A i \in 1 .. Len(toServer) : ~Current(toServer[i])' /\ ~Opening(toServer'[i])
        BY <3>2, <4>2, <4>3 DEF Served, Current, Opening
      <4>9. ~Opening(r)
        BY <4>1 DEF Opening
      <4>10. (\A i, j \in 1 .. Len(toServer) : i < j /\ Current(toServer[i]) => Current(toServer[j]))'
        <5> SUFFICES ASSUME NEW i \in 1 .. Len(toServer'), NEW j \in 1 .. Len(toServer'), i < j
                     PROVE  ~Current(toServer[i])'
          BY DEF Current
        <5>1. i \in 1 .. Len(toServer)
          BY <4>2
        <5> QED BY <4>8, <5>1
      <4>11. request' # None => ~Current(request)' /\ ~Opening(request')
        BY <1>1, <3>2, <4>3 DEF Served, Current, Opening
      <4>12. \A i \in 1 .. Len(toServer') : ~Opening(toServer'[i])
        BY <4>2, <4>8, <4>9
      <4>13. Waiting'
        BY <4>5, <4>6, <4>7, <4>10, <4>11, <4>12 DEF Waiting, Opening
      <4> QED BY <3>6, <4>3, <4>4, <4>13 DEF InStep, Opened
    <3> QED BY <3>1, <3>5, <3>6
  <2> QED BY <2>1, <2>2
<1>7. CASE ReadBlockSegment(m)
  BY <1>7 DEF ReadBlockSegment, InStep, Opened
<1>8. CASE ReadEnd(m)
  <2>1. \/ step' = "failed"
        \/ step' = "success" /\ got' = m.crc
    BY <1>8 DEF ReadEnd, Complete, GiveUp
  <2>2. m.cs = "endBlock"
    BY <1>8 DEF ReadEnd
  <2>3. m.crc = data
    BY <1>2, <2>2 DEF Answers, Segments
  <2> QED BY <2>1, <2>3 DEF InStep, Opened
<1>9. CASE ReadAbort(m) \/ ReadOther(m)
  BY <1>9 DEF ReadAbort, ReadOther, GiveUp, InStep, Opened
<1>10. CASE Ignore(m)
  <2>1. step' = step /\ got' = got /\ step \notin Opened \cup {"UPLOAD_SEGMENT_RSP"}
    BY <1>10 DEF Ignore, clientVars, Ended, Opened
  <2> QED BY <1>4, <2>1 DEF InStep, Opened
<1> QED BY <1>5, <1>6, <1>7, <1>8, <1>9, <1>10 DEF ReadFrame

LEMMA StartKeeps == ASSUME Base, Alternation, Start PROVE Alternation'
<1> SUFFICES ASSUME ~zeros' PROVE InStep'
  BY DEF Alternation
<1>1. /\ UNCHANGED <<data, state, request, source, toggle, txBuff, zeros, toClient, got, clientToggle>>
      /\ step \in Opened /\ step' \in Opened
  BY DEF Start, objectVars, serverVars, countVars, Opened
<1>2. \E r \in Requests : Opening(r) /\ toServer' = Append(toServer, r)
  BY DEF Start, Request, Requests, Opening
<1> PICK r \in Requests : Opening(r) /\ toServer' = Append(toServer, r)
  BY <1>2
<1>3. /\ Len(toServer') = Len(toServer) + 1 /\ Len(toServer) \in Nat
      /\ \A i \in 1 .. Len(toServer) : toServer'[i] = toServer[i]
      /\ toServer'[Len(toServer) + 1] = r
  BY Appended DEF Base, Typed
<1>4. Unopened
  BY <1>1 DEF Alternation, InStep
<1>5. Unopened'
  BY <1>1, <1>3, <1>4 DEF Unopened, Sent, Unread
<1> QED BY <1>1, <1>5 DEF InStep, Opened

LEMMA AlternationKept ==
  ASSUME Base, Alternation, UploadTrue, [Next]_vars
  PROVE  Alternation' /\ UploadTrue'
<1>1. CASE ReadFrame
  BY <1>1, ReadAlternates
<1>2. CASE AcknowledgeBlock \/ Timeouts
  <2>1. step' \notin Opened \cup {"UPLOAD_SEGMENT_RSP", "success"}
    BY <1>2 DEF AcknowledgeBlock, Timeouts, BlockTimeout, TransferTimeout, GiveUp, Opened
  <2> QED BY <2>1 DEF Alternation, InStep, UploadTrue
<1>3. CASE Start
  <2>1. step' # "success"
    BY <1>3 DEF Start
  <2> QED BY <1>3, <2>1, StartKeeps DEF UploadTrue
<1>4. CASE Serve \/ SendNext \/ ServerTimeout \/ Poll \/ Deliver \/ LoseAnswer \/ LoseRequest \/ RepeatRequest
           \/ UNCHANGED vars
  <2>1. UNCHANGED <<data, step, got, clientToggle>>
    BY <1>4 DEF Serve, InitUpload, InitBlockUpload, UploadSegment, RepeatSegment, StartBlocks,
         Acknowledge, RefuseFrame, Processed, SendNext, ServerTimeout, Poll, Deliver, LoseAnswer,
         LoseRequest, RepeatRequest, vars, objectVars, clientVars
  <2>2. ~zeros' => ~zeros
    BY <1>4 DEF Serve, InitUpload, InitBlockUpload, UploadSegment, RepeatSegment, StartBlocks,
         Acknowledge, RefuseFrame, Processed, SendNext, ServerTimeout, Poll, Deliver, LoseAnswer,
         LoseRequest, RepeatRequest, vars, serverVars
  <2>3. UploadTrue'
    BY <2>1, <2>2 DEF UploadTrue
  <2>4. Alternation'
    <3>1. CASE InitUpload
      <4>1. /\ UNCHANGED <<toServer, zeros>> /\ request # None /\ Opening(request) /\ request' = None /\ txBuff' = None
            /\ source' = Read(NoData, SegBytes)
            /\ AnswerInitiation(Read(NoData, SegBytes), Indicated(Read(NoData, SegBytes)))
        BY <3>1 DEF InitUpload, Processed, Opening
      <4>2. toggle' \in {toggle, 0} /\ \E m : ~IsSegment(m) /\ toClient' = Append(toClient, m)
        BY <4>1 DEF AnswerInitiation, Answer, IsSegment
      <4>3. Sent(source)' = 0
        BY <2>1, <4>1, Announced DEF Base, Typed, Sent, Unread
      <4> QED BY <2>1, <4>1, <4>2, <4>3, OpeningKeeps
    <3>2. CASE InitBlockUpload
      <4>1. /\ UNCHANGED <<toServer, zeros>> /\ request # None /\ Opening(request) /\ request' = None /\ txBuff' = None
            /\ source' = Read(NoData, SegBytes)
        BY <3>2 DEF InitBlockUpload, Processed, Opening
      <4>2. toggle' \in {toggle, 0} /\ \E m : ~IsSegment(m) /\ toClient' = Append(toClient, m)
        BY <3>2 DEF InitBlockUpload, AbortUpload, AnswerInitiation, Answer, IsSegment
      <4>3. Sent(source)' = 0
        BY <2>1, <4>1, Announced DEF Base, Typed, Sent, Unread
      <4> QED BY <2>1, <4>1, <4>2, <4>3, OpeningKeeps
    <3>3. CASE UploadSegment
      BY <3>3, SegmentKeeps
    <3>4. CASE RepeatSegment
      BY <3>4, RepeatKeeps
    <3>5. CASE StartBlocks \/ Acknowledge \/ SendNext
      <4>1. /\ UNCHANGED <<toServer, toggle>> /\ request' \in {request, None} /\ txBuff' = None
            /\ state' # "UPLOAD_SEGMENT_REQ" /\ \E m : ~IsSegment(m) /\ toClient' = Append(toClient, m)
        <5>1. \A s, n, k : SendBlockSegment(s, n, k) =>
                txBuff' = None /\ state' # "UPLOAD_SEGMENT_REQ" /\ \E m : ~IsSegment(m) /\ toClient' = Append(toClient, m)
          BY DEF SendBlockSegment, AbortUpload, Answer, IsSegment
        <5>2. CASE StartBlocks
          BY <5>1, <5>2 DEF StartBlocks, Processed
        <5>3. CASE SendNext
          BY <5>1, <5>3 DEF SendNext
        <5>4. CASE Acknowledge
          <6>1. UNCHANGED <<toServer, toggle>> /\ request' = None
            BY <5>4 DEF Acknowledge, Processed
          <6>2. \/ /\ txBuff' = None /\ state' # "UPLOAD_SEGMENT_REQ"
                   /\ \E m : ~IsSegment(m) /\ toClient' = Append(toClient, m)
                \/ \E s, n, k : SendBlockSegment(s, n, k)
            BY <5>4 DEF Acknowledge, AbortUpload, Answer, IsSegment
          <6> QED BY <5>1, <6>1, <6>2
        <5> QED BY <3>5, <5>2, <5>3, <5>4
      <4> QED BY <2>1, <2>2, <4>1, AsideKeeps
    <3>6. CASE RefuseFrame \/ ServerTimeout
      <4>1. /\ UNCHANGED <<toServer, toggle>> /\ request' \in {request, None} /\ txBuff' = None
            /\ state' # "UPLOAD_SEGMENT_REQ" /\ \E m : ~IsSegment(m) /\ toClient' = Append(toClient, m)
        BY <3>6 DEF RefuseFrame, ServerTimeout, AbortUpload, Answer, IsSegment, Processed, countVars
      <4> QED BY <2>1, <2>2, <4>1, AsideKeeps
    <3>7. CASE Poll \/ LoseAnswer \/ UNCHANGED vars
      <4>1. /\ UNCHANGED <<toServer, toggle, request, state, source>> /\ txBuff' \in {txBuff, None}
            /\ \/ toClient' = toClient
               \/ toClient # <<>> /\ toClient' = Tail(toClient)
        BY <3>7 DEF Poll, LoseAnswer, vars, countVars, serverVars, busVars
      <4>2. Sent(source)' = Sent(source)
        BY <4>1 DEF Sent, Unread
      <4> QED BY <2>1, <2>2, <4>1, <4>2, AsideKeeps
    <3>8. CASE Deliver \/ LoseRequest \/ RepeatRequest
      BY <3>8, RequestsKeep
    <3> QED BY <1>4, <3>1, <3>2, <3>3, <3>4, <3>5, <3>6, <3>7, <3>8 DEF Serve
  <2> QED BY <2>3, <2>4
<1> QED BY <1>1, <1>2, <1>3, <1>4 DEF Next, Server, Client

\* An upload reported as done gave the client the object byte for byte, for any
\* object, any sizes and any number of frames lost, late or repeated, unless a
\* repeated request for a segment was answered from the cleared CANtxBuff.
THEOREM UploadIsTrue == Spec => []UploadTrue
<1>1. Init => IInv
  <2>1. Init => Alternation /\ UploadTrue
    BY DEF Init, Alternation, InStep, Opened, Unopened, UploadTrue
  <2> QED BY <2>1, BaseInit DEF IInv
<1>2. IInv /\ [Next]_vars => IInv'
  BY BaseKept, AlternationKept DEF IInv
<1>3. IInv => UploadTrue
  BY DEF IInv
<1> QED BY <1>1, <1>2, <1>3, PTL DEF Spec

=============================================================================
