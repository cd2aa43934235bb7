-------------------------- MODULE SdoServerProofs --------------------------
(***************************************************************************)
(* Proofs about SdoServer, for every buffer, segment and sub-block size,   *)
(* dictionary, set of frames and pair of timeouts its assumptions allow.   *)
(*                                                                         *)
(* The bound on the buffer follows from the division that chooses the size *)
(* of the next sub-block (FreeFits) and from the order of the two steps:   *)
(* the buffer is emptied before the size is chosen.  The accounting of the *)
(* bytes needs to know that the object under transfer is writable and that *)
(* an object of known length is only written as a whole (Dictionary).      *)
(***************************************************************************)
EXTENDS SdoServer, TLAPS

\* Objects of known length hold as many bytes; they are never half written.
Sized == \A o \in Object : Size[o] # 0 => Len(content[o]) = Size[o]

Dictionary ==
  /\ Sized
  /\ state # "IDLE" => obj \in Writable

\* A transfer whose time is up was aborted, a sub-block answered.
InTime ==
  state # "IDLE" =>
    /\ timer < Timeout
    /\ state = "DOWNLOAD_BLK_SUBBLOCK_REQ" => blockTimer < BlockTimeout

\* The offset of the transfer lies within the object, or at its end.
WithinObject == offset <= Len(content[obj])
AtEnd        == Len(content[obj]) = offset

\* The bytes b went to the end of the object and the buffer is empty.
Flushed(b) ==
  /\ buf' = <<>>
  /\ content'[obj] = SubSeq(content[obj], 1, offset) \o b
  /\ offset' = offset + Len(b)
  /\ AtEnd'

IInv == TypeOK /\ BufferFits /\ Accounted /\ Dictionary /\ InTime

----------------------------------------------------------------------------
(* The sizes.                                                              *)

\* A sub-block as FreeSegments chooses it fits behind b bytes of data.
LEMMA FreeFits ==
  ASSUME NEW b \in Nat, b + 2 <= BufferSize
  PROVE  /\ FreeSegments(b) \in 0 .. MaxBlock
         /\ b + SegBytes * FreeSegments(b) + 2 <= BufferSize
<1> DEFINE n == BufferSize - 2 - b
<1>1. SegBytes \in Nat /\ SegBytes > 0 /\ MaxBlock \in Nat /\ BufferSize \in Nat
  BY SegmentAssumption, BufferAssumption
<1>2. n \in Nat
  BY <1>1
<1>3. n \div SegBytes \in Nat /\ SegBytes * (n \div SegBytes) <= n
  BY <1>1, <1>2, SMT
<1>4. \A k \in Nat : k <= n \div SegBytes => SegBytes * k <= SegBytes * (n \div SegBytes)
  BY <1>1, <1>3, SMT
<1>5. FreeSegments(b) \in Nat /\ FreeSegments(b) <= n \div SegBytes /\ FreeSegments(b) <= MaxBlock
  BY <1>1, <1>3 DEF FreeSegments, Least
<1>6. SegBytes * FreeSegments(b) <= n
  <2> HIDE DEF n
  <2>1. SegBytes * FreeSegments(b) <= SegBytes * (n \div SegBytes)
    BY <1>4, <1>5
  <2>2. SegBytes * FreeSegments(b) \in Nat /\ SegBytes * (n \div SegBytes) \in Nat
    BY <1>1, <1>3, <1>5
  <2> QED BY <1>2, <1>3, <2>1, <2>2
<1> QED BY <1>1, <1>5, <1>6

\* An empty buffer has room for a sub-block of full size.
LEMMA FreeEmpty == FreeSegments(0) = MaxBlock
<1>1. SegBytes \in Nat /\ SegBytes > 0 /\ MaxBlock \in Nat /\ BufferSize \in Nat
      /\ MaxBlock * SegBytes + 2 <= BufferSize
  BY SegmentAssumption, BufferAssumption
<1>2. MaxBlock <= (BufferSize - 2) \div SegBytes
  BY <1>1, SMT
<1> QED BY <1>1, <1>2 DEF FreeSegments, Least

\* The buffer takes at least one segment and the end of a string.
LEMMA OneSegmentFits == SegBytes + 2 <= BufferSize
<1>1. SegBytes \in Nat /\ MaxBlock \in Nat \ {0} /\ BufferSize \in Nat
      /\ MaxBlock * SegBytes + 2 <= BufferSize
  BY SegmentAssumption, BufferAssumption
<1>2. SegBytes <= MaxBlock * SegBytes
  BY <1>1, SMT
<1> QED BY <1>1, <1>2

\* While a sub-block is awaited one more segment fits.
LEMMA RoomForOneMore ==
  ASSUME TypeOK, BufferFits, state = "DOWNLOAD_BLK_SUBBLOCK_REQ"
  PROVE  /\ Len(buf) + SegBytes + 2 <= BufferSize
         /\ Len(buf) + SegBytes + SegBytes * (blksize - (seqno + 1)) + 2 <= BufferSize
<1>1. /\ SegBytes \in Nat /\ BufferSize \in Nat /\ Len(buf) \in Nat
      /\ blksize \in Nat /\ seqno \in Nat /\ seqno < blksize
      /\ Len(buf) + SegBytes * (blksize - seqno) + 2 <= BufferSize
  BY SegmentAssumption, BufferAssumption DEF TypeOK, BufferFits
<1> DEFINE k == blksize - (seqno + 1)
<1>2. k \in Nat /\ blksize - seqno = k + 1
  BY <1>1
<1>3. \A j \in Nat : SegBytes * (j + 1) = SegBytes * j + SegBytes /\ SegBytes * j \in Nat
  BY <1>1, SMT
<1>4. SegBytes * (blksize - seqno) = SegBytes * k + SegBytes /\ SegBytes * k \in Nat
  <2> HIDE DEF k
  <2> QED BY <1>2, <1>3
<1> QED BY <1>1, <1>4

----------------------------------------------------------------------------
(* The frames.                                                             *)

LEMMA SegmentFrame ==
  ASSUME NEW m \in Frames, m.cs = "segment"
  PROVE  m.toggle \in {0, 1} /\ m.data \in Seq(Byte) /\ m.last \in BOOLEAN /\ Len(m.data) <= SegBytes
BY FrameAssumption DEF Requests

LEMMA BlockFrame ==
  ASSUME NEW m \in Frames, m.cs = "block"
  PROVE  m.seqno \in Nat /\ m.data \in Seq(Byte) /\ m.last \in BOOLEAN /\ Len(m.data) = SegBytes
BY FrameAssumption DEF Requests

LEMMA EndFrame ==
  ASSUME NEW m \in Frames, m.cs = "endBlock"
  PROVE  m.noData \in Nat
BY FrameAssumption DEF Requests

LEMMA InitFrame ==
  ASSUME NEW m \in Frames, m.cs \in Initiating
  PROVE  /\ m.obj \in Object \cup {Missing}
         /\ m.cs \in {"initSegmented", "initBlock"} => m.sized \in BOOLEAN /\ m.size \in Nat
         /\ m.cs = "initBlock" => m.crc \in BOOLEAN
         /\ m.cs = "expedited" => m.data \in Seq(Byte) /\ m.sized \in BOOLEAN
BY FrameAssumption DEF Requests, Initiating

----------------------------------------------------------------------------
(* Writing the dictionary.                                                 *)

\* A prefix of a sequence of bytes followed by bytes.
LEMMA Stored ==
  ASSUME NEW s \in Seq(Byte), NEW n \in Nat, n <= Len(s), NEW d \in Seq(Byte)
  PROVE  /\ SubSeq(s, 1, n) \o d \in Seq(Byte)
         /\ Len(SubSeq(s, 1, n) \o d) = n + Len(d)
<1>1. SubSeq(s, 1, n) \in Seq(Byte) /\ Len(SubSeq(s, 1, n)) = n
  OBVIOUS
<1> QED BY <1>1

\* Bytes appended to bytes.
LEMMA Appended ==
  ASSUME NEW s \in Seq(Byte), NEW d \in Seq(Byte)
  PROVE  s \o d \in Seq(Byte) /\ Len(s \o d) = Len(s) + Len(d) /\ Len(s) \in Nat /\ Len(d) \in Nat
OBVIOUS

\* A whole sequence is its longest prefix.
LEMMA WholePrefix ==
  ASSUME NEW s \in Seq(Byte), NEW n, n = Len(s)
  PROVE  SubSeq(s, 1, n) = s
OBVIOUS

\* What a write leaves behind: objects of known length keep it, and what was
\* appended to a DOMAIN is at its end.
LEMMA WriteKeeps ==
  ASSUME TypeOK, Dictionary, NEW o \in Object, NEW off \in Nat, off <= Len(content[o]),
         NEW data \in Seq(Byte), NEW answer, WriteObject(o, off, data, answer)
  PROVE  /\ content' \in [Object -> Seq(Byte)]
         /\ Sized'
         /\ offset' \in Nat
         /\ answer = "partial" =>
              /\ content'[o] = SubSeq(content[o], 1, off) \o data
              /\ offset' = off + Len(data)
              /\ Len(content'[o]) = offset'
<1> DEFINE stored == SubSeq(content[o], 1, off) \o data
<1>1. content \in [Object -> Seq(Byte)]
  BY DEF TypeOK
<1>2. stored \in Seq(Byte) /\ Len(stored) = off + Len(data)
  BY <1>1, Stored
<1> HIDE DEF stored
<1>3. CASE Size[o] # 0
  <2>1. /\ answer = IF Len(data) = Size[o] THEN "ok" ELSE "error"
        /\ content' = IF answer = "ok" THEN [content EXCEPT ![o] = data] ELSE content
        /\ offset' = off
    BY <1>3 DEF WriteObject
  <2> QED BY <1>1, <2>1 DEF Dictionary, Sized
<1>4. CASE Size[o] = 0
  <2>1. /\ content' = IF answer = "error" THEN content ELSE [content EXCEPT ![o] = stored]
        /\ offset' = IF answer = "error" THEN off ELSE Len(stored)
    BY <1>4 DEF WriteObject, stored
  <2> QED BY <1>1, <1>2, <1>4, <2>1 DEF Dictionary, Sized, stored
<1> QED BY <1>3, <1>4

\* validateAndWriteToOD: when it succeeds in the middle of a transfer the buffer
\* is empty and its bytes are at the end of the object.
LEMMA WriteVerified ==
  ASSUME TypeOK, Dictionary, obj \in Writable, WithinObject, obj' = obj,
         NEW b \in Seq(Byte), NEW total \in Nat, NEW done \in BOOLEAN,
         NEW newCrc \in Seq(Byte), NEW code,
         \E crcRight \in BOOLEAN : ValidateAndWrite(b, total, done, newCrc, crcRight, code)
  PROVE  /\ content' \in [Object -> Seq(Byte)]
         /\ Sized'
         /\ offset' \in Nat /\ buf' \in Seq(Byte) /\ crc' \in Seq(Byte)
         /\ Len(buf') <= Len(b)
         /\ code = "none" /\ ~done => crc' = newCrc /\ Flushed(b)
<1>0. obj \in Object
  BY ObjectAssumption
<1>1. /\ content \in [Object -> Seq(Byte)] /\ offset \in Nat /\ crc \in Seq(Byte)
      /\ Sized
  BY DEF TypeOK, Dictionary, Sized
<1> PICK crcRight \in BOOLEAN : ValidateAndWrite(b, total, done, newCrc, crcRight, code)
  OBVIOUS
<1>2. CASE SizeVerdict(total, done) # "none"
  BY <1>1, <1>2 DEF ValidateAndWrite, Sized
<1>3. CASE SizeVerdict(total, done) = "none" /\ ~crcRight
  BY <1>1, <1>3 DEF ValidateAndWrite, Sized
<1>4. CASE SizeVerdict(total, done) = "none" /\ crcRight
  <2>1. PICK answer \in {"ok", "partial", "error"} :
          WriteObject(obj, offset, b, answer) /\ code = WriteVerdict(answer, done)
    BY <1>4 DEF ValidateAndWrite
  <2>2. crc' = newCrc /\ buf' = <<>>
    BY <1>4 DEF ValidateAndWrite
  <2>3. code = "none" /\ ~done => answer = "partial"
    BY <2>1 DEF WriteVerdict
  <2>4. /\ content' \in [Object -> Seq(Byte)]
        /\ Sized'
        /\ offset' \in Nat
        /\ answer = "partial" =>
              /\ content'[obj] = SubSeq(content[obj], 1, offset) \o b
              /\ offset' = offset + Len(b)
              /\ Len(content'[obj]) = offset'
    BY <1>0, <1>1, <2>1, WriteKeeps DEF WithinObject
  <2>5. <<>> \in Seq(Byte) /\ Len(<<>>) = 0 /\ Len(b) \in Nat
    OBVIOUS
  <2>6. buf' \in Seq(Byte) /\ crc' \in Seq(Byte) /\ Len(buf') <= Len(b)
    BY <2>2, <2>5
  <2>7. answer = "partial" => Flushed(b)
    BY <2>2, <2>4 DEF Flushed, AtEnd
  <2> QED BY <2>2, <2>3, <2>4, <2>6, <2>7
<1> QED BY <1>2, <1>3, <1>4

\* In a transfer the offset lies within the object.
LEMMA OffsetWithin ==
  ASSUME TypeOK, Accounted, Dictionary, state # "IDLE"
  PROVE  obj \in Object /\ WithinObject
<1>1. obj \in Object
  BY ObjectAssumption DEF Dictionary, Sized
<1>2. Len(content[obj]) \in Nat /\ offset \in Nat
  BY <1>1 DEF TypeOK
<1> QED BY <1>1, <1>2 DEF Accounted, WithinObject

----------------------------------------------------------------------------
(* The actions.                                                            *)

\* A call that ends in IDLE has only the types and the objects to look after.
LEMMA EndsIdle ==
  ASSUME TypeOK', state' = "IDLE", Len(buf') <= BufferSize,
         Sized'
  PROVE  IInv'
<1>1. BufferFits' /\ Accounted' /\ Dictionary' /\ InTime'
  BY DEF BufferFits, Accounted, Dictionary, Sized, InTime
<1> QED BY <1>1 DEF IInv

\* CO_SDO_receive, but for the segments of a block.
LEMMA ReceivingKeeps ==
  ASSUME IInv, NEW m \in Frames, ReceiveAbort \/ ReceiveRequest(m)
  PROVE  IInv'
<1> USE DEF transferVars, blockVars, timerVars
<1>1. CASE ReceiveAbort
  BY <1>1 DEF ReceiveAbort, IInv, TypeOK, BufferFits, Accounted, Dictionary, Sized, InTime, States
<1>2. CASE ReceiveRequest(m)
  BY <1>2 DEF ReceiveRequest, IInv, TypeOK, BufferFits, Accounted, Dictionary, Sized, InTime
<1> QED BY <1>1, <1>2

LEMMA BlockKeeps ==
  ASSUME IInv, NEW m \in Frames, ReceiveBlock(m)
  PROVE  IInv'
<1>0. TypeOK /\ BufferFits /\ Accounted /\ Dictionary /\ InTime
  BY DEF IInv
<1>1. state = "DOWNLOAD_BLK_SUBBLOCK_REQ"
  BY DEF ReceiveBlock
<1>2. /\ SegBytes \in Nat /\ MaxBlock \in Nat /\ BufferSize \in Nat
      /\ Timeout \in Nat /\ BlockTimeout \in Nat /\ Timeout > 0 /\ BlockTimeout > 0
  BY SegmentAssumption, BufferAssumption, TimeoutAssumption
<1>3. /\ Len(buf) + SegBytes + 2 <= BufferSize
      /\ Len(buf) + SegBytes + SegBytes * (blksize - (seqno + 1)) + 2 <= BufferSize
  BY <1>0, <1>1, RoomForOneMore
<1>4. CASE SeqnoOf(m) <= blksize /\ SeqnoOf(m) = seqno + 1
  <2>1. m.cs = "block"
    BY <1>0, <1>2, <1>4 DEF SeqnoOf, TypeOK
  <2>2. m.seqno \in Nat /\ m.data \in Seq(Byte) /\ m.last \in BOOLEAN /\ Len(m.data) = SegBytes
    BY <2>1, BlockFrame
  <2>3. /\ seqno' = m.seqno /\ seqno' = seqno + 1 /\ seqno' <= blksize
        /\ buf' = buf \o m.data
        /\ sizeTran' = sizeTran + SegBytes
        /\ finished' = (finished \/ m.last)
        /\ state' = IF m.last \/ m.seqno = blksize THEN "DOWNLOAD_BLK_SUBBLOCK_RSP" ELSE state
    BY <1>4, <2>1 DEF ReceiveBlock, SeqnoOf
  <2>4. /\ timer' = 0 /\ blockTimer' = 0
        /\ UNCHANGED <<request, obj, offset, sizeInd, toggle, blksize, crcOn, crc, content>>
    BY DEF ReceiveBlock
  <2>5. buf' \in Seq(Byte) /\ Len(buf') = Len(buf) + SegBytes /\ Len(buf) \in Nat
    <3>1. buf \in Seq(Byte)
      BY <1>0 DEF TypeOK
    <3> QED BY <2>2, <2>3, <3>1, Appended
  <2>6. TypeOK'
    BY <1>0, <1>1, <1>2, <2>2, <2>3, <2>4, <2>5 DEF TypeOK, States
  <2>7. BufferFits'
    <3>1. state' = "DOWNLOAD_BLK_SUBBLOCK_REQ" => seqno' < blksize'
      BY <1>0, <1>1, <2>2, <2>3, <2>4 DEF TypeOK
    <3>2. Len(buf') + SegBytes * (blksize' - seqno') + 2 <= BufferSize
      BY <1>3, <2>3, <2>4, <2>5
    <3>3. Len(buf') + 2 <= BufferSize /\ Len(buf') <= BufferSize
      BY <1>2, <1>3, <2>5
    <3> QED BY <1>1, <2>3, <3>1, <3>2, <3>3 DEF BufferFits
  <2>8. Accounted'
    BY <1>0, <1>1, <1>2, <2>3, <2>4, <2>5 DEF Accounted, TypeOK
  <2>9. Dictionary' /\ InTime'
    BY <1>0, <1>1, <1>2, <2>4 DEF Dictionary, Sized, InTime
  <2> QED BY <2>6, <2>7, <2>8, <2>9 DEF IInv
<1>5. CASE ~(SeqnoOf(m) <= blksize /\ SeqnoOf(m) = seqno + 1)
  <2>1. /\ state' \in {state, "DOWNLOAD_BLK_SUBBLOCK_RSP"}
        /\ timer' = 0 /\ blockTimer' = 0
        /\ UNCHANGED <<seqno, buf, sizeTran, finished, request, obj, offset, sizeInd, toggle,
                       blksize, crcOn, crc, content>>
    BY <1>5 DEF ReceiveBlock
  <2>2. TypeOK'
    BY <1>0, <1>1, <1>2, <2>1 DEF TypeOK, States
  <2>3. BufferFits'
    <3>1. Len(buf) + 2 <= BufferSize
      BY <1>0, <1>2, <1>3 DEF TypeOK
    <3> QED BY <1>0, <1>1, <2>1, <3>1 DEF BufferFits
  <2>4. Accounted'
    BY <1>0, <1>1, <2>1 DEF Accounted
  <2>5. Dictionary' /\ InTime'
    BY <1>0, <1>1, <1>2, <2>1 DEF Dictionary, Sized, InTime
  <2> QED BY <2>2, <2>3, <2>4, <2>5 DEF IInv
<1> QED BY <1>4, <1>5

\* The short calls of CO_SDOserver_process: they refuse, repeat, read or start.
LEMMA RefusalsKeep ==
  ASSUME IInv, RefuseCommand \/ RefuseObject \/ RefuseFrame \/ RepeatSegment
  PROVE  IInv'
<1> USE DEF transferVars, blockVars, timerVars
<1>0. TypeOK /\ BufferFits /\ Accounted /\ Dictionary /\ InTime
  BY DEF IInv
<1>1. Timeout \in Nat /\ Timeout > 0
  BY TimeoutAssumption
<1>2. CASE RefuseCommand
  BY <1>0, <1>1, <1>2, EndsIdle
     DEF RefuseCommand, Processed, AbortTransfer, TypeOK, States, BufferFits, Dictionary, Sized
<1>3. CASE RefuseObject
  <2>1. request \in Frames /\ request.cs \in Initiating
    BY <1>0, <1>3 DEF RefuseObject, TypeOK
  <2>2. request.obj \in Object \cup {Missing}
    BY <2>1, InitFrame
  <2> QED BY <1>0, <1>1, <1>3, <2>2, EndsIdle
          DEF RefuseObject, Processed, AbortTransfer, TypeOK, States, BufferFits, Dictionary, Sized
<1>4. CASE RefuseFrame
  BY <1>0, <1>1, <1>4, EndsIdle
     DEF RefuseFrame, Processed, AbortTransfer, TypeOK, States, BufferFits, Dictionary, Sized
<1>5. CASE RepeatSegment
  <2>1. request \in Frames /\ request.cs = "segment"
    BY <1>0, <1>5 DEF RepeatSegment, TypeOK
  <2>2. request.last \in BOOLEAN
    BY <2>1, SegmentFrame
  <2> QED BY <1>0, <1>1, <1>5, <2>2
          DEF RepeatSegment, Processed, IInv, TypeOK, BufferFits, Accounted, Dictionary, Sized, InTime
<1> QED BY <1>2, <1>3, <1>4, <1>5

LEMMA UploadKeeps ==
  ASSUME IInv, Upload
  PROVE  IInv'
<1> USE DEF transferVars, blockVars, timerVars
<1>0. TypeOK /\ BufferFits /\ Accounted /\ Dictionary /\ InTime
  BY DEF IInv
<1>1. request.cs = "upload" /\ request.obj \in Readable
  BY DEF Upload, Starts, Allowed
<1> DEFINE o == request.obj
<1>2. /\ o \in Object /\ content[o] \in Seq(Byte) /\ Size[o] \in Nat
      /\ Len(content[o]) = Size[o] /\ Size[o] <= ExpBytes
  BY <1>0, <1>1, ObjectAssumption DEF TypeOK, Dictionary, Sized
<1>3. ExpBytes <= BufferSize
  BY SegmentAssumption, BufferAssumption, OneSegmentFits
<1>4. TypeOK'
  BY <1>0, <1>1, <1>2, TimeoutAssumption DEF Upload, Starts, Processed, TypeOK, States
<1>5. Len(buf') <= BufferSize
  BY <1>2, <1>3, SegmentAssumption, BufferAssumption DEF Upload
<1> QED BY <1>0, <1>4, <1>5, EndsIdle DEF Upload, Dictionary, Sized

LEMMA ExpeditedKeeps ==
  ASSUME IInv, ExpeditedDownload
  PROVE  IInv'
<1> USE DEF transferVars, blockVars, timerVars
<1>0. TypeOK /\ BufferFits /\ Accounted /\ Dictionary /\ InTime
  BY DEF IInv
<1> DEFINE o == request.obj
           data == IF request.sized \/ Size[o] = 0 THEN request.data
                   ELSE SubSeq(request.data, 1, Size[o])
<1>1. /\ request \in Frames /\ request.cs = "expedited" /\ o \in Writable
  BY <1>0 DEF ExpeditedDownload, Starts, Allowed, TypeOK, None
<1>2. o \in Object /\ content[o] \in Seq(Byte) /\ Size[o] \in Nat /\ Size[o] <= ExpBytes
  BY <1>0, <1>1, ObjectAssumption DEF TypeOK
<1>3. request.data \in Seq(Byte) /\ request.sized \in BOOLEAN /\ (~request.sized => Len(request.data) = ExpBytes)
  BY <1>1, InitFrame, FrameAssumption DEF Initiating
<1>4. data \in Seq(Byte)
  BY <1>2, <1>3, SegmentAssumption
<1>5. /\ content' \in [Object -> Seq(Byte)] /\ offset' \in Nat
      /\ Sized'
  <2>1. CASE Size[o] # 0 /\ Len(data) # Size[o]
    <3>1. offset' = 0 /\ content' = content
      BY <2>1 DEF ExpeditedDownload
    <3> QED BY <1>0, <3>1 DEF TypeOK, Dictionary, Sized
  <2>2. CASE ~(Size[o] # 0 /\ Len(data) # Size[o])
    <3>1. PICK answer : WriteObject(o, 0, data, answer)
      BY <2>2 DEF ExpeditedDownload
    <3>2. 0 <= Len(content[o])
      BY <1>2
    <3> HIDE DEF data, o
    <3> QED BY <1>0, <1>2, <1>4, <3>1, <3>2, WriteKeeps
  <2> QED BY <2>1, <2>2
<1>6. /\ state' = "IDLE" /\ finished' \in BOOLEAN
      /\ request' = None /\ timer' = 0 /\ obj' = o
      /\ UNCHANGED <<sizeInd, sizeTran, toggle, buf, blksize, seqno, crcOn, crc, blockTimer>>
  BY <1>0 DEF ExpeditedDownload, Starts, Processed, AbortTransfer, TypeOK
<1> HIDE DEF data, o
<1>7. TypeOK'
  BY <1>0, <1>2, <1>5, <1>6, TimeoutAssumption DEF TypeOK, States
<1> QED BY <1>0, <1>5, <1>6, <1>7, EndsIdle DEF BufferFits

LEMMA StartsKeep ==
  ASSUME IInv, InitSegmented \/ InitBlock
  PROVE  IInv'
<1> USE DEF transferVars, blockVars, timerVars
<1>0. TypeOK /\ BufferFits /\ Accounted /\ Dictionary /\ InTime
  BY DEF IInv
<1>1. /\ request \in Frames /\ request.cs \in {"initSegmented", "initBlock"}
      /\ request.obj \in Writable
  BY <1>0 DEF InitSegmented, InitBlock, Starts, Allowed, TypeOK, None
<1>2. /\ request.sized \in BOOLEAN /\ request.size \in Nat
      /\ request.cs = "initBlock" => request.crc \in BOOLEAN
  BY <1>1, InitFrame DEF Initiating
<1>3. Indicated \in Nat
  BY <1>2 DEF Indicated
<1>4. /\ state' \in States /\ request' = None /\ timer' = 0
      /\ obj' = request.obj /\ offset' = 0 /\ sizeInd' = Indicated /\ content' = content
  BY DEF InitSegmented, InitBlock, Starts, Processed, AbortTransfer, States
<1>5. /\ SegBytes \in Nat /\ MaxBlock \in Nat \ {0} /\ BufferSize \in Nat
      /\ Timeout \in Nat /\ BlockTimeout \in Nat /\ Timeout > 0 /\ BlockTimeout > 0
  BY SegmentAssumption, BufferAssumption, TimeoutAssumption
<1>6. request.obj \in Object
  BY <1>1, ObjectAssumption
<1>7. CASE state' = "IDLE"
  <2>1. UNCHANGED <<sizeTran, finished, toggle, buf, blksize, seqno, crc, blockTimer>>
        /\ crcOn' \in BOOLEAN
    BY <1>0, <1>2, <1>7 DEF InitSegmented, InitBlock, Starts, TypeOK
  <2>2. TypeOK'
    BY <1>0, <1>3, <1>4, <1>5, <1>6, <2>1 DEF TypeOK
  <2> QED BY <1>0, <1>4, <1>7, <2>1, <2>2, EndsIdle DEF BufferFits, Dictionary, Sized
<1>8. CASE InitSegmented /\ state' # "IDLE"
  <2>1. /\ state' = "DOWNLOAD_SEGMENT_REQ"
        /\ sizeTran' = 0 /\ finished' = FALSE /\ toggle' = 0 /\ buf' = <<>>
        /\ UNCHANGED <<blksize, seqno, crcOn, crc, blockTimer>>
    BY <1>8 DEF InitSegmented, AbortTransfer
  <2>2. TypeOK'
    <3>1. buf' \in Seq(Byte)
      BY <2>1
    <3>2. state' \in States /\ request' \in Frames \cup {None} /\ obj' \in Object \cup {Missing}
          /\ offset' \in Nat /\ sizeInd' \in Nat /\ sizeTran' \in Nat
      BY <1>3, <1>4, <1>6, <2>1
    <3>3. finished' \in BOOLEAN
      BY <1>0, <2>1 DEF TypeOK
    <3>5. toggle' \in {0, 1} /\ content' \in [Object -> Seq(Byte)]
      BY <1>0, <1>4, <2>1 DEF TypeOK
    <3>6. blksize' \in 0 .. MaxBlock /\ seqno' \in 0 .. MaxBlock
      BY <1>0, <1>5, <2>1 DEF TypeOK
    <3>7. timer' \in 0 .. Timeout /\ blockTimer' \in 0 .. BlockTimeout
      BY <1>0, <1>4, <1>5, <2>1 DEF TypeOK
    <3>4. crcOn' \in BOOLEAN /\ buf' \in Seq(Byte) /\ crc' \in Seq(Byte)
      BY <1>0, <2>1, <3>1 DEF TypeOK
    <3> QED BY <3>2, <3>3, <3>4, <3>5, <3>6, <3>7 DEF TypeOK
  <2>3. BufferFits'
    BY <1>5, <2>1, OneSegmentFits DEF BufferFits
  <2>4. Accounted' /\ Dictionary' /\ InTime'
    BY <1>0, <1>1, <1>4, <1>5, <2>1 DEF Accounted, Dictionary, Sized, InTime
  <2> QED BY <2>2, <2>3, <2>4 DEF IInv
<1>9. CASE InitBlock /\ state' # "IDLE"
  <2>1. /\ state' = "DOWNLOAD_BLK_SUBBLOCK_REQ"
        /\ sizeTran' = 0 /\ finished' = FALSE /\ buf' = <<>>
        /\ blksize' = MaxBlock /\ seqno' = 0 /\ crc' = <<>> /\ blockTimer' = 0
        /\ crcOn' = request.crc /\ request.cs = "initBlock"
        /\ UNCHANGED toggle
    BY <1>9, FreeEmpty DEF InitBlock, Starts, AbortTransfer
  <2>2. TypeOK'
    <3>1. buf' \in Seq(Byte) /\ crc' \in Seq(Byte) /\ crcOn' \in BOOLEAN
      BY <1>2, <2>1
    <3>2. state' \in States /\ request' \in Frames \cup {None} /\ obj' \in Object \cup {Missing}
          /\ offset' \in Nat /\ sizeInd' \in Nat /\ sizeTran' \in Nat
      BY <1>3, <1>4, <1>6, <2>1
    <3>3. finished' \in BOOLEAN
      BY <1>0, <2>1 DEF TypeOK
    <3>5. toggle' \in {0, 1} /\ content' \in [Object -> Seq(Byte)]
      BY <1>0, <1>4, <2>1 DEF TypeOK
    <3>6. blksize' \in 0 .. MaxBlock /\ seqno' \in 0 .. MaxBlock
      BY <1>0, <1>5, <2>1 DEF TypeOK
    <3>7. timer' \in 0 .. Timeout /\ blockTimer' \in 0 .. BlockTimeout
      BY <1>0, <1>4, <1>5, <2>1 DEF TypeOK
    <3>4. crcOn' \in BOOLEAN /\ buf' \in Seq(Byte) /\ crc' \in Seq(Byte)
      BY <1>0, <2>1, <3>1 DEF TypeOK
    <3> QED BY <3>2, <3>3, <3>4, <3>5, <3>6, <3>7 DEF TypeOK
  <2>3. BufferFits'
    <3>1. SegBytes * (MaxBlock - 0) = MaxBlock * SegBytes
      BY <1>5, SMT
    <3>2. SegBytes * (MaxBlock - 0) + 2 <= BufferSize
      BY <3>1, BufferAssumption
    <3>3. Len(buf') = 0 /\ seqno' = 0 /\ blksize' = MaxBlock
      BY <2>1
    <3>4. Len(buf') + SegBytes * (blksize' - seqno') + 2 <= BufferSize
      BY <1>5, <3>2, <3>3
    <3>5. seqno' < blksize' /\ Len(buf') <= BufferSize
      BY <1>5, <3>3
    <3> QED BY <2>1, <3>4, <3>5 DEF BufferFits
  <2>4. Accounted'
    <3>1. SubSeq(content'[obj'], 1, 0) = <<>>
      BY <1>0, <1>4, <1>6 DEF TypeOK
    <3> QED BY <1>4, <2>1, <3>1 DEF Accounted
  <2>5. Dictionary' /\ InTime'
    BY <1>0, <1>1, <1>4, <1>5, <2>1 DEF Dictionary, Sized, InTime
  <2> QED BY <2>2, <2>3, <2>4, <2>5 DEF IInv
<1> QED BY <1>7, <1>8, <1>9

\* A segment: the buffer is emptied in time.
LEMMA SegmentKeeps ==
  ASSUME IInv, DownloadSegment
  PROVE  IInv'
<1>0. TypeOK /\ BufferFits /\ Accounted /\ Dictionary /\ InTime
  BY DEF IInv
<1>1. /\ request \in Frames /\ request.cs = "segment" /\ state = "DOWNLOAD_SEGMENT_REQ"
  BY <1>0 DEF DownloadSegment, TypeOK
<1>2. PICK data, last, b, total :
        /\ data = request.data /\ last = request.last
        /\ b = buf \o data /\ total = sizeTran + Len(data)
  OBVIOUS
<1>3. /\ data \in Seq(Byte) /\ last \in BOOLEAN /\ Len(data) <= SegBytes
      /\ buf \in Seq(Byte) /\ sizeTran \in Nat /\ toggle \in {0, 1}
  BY <1>0, <1>1, <1>2, SegmentFrame DEF TypeOK
<1>4. /\ b \in Seq(Byte) /\ Len(b) = Len(buf) + Len(data)
      /\ Len(buf) \in Nat /\ Len(data) \in Nat /\ Len(b) \in Nat
      /\ total = sizeTran + Len(data) /\ total \in Nat
  <2>1. b = buf \o data /\ total = sizeTran + Len(data)
    BY <1>2
  <2> QED BY <1>3, <2>1, Appended
<1>5. SegBytes \in Nat /\ BufferSize \in Nat /\ Timeout \in Nat /\ Timeout > 0
  BY SegmentAssumption, BufferAssumption, TimeoutAssumption
<1>6. Len(b) <= BufferSize
  BY <1>0, <1>1, <1>3, <1>4, <1>5 DEF BufferFits
<1>7. obj \in Writable /\ obj \in Object /\ WithinObject /\ offset \in Nat
      /\ sizeTran = offset + Len(buf)
  BY <1>0, <1>1, OffsetWithin DEF Dictionary, Sized, TypeOK, Accounted
<1>8. /\ finished' = last /\ sizeTran' = total
      /\ request' = None /\ timer' = 0
      /\ UNCHANGED <<obj, sizeInd, blksize, seqno, crcOn, blockTimer>>
  BY <1>2 DEF DownloadSegment, Processed
<1>9. PICK code \in Codes \cup {"none"} :
        /\ IF Size[obj] # 0 /\ total > Size[obj]
           THEN code = "long" /\ buf' = b /\ UNCHANGED <<crc, content, offset>>
           ELSE IF MustFlush(b, last)
           THEN ValidateAndWrite(b, total, last, crc, TRUE, code)
           ELSE code = "none" /\ buf' = b /\ UNCHANGED <<crc, content, offset>>
        /\ IF code # "none"
           THEN AbortTransfer(obj, code) /\ UNCHANGED toggle
           ELSE /\ state' = IF last THEN "IDLE" ELSE state
                /\ toggle' = 1 - toggle
  BY <1>2 DEF DownloadSegment
<1>14. total = offset + Len(b)
  BY <1>4, <1>7
<1>10. state' \in {"IDLE", state} /\ toggle' \in {0, 1}
  BY <1>3, <1>9 DEF AbortTransfer
<1>11. crc \in Seq(Byte) /\ content \in [Object -> Seq(Byte)]
  BY <1>0 DEF TypeOK
<1>12. CASE /\ ~(Size[obj] # 0 /\ total > Size[obj])
            /\ MustFlush(b, last)
  <2>1. ValidateAndWrite(b, total, last, crc, TRUE, code)
    BY <1>9, <1>12
  <2>2. /\ content' \in [Object -> Seq(Byte)]
        /\ Sized'
        /\ offset' \in Nat /\ buf' \in Seq(Byte) /\ crc' \in Seq(Byte)
        /\ Len(buf') <= Len(b)
        /\ code = "none" /\ ~last => Flushed(b)
    <3>1. \E crcRight \in BOOLEAN : ValidateAndWrite(b, total, last, crc, crcRight, code)
      BY <2>1, Zenon
    <3>2. TypeOK /\ Dictionary /\ obj \in Writable /\ WithinObject /\ obj' = obj
      BY <1>0, <1>7, <1>8
    <3>3. b \in Seq(Byte) /\ total \in Nat /\ last \in BOOLEAN /\ crc \in Seq(Byte)
      BY <1>3, <1>4, <1>11
    <3> QED BY <3>1, <3>2, <3>3, WriteVerified
  <2>3. TypeOK'
    BY <1>0, <1>1, <1>3, <1>4, <1>5, <1>8, <1>10, <2>2 DEF TypeOK, States
  <2>4. CASE state' = "IDLE"
    <3>1. Len(buf') <= BufferSize
      BY <1>4, <1>5, <1>6, <2>2
    <3> QED BY <2>2, <2>3, <2>4, <3>1, EndsIdle
  <2>5. CASE state' = state /\ code = "none" /\ ~last
    <3>1. /\ buf' = <<>> /\ Len(buf') = 0
          /\ offset' = offset + Len(b) /\ AtEnd'
      BY <2>2, <2>5 DEF Flushed
    <3>2. BufferFits'
      BY <1>1, <1>5, <2>5, <3>1, OneSegmentFits DEF BufferFits
    <3>3. Accounted'
      <4>1. sizeTran' = offset' + Len(buf')
        BY <1>7, <1>8, <1>14, <3>1
      <4> QED BY <1>1, <1>8, <2>5, <3>1, <4>1 DEF Accounted, AtEnd
    <3>4. Dictionary' /\ InTime'
      BY <1>1, <1>5, <1>7, <1>8, <2>2, <2>5 DEF Dictionary, Sized, InTime
    <3> QED BY <2>3, <3>2, <3>3, <3>4 DEF IInv
  <2> QED BY <1>1, <1>9, <1>10, <2>4, <2>5 DEF AbortTransfer
<1>13. CASE ~(/\ ~(Size[obj] # 0 /\ total > Size[obj])
              /\ MustFlush(b, last))
  <2>1. buf' = b /\ UNCHANGED <<crc, content, offset>>
    BY <1>9, <1>13
  <2>2. TypeOK'
    BY <1>0, <1>1, <1>3, <1>4, <1>5, <1>8, <1>10, <2>1 DEF TypeOK, States
  <2>3. CASE state' = "IDLE"
    BY <1>0, <1>6, <2>1, <2>2, <2>3, EndsIdle DEF Dictionary, Sized
  <2>4. CASE state' = state /\ code = "none"
    <3>1. ~MustFlush(b, last)
      BY <1>9, <1>13, <2>4
    <3>2. BufferFits'
      <4>1. Len(b) + SegBytes + 2 <= BufferSize
        BY <1>5, <1>14, <3>1 DEF MustFlush
      <4> QED BY <1>1, <1>6, <2>1, <2>4, <4>1 DEF BufferFits
    <3>3. Accounted'
      BY <1>0, <1>1, <1>8, <1>14, <2>1, <2>4 DEF Accounted
    <3>4. Dictionary' /\ InTime'
      BY <1>0, <1>1, <1>5, <1>8, <2>1, <2>4 DEF Dictionary, Sized, InTime
    <3> QED BY <2>2, <3>2, <3>3, <3>4 DEF IInv
  <2> QED BY <1>1, <1>9, <1>10, <2>3, <2>4 DEF AbortTransfer
<1> QED BY <1>12, <1>13

\* The end of a block download.
LEMMA EndKeeps ==
  ASSUME IInv, EndBlock
  PROVE  IInv'
<1>0. TypeOK /\ BufferFits /\ Accounted /\ Dictionary /\ InTime
  BY DEF IInv
<1>1. /\ request \in Frames /\ request.cs = "endBlock" /\ state = "DOWNLOAD_BLK_END_REQ"
  BY <1>0 DEF EndBlock, TypeOK
<1>2. PICK noData : noData = request.noData
  OBVIOUS
<1>3. /\ noData \in Nat
      /\ buf \in Seq(Byte) /\ Len(buf) \in Nat /\ sizeTran \in Nat /\ crc \in Seq(Byte)
      /\ finished \in BOOLEAN /\ crcOn \in BOOLEAN
      /\ content \in [Object -> Seq(Byte)]
  BY <1>0, <1>1, <1>2, EndFrame DEF TypeOK
<1>4. obj \in Writable /\ obj \in Object /\ WithinObject /\ offset \in Nat
      /\ sizeTran = offset + Len(buf)
  BY <1>0, <1>1, OffsetWithin DEF Dictionary, TypeOK, Accounted
<1>5. /\ request' = None /\ timer' = 0 /\ state' = "IDLE"
      /\ UNCHANGED <<obj, sizeInd, finished, toggle, blksize, seqno, crcOn, blockTimer>>
  BY DEF EndBlock, Processed, AbortTransfer
<1>6. Timeout \in Nat /\ Timeout > 0 /\ BufferSize \in Nat
  BY TimeoutAssumption, BufferAssumption
<1>7. Len(buf) <= BufferSize
  BY <1>0 DEF BufferFits
<1>8. CASE Len(buf) <= noData
  <2>1. UNCHANGED <<sizeTran, buf, crc, content, offset>>
    BY <1>2, <1>8 DEF EndBlock
  <2>2. TypeOK'
    BY <1>0, <1>5, <1>6, <2>1 DEF TypeOK, States
  <2> QED BY <1>0, <1>5, <1>7, <2>1, <2>2, EndsIdle DEF Dictionary, Sized
<1>9. CASE ~(Len(buf) <= noData)
  <2>1. PICK b, total, newCrc :
          /\ b = SubSeq(buf, 1, Len(buf) - noData) /\ total = sizeTran - noData
          /\ newCrc = IF crcOn THEN crc \o b ELSE crc
    OBVIOUS
  <2>2. Len(buf) - noData \in 1 .. Len(buf)
    BY <1>3, <1>9
  <2>3. b \in Seq(Byte) /\ Len(b) = Len(buf) - noData
    BY <1>3, <2>1, <2>2
  <2>4. total \in Nat
    BY <1>3, <1>4, <1>9, <2>1
  <2>5. newCrc \in Seq(Byte)
    BY <1>3, <2>1, <2>3, Appended
  <2>6. /\ sizeTran' = total
        /\ \E code : ValidateAndWrite(b, total, finished, newCrc, CrcRight(newCrc), code)
    BY <1>2, <1>9, <2>1 DEF EndBlock
  <2>7. PICK code : \E crcRight \in BOOLEAN :
          ValidateAndWrite(b, total, finished, newCrc, crcRight, code)
    <3>1. CrcRight(newCrc) \in BOOLEAN
      BY DEF CrcRight
    <3> QED BY <2>6, <3>1, Zenon
  <2>8. /\ content' \in [Object -> Seq(Byte)] /\ Sized'
        /\ offset' \in Nat /\ buf' \in Seq(Byte) /\ crc' \in Seq(Byte)
        /\ Len(buf') <= Len(b)
    <3>1. TypeOK /\ Dictionary /\ obj \in Writable /\ WithinObject /\ obj' = obj
      BY <1>0, <1>4, <1>5
    <3>2. b \in Seq(Byte) /\ finished \in BOOLEAN
      BY <1>3, <2>3
    <3> QED BY <2>4, <2>5, <2>7, <3>1, <3>2, WriteVerified
  <2>9. TypeOK'
    BY <1>0, <1>5, <1>6, <2>4, <2>6, <2>8 DEF TypeOK, States
  <2>10. Len(buf') <= BufferSize
    BY <1>3, <1>6, <1>7, <2>2, <2>3, <2>8
  <2> QED BY <1>5, <2>8, <2>9, <2>10, EndsIdle
<1> QED BY <1>8, <1>9

\* The calls without a request, but for the answer to a sub-block.
LEMMA WaitingKeeps ==
  ASSUME IInv, NEW dt \in {0, 1}, TransferTimeout(dt) \/ Idle(dt)
  PROVE  IInv'
<1> USE DEF transferVars, blockVars, timerVars
<1>0. TypeOK /\ BufferFits /\ Accounted /\ Dictionary /\ InTime
  BY DEF IInv
<1>1. /\ state # "IDLE" /\ request' = request /\ timer' = timer + dt /\ timer' \in 0 .. Timeout
      /\ Timeout \in Nat /\ BlockTimeout \in Nat
  BY <1>0, TimeoutAssumption DEF TransferTimeout, Idle, Waits, TypeOK, InTime
<1>2. CASE TransferTimeout(dt)
  BY <1>0, <1>1, <1>2, EndsIdle
     DEF TransferTimeout, AbortTransfer, TypeOK, States, BufferFits, Dictionary, Sized
<1>3. CASE Idle(dt)
  <2>1. /\ UNCHANGED <<state, transferVars, blockVars, content>>
        /\ timer' < Timeout
        /\ state = "DOWNLOAD_BLK_SUBBLOCK_REQ" => blockTimer + dt < BlockTimeout /\ blockTimer' = blockTimer + dt
        /\ state # "DOWNLOAD_BLK_SUBBLOCK_REQ" => blockTimer' = blockTimer
    BY <1>0, <1>1, <1>3 DEF Idle, Waits, SubBlockOver, TypeOK
  <2>2. blockTimer' \in 0 .. BlockTimeout
    BY <1>0, <1>1, <2>1 DEF TypeOK
  <2>3. TypeOK'
    BY <1>0, <1>1, <2>1, <2>2 DEF TypeOK
  <2>4. BufferFits' /\ Accounted' /\ Dictionary'
    BY <1>0, <2>1 DEF BufferFits, Accounted, Dictionary, Sized
  <2>5. InTime'
    BY <1>0, <1>1, <2>1 DEF InTime
  <2> QED BY <2>3, <2>4, <2>5 DEF IInv
<1> QED BY <1>2, <1>3

\* The answer to a sub-block: the bytes in the buffer go to the object, unless
\* a whole sub-block fits behind them, and the next sub-block fits.
LEMMA ResponseKeeps ==
  ASSUME IInv, NEW dt \in {0, 1}, SubBlockResponse(dt)
  PROVE  IInv'
<1>0. TypeOK /\ BufferFits /\ Accounted /\ Dictionary /\ InTime
  BY DEF IInv
<1>1. /\ state \in {"DOWNLOAD_BLK_SUBBLOCK_REQ", "DOWNLOAD_BLK_SUBBLOCK_RSP"}
      /\ request' = request /\ timer' = timer + dt /\ timer + dt < Timeout
      /\ UNCHANGED <<obj, sizeInd, sizeTran, finished, toggle, crcOn>>
  BY DEF SubBlockResponse, SubBlockOver, Waits
<1>2. /\ SegBytes \in Nat /\ MaxBlock \in Nat \ {0} /\ BufferSize \in Nat
      /\ Timeout \in Nat /\ BlockTimeout \in Nat /\ BlockTimeout > 0
  BY SegmentAssumption, BufferAssumption, TimeoutAssumption
<1>3. timer' \in 0 .. Timeout /\ timer' < Timeout
  BY <1>0, <1>1, <1>2 DEF TypeOK
<1>4. /\ buf \in Seq(Byte) /\ crc \in Seq(Byte) /\ content \in [Object -> Seq(Byte)]
      /\ sizeTran \in Nat /\ offset \in Nat /\ crcOn \in BOOLEAN /\ Len(buf) \in Nat
  BY <1>0 DEF TypeOK
<1>5. Len(buf) + 2 <= BufferSize
  <2>1. CASE state = "DOWNLOAD_BLK_SUBBLOCK_REQ"
    BY <1>0, <1>2, <1>4, <2>1, RoomForOneMore
  <2> QED BY <1>0, <1>1, <2>1 DEF BufferFits
<1>6. /\ obj \in Writable /\ obj \in Object /\ WithinObject
      /\ sizeTran = offset + Len(buf)
      /\ crcOn => crc = SubSeq(content[obj], 1, offset)
  BY <1>0, <1>1, OffsetWithin DEF Dictionary, Accounted
<1>7. CASE finished
  <2>1. /\ state' = "DOWNLOAD_BLK_END_REQ" /\ blockTimer' = 0
        /\ UNCHANGED <<seqno, blksize, buf, crc, content, offset>>
    BY <1>7 DEF SubBlockResponse
  <2>2. TypeOK'
    BY <1>0, <1>1, <1>2, <1>3, <2>1 DEF TypeOK, States
  <2>3. BufferFits'
    <3>1. Len(buf) <= BufferSize
      BY <1>2, <1>4, <1>5
    <3> QED BY <1>5, <2>1, <3>1 DEF BufferFits
  <2>4. Accounted' /\ Dictionary' /\ InTime'
    BY <1>0, <1>1, <1>3, <2>1 DEF Accounted, Dictionary, Sized, InTime
  <2> QED BY <2>2, <2>3, <2>4 DEF IInv
<1>8. CASE ~finished
  <2>1. PICK newCrc : newCrc = IF crcOn THEN crc \o buf ELSE crc
    OBVIOUS
  <2>2. newCrc \in Seq(Byte)
    BY <1>4, <2>1, Appended
  <2>3. PICK code :
          /\ IF FreeSegments(Len(buf)) < MaxBlock /\ buf # <<>>
             THEN ValidateAndWrite(buf, sizeTran, FALSE, newCrc, TRUE, code)
             ELSE code = "none" /\ UNCHANGED <<buf, crc, content, offset>>
          /\ IF code # "none"
             THEN /\ state' = "IDLE"
                  /\ blockTimer' = IF state = "DOWNLOAD_BLK_SUBBLOCK_REQ" THEN blockTimer + dt ELSE blockTimer
                  /\ UNCHANGED <<seqno, blksize>>
             ELSE /\ state' = "DOWNLOAD_BLK_SUBBLOCK_REQ" /\ blockTimer' = 0
                  /\ seqno' = 0 /\ blksize' = FreeSegments(Len(buf'))
    BY <1>8, <2>1 DEF SubBlockResponse, AbortTransfer
  <2>4. Len(buf) <= BufferSize
    BY <1>2, <1>4, <1>5
  \* Whatever was written, the buffer holds no more than before.
  <2>5. /\ content' \in [Object -> Seq(Byte)] /\ Sized'
        /\ offset' \in Nat /\ buf' \in Seq(Byte) /\ crc' \in Seq(Byte)
        /\ Len(buf') <= Len(buf)
        /\ FreeSegments(Len(buf)) < MaxBlock /\ buf # <<>> /\ code = "none" => Flushed(buf) /\ crc' = newCrc
    <3>1. CASE FreeSegments(Len(buf)) < MaxBlock /\ buf # <<>>
      <4>1. \E crcRight \in BOOLEAN : ValidateAndWrite(buf, sizeTran, FALSE, newCrc, crcRight, code)
        BY <2>3, <3>1, Zenon
      <4>2. PICK done \in BOOLEAN : ~done /\
              \E crcRight \in BOOLEAN : ValidateAndWrite(buf, sizeTran, done, newCrc, crcRight, code)
        BY <4>1, Zenon
      <4>3. TypeOK /\ Dictionary /\ obj \in Writable /\ WithinObject /\ obj' = obj
        BY <1>0, <1>1, <1>6
      <4>4. buf \in Seq(Byte) /\ sizeTran \in Nat
        BY <1>4
      <4> QED BY <2>2, <4>2, <4>3, <4>4, WriteVerified
    <3>2. CASE ~(FreeSegments(Len(buf)) < MaxBlock /\ buf # <<>>)
      <4>1. UNCHANGED <<buf, crc, content, offset>>
        BY <2>3, <3>2
      <4>2. Len(buf') = Len(buf)
        BY <4>1
      <4> QED BY <1>0, <1>4, <3>2, <4>1, <4>2 DEF Dictionary, Sized
    <3> QED BY <3>1, <3>2
  <2>6. Len(buf') \in Nat
    BY <2>5
  <2>7. CASE code # "none"
    <3>1. blockTimer' \in 0 .. BlockTimeout
      BY <1>0, <1>1, <1>2, <2>3, <2>7 DEF TypeOK, InTime
    <3>2. TypeOK'
      BY <1>0, <1>1, <1>3, <2>3, <2>5, <2>7, <3>1 DEF TypeOK, States
    <3>3. Len(buf') <= BufferSize
      BY <1>2, <1>4, <2>4, <2>5, <2>6
    <3> QED BY <2>3, <2>5, <2>7, <3>2, <3>3, EndsIdle
  <2>8. CASE code = "none"
    <3>1. /\ state' = "DOWNLOAD_BLK_SUBBLOCK_REQ" /\ blockTimer' = 0
          /\ seqno' = 0 /\ blksize' = FreeSegments(Len(buf'))
      BY <2>3, <2>8
    <3>2. Len(buf') + 2 <= BufferSize
      BY <1>2, <1>4, <1>5, <2>5, <2>6
    <3>3. /\ FreeSegments(Len(buf')) \in 0 .. MaxBlock
          /\ Len(buf') + SegBytes * FreeSegments(Len(buf')) + 2 <= BufferSize
      BY <2>6, <3>2, FreeFits
    \* The buffer was emptied, or was empty, or had room for all.
    <3>4. FreeSegments(Len(buf')) = MaxBlock
      <4>1. CASE FreeSegments(Len(buf)) < MaxBlock /\ buf # <<>>
        <5>1. Len(buf') = 0
          BY <2>5, <2>8, <4>1 DEF Flushed
        <5> QED BY <5>1, FreeEmpty
      <4>2. CASE buf = <<>>
        <5>1. buf' = <<>>
          BY <2>3, <4>2
        <5>2. Len(buf') = 0
          BY <5>1
        <5> QED BY <5>2, FreeEmpty
      <4>3. CASE ~(FreeSegments(Len(buf)) < MaxBlock) /\ buf # <<>>
        <5>1. buf' = buf
          BY <2>3, <4>3
        <5>2. FreeSegments(Len(buf)) \in 0 .. MaxBlock
          BY <1>4, <1>5, FreeFits
        <5> QED BY <1>2, <4>3, <5>1, <5>2
      <4> QED BY <4>1, <4>2, <4>3
    <3>5. TypeOK'
      BY <1>0, <1>1, <1>2, <1>3, <2>5, <3>1, <3>3 DEF TypeOK, States
    <3>6. BufferFits'
      <4>1. blksize' - seqno' = blksize' /\ seqno' < blksize'
        BY <1>2, <3>1, <3>4
      <4>2. Len(buf') + SegBytes * (blksize' - seqno') + 2 <= BufferSize
        BY <3>1, <3>3, <4>1
      <4>3. Len(buf') <= BufferSize
        BY <1>2, <1>4, <2>4, <2>5, <2>6
      <4> QED BY <3>1, <4>1, <4>2, <4>3 DEF BufferFits
    \* The CRC runs over the bytes that have gone to the object.
    <3>7. Accounted'
      <4>1. CASE FreeSegments(Len(buf)) < MaxBlock /\ buf # <<>>
        <5>1. Flushed(buf) /\ crc' = newCrc
          BY <2>5, <2>8, <4>1
        <5>2. sizeTran' = offset' + Len(buf')
          BY <1>1, <1>4, <1>6, <5>1 DEF Flushed
        <5>3. content'[obj] \in Seq(Byte) /\ offset' = Len(content'[obj])
          BY <1>1, <1>6, <2>5, <5>1 DEF Flushed, AtEnd
        <5>4. SubSeq(content'[obj], 1, offset') = content'[obj]
          BY <5>3, WholePrefix
        <5>5. crcOn => crc' = content'[obj]
          BY <1>6, <2>1, <5>1 DEF Flushed
        <5> QED BY <1>1, <5>1, <5>2, <5>4, <5>5 DEF Accounted, Flushed, AtEnd
      <4>2. CASE ~(FreeSegments(Len(buf)) < MaxBlock /\ buf # <<>>)
        <5>1. UNCHANGED <<buf, crc, content, offset>>
          BY <2>3, <4>2
        <5> QED BY <1>0, <1>1, <5>1 DEF Accounted
      <4> QED BY <4>1, <4>2
    <3>8. Dictionary' /\ InTime'
      BY <1>1, <1>2, <1>3, <1>6, <2>5, <3>1 DEF Dictionary, InTime
    <3> QED BY <3>5, <3>6, <3>7, <3>8 DEF IInv
  <2> QED BY <2>7, <2>8
<1> QED BY <1>7, <1>8

----------------------------------------------------------------------------
(* What a confirmation says.                                               *)

Answers ==
       [cs : {"abort"}, obj : Object \cup {Missing}, code : Codes]
  \cup [cs : {"uploaded"}, obj : Object, data : Seq(Byte)]
  \cup [cs : {"written"}, obj : Object]
  \cup [cs : {"segmentAck"}, toggle : {0, 1}]
  \cup [cs : {"blockOpen"}, obj : Object, blksize : 0 .. MaxBlock]
  \cup [cs : {"blockAck"}, seqno : 0 .. MaxBlock, blksize : 0 .. MaxBlock]
  \cup [cs : {"blockDone"}]

\* The end of a block download is awaited only behind its last segment, and the
\* transmit queue holds answers.
Ending ==
  /\ state = "DOWNLOAD_BLK_END_REQ" => finished
  /\ out \in Seq(Answers)

Confirming == Confirms => Whole

\* What an answer adds to the queue.
LEMMA Replied ==
  ASSUME out \in Seq(Answers), NEW m \in Answers, Reply(m)
  PROVE  out' \in Seq(Answers) /\ \A c : Sent(c) => c = m.cs
<1>1. CASE Len(out) < TxSize
  <2>1. out' = Append(out, m)
    BY <1>1 DEF Reply
  <2>2. out' \in Seq(Answers) /\ Len(out') = Len(out) + 1 /\ out'[Len(out) + 1] = m
    BY <2>1
  <2> QED BY <2>2 DEF Sent
<1>2. CASE ~(Len(out) < TxSize)
  BY <1>2 DEF Reply, Sent
<1> QED BY <1>1, <1>2

\* An abort confirms nothing.
LEMMA AbortConfirmsNothing ==
  ASSUME out \in Seq(Answers), NEW o \in Object \cup {Missing}, NEW code \in Codes, AbortTransfer(o, code)
  PROVE  Ending' /\ ~Confirms
<1>1. PICK m \in Answers : m = [cs |-> "abort", obj |-> o, code |-> code] /\ Reply(m)
  BY DEF AbortTransfer, Answers
<1>2. m.cs = "abort" /\ state' = "IDLE"
  BY <1>1 DEF AbortTransfer
<1> QED BY <1>1, <1>2, Replied DEF Ending, Confirms

\* Nor does a call that sends nothing.
LEMMA SilenceConfirmsNothing ==
  ASSUME out \in Seq(Answers), out' = out \/ (out # <<>> /\ out' = Tail(out))
  PROVE  out' \in Seq(Answers) /\ ~Confirms
BY DEF Confirms, Sent

LEMMA RefusalsConfirmNothing ==
  ASSUME IInv, Ending, RefuseCommand \/ RefuseObject \/ RefuseFrame \/ RepeatSegment
  PROVE  Ending' /\ ~Confirms
<1>0. TypeOK /\ out \in Seq(Answers) /\ obj \in Object \cup {Missing}
  BY DEF IInv, TypeOK, Ending
<1>1. "cmd" \in Codes /\ "access" \in Codes
  BY DEF Codes
<1>2. CASE RefuseCommand \/ RefuseFrame
  <2>1. AbortTransfer(obj, "cmd")
    BY <1>2 DEF RefuseCommand, RefuseFrame
  <2> QED BY <1>0, <1>1, <2>1, AbortConfirmsNothing
<1>3. CASE RefuseObject
  <2>1. request \in Frames /\ request.cs \in Initiating /\ AbortTransfer(request.obj, "access")
    BY <1>0, <1>3 DEF RefuseObject, TypeOK
  <2>2. request.obj \in Object \cup {Missing}
    BY <2>1, InitFrame
  <2> QED BY <1>0, <1>1, <2>1, <2>2, AbortConfirmsNothing
<1>4. CASE RepeatSegment
  <2>1. request \in Frames /\ request.cs = "segment" /\ state' = "DOWNLOAD_SEGMENT_REQ"
    BY <1>0, <1>4 DEF RepeatSegment, TypeOK
  <2>2. PICK m \in Answers : m = [cs |-> "segmentAck", toggle |-> request.toggle] /\ Reply(m)
    BY <1>4, <2>1, SegmentFrame DEF RepeatSegment, Answers
  <2> QED BY <1>0, <2>1, <2>2, Replied DEF Ending, Confirms
<1> QED BY <1>2, <1>3, <1>4

LEMMA InitiationsConfirmNothing ==
  ASSUME IInv, Ending, Upload \/ ExpeditedDownload \/ InitSegmented \/ InitBlock
  PROVE  Ending' /\ ~Confirms
<1> DEFINE o == request.obj
<1>0. /\ TypeOK /\ out \in Seq(Answers) /\ state = "IDLE"
      /\ Codes = {"cmd", "timeout", "access", "long", "short", "crc", "incompatible", "write"}
  BY DEF IInv, Ending, Upload, ExpeditedDownload, InitSegmented, InitBlock, Starts, Codes
<1>1. o \in Object
  BY ObjectAssumption DEF Upload, ExpeditedDownload, InitSegmented, InitBlock, Starts, Allowed
<1>2. ASSUME NEW code \in Codes, AbortTransfer(o, code) PROVE Ending' /\ ~Confirms
  <2>1. o \in Object \cup {Missing}
    BY <1>1
  <2> QED BY <1>0, <1>2, <2>1, AbortConfirmsNothing
<1>3. ASSUME NEW m \in Answers, Reply(m), m.cs # "blockDone", state' # "DOWNLOAD_BLK_END_REQ"
      PROVE  Ending' /\ ~Confirms
  BY <1>0, <1>3, Replied DEF Ending, Confirms
<1>4. CASE Upload
  <2>1. [cs |-> "uploaded", obj |-> o, data |-> content[o]] \in Answers
    BY <1>0, <1>1 DEF Answers, TypeOK
  <2> QED BY <1>3, <1>4, <2>1 DEF Upload
<1>5. ASSUME Reply([cs |-> "written", obj |-> o]), state' # "DOWNLOAD_BLK_END_REQ"
      PROVE  Ending' /\ ~Confirms
  <2>1. [cs |-> "written", obj |-> o] \in Answers
    BY <1>1 DEF Answers
  <2> QED BY <1>3, <1>5, <2>1
<1>6. CASE ExpeditedDownload
  <2>1. \/ \E code \in Codes : AbortTransfer(o, code)
        \/ Reply([cs |-> "written", obj |-> o]) /\ state' = "IDLE"
    BY <1>0, <1>6 DEF ExpeditedDownload
  <2> QED BY <1>2, <1>5, <2>1
<1>7. IndicatedVerdict(o) # "none" => IndicatedVerdict(o) \in Codes
  BY <1>0 DEF IndicatedVerdict
<1>8. CASE InitSegmented
  <2>1. \/ \E code \in Codes : AbortTransfer(o, code)
        \/ Reply([cs |-> "written", obj |-> o]) /\ state' = "DOWNLOAD_SEGMENT_REQ"
    BY <1>7, <1>8 DEF InitSegmented
  <2> QED BY <1>2, <1>5, <2>1
<1>9. CASE InitBlock
  <2>1. [cs |-> "blockOpen", obj |-> o, blksize |-> FreeSegments(0)] \in Answers
    BY <1>1, FreeEmpty, BufferAssumption DEF Answers
  <2>2. \/ \E code \in Codes : AbortTransfer(o, code)
        \/ /\ Reply([cs |-> "blockOpen", obj |-> o, blksize |-> FreeSegments(0)])
           /\ state' = "DOWNLOAD_BLK_SUBBLOCK_REQ"
    BY <1>7, <1>9 DEF InitBlock
  <2> QED BY <1>2, <1>3, <2>1, <2>2
<1> QED BY <1>4, <1>6, <1>8, <1>9

LEMMA ReceivingConfirmsNothing ==
  ASSUME IInv, Ending, NEW m \in Frames, Receive(m)
  PROVE  Ending' /\ ~Confirms
<1>1. out' = out /\ out \in Seq(Answers)
  BY DEF Receive, ReceiveAbort, ReceiveRequest, ReceiveBlock, Ending
<1>2. state' = "DOWNLOAD_BLK_END_REQ" => state = "DOWNLOAD_BLK_END_REQ" /\ finished' = finished
  BY DEF Receive, ReceiveAbort, ReceiveRequest, ReceiveBlock, transferVars
<1> QED BY <1>1, <1>2, SilenceConfirmsNothing DEF Ending

LEMMA PollingConfirmsNothing ==
  ASSUME IInv, Ending, NEW dt \in {0, 1}, Poll(dt)
  PROVE  Ending' /\ ~Confirms
<1>0. TypeOK /\ out \in Seq(Answers) /\ obj \in Object \cup {Missing}
  BY DEF IInv, TypeOK, Ending
<1>1. ASSUME NEW code \in Codes, AbortTransfer(obj, code) PROVE Ending' /\ ~Confirms
  BY <1>0, <1>1, AbortConfirmsNothing
<1>2. CASE TransferTimeout(dt)
  <2>1. "timeout" \in Codes
    BY DEF Codes
  <2> QED BY <1>1, <1>2, <2>1 DEF TransferTimeout
<1>3. CASE Idle(dt)
  BY <1>0, <1>3, SilenceConfirmsNothing DEF Idle, Ending, transferVars
<1>4. CASE SubBlockResponse(dt)
  <2>1. ASSUME NEW n \in 0 .. MaxBlock,
               Reply([cs |-> "blockAck", seqno |-> seqno, blksize |-> n]),
               state' \in {"DOWNLOAD_BLK_END_REQ", "DOWNLOAD_BLK_SUBBLOCK_REQ"},
               state' = "DOWNLOAD_BLK_END_REQ" => finished'
        PROVE  Ending' /\ ~Confirms
    <3>1. PICK m \in Answers : m.cs = "blockAck" /\ Reply(m)
      <4>1. [cs |-> "blockAck", seqno |-> seqno, blksize |-> n] \in Answers
        BY <1>0 DEF Answers, TypeOK
      <4> QED BY <2>1, <4>1
    <3> QED BY <1>0, <2>1, <3>1, Replied DEF Ending, Confirms
  <2>2. CASE finished
    <3>1. /\ state' = "DOWNLOAD_BLK_END_REQ" /\ finished' = finished
          /\ Reply([cs |-> "blockAck", seqno |-> seqno, blksize |-> blksize])
          /\ blksize \in 0 .. MaxBlock
      BY <1>0, <1>4, <2>2 DEF SubBlockResponse, TypeOK
    <3> QED BY <2>1, <2>2, <3>1
  <2>3. CASE ~finished
    <3>1. PICK code \in Codes \cup {"none"} :
            IF code # "none" THEN AbortTransfer(obj, code)
            ELSE /\ state' = "DOWNLOAD_BLK_SUBBLOCK_REQ"
                 /\ Reply([cs |-> "blockAck", seqno |-> seqno, blksize |-> FreeSegments(Len(buf'))])
                 /\ blksize' = FreeSegments(Len(buf'))
      BY <1>4, <2>3 DEF SubBlockResponse
    <3>2. blksize' \in 0 .. MaxBlock
      BY <1>4, ResponseKeeps DEF IInv, TypeOK
    <3>3. CASE code # "none"
      BY <1>1, <3>1, <3>3
    <3>4. CASE code = "none"
      BY <2>1, <3>1, <3>2, <3>4
    <3> QED BY <3>3, <3>4
  <2> QED BY <2>2, <2>3
<1> QED BY <1>2, <1>3, <1>4 DEF Poll

\* validateAndWriteToOD with the last bytes: when it succeeds the object has
\* taken all bytes, those of before and these.
LEMMA WriteCompletes ==
  ASSUME TypeOK, Dictionary, obj \in Object, WithinObject,
         NEW b \in Seq(Byte), NEW total \in Nat, total = offset + Len(b), NEW newCrc,
         NEW crcRight \in BOOLEAN,
         ValidateAndWrite(b, total, TRUE, newCrc, crcRight, "none")
  PROVE  /\ crcRight
         /\ sizeInd # 0 => total = sizeInd
         /\ Size[obj] # 0 => total = Size[obj]
         /\ content'[obj] = SubSeq(content[obj], 1, offset) \o b
         /\ Len(content'[obj]) = total
<1>1. /\ content \in [Object -> Seq(Byte)] /\ content[obj] \in Seq(Byte)
      /\ offset \in Nat /\ sizeInd \in Nat /\ Size[obj] \in Nat /\ Len(b) \in Nat
  BY ObjectAssumption DEF TypeOK
<1>2. SizeVerdict(total, TRUE) = "none" /\ crcRight
  BY DEF ValidateAndWrite
<1>3. PICK answer \in {"ok", "partial", "error"} :
        WriteObject(obj, offset, b, answer) /\ WriteVerdict(answer, TRUE) = "none"
  BY <1>2 DEF ValidateAndWrite
<1>4. answer = "ok"
  BY <1>3 DEF WriteVerdict
<1>5. /\ sizeInd # 0 => total = sizeInd
      /\ Size[obj] # 0 => total = Size[obj]
  BY <1>1, <1>2 DEF SizeVerdict
<1>6. CASE Size[obj] # 0
  <2>1. Len(b) = Size[obj] /\ content' = [content EXCEPT ![obj] = b]
    BY <1>3, <1>4, <1>6 DEF WriteObject
  <2>2. offset = 0
    BY <1>1, <1>5, <1>6, <2>1
  <2>3. SubSeq(content[obj], 1, offset) \o b = b
    BY <1>1, <2>2
  <2> QED BY <1>1, <1>2, <1>5, <2>1, <2>2, <2>3
<1>7. CASE Size[obj] = 0
  <2>1. content' = [content EXCEPT ![obj] = SubSeq(content[obj], 1, offset) \o b]
    BY <1>3, <1>4, <1>7 DEF WriteObject
  <2>2. Len(SubSeq(content[obj], 1, offset) \o b) = offset + Len(b)
    BY <1>1, Stored DEF WithinObject
  <2> QED BY <1>1, <1>2, <1>5, <2>1, <2>2
<1> QED BY <1>6, <1>7

LEMMA SegmentConfirms ==
  ASSUME IInv, Ending, DownloadSegment
  PROVE  Ending' /\ Confirming
<1>0. TypeOK /\ Accounted /\ Dictionary /\ out \in Seq(Answers) /\ obj \in Object \cup {Missing}
  BY DEF IInv, TypeOK, Ending
<1>1. /\ request \in Frames /\ request.cs = "segment" /\ state = "DOWNLOAD_SEGMENT_REQ"
  BY <1>0 DEF DownloadSegment, TypeOK
<1>2. PICK data, last, b, total :
        /\ data = request.data /\ last = request.last
        /\ b = buf \o data /\ total = sizeTran + Len(data)
  OBVIOUS
<1>3. data \in Seq(Byte) /\ last \in BOOLEAN /\ buf \in Seq(Byte) /\ offset \in Nat /\ crc \in Seq(Byte)
  BY <1>0, <1>1, <1>2, SegmentFrame DEF TypeOK
<1>4. obj \in Object /\ WithinObject /\ sizeTran = offset + Len(buf)
  BY <1>0, <1>1, OffsetWithin DEF Accounted
<1>5. /\ b \in Seq(Byte) /\ Len(b) = Len(buf) + Len(data)
      /\ Len(buf) \in Nat /\ Len(data) \in Nat
  <2>1. b = buf \o data
    BY <1>2
  <2> QED BY <1>3, <2>1, Appended
<1>6. total \in Nat /\ total = offset + Len(b)
  <2>1. total = sizeTran + Len(data)
    BY <1>2
  <2> QED BY <1>3, <1>4, <1>5, <2>1
<1>7. sizeTran' = total /\ obj' = obj
  BY <1>2 DEF DownloadSegment
<1>8. PICK code \in Codes \cup {"none"} :
        /\ IF Size[obj] # 0 /\ total > Size[obj]
           THEN code = "long"
           ELSE MustFlush(b, last) => ValidateAndWrite(b, total, last, crc, TRUE, code)
        /\ IF code # "none"
           THEN AbortTransfer(obj, code)
           ELSE /\ state' = IF last THEN "IDLE" ELSE state
                /\ Reply([cs |-> "segmentAck", toggle |-> toggle])
  BY <1>2 DEF DownloadSegment
<1>9. CASE code # "none"
  BY <1>0, <1>8, <1>9, AbortConfirmsNothing DEF Confirming
<1>10. CASE code = "none"
  <2>1. PICK m \in Answers : m.cs = "segmentAck" /\ Reply(m)
    <3>1. [cs |-> "segmentAck", toggle |-> toggle] \in Answers
      BY <1>0 DEF Answers, TypeOK
    <3> QED BY <1>8, <1>10, <3>1
  <2>2. out' \in Seq(Answers) /\ ~Sent("blockDone")
    BY <1>0, <2>1, Replied
  <2>3. state' # "DOWNLOAD_BLK_END_REQ" /\ (state' = "IDLE" => last)
    BY <1>1, <1>3, <1>8, <1>10
  <2>4. ASSUME last PROVE Whole
    <3>1. ValidateAndWrite(b, total, TRUE, crc, TRUE, "none")
      <4>1. last = TRUE
        BY <1>3, <2>4
      <4> QED BY <1>8, <1>10, <4>1 DEF MustFlush
    <3>2. /\ sizeInd # 0 => total = sizeInd
          /\ Size[obj] # 0 => total = Size[obj]
          /\ Len(content'[obj]) = total
      BY <1>0, <1>3, <1>4, <1>5, <1>6, <3>1, WriteCompletes
    <3> QED BY <1>7, <2>2, <3>2 DEF Whole
  <2> QED BY <2>2, <2>3, <2>4 DEF Ending, Confirming, Confirms
<1> QED BY <1>9, <1>10

\* Here the CRC of the client is that of the object.
LEMMA EndConfirms ==
  ASSUME IInv, Ending, EndBlock
  PROVE  Ending' /\ Confirming
<1>0. TypeOK /\ Accounted /\ Dictionary /\ out \in Seq(Answers) /\ obj \in Object \cup {Missing}
  BY DEF IInv, TypeOK, Ending
<1>1. /\ request \in Frames /\ request.cs = "endBlock" /\ state = "DOWNLOAD_BLK_END_REQ"
      /\ finished = TRUE
  BY <1>0 DEF EndBlock, TypeOK, Ending
<1>2. /\ request.noData \in Nat
      /\ buf \in Seq(Byte) /\ Len(buf) \in Nat /\ crc \in Seq(Byte) /\ offset \in Nat
  BY <1>0, <1>1, EndFrame DEF TypeOK
<1>3. /\ obj \in Object /\ WithinObject /\ sizeTran = offset + Len(buf)
      /\ crcOn => crc = SubSeq(content[obj], 1, offset)
  BY <1>0, <1>1, OffsetWithin DEF Accounted
<1>4. /\ state' = "IDLE" /\ obj' = obj
  BY DEF EndBlock, AbortTransfer
<1>5. CASE Len(buf) <= request.noData
  <2>1. AbortTransfer(obj, "incompatible") /\ "incompatible" \in Codes
    BY <1>5 DEF EndBlock, Codes
  <2> QED BY <1>0, <2>1, AbortConfirmsNothing DEF Confirming
<1>6. CASE ~(Len(buf) <= request.noData)
  <2>1. PICK b, total, newCrc :
          /\ b = SubSeq(buf, 1, Len(buf) - request.noData) /\ total = sizeTran - request.noData
          /\ newCrc = IF crcOn THEN crc \o b ELSE crc
    OBVIOUS
  <2>2. Len(buf) - request.noData \in 1 .. Len(buf)
    BY <1>2, <1>6
  <2>3. b \in Seq(Byte) /\ Len(b) = Len(buf) - request.noData
    BY <1>2, <2>1, <2>2
  <2>4. total \in Nat /\ total = offset + Len(b)
    <3>1. total = sizeTran - request.noData
      BY <2>1
    <3> QED BY <1>2, <1>3, <2>2, <2>3, <3>1
  <2>5. PICK code \in Codes \cup {"none"} :
          /\ sizeTran' = total
          /\ ValidateAndWrite(b, total, finished, newCrc, CrcRight(newCrc), code)
          /\ IF code # "none" THEN AbortTransfer(obj, code) ELSE Reply([cs |-> "blockDone"])
    BY <1>6, <2>1 DEF EndBlock
  <2>6. CASE code # "none"
    BY <1>0, <2>5, <2>6, AbortConfirmsNothing DEF Confirming
  <2>7. CASE code = "none"
    <3>1. PICK m \in Answers : Reply(m)
      <4>1. [cs |-> "blockDone"] \in Answers
        BY DEF Answers
      <4> QED BY <2>5, <2>7, <4>1
    <3>2. Ending'
      BY <1>0, <1>4, <3>1, Replied DEF Ending
    <3>3. PICK crcRight \in BOOLEAN :
            crcRight = CrcRight(newCrc) /\ ValidateAndWrite(b, total, TRUE, newCrc, crcRight, "none")
      <4>1. CrcRight(newCrc) \in BOOLEAN
        BY DEF CrcRight
      <4> QED BY <1>1, <2>5, <2>7, <4>1
    <3>4. /\ crcRight
          /\ sizeInd # 0 => total = sizeInd
          /\ Size[obj] # 0 => total = Size[obj]
          /\ content'[obj] = SubSeq(content[obj], 1, offset) \o b
          /\ Len(content'[obj]) = total
      BY <1>0, <1>3, <2>3, <2>4, <3>3, WriteCompletes
    <3>5. crcOn => request.crc = content'[obj]
      BY <1>3, <2>1, <3>3, <3>4 DEF CrcRight
    <3> QED BY <2>5, <3>2, <3>4, <3>5 DEF Whole, Confirming
  <2> QED BY <2>6, <2>7
<1> QED BY <1>5, <1>6

LEMMA NextConfirms == IInv /\ Ending /\ [Next]_vars => Ending' /\ [Confirms => Whole]_vars
<1> SUFFICES ASSUME IInv, Ending, [Next]_vars
             PROVE  Ending' /\ (Confirming \/ UNCHANGED vars)
  BY DEF Confirming
<1>1. CASE \E m \in Frames : Receive(m)
  BY <1>1, ReceivingConfirmsNothing DEF Confirming
<1>2. CASE Serve
  BY <1>2, RefusalsConfirmNothing, InitiationsConfirmNothing, SegmentConfirms, EndConfirms
     DEF Serve, Confirming
<1>3. CASE \E dt \in {0, 1} : Poll(dt)
  BY <1>3, PollingConfirmsNothing DEF Confirming
<1>4. CASE Stop \/ Transmit
  BY <1>4, SilenceConfirmsNothing DEF Stop, Transmit, Ending, Confirming, transferVars
<1>5. CASE UNCHANGED vars
  BY <1>5 DEF vars, Ending, transferVars
<1> QED BY <1>1, <1>2, <1>3, <1>4, <1>5 DEF Next

----------------------------------------------------------------------------
(* The theorems.                                                           *)

LEMMA InitEstablishes == Init => IInv
<1> SUFFICES ASSUME Init PROVE IInv
  OBVIOUS
<1> USE SegmentAssumption, BufferAssumption, TimeoutAssumption, ObjectAssumption
<1>1. TypeOK
  <2>1. /\ state \in States /\ request = None /\ obj = Missing
        /\ finished \in BOOLEAN /\ crcOn \in BOOLEAN
    BY DEF Init, States
  <2>2. content \in [Object -> Seq(Byte)]
    BY DEF Init
  <2>3. buf \in Seq(Byte) /\ crc \in Seq(Byte)
    BY DEF Init
  <2>4. /\ offset \in Nat /\ sizeInd \in Nat /\ sizeTran \in Nat /\ toggle \in {0, 1}
        /\ blksize \in 0 .. MaxBlock /\ seqno \in 0 .. MaxBlock
        /\ timer \in 0 .. Timeout /\ blockTimer \in 0 .. BlockTimeout
    BY DEF Init
  <2> QED BY <2>1, <2>2, <2>3, <2>4 DEF TypeOK
<1>2. BufferFits /\ Accounted /\ Dictionary /\ InTime
  BY DEF Init, BufferFits, Accounted, Dictionary, Sized, InTime
<1> QED BY <1>1, <1>2 DEF IInv

LEMMA NextKeeps == IInv /\ [Next]_vars => IInv'
<1> SUFFICES ASSUME IInv, [Next]_vars PROVE IInv'
  OBVIOUS
<1> USE DEF transferVars, blockVars, timerVars
<1>1. ASSUME NEW m \in Frames, Receive(m) PROVE IInv'
  <2>1. CASE ReceiveAbort \/ ReceiveRequest(m)
    BY <2>1, ReceivingKeeps
  <2>2. CASE ReceiveBlock(m)
    BY <2>2, BlockKeeps
  <2> QED BY <1>1, <2>1, <2>2 DEF Receive
<1>2. CASE Serve
  BY <1>2, RefusalsKeep, UploadKeeps, ExpeditedKeeps, StartsKeep, SegmentKeeps, EndKeeps DEF Serve
<1>3. ASSUME NEW dt \in {0, 1}, Poll(dt) PROVE IInv'
  BY <1>3, WaitingKeeps, ResponseKeeps DEF Poll
<1>4. CASE Stop
  <2>1. TypeOK'
    BY <1>4 DEF Stop, IInv, TypeOK, States
  <2> QED BY <1>4, <2>1, EndsIdle DEF Stop, IInv, BufferFits, Dictionary, Sized
<1>5. CASE Transmit
  BY <1>5 DEF Transmit, IInv, TypeOK, BufferFits, Accounted, Dictionary, Sized, InTime
<1>6. CASE UNCHANGED vars
  BY <1>6 DEF vars, IInv, TypeOK, BufferFits, Accounted, Dictionary, Sized, InTime
<1> QED BY <1>1, <1>2, <1>3, <1>4, <1>5, <1>6 DEF Next

\* The inductive invariant.
THEOREM Invariance == Spec => []IInv
<1> QED BY InitEstablishes, NextKeeps, PTL DEF Spec

\* Every variable of the server keeps its type: no counter goes below zero or
\* above its limit, whatever clients send (CO_SDOserver.c).
THEOREM TypeCorrect == Spec => []TypeOK
<1>1. IInv => TypeOK
  BY DEF IInv
<1> QED BY Invariance, <1>1, PTL

\* The buffer never overflows, and what the server has asked for always fits:
\* the size of a sub-block that CO_SDOserver_process announces is right for the
\* check in CO_SDO_receive (CO_SDOserver.c:68).
THEOREM BufferNeverOverflows == Spec => []BufferFits
<1>1. IInv => BufferFits
  BY DEF IInv
<1> QED BY Invariance, <1>1, PTL

\* Every byte counted is in the object or in the buffer, and the CRC is that of
\* the object (validateAndWriteToOD).
THEOREM BytesAccounted == Spec => []Accounted
<1>1. IInv => Accounted
  BY DEF IInv
<1> QED BY Invariance, <1>1, PTL

\* What the server confirms is stored: when it answers the last segment, or the
\* end of a block download, the object has the bytes that came, all of them, as
\* many as were announced, and with the CRC the client computed (CO_SDOserver.c).
THEOREM ConfirmationIsTrue == Spec => ConfirmedIsStored
<1>1. Init => Ending
  BY DEF Init, Ending
<1> QED BY Invariance, <1>1, NextConfirms, PTL DEF Spec, ConfirmedIsStored
=============================================================================
