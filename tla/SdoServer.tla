----------------------------- MODULE SdoServer -----------------------------
(***************************************************************************)
(* The SDO server (canopennode/301/CO_SDOserver.c): what one client can    *)
(* make it do with the object dictionary, by expedited, segmented and      *)
(* block downloads and by uploads of up to ExpBytes bytes, which are all   *)
(* this dictionary has to read (od/OD.c).                                  *)
(*                                                                         *)
(* CO_SDO_receive runs when the main loop drains the receive queue, once a *)
(* frame (Receive); CO_SDOserver_process runs once a round of the loop.    *)
(* One call of it handles the request, or lets time pass, and sends the    *)
(* answer, so the states "... RSP" of a download last no longer than the   *)
(* call, but for DOWNLOAD_BLK_SUBBLOCK_RSP, which CO_SDO_receive enters.   *)
(*                                                                         *)
(* Frames are records; cs names the command specifier.  The CRC of a block *)
(* transfer is modelled by the bytes it is computed over.  bufOffsetWr is  *)
(* Len(buf).                                                               *)
(***************************************************************************)
EXTENDS Integers, Sequences

CONSTANTS
  Byte,
  Object,        \* index and sub-index of the entries of the dictionary
  Missing,       \* an index the dictionary does not have
  Readable, Writable,
  Size,          \* length of an object, 0 if it is not known (a DOMAIN)
  Initial,       \* what the objects hold at first
  Limit,         \* bytes a DOMAIN's handler takes at most (the staging area)
  Frames,        \* what clients send
  SegBytes,      \* data bytes of a segment (7)
  ExpBytes,      \* data bytes of an expedited transfer (4)
  BufferSize,    \* CO_CONFIG_SDO_SRV_BUFFER_SIZE
  MaxBlock,      \* segments of a sub-block, at most (127)
  Timeout,       \* SDOtimeoutTime_us, in ticks
  BlockTimeout,  \* block_SDOtimeoutTime_us
  TxSize         \* CAN_TX_QUEUE_SIZE

ASSUME SegmentAssumption ==
  /\ SegBytes \in Nat /\ ExpBytes \in Nat /\ 0 < ExpBytes /\ ExpBytes < SegBytes
ASSUME BufferAssumption ==
  /\ BufferSize \in Nat /\ MaxBlock \in Nat \ {0}
  /\ MaxBlock * SegBytes + 2 <= BufferSize
ASSUME TimeoutAssumption ==
  /\ Timeout \in Nat /\ BlockTimeout \in Nat
  /\ 0 < BlockTimeout /\ BlockTimeout < Timeout
ASSUME TxAssumption == TxSize \in Nat
ASSUME ObjectAssumption ==
  /\ Missing \notin Object
  /\ Readable \subseteq Object /\ Writable \subseteq Object
  /\ Size \in [Object -> Nat]
  /\ Initial \in [Object -> Seq(Byte)]
  /\ \A o \in Object : Size[o] <= ExpBytes /\ (Size[o] # 0 => Len(Initial[o]) = Size[o])
  /\ \A o \in Readable : Size[o] # 0
ASSUME LimitAssumption == Limit \in Nat

Codes == {"cmd", "timeout", "access", "long", "short", "crc", "incompatible", "write"}

Requests ==
       [cs : {"abort", "other"}]
  \cup [cs : {"upload"}, obj : Object \cup {Missing}]
  \cup [cs : {"expedited"}, obj : Object \cup {Missing}, data : Seq(Byte), sized : BOOLEAN]
  \cup [cs : {"initSegmented"}, obj : Object \cup {Missing}, sized : BOOLEAN, size : Nat]
  \cup [cs : {"segment"}, toggle : {0, 1}, data : Seq(Byte), last : BOOLEAN]
  \cup [cs : {"initBlock"}, obj : Object \cup {Missing}, sized : BOOLEAN, size : Nat, crc : BOOLEAN]
  \cup [cs : {"block"}, seqno : Nat, data : Seq(Byte), last : BOOLEAN]
  \cup [cs : {"endBlock"}, noData : Nat, crc : Seq(Byte)]

ASSUME FrameAssumption ==
  /\ Frames \subseteq Requests
  /\ \A m \in Frames :
       /\ m.cs = "expedited" => Len(m.data) \in 1 .. ExpBytes /\ (~m.sized => Len(m.data) = ExpBytes)
       /\ m.cs = "segment" => Len(m.data) <= SegBytes
       /\ m.cs = "block" => Len(m.data) = SegBytes
       /\ m.cs = "endBlock" => m.noData <= SegBytes

VARIABLES
  state,                    \* SDO->state, without the prefix CO_SDO_ST_
  request,                  \* CANrxData while CANrxNew is set, else None
  obj,                      \* index, subIndex and OD_IO of the transfer
  offset,                   \* OD_IO.stream.dataOffset
  sizeInd, sizeTran, finished, toggle, buf,
  blksize, seqno, crcOn, crc,
  timer, blockTimer,        \* timeoutTimer, block_timeoutTimer
  content,                  \* what the objects hold
  out                       \* the driver's transmit queue

None == [cs |-> "none"]

transferVars == <<obj, offset, sizeInd, sizeTran, finished, toggle, buf>>
blockVars    == <<blksize, seqno, crcOn, crc>>
timerVars    == <<timer, blockTimer>>
vars == <<state, request, transferVars, blockVars, timerVars, content, out>>

States == {"IDLE", "DOWNLOAD_SEGMENT_REQ", "DOWNLOAD_BLK_SUBBLOCK_REQ",
           "DOWNLOAD_BLK_SUBBLOCK_RSP", "DOWNLOAD_BLK_END_REQ"}

Init ==
  /\ state = "IDLE" /\ request = None
  /\ obj = Missing /\ offset = 0
  /\ sizeInd = 0 /\ sizeTran = 0 /\ finished = FALSE /\ toggle = 0 /\ buf = <<>>
  /\ blksize = 0 /\ seqno = 0 /\ crcOn = FALSE /\ crc = <<>>
  /\ timer = 0 /\ blockTimer = 0
  /\ content = Initial
  /\ out = <<>>

----------------------------------------------------------------------------
(* Answers                                                                 *)

\* CO_CANsend: a frame that finds the queue full is lost.
Reply(m) == out' = IF Len(out) < TxSize THEN Append(out, m) ELSE out

AbortTransfer(o, code) ==
  /\ state' = "IDLE"
  /\ Reply([cs |-> "abort", obj |-> o, code |-> code])

\* CANSendReceive hands the queue to the bus, oldest frame first.
Transmit ==
  /\ out # <<>>
  /\ out' = Tail(out)
  /\ UNCHANGED <<state, request, transferVars, blockVars, timerVars, content>>

----------------------------------------------------------------------------
(* CO_SDO_receive                                                          *)

\* The client gives up.  A request that was not processed yet stays.
ReceiveAbort ==
  /\ state' = "IDLE"
  /\ UNCHANGED <<request, transferVars, blockVars, timerVars, content, out>>

\* A request waits for CO_SDOserver_process; one more is lost meanwhile.
ReceiveRequest(m) ==
  /\ state \in {"IDLE", "DOWNLOAD_SEGMENT_REQ", "DOWNLOAD_BLK_END_REQ"}
  /\ request' = IF request = None THEN m ELSE request
  /\ UNCHANGED <<state, transferVars, blockVars, timerVars, content, out>>

\* During a sub-block the first byte of any frame is a sequence number.
SeqnoOf(m) == IF m.cs = "block" THEN m.seqno ELSE MaxBlock + 1

\* A segment of a block goes straight to the buffer.  A wrong sequence number
\* ends the sub-block, unless it is the last one again or nothing came so far.
ReceiveBlock(m) ==
  /\ state = "DOWNLOAD_BLK_SUBBLOCK_REQ"
  /\ Len(buf) <= BufferSize - (SegBytes + 2)
  /\ timer' = 0 /\ blockTimer' = 0
  /\ IF SeqnoOf(m) <= blksize /\ SeqnoOf(m) = seqno + 1
     THEN /\ seqno' = m.seqno
          /\ buf' = buf \o m.data
          /\ sizeTran' = sizeTran + SegBytes
          /\ finished' = (finished \/ m.last)
          /\ state' = IF m.last \/ m.seqno = blksize THEN "DOWNLOAD_BLK_SUBBLOCK_RSP" ELSE state
     ELSE /\ state' = IF SeqnoOf(m) # seqno /\ seqno # 0 THEN "DOWNLOAD_BLK_SUBBLOCK_RSP" ELSE state
          /\ UNCHANGED <<seqno, buf, sizeTran, finished>>
  /\ UNCHANGED <<request, obj, offset, sizeInd, toggle, blksize, crcOn, crc, content, out>>

Receive(m) ==
  IF m.cs = "abort" THEN ReceiveAbort ELSE ReceiveRequest(m) \/ ReceiveBlock(m)

----------------------------------------------------------------------------
(* Writing the dictionary                                                  *)

\* OD_IO.write: a plain variable takes its size and no more; a DOMAIN
\* appends, and its handler (OtaApp's, for 5F02) says if that was all.
WriteObject(o, off, data, answer) ==
  LET stored == SubSeq(content[o], 1, off) \o data
  IN IF Size[o] # 0
     THEN /\ answer = IF Len(data) = Size[o] THEN "ok" ELSE "error"
          /\ content' = IF answer = "ok" THEN [content EXCEPT ![o] = data] ELSE content
          /\ offset' = off
     ELSE /\ Len(stored) > Limit => answer = "error"
          /\ content' = IF answer = "error" THEN content ELSE [content EXCEPT ![o] = stored]
          /\ offset' = IF answer = "error" THEN off ELSE Len(stored)

\* Fault: data that is shorter than announced is not noticed.
LongOnly(total, done) == IF sizeInd # 0 /\ total > sizeInd THEN "long" ELSE "none"

\* The comparisons of the sizes before the write.
SizeVerdict(total, done) ==
  IF sizeInd # 0 /\ total > sizeInd THEN "long"
  ELSE IF done /\ sizeInd # 0 /\ total < sizeInd THEN "short"
  ELSE IF done /\ Size[obj] # 0 /\ total > Size[obj] THEN "long"
  ELSE IF done /\ Size[obj] # 0 /\ total < Size[obj] THEN "short"
  ELSE "none"

\* What the answer of the object means to the server.
WriteVerdict(answer, done) ==
  CASE answer = "error"             -> "write"
    [] answer = "partial" /\ done   -> "short"
    [] answer = "ok" /\ ~done       -> "long"
    [] OTHER                        -> "none"

\* Fault: bufOffsetWr is not reset after the write.
KeepBuffer(b, total, done, newCrc, crcRight, code) ==
  /\ code = SizeVerdict(total, done) /\ crc' = newCrc /\ buf' = b
  /\ IF code = "none" /\ crcRight THEN WriteObject(obj, offset, b, "partial") ELSE UNCHANGED <<content, offset>>

\* validateAndWriteToOD: the bytes b of the buffer, total so far, go to the
\* object unless the sizes or the CRC are wrong.
ValidateAndWrite(b, total, done, newCrc, crcRight, code) ==
  IF SizeVerdict(total, done) # "none"
  THEN code = SizeVerdict(total, done) /\ buf' = b /\ UNCHANGED <<crc, content, offset>>
  ELSE /\ crc' = newCrc
       /\ IF ~crcRight
          THEN code = "crc" /\ buf' = b /\ UNCHANGED <<content, offset>>
          ELSE \E answer \in {"ok", "partial", "error"} :
                 /\ WriteObject(obj, offset, b, answer)
                 /\ code = WriteVerdict(answer, done)
                 /\ buf' = <<>>

----------------------------------------------------------------------------
(* CO_SDOserver_process with a request: the answer goes out in the same    *)
(* call.                                                                   *)

Processed == request' = None /\ timer' = 0

\* Access of the request to the object o is allowed.
Allowed(o) == o \in IF request.cs = "upload" THEN Readable ELSE Writable

Initiating == {"upload", "expedited", "initSegmented", "initBlock"}

\* No command that starts a transfer.
RefuseCommand ==
  /\ state = "IDLE" /\ request # None
  /\ request.cs \notin Initiating
  /\ Processed
  /\ AbortTransfer(obj, "cmd")
  /\ UNCHANGED <<transferVars, blockVars, blockTimer, content>>

\* An object that does not exist, or not for this access.
RefuseObject ==
  /\ state = "IDLE" /\ request # None
  /\ request.cs \in Initiating /\ ~Allowed(request.obj)
  /\ obj' = request.obj
  /\ offset' = IF request.obj = Missing THEN offset ELSE 0
  /\ Processed
  /\ AbortTransfer(request.obj, "access")
  /\ UNCHANGED <<sizeInd, sizeTran, finished, toggle, buf, blockVars, blockTimer, content>>

Starts(cs) ==
  /\ state = "IDLE" /\ request # None
  /\ request.cs = cs /\ Allowed(request.obj)
  /\ obj' = request.obj
  /\ Processed

\* All of a readable object fits in the answer.
Upload ==
  /\ Starts("upload")
  /\ offset' = 0 /\ buf' = content[request.obj]
  /\ sizeInd' = Size[request.obj] /\ sizeTran' = 0 /\ finished' = TRUE
  /\ state' = "IDLE"
  /\ Reply([cs |-> "uploaded", obj |-> request.obj, data |-> content[request.obj]])
  /\ UNCHANGED <<toggle, blockVars, blockTimer, content>>

\* One frame holds all the data; without a size, as much as the object takes.
ExpeditedDownload ==
  LET o    == request.obj
      data == IF request.sized \/ Size[o] = 0 THEN request.data
              ELSE SubSeq(request.data, 1, Size[o])
  IN /\ Starts("expedited")
     /\ IF Size[o] # 0 /\ Len(data) # Size[o]
        THEN /\ offset' = 0
             /\ AbortTransfer(o, IF Len(data) > Size[o] THEN "long" ELSE "short")
             /\ UNCHANGED <<finished, content>>
        ELSE \E answer \in {"ok", "partial", "error"} :
               /\ WriteObject(o, 0, data, answer)
               /\ IF answer = "ok"
                  THEN state' = "IDLE" /\ finished' = TRUE /\ Reply([cs |-> "written", obj |-> o])
                  ELSE AbortTransfer(o, "write") /\ UNCHANGED finished
     /\ UNCHANGED <<sizeInd, sizeTran, toggle, buf, blockVars, blockTimer>>

\* The size the client announces against that of the object.
IndicatedVerdict(o) ==
  IF ~request.sized \/ Size[o] = 0 \/ request.size = Size[o] THEN "none"
  ELSE IF request.size > Size[o] THEN "long" ELSE "short"

Indicated == IF request.sized THEN request.size ELSE 0

InitSegmented ==
  LET o == request.obj
  IN /\ Starts("initSegmented")
     /\ offset' = 0 /\ sizeInd' = Indicated
     /\ IF IndicatedVerdict(o) # "none"
        THEN AbortTransfer(o, IndicatedVerdict(o)) /\ UNCHANGED <<sizeTran, finished, toggle, buf>>
        ELSE /\ state' = "DOWNLOAD_SEGMENT_REQ"
             /\ sizeTran' = 0 /\ finished' = FALSE /\ toggle' = 0 /\ buf' = <<>>
             /\ Reply([cs |-> "written", obj |-> o])
     /\ UNCHANGED <<blockVars, blockTimer, content>>

Least(a, b) == IF a < b THEN a ELSE b

\* Fault: 127 is not the limit.
Uncapped(b) == (BufferSize - 2 - b) \div SegBytes

\* Fault: the room for the end of a string is forgotten.
NoSpare(b) == Least((BufferSize - b) \div SegBytes, MaxBlock)

\* Segments that fit in the buffer when b bytes are in it.
FreeSegments(b) == Least((BufferSize - 2 - b) \div SegBytes, MaxBlock)

InitBlock ==
  LET o == request.obj
  IN /\ Starts("initBlock")
     /\ offset' = 0 /\ sizeInd' = Indicated /\ crcOn' = request.crc
     /\ IF IndicatedVerdict(o) # "none"
        THEN /\ AbortTransfer(o, IndicatedVerdict(o))
             /\ UNCHANGED <<sizeTran, finished, buf, blksize, seqno, crc, blockTimer>>
        ELSE /\ state' = "DOWNLOAD_BLK_SUBBLOCK_REQ"
             /\ sizeTran' = 0 /\ finished' = FALSE /\ buf' = <<>>
             /\ blksize' = FreeSegments(0) /\ seqno' = 0 /\ crc' = <<>> /\ blockTimer' = 0
             /\ Reply([cs |-> "blockOpen", obj |-> o, blksize |-> FreeSegments(0)])
     /\ UNCHANGED <<toggle, content>>

\* In the middle of a transfer, a frame that does not continue it.
RefuseFrame ==
  /\ request # None
  /\ \/ state = "DOWNLOAD_SEGMENT_REQ" /\ request.cs # "segment"
     \/ state = "DOWNLOAD_BLK_END_REQ" /\ request.cs # "endBlock"
  /\ Processed
  /\ AbortTransfer(obj, "cmd")
  /\ UNCHANGED <<transferVars, blockVars, blockTimer, content>>

\* Fault: the repeated segment counts.
RepeatCounted ==
  /\ state = "DOWNLOAD_SEGMENT_REQ" /\ request # None
  /\ request.cs = "segment" /\ request.toggle # toggle
  /\ finished' = request.last /\ sizeTran' = sizeTran + Len(request.data)
  /\ Processed
  /\ Reply([cs |-> "segmentAck", toggle |-> request.toggle])
  /\ UNCHANGED <<state, obj, offset, sizeInd, toggle, buf, blockVars, blockTimer, content>>

\* The segment before came again: its answer was lost.
RepeatSegment ==
  /\ state = "DOWNLOAD_SEGMENT_REQ" /\ request # None
  /\ request.cs = "segment" /\ request.toggle # toggle
  /\ finished' = request.last
  /\ Processed
  /\ Reply([cs |-> "segmentAck", toggle |-> request.toggle])
  /\ UNCHANGED <<state, obj, offset, sizeInd, sizeTran, toggle, buf, blockVars, blockTimer, content>>

\* Fault: the room for the end of a string is forgotten.
FlushLate(b, last) == last \/ BufferSize - Len(b) < SegBytes

\* The buffer goes to the object when the data is complete or the next segment,
\* with the two bytes that may end a string, would not fit.
MustFlush(b, last) == last \/ BufferSize - Len(b) < SegBytes + 2

DownloadSegment ==
  LET b     == buf \o request.data
      total == sizeTran + Len(request.data)
  IN /\ state = "DOWNLOAD_SEGMENT_REQ" /\ request # None
     /\ request.cs = "segment" /\ request.toggle = toggle
     /\ finished' = request.last /\ sizeTran' = total
     /\ Processed
     /\ \E code \in Codes \cup {"none"} :
          /\ IF Size[obj] # 0 /\ total > Size[obj]
             THEN code = "long" /\ buf' = b /\ UNCHANGED <<crc, content, offset>>
             ELSE IF MustFlush(b, request.last)
             THEN ValidateAndWrite(b, total, request.last, crc, TRUE, code)
             ELSE code = "none" /\ buf' = b /\ UNCHANGED <<crc, content, offset>>
          /\ IF code # "none"
             THEN AbortTransfer(obj, code) /\ UNCHANGED toggle
             ELSE /\ state' = IF request.last THEN "IDLE" ELSE state
                  /\ toggle' = 1 - toggle
                  /\ Reply([cs |-> "segmentAck", toggle |-> toggle])
     /\ UNCHANGED <<obj, sizeInd, blksize, seqno, crcOn, blockTimer>>

\* Fault: the CRC is computed and not compared.
AnyCrc(newCrc) == TRUE

CrcRight(newCrc) == crcOn => request.crc = newCrc

\* The end of a block download: noData bytes of the last segment are no data.
EndBlock ==
  LET b      == SubSeq(buf, 1, Len(buf) - request.noData)
      total  == sizeTran - request.noData
      newCrc == IF crcOn THEN crc \o b ELSE crc
  IN /\ state = "DOWNLOAD_BLK_END_REQ" /\ request # None
     /\ request.cs = "endBlock"
     /\ Processed
     /\ IF Len(buf) <= request.noData
        THEN /\ AbortTransfer(obj, "incompatible")
             /\ UNCHANGED <<sizeTran, buf, crc, content, offset>>
        ELSE /\ sizeTran' = total
             /\ \E code \in Codes \cup {"none"} :
                  /\ ValidateAndWrite(b, total, finished, newCrc, CrcRight(newCrc), code)
                  /\ IF code # "none" THEN AbortTransfer(obj, code)
                     ELSE state' = "IDLE" /\ Reply([cs |-> "blockDone"])
     /\ UNCHANGED <<obj, sizeInd, finished, toggle, blksize, seqno, crcOn, blockTimer>>

Serve ==
  \/ RefuseCommand \/ RefuseObject \/ RefuseFrame
  \/ Upload \/ ExpeditedDownload
  \/ InitSegmented \/ RepeatSegment \/ DownloadSegment
  \/ InitBlock \/ EndBlock

----------------------------------------------------------------------------
(* CO_SDOserver_process without a request; dt ticks went by since the last *)
(* call.                                                                   *)

SubBlockOver(dt) ==
  \/ state = "DOWNLOAD_BLK_SUBBLOCK_RSP"
  \/ state = "DOWNLOAD_BLK_SUBBLOCK_REQ" /\ blockTimer + dt >= BlockTimeout

\* Fault: the answer to a sub-block that timed out restarts both timers.
RestartBoth(dt) ==
  /\ state # "IDLE" /\ request = None
  /\ timer' = IF SubBlockOver(dt) THEN 0 ELSE timer + dt
  /\ UNCHANGED request

\* timeoutTimer runs on until a frame of the client resets it.
Waits(dt) ==
  /\ state # "IDLE" /\ request = None
  /\ timer' = timer + dt
  /\ UNCHANGED request

TransferTimeout(dt) ==
  /\ Waits(dt)
  /\ timer + dt >= Timeout
  /\ AbortTransfer(obj, "timeout")
  /\ UNCHANGED <<transferVars, blockVars, blockTimer, content>>

\* The sub-block is confirmed up to seqno; before the next one the buffer is
\* emptied, unless there is room for a full sub-block.
SubBlockResponse(dt) ==
  /\ Waits(dt)
  /\ timer + dt < Timeout
  /\ SubBlockOver(dt)
  /\ IF finished
     THEN /\ state' = "DOWNLOAD_BLK_END_REQ" /\ blockTimer' = 0
          /\ Reply([cs |-> "blockAck", seqno |-> seqno, blksize |-> blksize])
          /\ UNCHANGED <<seqno, blksize, buf, crc, content, offset>>
     ELSE \E code \in Codes \cup {"none"} :
          /\ IF FreeSegments(Len(buf)) < MaxBlock /\ buf # <<>>
             THEN ValidateAndWrite(buf, sizeTran, FALSE, IF crcOn THEN crc \o buf ELSE crc, TRUE, code)
             ELSE code = "none" /\ UNCHANGED <<buf, crc, content, offset>>
          /\ IF code # "none"
             THEN /\ AbortTransfer(obj, code)
                  /\ blockTimer' = IF state = "DOWNLOAD_BLK_SUBBLOCK_REQ" THEN blockTimer + dt ELSE blockTimer
                  /\ UNCHANGED <<seqno, blksize>>
             ELSE /\ state' = "DOWNLOAD_BLK_SUBBLOCK_REQ" /\ blockTimer' = 0
                  /\ seqno' = 0 /\ blksize' = FreeSegments(Len(buf'))
                  /\ Reply([cs |-> "blockAck", seqno |-> seqno, blksize |-> FreeSegments(Len(buf'))])
  /\ UNCHANGED <<obj, sizeInd, sizeTran, finished, toggle, crcOn>>

\* Time passes and nothing is due.
Idle(dt) ==
  /\ Waits(dt)
  /\ timer + dt < Timeout /\ ~SubBlockOver(dt)
  /\ blockTimer' = IF state = "DOWNLOAD_BLK_SUBBLOCK_REQ" THEN blockTimer + dt ELSE blockTimer
  /\ UNCHANGED <<state, transferVars, blockVars, content, out>>

Poll(dt) == TransferTimeout(dt) \/ SubBlockResponse(dt) \/ Idle(dt)

\* The node is in an NMT state in which SDO is not served.
Stop ==
  /\ state' = "IDLE" /\ request' = None
  /\ UNCHANGED <<transferVars, blockVars, timerVars, content, out>>

Next ==
  \/ \E m \in Frames : Receive(m)
  \/ Serve
  \/ \E dt \in {0, 1} : Poll(dt)
  \/ Stop
  \/ Transmit

Spec == Init /\ [][Next]_vars

\* The main loop calls CO_SDOserver_process for ever, and time goes by.
FairSpec == Spec /\ WF_vars(Serve) /\ WF_vars(Poll(1))

----------------------------------------------------------------------------
(* Properties                                                              *)

\* Every variable has its type.
TypeOK ==
  /\ state \in States
  /\ request \in Frames \cup {None}
  /\ obj \in Object \cup {Missing}
  /\ offset \in Nat /\ sizeInd \in Nat /\ sizeTran \in Nat
  /\ finished \in BOOLEAN /\ toggle \in {0, 1}
  /\ buf \in Seq(Byte) /\ crc \in Seq(Byte)
  /\ blksize \in 0 .. MaxBlock /\ seqno \in 0 .. MaxBlock
  /\ crcOn \in BOOLEAN
  /\ timer \in 0 .. Timeout /\ blockTimer \in 0 .. BlockTimeout
  /\ content \in [Object -> Seq(Byte)]

\* "Just in case, condition should always pass" (CO_SDOserver.c:68): the buffer
\* never overflows, and there is room for every segment of the sub-block the
\* server has asked for, for the next segment of a segmented download, and for
\* the two bytes that end a string.
BufferFits ==
  /\ Len(buf) <= BufferSize
  /\ state = "DOWNLOAD_SEGMENT_REQ" => Len(buf) + SegBytes + 2 <= BufferSize
  /\ state = "DOWNLOAD_BLK_SUBBLOCK_REQ" =>
       seqno < blksize /\ Len(buf) + SegBytes * (blksize - seqno) + 2 <= BufferSize
  /\ state \in {"DOWNLOAD_BLK_SUBBLOCK_RSP", "DOWNLOAD_BLK_END_REQ"} => Len(buf) + 2 <= BufferSize

\* In a transfer every byte that was counted is in the object or in the
\* buffer, and the CRC was computed over the bytes that are in the object.
Accounted ==
  state # "IDLE" =>
    /\ sizeTran = offset + Len(buf)
    /\ offset # 0 => Len(content[obj]) = offset
    /\ state # "DOWNLOAD_SEGMENT_REQ" /\ crcOn => crc = SubSeq(content[obj], 1, offset)

Sent(cs) == Len(out') > Len(out) /\ out'[Len(out')].cs = cs

\* The answer to the last segment, or to the end of a block download.
Confirms ==
  /\ state' = "IDLE"
  /\ \/ state = "DOWNLOAD_SEGMENT_REQ" /\ Sent("segmentAck")
     \/ Sent("blockDone")

Whole ==
  /\ Len(content'[obj]) = sizeTran'
  /\ sizeInd # 0 => sizeTran' = sizeInd
  /\ Size[obj] # 0 => sizeTran' = Size[obj]
  /\ Sent("blockDone") /\ crcOn => request.crc = content'[obj]

\* When the server confirms a download, the object holds all of it: as many
\* bytes as came, as many as were announced, and those the client's CRC is of.
ConfirmedIsStored == [][Confirms => Whole]_vars

\* A server whose client has fallen silent becomes idle: the answers it
\* repeats when a sub-block times out do not keep it waiting for ever.
BackToIdle ==
  <>[][\A m \in Frames : ~Receive(m)]_vars => <>[](state = "IDLE" /\ request = None)
=============================================================================
