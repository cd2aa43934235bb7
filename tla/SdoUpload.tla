------------------------------ MODULE SdoUpload ------------------------------
(***************************************************************************)
(* An upload end to end: the upload half of the SDO server                 *)
(* (canopennode/301/CO_SDOserver.c) and the SDO client of the same stack   *)
(* (CO_SDOclient.c), segmented or by blocks, over a bus that keeps the     *)
(* order of frames and loses or repeats some of them.                      *)
(*                                                                         *)
(* One upload of one object is followed to its end.  In blocks the server  *)
(* sends the segments of a sub-block unasked; the client acknowledges the  *)
(* last one it has in order, and the server goes back to the one after it. *)
(*                                                                         *)
(* Time is not measured.  A timeout may pass at any moment, so an answer   *)
(* can be late as well as lost; what the code's times do fix is that the   *)
(* client's sub-block timeout, 0.7 of its transfer timeout, passes once    *)
(* without a frame of the server and not twice (quiet).  The client        *)
(* handles a frame in the step that receives it, and its application takes *)
(* the received data before the next call.                                 *)
(***************************************************************************)
EXTENDS Integers, Sequences

CONSTANTS
  Byte,
  Objects,       \* what the object may hold, a set of sequences of bytes
  Pad,           \* the byte that fills the last segment of a block
  SegBytes,      \* data bytes of a segment (7)
  ExpBytes,      \* data bytes of an expedited transfer (4)
  BufferSize,    \* CO_CONFIG_SDO_SRV_BUFFER_SIZE
  ClientBlock,   \* segments that fit in the client's empty buffer, 127 at most
  Threshold,     \* CO_CONFIG_SDO_CLI_PST
  MaxTransit,    \* bound: frames on their way to the client
  MaxFaults      \* bound: frames lost or repeated, and timeouts that pass too early

\* A buffer of a multiple of SegBytes would be sent to its end before the object
\* is read to its end, which the server takes for too little data.  The builds
\* have 1032 and 2048 bytes.
ASSUME UploadAssumption ==
  /\ Objects # {} /\ Objects \subseteq Seq(Byte) \ {<<>>} /\ Pad \in Byte
  /\ SegBytes \in Nat /\ ExpBytes \in Nat /\ 0 < ExpBytes /\ ExpBytes < SegBytes
  /\ ClientBlock \in Nat \ {0} /\ BufferSize \in Nat /\ ClientBlock * SegBytes <= BufferSize
  /\ BufferSize % SegBytes # 0
  /\ Threshold \in Nat /\ MaxTransit \in Nat \ {0} /\ MaxFaults \in Nat

VARIABLES
  data, known,       \* what the object holds, and whether the dictionary has its size
  block,             \* blockEnable of CO_SDOclientUploadInitiate
  \* the server
  state, request,    \* state; CANrxData while CANrxNew is set
  source,            \* the buffer, its read position, the stream and the CRC, see Read
  sizeInd, sizeTran, toggle, blksize, seqno, noData,
  txBuff,            \* the last segment, as long as CANtxBuff still holds it
  \* the bus
  toServer, toClient, faults,
  \* the client
  step,              \* SDO_C->state
  got,               \* what its application took from its buffer
  lastSegment,       \* block_dataUploadLast, once it is filled
  size,              \* SDO_C->sizeInd
  clientToggle, clientSeqno,
  quiet,             \* the sub-block timeout has passed since the last frame
  \* history
  trouble,           \* more went wrong than the loss of a segment
  zeros              \* a repeated request was answered from a cleared buffer

objectVars == <<data, known, block>>
countVars  == <<sizeInd, sizeTran, toggle, blksize, seqno, noData>>
serverVars == <<state, request, source, countVars, txBuff, zeros>>
busVars    == <<toServer, toClient, faults>>
clientVars == <<step, got, lastSegment, size, clientToggle, clientSeqno, quiet>>
vars == <<objectVars, serverVars, busVars, clientVars, trouble>>

None == [cs |-> "none"]
Smaller(a, b) == IF a < b THEN a ELSE b

\* A frame lost or repeated, or a timeout that passes too early
Fault == faults < MaxFaults /\ faults' = faults + 1

Timeout(early) ==
  IF early THEN Fault /\ trouble' = TRUE ELSE UNCHANGED <<faults, trouble>>

----------------------------------------------------------------------------
(* The server: reading the dictionary                                      *)

NoData == [buf |-> <<>>, rd |-> 0, offset |-> 0, finished |-> FALSE, crc |-> <<>>]

Unread(s) == Len(s.buf) - s.rd

\* Fault: the bytes that move to the front count again.
AllBytes(sum, rest, more) == sum \o rest \o more

\* The CRC of the upload, with what was read now
Summed(sum, rest, more) == sum \o more

\* How many bytes are read behind what is unread
Room(rest) == BufferSize - Len(rest)

\* readFromOd: unless n bytes are there, what is unread moves to the front and
\* the object's next bytes fill the buffer up.  OD_IO.read is OD_readOriginal or
\* a handler like it.  A segmented upload computes a CRC here and does not use it.
Read(s, n) ==
  LET rest == SubSeq(s.buf, s.rd + 1, Len(s.buf))
      more == SubSeq(data, s.offset + 1, Smaller(s.offset + Room(rest), Len(data)))
  IN IF s.finished \/ Len(rest) >= n THEN s
     ELSE [buf |-> rest \o more, rd |-> 0, offset |-> s.offset + Len(more),
           finished |-> s.offset + Len(more) = Len(data), crc |-> Summed(s.crc, rest, more)]

\* The next segment, and whether it is the last.
NextSegment(s) == SubSeq(s.buf, s.rd + 1, Smaller(s.rd + SegBytes, Len(s.buf)))
IsLast(s) == Unread(s) < SegBytes \/ (s.finished /\ Unread(s) = SegBytes)

\* sizeTran against sizeInd once n bytes more were sent
SizeWrong(total, all) == sizeInd > 0 /\ (total > sizeInd \/ (all /\ total < sizeInd))

----------------------------------------------------------------------------
(* The server: CO_SDOserver_process with a request.  The answer goes out   *)
(* in the same call, and CANtxBuff is cleared before it is filled.         *)

Answer(m) == Len(toClient) < MaxTransit /\ toClient' = Append(toClient, m)

AbortUpload ==
  /\ state' = "IDLE"
  /\ Answer([cs |-> "abort"])

\* The parts of a step with a request that are the same in all of them.
Processed ==
  /\ request # None /\ request' = None
  /\ UNCHANGED <<objectVars, toServer, faults, clientVars, trouble>>

\* UPLOAD_INITIATE_RSP: all of a short object, or the size of a long one.
AnswerInitiation(s, ind) ==
  IF ind \in 1 .. ExpBytes
  THEN /\ state' = "IDLE" /\ Answer([cs |-> "uploaded", data |-> s.buf])
       /\ UNCHANGED toggle
  ELSE /\ state' = "UPLOAD_SEGMENT_REQ" /\ toggle' = 0
       /\ Answer([cs |-> "uploadOpen", size |-> ind])

\* The size the server announces: that of the dictionary, or what it read if it
\* has read all.
Indicated(s) == IF known THEN Len(data) ELSE IF s.finished THEN Len(s.buf) ELSE 0

InitUpload ==
  LET s == Read(NoData, SegBytes)
  IN /\ Processed
     /\ state = "IDLE" /\ request.cs = "upload"
     /\ source' = s /\ sizeTran' = 0 /\ sizeInd' = Indicated(s)
     /\ AnswerInitiation(s, Indicated(s))
     /\ txBuff' = None
     /\ UNCHANGED <<blksize, seqno, noData, zeros>>

\* An object not longer than the client's threshold is not sent in blocks.
InitBlockUpload ==
  LET s   == Read(NoData, SegBytes)
      ind == Indicated(s)
  IN /\ Processed
     /\ state = "IDLE" /\ request.cs = "blockUpload"
     /\ source' = s /\ sizeTran' = 0 /\ sizeInd' = ind
     /\ IF ind > 0 /\ ind <= request.threshold
        THEN AnswerInitiation(s, ind) /\ UNCHANGED blksize
        ELSE /\ blksize' = request.blksize
             /\ IF ~s.finished /\ Len(s.buf) < request.blksize * SegBytes
                THEN AbortUpload
                ELSE /\ state' = "UPLOAD_BLK_INITIATE_REQ2"
                     /\ Answer([cs |-> "blockOpen", size |-> ind])
             /\ UNCHANGED toggle
     /\ txBuff' = None
     /\ UNCHANGED <<seqno, noData, zeros>>

\* A segment the client asks for.  (If the last one is too long, which this object
\* cannot make it, the code leaves the abort to its next call.)
UploadSegment ==
  LET s == Read(source, SegBytes)
      d == NextSegment(s)
      m == [cs |-> "segment", toggle |-> toggle, data |-> d, last |-> IsLast(s)]
  IN /\ Processed
     /\ state = "UPLOAD_SEGMENT_REQ" /\ request.cs = "segmentRequest" /\ request.toggle = toggle
     /\ toggle' = 1 - toggle
     /\ source' = [s EXCEPT !.rd = @ + Len(d)] /\ sizeTran' = sizeTran + Len(d)
     /\ IF SizeWrong(sizeTran', m.last)
        THEN AbortUpload /\ txBuff' = None
        ELSE /\ state' = IF m.last THEN "IDLE" ELSE state
             /\ Answer(m) /\ txBuff' = m
     /\ UNCHANGED <<sizeInd, blksize, seqno, noData, zeros>>

\* What a cleared CANtxBuff says to a client: a segment full of zeros.
Zeros == [cs |-> "segment", toggle |-> 0, data |-> [i \in 1 .. SegBytes |-> Pad], last |-> FALSE]

\* "Duplicate upload request: re-send last upload segment response": what is
\* sent is CANtxBuff, which every call since has cleared.
RepeatSegment ==
  /\ Processed
  /\ state = "UPLOAD_SEGMENT_REQ" /\ request.cs = "segmentRequest" /\ request.toggle # toggle
  /\ Answer(IF txBuff = None THEN Zeros ELSE txBuff)
  /\ zeros' = (zeros \/ txBuff = None)
  /\ txBuff' = None
  /\ UNCHANGED <<state, source, countVars>>

\* The next segment of a sub-block, padded, of the source s; t bytes are sent.
SendBlockSegment(s, n, t) ==
  LET d   == NextSegment(s)
      pad == SegBytes - Len(d)
      all == s.rd + Len(d) = Len(s.buf)
  IN /\ source' = [s EXCEPT !.rd = @ + Len(d)]
     /\ noData' = pad /\ sizeTran' = t + Len(d) /\ seqno' = n + 1
     /\ IF SizeWrong(t + Len(d), all)
        THEN AbortUpload
        ELSE /\ state' = IF all \/ n + 1 >= blksize' THEN "UPLOAD_BLK_SUBBLOCK_CRSP"
                         ELSE "UPLOAD_BLK_SUBBLOCK_SREQ"
             /\ Answer([cs |-> "block", seqno |-> n + 1, last |-> IsLast(s),
                        data |-> d \o [i \in 1 .. pad |-> Pad]])
     /\ txBuff' = None

\* The client is ready for the first sub-block.
StartBlocks ==
  /\ Processed
  /\ state = "UPLOAD_BLK_INITIATE_REQ2" /\ request.cs = "startBlocks"
  /\ blksize' = blksize
  /\ SendBlockSegment(source, 0, sizeTran)
  /\ UNCHANGED <<sizeInd, toggle, zeros>>

\* The bytes of the last n segments of the sub-block
BytesOf(n) == n * SegBytes - noData

\* The client has the segments up to request.seqno: the rest is sent again.
Acknowledge ==
  LET back == IF request.seqno < seqno THEN BytesOf(seqno - request.seqno) ELSE 0
      s    == Read([source EXCEPT !.rd = @ - back], request.blksize * SegBytes)
  IN /\ Processed
     /\ state \in {"UPLOAD_BLK_SUBBLOCK_SREQ", "UPLOAD_BLK_SUBBLOCK_CRSP"}
     /\ request.cs = "ack"
     /\ blksize' = request.blksize
     /\ IF request.seqno > seqno
        THEN AbortUpload /\ txBuff' = None /\ UNCHANGED <<source, sizeTran, seqno, noData>>
        ELSE IF Unread(s) = 0
        THEN /\ source' = s /\ state' = "UPLOAD_BLK_END_CRSP" /\ txBuff' = None
             /\ Answer([cs |-> "endBlock", noData |-> noData, crc |-> s.crc])
             /\ UNCHANGED <<sizeTran, seqno, noData>>
        ELSE SendBlockSegment(s, 0, sizeTran - back)
     /\ UNCHANGED <<sizeInd, toggle, zeros>>

\* What each state takes
Expected ==
  [IDLE |-> {"upload", "blockUpload"}, UPLOAD_SEGMENT_REQ |-> {"segmentRequest"},
   UPLOAD_BLK_INITIATE_REQ2 |-> {"startBlocks"}, UPLOAD_BLK_SUBBLOCK_SREQ |-> {"ack"},
   UPLOAD_BLK_SUBBLOCK_CRSP |-> {"ack"}, UPLOAD_BLK_END_CRSP |-> {}]

\* A frame that does not go on with the transfer.
RefuseFrame ==
  /\ Processed
  /\ request.cs \notin Expected[state]
  /\ AbortUpload
  /\ txBuff' = None
  /\ UNCHANGED <<source, countVars, zeros>>

Serve ==
  \/ InitUpload \/ InitBlockUpload
  \/ UploadSegment \/ RepeatSegment
  \/ StartBlocks \/ Acknowledge
  \/ RefuseFrame

----------------------------------------------------------------------------
(* The server: calls without a request, and CO_SDO_receive                 *)

\* During a sub-block every call sends a segment.
SendNext ==
  /\ request = None /\ state = "UPLOAD_BLK_SUBBLOCK_SREQ"
  /\ blksize' = blksize
  /\ SendBlockSegment(source, seqno, sizeTran)
  /\ UNCHANGED <<objectVars, request, sizeInd, toggle, zeros, toServer, faults, clientVars, trouble>>

\* A call with nothing to do, which clears CANtxBuff in the middle of a transfer.
Poll ==
  /\ request = None /\ state # "UPLOAD_BLK_SUBBLOCK_SREQ"
  /\ txBuff' = IF state = "IDLE" THEN txBuff ELSE None
  /\ UNCHANGED <<objectVars, state, request, source, countVars, zeros, busVars, clientVars, trouble>>

Ended == step \in {"success", "failed"}

\* The client's timeout is shorter than the server's, so that passes first unless
\* there is no client.
ServerTimeout ==
  /\ request = None /\ state \notin {"IDLE", "UPLOAD_BLK_SUBBLOCK_SREQ"}
  /\ AbortUpload
  /\ txBuff' = None
  /\ Timeout(~Ended \/ toServer # <<>>)
  /\ UNCHANGED <<objectVars, request, source, countVars, zeros, toServer, clientVars>>

\* A request reaches the server; it is lost if one waits.
Deliver ==
  LET m == Head(toServer)
  IN /\ toServer # <<>> /\ toServer' = Tail(toServer)
     /\ IF m.cs = "abort" \/ (request = None /\ state = "UPLOAD_BLK_END_CRSP" /\ m.cs = "endAck")
        THEN state' = "IDLE" /\ UNCHANGED request
        ELSE /\ request' = IF request = None THEN m ELSE request
             /\ UNCHANGED state
     /\ UNCHANGED <<objectVars, source, countVars, txBuff, zeros, toClient, faults, clientVars, trouble>>

Server == Serve \/ SendNext \/ ServerTimeout \/ Poll

----------------------------------------------------------------------------
(* The client                                                              *)

Request(m) == toServer' = Append(toServer, m)

GiveUp ==
  /\ step' = "failed"
  /\ Request([cs |-> "abort"])

Start ==
  /\ step = "start"
  /\ IF block
     THEN Request([cs |-> "blockUpload", blksize |-> ClientBlock, threshold |-> Threshold])
     ELSE Request([cs |-> "upload"])
  /\ step' = IF block THEN "UPLOAD_BLK_INITIATE_RSP" ELSE "UPLOAD_INITIATE_RSP"
  /\ UNCHANGED <<objectVars, serverVars, toClient, faults, got, lastSegment, size,
                 clientToggle, clientSeqno, quiet, trouble>>

\* A frame is taken from the bus.
Taken(m) ==
  /\ toClient # <<>> /\ m = Head(toClient) /\ toClient' = Tail(toClient)
  /\ UNCHANGED <<objectVars, serverVars, faults, trouble>>

\* The answer to the initiation.
ReadInitiation(m) ==
  /\ Taken(m)
  /\ step \in {"UPLOAD_INITIATE_RSP", "UPLOAD_BLK_INITIATE_RSP"}
  /\ \/ /\ m.cs = "uploaded"
        /\ got' = m.data /\ step' = "success"
        /\ UNCHANGED <<toServer, size, clientToggle, clientSeqno, quiet>>
     \/ /\ m.cs = "uploadOpen"
        /\ size' = m.size /\ clientToggle' = 0 /\ step' = "UPLOAD_SEGMENT_RSP"
        /\ Request([cs |-> "segmentRequest", toggle |-> 0])
        /\ UNCHANGED <<got, clientSeqno, quiet>>
     \/ /\ m.cs = "blockOpen" /\ step = "UPLOAD_BLK_INITIATE_RSP"
        /\ size' = m.size /\ clientSeqno' = 0 /\ quiet' = FALSE
        /\ step' = "UPLOAD_BLK_SUBBLOCK_SREQ"
        /\ Request([cs |-> "startBlocks"])
        /\ UNCHANGED <<got, clientToggle>>
  /\ UNCHANGED lastSegment

\* A segment that was asked for: toggle and size are right, or the client gives up.
ReadSegment(m) ==
  /\ Taken(m)
  /\ step = "UPLOAD_SEGMENT_RSP" /\ m.cs = "segment"
  /\ IF m.toggle # clientToggle
     THEN GiveUp /\ UNCHANGED <<got, clientToggle>>
     ELSE /\ got' = got \o m.data /\ clientToggle' = 1 - clientToggle
          /\ IF size > 0 /\ (Len(got') > size \/ (m.last /\ Len(got') < size))
             THEN GiveUp
             ELSE IF m.last THEN step' = "success" /\ UNCHANGED toServer
             ELSE step' = step /\ Request([cs |-> "segmentRequest", toggle |-> 1 - clientToggle])
  /\ UNCHANGED <<lastSegment, size, clientSeqno, quiet>>

\* During a sub-block the first byte of any frame is a sequence number; a command
\* is 65 or more and taken not to be the next one.
SeqnoOf(m) == IF m.cs = "block" THEN m.seqno ELSE ClientBlock + 1

\* A segment in order is taken; a gap after the first ends the sub-block.
ReadBlockSegment(m) ==
  /\ Taken(m)
  /\ step = "UPLOAD_BLK_SUBBLOCK_SREQ" /\ m.cs # "abort"
  /\ quiet' = FALSE
  /\ IF SeqnoOf(m) <= ClientBlock /\ SeqnoOf(m) = clientSeqno + 1
     THEN /\ clientSeqno' = m.seqno
          /\ lastSegment' = IF m.last THEN m.data ELSE lastSegment
          /\ got' = IF m.last THEN got ELSE got \o m.data
          /\ step' = IF m.last \/ m.seqno = ClientBlock THEN "UPLOAD_BLK_SUBBLOCK_CRSP" ELSE step
     ELSE /\ step' = IF SeqnoOf(m) # clientSeqno /\ clientSeqno # 0 THEN "UPLOAD_BLK_SUBBLOCK_CRSP" ELSE step
          /\ UNCHANGED <<clientSeqno, lastSegment, got>>
  /\ UNCHANGED <<toServer, size, clientToggle>>

\* The end of a sub-block: what is in order is acknowledged.
AcknowledgeBlock ==
  /\ step = "UPLOAD_BLK_SUBBLOCK_CRSP"
  /\ IF lastSegment = <<>> /\ size > 0 /\ Len(got) > size
     THEN GiveUp /\ UNCHANGED clientSeqno
     ELSE /\ Request([cs |-> "ack", seqno |-> clientSeqno, blksize |-> ClientBlock])
          /\ IF lastSegment # <<>>
             THEN step' = "UPLOAD_BLK_END_SREQ" /\ UNCHANGED clientSeqno
             ELSE step' = "UPLOAD_BLK_SUBBLOCK_SREQ" /\ clientSeqno' = 0
  /\ UNCHANGED <<objectVars, serverVars, toClient, faults, got, lastSegment, size,
                 clientToggle, quiet, trouble>>

\* Fault: the CRC is not compared.
AnyCrc(d, m) == size = 0 \/ Len(d) = size

\* The checks at the end of an upload by blocks
Complete(d, m) == (size = 0 \/ Len(d) = size) /\ d = m.crc

\* The end: the last segment without its padding, then size and CRC.
ReadEnd(m) ==
  LET all == got \o SubSeq(lastSegment, 1, SegBytes - m.noData)
  IN /\ Taken(m)
     /\ step = "UPLOAD_BLK_END_SREQ" /\ m.cs = "endBlock"
     /\ got' = all
     /\ IF Complete(all, m)
        THEN step' = "success" /\ Request([cs |-> "endAck"])
        ELSE GiveUp
     /\ UNCHANGED <<lastSegment, size, clientToggle, clientSeqno, quiet>>

\* An abort of the server; frames that come while none is due, or too late.
ReadAbort(m) ==
  /\ Taken(m)
  /\ m.cs = "abort" /\ ~Ended
  /\ step' = "failed"
  /\ UNCHANGED <<toServer, got, lastSegment, size, clientToggle, clientSeqno, quiet>>

Ignore(m) ==
  /\ Taken(m)
  /\ Ended \/ (step = "UPLOAD_BLK_SUBBLOCK_CRSP" /\ m.cs # "abort")
  /\ UNCHANGED <<toServer, clientVars>>

\* The frames a state waits for
Awaited ==
  [UPLOAD_INITIATE_RSP |-> {"uploaded", "uploadOpen"},
   UPLOAD_BLK_INITIATE_RSP |-> {"uploaded", "uploadOpen", "blockOpen"},
   UPLOAD_SEGMENT_RSP |-> {"segment"}, UPLOAD_BLK_END_SREQ |-> {"endBlock"}]

\* Any other frame in those states
ReadOther(m) ==
  /\ Taken(m)
  /\ step \in DOMAIN Awaited /\ m.cs \notin Awaited[step] \cup {"abort"}
  /\ GiveUp
  /\ UNCHANGED <<got, lastSegment, size, clientToggle, clientSeqno, quiet>>

\* Something is on its way, or the server about to send it.
Underway == toServer # <<>> \/ toClient # <<>> \/ request # None \/ state = "UPLOAD_BLK_SUBBLOCK_SREQ"

\* 0.7 of the transfer timeout after the last frame of a sub-block
BlockTimeout ==
  /\ step = "UPLOAD_BLK_SUBBLOCK_SREQ" /\ ~quiet
  /\ step' = "UPLOAD_BLK_SUBBLOCK_CRSP" /\ quiet' = TRUE
  /\ Timeout(Underway)
  /\ UNCHANGED <<objectVars, serverVars, toServer, toClient, got, lastSegment, size,
                 clientToggle, clientSeqno>>

TransferTimeout ==
  /\ step \in DOMAIN Awaited \/ (step = "UPLOAD_BLK_SUBBLOCK_SREQ" /\ quiet)
  /\ GiveUp
  /\ Timeout(Underway)
  /\ UNCHANGED <<objectVars, serverVars, toClient, got, lastSegment, size, clientToggle, clientSeqno, quiet>>

ReadFrame ==
  LET m == Head(toClient)
  IN toClient # <<>> /\
     \/ ReadInitiation(m) \/ ReadSegment(m) \/ ReadBlockSegment(m) \/ ReadEnd(m)
     \/ ReadAbort(m) \/ ReadOther(m) \/ Ignore(m)

----------------------------------------------------------------------------
(* The bus                                                                 *)

\* A lost segment of a block is repaired, unless the sub-block before it was
\* lost as a whole.
LoseAnswer ==
  /\ Fault
  /\ toClient # <<>> /\ toClient' = Tail(toClient)
  /\ trouble' = (trouble \/ Head(toClient).cs # "block" \/ quiet)
  /\ UNCHANGED <<objectVars, serverVars, toServer, clientVars>>

LoseRequest ==
  /\ Fault
  /\ toServer # <<>> /\ toServer' = Tail(toServer)
  /\ trouble' = TRUE
  /\ UNCHANGED <<objectVars, serverVars, toClient, clientVars>>

\* A request comes twice, by a client that repeats it or by the bus.
RepeatRequest ==
  /\ Fault
  /\ toServer # <<>> /\ toServer' = <<Head(toServer)>> \o toServer
  /\ trouble' = TRUE
  /\ UNCHANGED <<objectVars, serverVars, toClient, clientVars>>

----------------------------------------------------------------------------

Init ==
  /\ data \in Objects /\ known \in BOOLEAN /\ block \in BOOLEAN
  /\ state = "IDLE" /\ request = None /\ source = NoData
  /\ sizeInd = 0 /\ sizeTran = 0 /\ toggle = 0 /\ blksize = 0 /\ seqno = 0 /\ noData = 0
  /\ txBuff = None
  /\ toServer = <<>> /\ toClient = <<>> /\ faults = 0
  /\ step = "start" /\ got = <<>> /\ lastSegment = <<>> /\ size = 0
  /\ clientToggle = 0 /\ clientSeqno = 0 /\ quiet = FALSE
  /\ trouble = FALSE /\ zeros = FALSE

Client == Start \/ ReadFrame \/ AcknowledgeBlock
Timeouts == BlockTimeout \/ TransferTimeout

Next ==
  \/ Server \/ Deliver
  \/ Client \/ Timeouts
  \/ LoseAnswer \/ LoseRequest \/ RepeatRequest

Spec == Init /\ [][Next]_vars

\* Both main loops and the bus go on, and a timeout passes when nothing comes.
FairSpec ==
  /\ Spec
  /\ WF_vars(Serve) /\ WF_vars(SendNext) /\ WF_vars(Deliver)
  /\ WF_vars(Client) /\ WF_vars(Timeouts)

----------------------------------------------------------------------------
(* Properties                                                              *)

\* An upload the client reports as done gave it the object, byte for byte:
\* whatever was lost, late or repeated, and whatever sub-blocks were sent again
\* because of it.  The one exception is a segmented upload in which a repeated
\* request was answered from the cleared buffer.
UploadTrue == step = "success" /\ ~zeros => got = data

\* "Duplicate upload request: re-send last upload segment response"
\* (CO_SDOserver.c:866): a request that comes twice finds that response in
\* CANtxBuff.  It does not hold: every call in between has cleared it, so the
\* client gets zeros for data.
LastResponseResent == [][RepeatSegment => txBuff # None]_vars

\* An upload ends, at both ends, and in success, if nothing happens to it but
\* that segments of blocks are lost: the server sends them again.
UploadSucceeds == step = "start" ~> (step = "success" /\ state = "IDLE") \/ trouble
=============================================================================
