------------------------- MODULE SdoDownloadProofs -------------------------
(***************************************************************************)
(* Proofs about SdoDownload, for every data, segment and buffer size and   *)
(* number of retries.  The server of a download is SdoServer: what         *)
(* SdoServerProofs proves of each of its steps is used here through an     *)
(* instance of that module.                                                *)
(*                                                                         *)
(* The argument is that of an alternating bit protocol.  The answers on    *)
(* their way to the host, oldest first, and behind them the requests on    *)
(* their way to the server form one line.  Every step takes a frame out of *)
(* the line, puts one at its end, or replaces a request by its answer, so  *)
(* what is known of any two frames and their order in the line stays true. *)
(***************************************************************************)
EXTENDS SdoDownload, SequenceTheorems, TLAPS

Srv == INSTANCE SdoServerProofs WITH
  Object <- {Image}, Missing <- "none", Readable <- {}, Writable <- {Image},
  Size <- [o \in {Image} |-> 0], Initial <- [o \in {Image} |-> <<>>],
  Frames <- HostFrames, ExpBytes <- 1

----------------------------------------------------------------------------
(* The line                                                                *)

In(s)            == {s[i] : i \in DOMAIN s}
Follows(s, x, y) == \E i, j \in DOMAIN s : i < j /\ s[i] = x /\ s[j] = y

\* The host discards what it has received before it starts.
Read == IF step = "start" THEN <<>> ELSE inbox

\* The request that waits for the server.
Slot == IF request = Srv!None THEN {} ELSE {request}

Members == In(Read) \cup In(out) \cup Slot \cup In(toServer)

\* x is before y in the line.
Before(x, y) ==
  \/ Follows(Read, x, y) \/ Follows(out, x, y) \/ Follows(toServer, x, y)
  \/ x \in In(Read) /\ y \in In(out)
  \/ x \in In(Read) \cup In(out) /\ y \in Slot \cup In(toServer)
  \/ x \in Slot /\ y \in In(toServer)

Bits     == {"segment", "segmentAck"}        \* frames with a toggle bit
Openings == {"initSegmented", "written"}     \* an initiation or its answer

NoOpening == \A x \in Members : x.cs \notin Openings

----------------------------------------------------------------------------
(* The inductive invariants                                                *)

Replies ==
       [cs : {"abort"}, obj : {Image, "none"}, code : Srv!Codes]
  \cup [cs : {"written"}, obj : {Image}]
  \cup [cs : {"segmentAck"}, toggle : {0, 1}]

InTransfer == state = "DOWNLOAD_SEGMENT_REQ"

\* The server keeps what SdoServerProofs proves of it; it is in no block
\* transfer, and its timer only runs in the step in which it is up.
Serving ==
  /\ Srv!IInv
  /\ state \in {"IDLE", "DOWNLOAD_SEGMENT_REQ"}
  /\ InTransfer => timer = 0

Traffic ==
  /\ toServer \in Seq(HostFrames) /\ Len(toServer) <= MaxTransit
  /\ out \in Seq(Replies) /\ inbox \in Seq(Replies)

Script ==
  /\ step \in {"start", "init", "send", "segment", "done", "failed"}
  /\ run \in 1 .. MaxRuns
  /\ acked \in 0 .. Len(Data)
  /\ step \in {"start", "init"} => acked = 0
  /\ step \in {"send", "segment"} => acked < Len(Data)
  /\ hostToggle \in {0, 1} /\ attempts \in 0 .. Retries

Base == Serving /\ Traffic /\ Script

\* The segment behind the first p bytes of the data of run q.
After(q, p) == Shorter(p + SegBytes, Len(DataOf[q]))

Segment(q, p, h) ==
  [cs |-> "segment", toggle |-> h,
   data |-> SubSeq(DataOf[q], p + 1, After(q, p)), last |-> p + SegBytes >= Len(DataOf[q])]

\* What the server has of the transfer, in the object and in the buffer.
Stored == SubSeq(content[Image], 1, offset) \o buf

Beginning(q, n) == SubSeq(DataOf[q], 1, n)

\* The server has the first p bytes of run q and expects the segment behind
\* them, which has toggle bit h; or it has that segment too, it was not the last
\* one, and all on their way are repetitions of it.
Place(q, p, h) ==
  InTransfer =>
    \/ toggle = h /\ Stored = Beginning(q, p)
    \/ /\ toggle = 1 - h /\ Stored = Beginning(q, After(q, p))
       /\ p + SegBytes < Len(DataOf[q])
       /\ \A x \in Members : x.cs = "segment" => x.toggle = h

\* A segment on its way with toggle bit h is the one behind the first p bytes
\* of run q, and none with the other bit is behind it.
Track(q, p, h) ==
  /\ \A x \in Members : x.cs = "segment" /\ x.toggle = h => x = Segment(q, p, h)
  /\ \A x, y \in Members :
       Before(x, y) /\ x.cs = "segment" /\ y.cs = "segment" /\ x.toggle = h => y.toggle = h
  /\ Place(q, p, h)

\* Before the host has an answer to its initiation: the server may still be
\* served with segments of a run before, but not from behind an initiation.
Waiting ==
  /\ step # "failed" => acked = 0 /\ hostToggle = 0
  /\ InTransfer => \E q \in 1 .. run : \E p \in 0 .. Len(DataOf[q]) - 1, h \in {0, 1} : Track(q, p, h)
  /\ \A x, y \in Members : Before(x, y) /\ x.cs \in Openings => y.cs \notin Bits
  /\ \A x \in Members : x.cs = "written" /\ InTransfer => toggle = 0 /\ Stored = <<>>
  /\ run = 1 =>
       /\ \A x, y \in Members : ~(Before(x, y) /\ x.cs \in Openings /\ y.cs \in Openings)
       /\ step = "start" => NoOpening

\* Behind the initiation: the toggle bits in the line change at most once, to
\* that of the host, and an answer with that bit is to the segment in work.
Underway ==
  /\ acked < Len(Data)
  /\ Track(run, acked, hostToggle)
  /\ \A x, y \in Members :
       Before(x, y) /\ x.cs \in Bits /\ y.cs \in Bits /\ x.toggle = hostToggle => y.toggle = hostToggle
  /\ \A x \in Members : x.cs = "segmentAck" /\ x.toggle = hostToggle =>
       /\ InTransfer => toggle # hostToggle
       /\ IsLast(acked) => ~InTransfer /\ content[Image] = Data
  /\ \A x \in Members : x.cs = "initSegmented" =>
       acked = 0 /\ hostToggle = 0 /\ (InTransfer => toggle = 0)
  /\ \A x, y \in Members : Before(x, y) /\ y.cs = "initSegmented" => x.cs \notin Bits
  /\ run = 1 => NoOpening

\* The host has the answer to its last segment.
Complete ==
  /\ ~InTransfer /\ content[Image] = Data
  /\ \A x \in Members : x.cs # "initSegmented"
  /\ run = 1 => NoOpening

IInv ==
  \/ step \in {"start", "init", "failed"} /\ Waiting
  \/ step \in {"send", "segment", "failed"} /\ Underway
  \/ step = "done" /\ Complete

----------------------------------------------------------------------------
(* The server of SdoDownload is that of the instance                       *)

LEMMA SameInit == Server!Init <=> Srv!Init
  BY DEF
    Server!Init, Server!None, Srv!Init, Srv!None

LEMMA SameTypeOK == Server!TypeOK <=> Srv!TypeOK
  BY DEF
    Server!TypeOK, Server!States, Server!None, Srv!TypeOK, Srv!States, Srv!None

LEMMA SameNext == Server!Next <=> Srv!Next
  BY DEF
    Server!Next, Server!Receive, Server!Serve, Server!Poll, Server!Stop, Server!Transmit,
    Server!transferVars, Server!blockVars, Server!timerVars, Server!None, Server!TransferTimeout,
    Server!SubBlockResponse, Server!Idle, Server!Waits, Server!SubBlockOver, Server!Reply,
    Server!Codes, Server!FreeSegments, Server!ValidateAndWrite, Server!AbortTransfer,
    Server!SizeVerdict, Server!WriteObject, Server!WriteVerdict, Server!Least,
    Server!RefuseCommand, Server!RefuseObject, Server!RefuseFrame, Server!Upload,
    Server!ExpeditedDownload, Server!InitSegmented, Server!RepeatSegment, Server!DownloadSegment,
    Server!InitBlock, Server!EndBlock, Server!Processed, Server!CrcRight, Server!Starts,
    Server!Indicated, Server!IndicatedVerdict, Server!Allowed, Server!MustFlush, Server!Initiating,
    Server!ReceiveAbort, Server!ReceiveRequest, Server!ReceiveBlock, Server!SeqnoOf, Srv!Next,
    Srv!Receive, Srv!Serve, Srv!Poll, Srv!Stop, Srv!Transmit, Srv!transferVars, Srv!blockVars,
    Srv!timerVars, Srv!None, Srv!TransferTimeout, Srv!SubBlockResponse, Srv!Idle, Srv!Waits,
    Srv!SubBlockOver, Srv!Reply, Srv!Codes, Srv!FreeSegments, Srv!ValidateAndWrite,
    Srv!AbortTransfer, Srv!SizeVerdict, Srv!WriteObject, Srv!WriteVerdict, Srv!Least,
    Srv!RefuseCommand, Srv!RefuseObject, Srv!RefuseFrame, Srv!Upload, Srv!ExpeditedDownload,
    Srv!InitSegmented, Srv!RepeatSegment, Srv!DownloadSegment, Srv!InitBlock, Srv!EndBlock,
    Srv!Processed, Srv!CrcRight, Srv!Starts, Srv!Indicated, Srv!IndicatedVerdict, Srv!Allowed,
    Srv!MustFlush, Srv!Initiating, Srv!ReceiveAbort, Srv!ReceiveRequest, Srv!ReceiveBlock,
    Srv!SeqnoOf

----------------------------------------------------------------------------
(* Types, and what the server keeps                                        *)

LEMMA DataType ==
  /\ MaxRuns \in Nat \ {0}
  /\ \A r \in 1 .. MaxRuns : DataOf[r] \in Seq(Byte) /\ Len(DataOf[r]) \in Nat /\ Len(DataOf[r]) > 0
<1>1. DataOf \in Seq(Seq(Byte) \ {<<>>}) /\ DataOf # <<>>
  BY RunAssumption
<1>2. MaxRuns \in Nat \ {0}
  BY <1>1 DEF MaxRuns
<1>3. ASSUME NEW r \in 1 .. MaxRuns
      PROVE  DataOf[r] \in Seq(Byte) /\ Len(DataOf[r]) \in Nat /\ Len(DataOf[r]) > 0
  <2>1. DataOf[r] \in Seq(Byte) /\ DataOf[r] # <<>>
    BY <1>1 DEF MaxRuns
  <2> QED
    BY <2>1
<1> QED
  BY <1>2, <1>3

LEMMA HostFrameType ==
  ASSUME NEW m \in HostFrames
  PROVE  /\ m.cs \in {"initSegmented", "segment"}
         /\ m.cs = "initSegmented" => m.obj = Image /\ m.sized /\ m.size \in Nat
         /\ m.cs = "segment" => /\ m.toggle \in {0, 1} /\ m.last \in BOOLEAN
                                /\ m.data \in Seq(Byte) /\ Len(m.data) <= SegBytes
<1>1. CASE m \in [cs : {"initSegmented"}, obj : {Image}, sized : {TRUE}, size : {Len(DataOf[r]) : r \in 1 .. MaxRuns}]
  BY <1>1, DataType
<1>2. CASE m \in [cs : {"segment"}, toggle : {0, 1}, data : UNION {[1 .. n -> Byte] : n \in 1 .. SegBytes}, last : BOOLEAN]
  <2>1. PICK n \in 1 .. SegBytes : m.data \in [1 .. n -> Byte]
    BY <1>2
  <2>2. m.data \in Seq(Byte) /\ Len(m.data) = n
    BY <2>1, ServerAssumption
  <2> QED
    BY <1>2, <2>2, ServerAssumption
<1> QED
  BY <1>1, <1>2 DEF HostFrames

LEMMA FramesAreRequests ==
  /\ HostFrames \subseteq Srv!Requests
  /\ \A m \in HostFrames :
       /\ m.cs = "expedited" => Len(m.data) \in 1 .. 1 /\ (~m.sized => Len(m.data) = 1)
       /\ m.cs = "segment" => Len(m.data) <= SegBytes
       /\ m.cs = "block" => Len(m.data) = SegBytes
       /\ m.cs = "endBlock" => m.noData <= SegBytes
<1>1. ASSUME NEW m \in HostFrames PROVE m \in Srv!Requests
  <2>1. CASE m \in [cs : {"initSegmented"}, obj : {Image}, sized : {TRUE}, size : {Len(DataOf[r]) : r \in 1 .. MaxRuns}]
    <3>1. m \in [cs : {"initSegmented"}, obj : {Image} \cup {"none"}, sized : BOOLEAN, size : Nat]
      BY <2>1, DataType
    <3> QED
      BY <3>1 DEF Srv!Requests
  <2>2. CASE m \in [cs : {"segment"}, toggle : {0, 1}, data : UNION {[1 .. n -> Byte] : n \in 1 .. SegBytes}, last : BOOLEAN]
    <3>1. m.data \in Seq(Byte) /\ m.cs = "segment"
      BY <2>2, HostFrameType
    <3>2. m \in [cs : {"segment"}, toggle : {0, 1}, data : Seq(Byte), last : BOOLEAN]
      BY <2>2, <3>1
    <3> QED
      BY <3>2 DEF Srv!Requests
  <2> QED
    BY <2>1, <2>2 DEF HostFrames
<1> QED
  BY <1>1, HostFrameType

\* The assumptions of SdoServer hold for the server of a download.
LEMMA ServerAssumptions ==
  /\ SegBytes \in Nat /\ 1 \in Nat /\ 0 < 1 /\ 1 < SegBytes
  /\ /\ BufferSize \in Nat /\ MaxBlock \in Nat \ {0}
     /\ MaxBlock * SegBytes + 2 <= BufferSize
  /\ /\ Timeout \in Nat /\ BlockTimeout \in Nat
     /\ 0 < BlockTimeout /\ BlockTimeout < Timeout
  /\ TxSize \in Nat
  /\ /\ "none" \notin {Image}
     /\ {} \subseteq {Image} /\ {Image} \subseteq {Image}
     /\ [o \in {Image} |-> 0] \in [{Image} -> Nat]
     /\ [o \in {Image} |-> <<>>] \in [{Image} -> Seq(Byte)]
     /\ \A o \in {Image} :
          /\ [p \in {Image} |-> 0][o] <= 1
          /\ [p \in {Image} |-> 0][o] # 0 => Len([p \in {Image} |-> <<>>][o]) = [p \in {Image} |-> 0][o]
     /\ \A o \in {} : [p \in {Image} |-> 0][o] # 0
  /\ Limit \in Nat
  /\ /\ HostFrames \subseteq Srv!Requests
     /\ \A m \in HostFrames :
          /\ m.cs = "expedited" => Len(m.data) \in 1 .. 1 /\ (~m.sized => Len(m.data) = 1)
          /\ m.cs = "segment" => Len(m.data) <= SegBytes
          /\ m.cs = "block" => Len(m.data) = SegBytes
          /\ m.cs = "endBlock" => m.noData <= SegBytes
<1>1. "none" \notin {Image} /\ \A o \in {Image} : [p \in {Image} |-> 0][o] = 0
  BY DEF Image
<1>2. [o \in {Image} |-> <<>>] \in [{Image} -> Seq(Byte)]
  OBVIOUS
<1> QED
  BY <1>1, <1>2, ServerAssumption, FramesAreRequests

LEMMA ServerInit == Server!Init => Srv!IInv
<1>1. Srv!Init => Srv!IInv
  BY ServerAssumptions, Srv!InitEstablishes
<1> QED
  BY <1>1, SameInit

LEMMA ServerKeeps == Srv!IInv /\ [Server!Next]_serverVars => Srv!IInv'
<1>1. Srv!IInv /\ [Srv!Next]_(Srv!vars) => Srv!IInv'
  BY ServerAssumptions, Srv!NextKeeps
<1>2. serverVars' = serverVars => Srv!vars' = Srv!vars
  BY DEF serverVars, Srv!vars, Srv!transferVars, Srv!blockVars, Srv!timerVars
<1> QED
  BY <1>1, <1>2, SameNext

----------------------------------------------------------------------------
(* What a step of the server comes to                                      *)

Answered(m) ==
  /\ request' = Srv!None
  /\ out' = IF Len(out) < TxSize THEN Append(out, m) ELSE out

\* The transfer is over, and the client may be told.
Aborted ==
  /\ state' = "IDLE" /\ request' \in {request, Srv!None}
  /\ content' = content \/ InTransfer
  /\ \E o \in {Image, "none"}, c \in Srv!Codes :
       out' \in {out, Append(out, [cs |-> "abort", obj |-> o, code |-> c])}

\* A transfer begins.
Opened ==
  /\ ~InTransfer /\ request # Srv!None /\ request.cs = "initSegmented"
  /\ InTransfer' /\ toggle' = 0 /\ offset' = 0 /\ buf' = <<>> /\ timer' = 0
  /\ content' = content
  /\ Answered([cs |-> "written", obj |-> Image])

\* A segment came again.
Repeated ==
  /\ InTransfer /\ request # Srv!None /\ request.cs = "segment" /\ request.toggle # toggle
  /\ UNCHANGED <<state, toggle, offset, buf, content>> /\ timer' = 0
  /\ Answered([cs |-> "segmentAck", toggle |-> request.toggle])

\* A segment was taken.
Took ==
  /\ InTransfer /\ request # Srv!None /\ request.cs = "segment" /\ request.toggle = toggle
  /\ toggle' = 1 - toggle /\ timer' = 0
  /\ IF request.last
     THEN state' = "IDLE" /\ content'[Image] = Stored \o request.data
     ELSE InTransfer' /\ Stored' = Stored \o request.data
  /\ Answered([cs |-> "segmentAck", toggle |-> request.toggle])

LEMMA RequestType ==
  ASSUME Base, request # Srv!None
  PROVE  request \in HostFrames
BY DEF Base, Serving, Srv!IInv, Srv!TypeOK

LEMMA ServerTypes ==
  ASSUME Base
  PROVE  /\ content \in [{Image} -> Seq(Byte)] /\ content[Image] \in Seq(Byte)
         /\ offset \in Nat /\ buf \in Seq(Byte) /\ toggle \in {0, 1}
         /\ obj \in {Image, "none"} /\ timer \in 0 .. Timeout
         /\ InTransfer => obj = Image /\ timer = 0
         /\ InTransfer /\ offset # 0 => Len(content[Image]) = offset
BY DEF Base, Serving, Srv!IInv, Srv!TypeOK, Srv!Dictionary, Srv!Accounted, InTransfer

LEMMA DeliverEffect ==
  ASSUME Base, Deliver
  PROVE  /\ toServer # <<>> /\ toServer' = Tail(toServer)
         /\ Head(toServer) \in HostFrames
         /\ request' = IF request = Srv!None THEN Head(toServer) ELSE request
         /\ UNCHANGED <<state, toggle, offset, buf, timer, content, out, inbox, hostVars>>
<1>1. toServer # <<>> /\ Head(toServer) \in HostFrames
  BY DEF Deliver, Base, Traffic
<1>2. Head(toServer).cs # "abort"
  BY <1>1, HostFrameType
<1>3. Server!ReceiveRequest(Head(toServer)) \/ Server!ReceiveBlock(Head(toServer))
  BY <1>2 DEF Deliver, Server!Receive
<1>4. Server!ReceiveRequest(Head(toServer))
  BY <1>3 DEF Server!ReceiveBlock, Base, Serving
<1> QED
  BY <1>1, <1>4 DEF Deliver, Server!ReceiveRequest, Server!None, Srv!None, Server!transferVars, Server!timerVars

LEMMA AbortEffect ==
  ASSUME Base,
         Server!RefuseCommand \/ Server!RefuseFrame \/ Server!TransferTimeout(Timeout) \/ Server!Stop
  PROVE  Aborted
<1> USE DEF Aborted, Server!None, Srv!None
<1>1. obj \in {Image, "none"} /\ "cmd" \in Srv!Codes /\ "timeout" \in Srv!Codes
  BY ServerTypes DEF Srv!Codes
<1>2. CASE Server!Stop
  <2>1. state' = "IDLE" /\ request' = Srv!None /\ content' = content /\ out' = out
    BY <1>2 DEF Server!Stop
  <2> QED
    BY <1>1, <2>1
<1>3. ASSUME NEW c \in {"cmd", "timeout"}, Server!AbortTransfer(obj, c),
             content' = content, request' \in {request, Srv!None}
      PROVE  Aborted
  <2>1. out' \in {out, Append(out, [cs |-> "abort", obj |-> obj, code |-> c])} /\ state' = "IDLE"
    BY <1>3 DEF Server!AbortTransfer, Server!Reply
  <2> QED
    BY <1>1, <1>3, <2>1
<1>4. CASE Server!RefuseCommand
  BY <1>3, <1>4 DEF Server!RefuseCommand, Server!Processed
<1>5. CASE Server!RefuseFrame
  BY <1>3, <1>5 DEF Server!RefuseFrame, Server!Processed
<1>6. CASE Server!TransferTimeout(Timeout)
  BY <1>3, <1>6 DEF Server!TransferTimeout, Server!Waits
<1> QED
  BY <1>2, <1>4, <1>5, <1>6

LEMMA OpenEffect ==
  ASSUME Base, Server!InitSegmented
  PROVE  Opened
<1>1. state = "IDLE" /\ request # Srv!None /\ request.cs = "initSegmented"
  BY DEF Server!InitSegmented, Server!Starts, Server!None, Srv!None
<1>2. request.obj = Image
  BY <1>1, RequestType, HostFrameType
<1>3. Server!IndicatedVerdict(request.obj) = "none"
  BY <1>2 DEF Server!IndicatedVerdict
<1>4. /\ request' = Srv!None /\ timer' = 0 /\ offset' = 0 /\ content' = content
      /\ state' = "DOWNLOAD_SEGMENT_REQ" /\ toggle' = 0 /\ buf' = <<>>
      /\ Server!Reply([cs |-> "written", obj |-> Image])
  BY <1>2, <1>3 DEF Server!InitSegmented, Server!Starts, Server!Processed, Server!None, Srv!None
<1> QED
  BY <1>1, <1>4 DEF Opened, Answered, InTransfer, Server!Reply

LEMMA RepeatEffect ==
  ASSUME Base, Server!RepeatSegment
  PROVE  Repeated
BY DEF Server!RepeatSegment, Server!Processed, Server!Reply, Server!None, Srv!None,
       Repeated, Answered, InTransfer

LEMMA PrefixType ==
  ASSUME Base, InTransfer
  PROVE  SubSeq(content[Image], 1, offset) \in Seq(Byte)
<1>1. content[Image] \in Seq(Byte) /\ (offset # 0 => offset = Len(content[Image]))
  BY ServerTypes
<1>2. CASE offset = 0
  <2>1. SubSeq(content[Image], 1, 0) = <<>>
    BY SubSeqEmpty
  <2> QED
    BY <1>2, <2>1
<1>3. CASE offset # 0
  BY <1>1, <1>3, SubSeqFull
<1> QED
  BY <1>2, <1>3

\* The object is a DOMAIN: a write appends to the end of the object.
LEMMA WriteEffect ==
  ASSUME Base, InTransfer, NEW b, NEW answer, Server!WriteObject(obj, offset, b, answer), answer # "error"
  PROVE  content'[Image] = SubSeq(content[Image], 1, offset) \o b
         /\ offset' = Len(SubSeq(content[Image], 1, offset) \o b)
<1>1. obj = Image /\ content \in [{Image} -> Seq(Byte)]
  BY ServerTypes
<1>2. content' = [content EXCEPT ![Image] = SubSeq(content[Image], 1, offset) \o b]
      /\ offset' = Len(SubSeq(content[Image], 1, offset) \o b)
  BY <1>1 DEF Server!WriteObject
<1> QED
  BY <1>1, <1>2

\* A segment that was taken is behind what the server had, and the last one
\* completes the object.
LEMMA TakeEffect ==
  ASSUME Base, Server!DownloadSegment
  PROVE  Took \/ Aborted
<1> DEFINE b == buf \o request.data
           total == sizeTran + Len(request.data)
<1>1. /\ InTransfer /\ request # Srv!None /\ request.cs = "segment" /\ request.toggle = toggle
      /\ request' = Srv!None /\ timer' = 0
  BY DEF Server!DownloadSegment, Server!Processed, Server!None, Srv!None, InTransfer
<1>2. /\ request \in HostFrames /\ request.data \in Seq(Byte) /\ request.last \in BOOLEAN
      /\ obj = Image /\ content[Image] \in Seq(Byte) /\ offset \in Nat /\ buf \in Seq(Byte)
  BY <1>1, RequestType, HostFrameType, ServerTypes
<1>3. PICK code \in Server!Codes \cup {"none"} :
        /\ IF Server!MustFlush(b, request.last)
           THEN Server!ValidateAndWrite(b, total, request.last, crc, TRUE, code)
           ELSE code = "none" /\ buf' = b /\ UNCHANGED <<crc, content, offset>>
        /\ IF code # "none"
           THEN Server!AbortTransfer(obj, code) /\ UNCHANGED toggle
           ELSE /\ state' = IF request.last THEN "IDLE" ELSE state
                /\ toggle' = 1 - toggle
                /\ Server!Reply([cs |-> "segmentAck", toggle |-> toggle])
  BY <1>2 DEF Server!DownloadSegment
<1>4. (SubSeq(content[Image], 1, offset) \o buf) \o request.data
      = SubSeq(content[Image], 1, offset) \o b
  <2>1. SubSeq(content[Image], 1, offset) \in Seq(Byte)
    BY <1>1, PrefixType
  <2> QED
    <3> DEFINE front == SubSeq(content[Image], 1, offset)
    <3>1. front \in Seq(Byte) /\ buf \in Seq(Byte) /\ request.data \in Seq(Byte)
      BY <1>2, <2>1
    <3> HIDE DEF front
    <3>2. \A r, s, t \in Seq(Byte) : (r \o s) \o t = r \o (s \o t)
      BY ConcatAssociative
    <3>3. (front \o buf) \o request.data = front \o (buf \o request.data)
      BY <3>1, <3>2
    <3> QED
      BY <3>3 DEF front
<1>5. CASE code # "none"
  <2>1. code \in Srv!Codes /\ Server!AbortTransfer(Image, code)
    BY <1>2, <1>3, <1>5 DEF Srv!Codes, Server!Codes
  <2>2. state' = "IDLE" /\ out' \in {out, Append(out, [cs |-> "abort", obj |-> Image, code |-> code])}
    BY <2>1 DEF Server!AbortTransfer, Server!Reply
  <2> QED
    BY <1>1, <2>1, <2>2 DEF Aborted
<1>6. CASE code = "none"
  <2>1. /\ state' = IF request.last THEN "IDLE" ELSE state
        /\ toggle' = 1 - toggle
        /\ Answered([cs |-> "segmentAck", toggle |-> request.toggle])
    BY <1>1, <1>3, <1>6 DEF Server!Reply, Answered
  <2>2. CASE Server!MustFlush(b, request.last)
    <3>1. Server!SizeVerdict(total, request.last) = "none"
      BY <1>3, <1>6, <2>2 DEF Server!ValidateAndWrite
    <3>2. PICK answer \in {"ok", "partial", "error"} :
            /\ Server!WriteObject(obj, offset, b, answer)
            /\ "none" = Server!WriteVerdict(answer, request.last)
            /\ buf' = <<>>
      BY <1>3, <1>6, <2>2, <3>1 DEF Server!ValidateAndWrite
    <3>3. answer # "error"
      BY <3>2 DEF Server!WriteVerdict
    <3>4. content'[Image] = SubSeq(content[Image], 1, offset) \o b
          /\ offset' = Len(SubSeq(content[Image], 1, offset) \o b)
      BY <1>1, <3>2, <3>3, WriteEffect
    <3>5. content'[Image] = Stored \o request.data
      BY <1>2, <1>4, <3>4 DEF Stored
    <3>6. SubSeq(content'[Image], 1, offset') \o buf' = content'[Image]
      <4>1. content'[Image] \in Seq(Byte)
        <5>1. SubSeq(content[Image], 1, offset) \in Seq(Byte) /\ b \in Seq(Byte)
          BY <1>1, <1>2, PrefixType, ConcatProperties
        <5> HIDE DEF b
        <5> QED
          BY <3>4, <5>1, ConcatProperties
      <4>2. SubSeq(content'[Image], 1, offset') = content'[Image]
        BY <3>4, <4>1, SubSeqFull
      <4> QED
        BY <3>2, <4>1, <4>2, ConcatEmptySeq
    <3> QED
      BY <1>1, <2>1, <3>5, <3>6 DEF Took, Stored, InTransfer
  <2>3. CASE ~Server!MustFlush(b, request.last)
    <3>1. ~request.last /\ buf' = b /\ content' = content /\ offset' = offset
      BY <1>3, <2>3 DEF Server!MustFlush
    <3>2. Stored' = Stored \o request.data
      BY <1>2, <1>4, <3>1 DEF Stored
    <3> QED
      BY <1>1, <2>1, <3>1, <3>2 DEF Took, InTransfer
  <2> QED
    BY <2>2, <2>3
<1> QED
  BY <1>5, <1>6

LEMMA StepEffect ==
  ASSUME Base, ServerStep
  PROVE  /\ UNCHANGED <<toServer, inbox, hostVars>>
         /\ Aborted \/ Opened \/ Repeated \/ Took
BY AbortEffect, OpenEffect, RepeatEffect, TakeEffect DEF ServerStep

----------------------------------------------------------------------------
(* Every step keeps the types and what is known of the server              *)

LEMMA InitFrameType ==
  ASSUME Base
  PROVE  InitFrame \in HostFrames
<1>1. run \in 1 .. MaxRuns
  BY DEF Base, Script
<1>2. InitFrame \in [cs : {"initSegmented"}, obj : {Image}, sized : {TRUE},
                     size : {Len(DataOf[r]) : r \in 1 .. MaxRuns}]
  BY <1>1 DEF InitFrame, Data
<1> QED
  BY <1>2 DEF HostFrames

LEMMA SegmentFrameType ==
  ASSUME Base, acked < Len(Data)
  PROVE  SegmentFrame \in HostFrames
<1> DEFINE top == Shorter(acked + SegBytes, Len(Data))
<1>1. Data \in Seq(Byte) /\ Len(Data) \in Nat /\ acked \in Nat /\ SegBytes \in Nat /\ SegBytes > 0
      /\ hostToggle \in {0, 1}
  BY DataType, ServerAssumption DEF Base, Script, Data
<1>2. top \in Nat /\ acked < top /\ top <= Len(Data) /\ top - acked \in 1 .. SegBytes
  BY <1>1 DEF Shorter
<1> HIDE DEF top
<1>3. SubSeq(Data, acked + 1, top) \in Seq(Byte) /\ Len(SubSeq(Data, acked + 1, top)) = top - acked
  <2>1. \A i \in acked + 1 .. top : Data[i] \in Byte
    BY <1>1, <1>2
  <2> QED
    BY <1>1, <1>2, <2>1, SubSeqProperties
<1>4. SubSeq(Data, acked + 1, top) \in [1 .. top - acked -> Byte]
  BY <1>3, LenProperties
<1>5. SubSeq(Data, acked + 1, top) \in UNION {[1 .. n -> Byte] : n \in 1 .. SegBytes}
  BY <1>2, <1>4
<1>6. IsLast(acked) \in BOOLEAN
  BY <1>1 DEF IsLast
<1> QED
  BY <1>1, <1>5, <1>6 DEF SegmentFrame, HostFrames, top

LEMMA NextServing ==
  ASSUME Base, Next
  PROVE  Serving'
<1> USE DEF Serving, InTransfer
<1>0. Serving /\ toServer \in Seq(HostFrames)
  BY DEF Base, Traffic
<1>1. CASE UNCHANGED serverVars
  <2>1. Srv!IInv'
    BY <1>0, <1>1, ServerKeeps
  <2> QED
    BY <1>0, <1>1, <2>1 DEF serverVars
<1>2. CASE Host \/ RunAgain \/ LoseRequest
  <2>1. UNCHANGED serverVars
    BY <1>2 DEF Host, RunAgain, LoseRequest, StartTransfer, SendSegment, ReadInit, ReadSegmentAck,
                ReadSegmentAbort, SkipAnswer, HostTimeout
  <2> QED
    BY <1>1, <2>1
<1>3. CASE Deliver
  <2>1. Server!Receive(Head(toServer)) /\ Head(toServer) \in HostFrames
    BY <1>3, DeliverEffect DEF Deliver
  <2>2. Srv!IInv'
    BY <1>0, <2>1, ServerKeeps DEF Server!Next
  <2> QED
    BY <1>0, <1>3, <2>2, DeliverEffect
<1>4. CASE DeliverAnswer \/ LoseAnswer
  <2>1. Server!Transmit
    BY <1>4 DEF DeliverAnswer, LoseAnswer
  <2>2. Srv!IInv'
    BY <1>0, <2>1, ServerKeeps DEF Server!Next
  <2> QED
    BY <1>0, <2>1, <2>2 DEF Server!Transmit, Server!timerVars
<1>5. CASE ServerStep
  <2>1. Aborted \/ Opened \/ Repeated \/ Took
    BY <1>5, StepEffect
  <2>2. state' \in {"IDLE", "DOWNLOAD_SEGMENT_REQ"} /\ (InTransfer' => timer' = 0)
    BY <1>0, <2>1 DEF Aborted, Opened, Repeated, Took
  <2>3. CASE Server!TransferTimeout(Timeout)
    <3>1. /\ state' = "IDLE" /\ request' = request /\ timer' = timer + Timeout
          /\ UNCHANGED <<obj, offset, sizeInd, sizeTran, finished, toggle, buf,
                         blksize, seqno, crcOn, crc, blockTimer, content>>
      BY <2>3 DEF Server!TransferTimeout, Server!Waits, Server!AbortTransfer, Server!transferVars,
                  Server!blockVars
    <3>2. timer = 0 /\ Timeout \in Nat
      BY <1>0, <2>3, ServerAssumption DEF Server!TransferTimeout, Server!Waits
    <3>3. timer' \in 0 .. Timeout
      BY <3>1, <3>2
    <3>4. Srv!TypeOK /\ Srv!BufferFits /\ Srv!Sized
      BY <1>0 DEF Srv!IInv, Srv!Dictionary
    <3>5. Srv!TypeOK'
      BY <3>1, <3>3, <3>4 DEF Srv!TypeOK, Srv!States
    <3>6. Srv!Sized' /\ Len(buf') <= BufferSize
      BY <3>1, <3>4 DEF Srv!Sized, Srv!BufferFits
    <3>7. Srv!IInv'
      BY <3>1, <3>5, <3>6, ServerAssumptions, Srv!EndsIdle
    <3> QED
      BY <2>2, <3>7
  <2>4. CASE ~Server!TransferTimeout(Timeout)
    <3>1. Server!Next
      BY <1>5, <2>4 DEF ServerStep, Server!Next, Server!Serve
    <3>2. Srv!IInv'
      BY <1>0, <3>1, ServerKeeps
    <3> QED
      BY <2>2, <3>2
  <2> QED
    BY <2>3, <2>4
<1> QED
  BY <1>2, <1>3, <1>4, <1>5 DEF Next

LEMMA AnswerType ==
  ASSUME Base, NEW m \in Replies,
         out' \in {out, Append(out, m)}
  PROVE  out' \in Seq(Replies)
<1>1. \A s \in Seq(Replies) : Append(s, m) \in Seq(Replies)
  BY AppendProperties
<1>2. out' = out \/ out' = Append(out, m)
  OBVIOUS
<1> QED
  BY <1>1, <1>2 DEF Base, Traffic

LEMMA StepAnswers ==
  ASSUME Base, ServerStep
  PROVE  out' \in Seq(Replies)
<1>1. CASE Aborted
  <2>1. PICK o \in {Image, "none"}, c \in Srv!Codes :
          out' \in {out, Append(out, [cs |-> "abort", obj |-> o, code |-> c])}
    BY <1>1 DEF Aborted
  <2>2. [cs |-> "abort", obj |-> o, code |-> c] \in Replies
    BY DEF Replies
  <2> QED
    BY <2>1, <2>2, AnswerType
<1>2. CASE Opened
  <2>1. [cs |-> "written", obj |-> Image] \in Replies
    BY DEF Replies
  <2> QED
    BY <1>2, <2>1, AnswerType DEF Opened, Answered
<1>3. CASE Repeated \/ Took
  <2>1. request \in HostFrames /\ request.cs = "segment"
    BY <1>3, RequestType DEF Repeated, Took
  <2>2. [cs |-> "segmentAck", toggle |-> request.toggle] \in Replies
    BY <2>1, HostFrameType DEF Replies
  <2> QED
    BY <1>3, <2>2, AnswerType DEF Repeated, Took, Answered
<1> QED
  BY <1>1, <1>2, <1>3, StepEffect

LEMMA NextTraffic ==
  ASSUME Base, Next
  PROVE  Traffic'
<1>0. /\ toServer \in Seq(HostFrames) /\ Len(toServer) <= MaxTransit /\ MaxTransit \in Nat
      /\ out \in Seq(Replies) /\ inbox \in Seq(Replies)
  BY RunAssumption DEF Base, Traffic
<1>1. ASSUME NEW m \in HostFrames, Request(m), UNCHANGED out
      PROVE  Traffic'
  <2>1. inbox' = <<>> /\ inbox' \in Seq(Replies)
    BY <1>1 DEF Request
  <2>2. CASE Len(toServer) < MaxTransit
    <3>1. toServer' = Append(toServer, m)
      BY <1>1, <2>2 DEF Request
    <3>2. toServer' \in Seq(HostFrames) /\ Len(toServer') = Len(toServer) + 1
      BY <1>0, <3>1, AppendProperties
    <3> QED
      BY <1>0, <1>1, <2>1, <2>2, <3>2 DEF Traffic
  <2>3. CASE ~(Len(toServer) < MaxTransit)
    BY <1>0, <1>1, <2>1, <2>3 DEF Request, Traffic
  <2> QED
    BY <2>2, <2>3
<1>2. CASE StartTransfer
  BY <1>1, <1>2, InitFrameType DEF StartTransfer, serverVars
<1>3. CASE SendSegment
  <2>1. SegmentFrame \in HostFrames
    BY <1>3, SegmentFrameType DEF SendSegment, Base, Script
  <2> QED
    BY <1>1, <1>3, <2>1 DEF SendSegment, serverVars
<1>4. CASE ReadInit \/ ReadSegmentAck \/ ReadSegmentAbort \/ SkipAnswer
  <2>1. inbox # <<>> /\ inbox' = Tail(inbox) /\ UNCHANGED <<toServer, out>>
    BY <1>4 DEF ReadInit, ReadSegmentAck, ReadSegmentAbort, SkipAnswer, serverVars
  <2> QED
    BY <1>0, <2>1, HeadTailProperties DEF Traffic
<1>5. CASE HostTimeout \/ RunAgain
  BY <1>0, <1>5 DEF HostTimeout, RunAgain, serverVars, Traffic
<1>6. CASE ServerStep
  BY <1>0, <1>6, StepAnswers, StepEffect DEF Traffic
<1>7. CASE Deliver \/ LoseRequest
  <2>1. toServer # <<>> /\ toServer' = Tail(toServer) /\ UNCHANGED <<out, inbox>>
    BY <1>7, DeliverEffect DEF LoseRequest, serverVars
  <2>2. toServer' \in Seq(HostFrames) /\ Len(toServer') = Len(toServer) - 1
    BY <1>0, <2>1, HeadTailProperties
  <2> QED
    BY <1>0, <2>1, <2>2 DEF Traffic
<1>8. CASE DeliverAnswer \/ LoseAnswer
  <2>1. out # <<>> /\ out' = Tail(out) /\ inbox' \in {inbox, Append(inbox, Head(out))} /\ UNCHANGED toServer
    BY <1>8 DEF DeliverAnswer, LoseAnswer, Server!Transmit
  <2>2. Head(out) \in Replies /\ out' \in Seq(Replies)
    BY <1>0, <2>1, HeadTailProperties
  <2>3. inbox' \in Seq(Replies)
    <3>1. \A s \in Seq(Replies), m \in Replies : Append(s, m) \in Seq(Replies)
      BY AppendProperties
    <3>2. inbox' = inbox \/ inbox' = Append(inbox, Head(out))
      BY <2>1
    <3> QED
      BY <1>0, <2>2, <3>1, <3>2
  <2> QED
    BY <1>0, <2>1, <2>2, <2>3 DEF Traffic
<1> QED
  BY <1>2, <1>3, <1>4, <1>5, <1>6, <1>7, <1>8 DEF Next, Host

LEMMA NextScript ==
  ASSUME Base, Next
  PROVE  Script'
<1>0. /\ Script
      /\ Len(Data) \in Nat /\ Len(Data) > 0 /\ SegBytes \in Nat /\ SegBytes > 0 /\ Retries \in Nat
      /\ MaxRuns \in Nat
  BY DataType, ServerAssumption, RunAssumption DEF Base, Script, Data
<1>1. CASE UNCHANGED hostVars
  BY <1>0, <1>1 DEF hostVars, Script, Data
<1>2. CASE ReadSegmentAck
  <2>1. CASE ToggleRight(Head(inbox))
    <3>1. /\ acked' = Shorter(acked + SegBytes, Len(Data))
          /\ hostToggle' = 1 - hostToggle /\ attempts' = 0 /\ run' = run
          /\ step' = IF acked' = Len(Data) THEN "done" ELSE "send"
      BY <1>2, <2>1 DEF ReadSegmentAck
    <3>2. Data' = Data
      BY <3>1 DEF Data
    <3>3. acked' \in 0 .. Len(Data)
      BY <1>0, <3>1 DEF Shorter, Script
    <3> QED
      BY <1>0, <3>1, <3>2, <3>3 DEF Script
  <2>2. CASE ~ToggleRight(Head(inbox))
    <3>1. UNCHANGED <<acked, hostToggle, attempts, run>> /\ step' = "failed"
      BY <1>2, <2>2 DEF ReadSegmentAck
    <3> QED
      BY <1>0, <3>1 DEF Script, Data
  <2> QED
    BY <2>1, <2>2
<1>3. CASE Host /\ ~ReadSegmentAck
  <2>1. UNCHANGED <<acked, hostToggle, run>>
    BY <1>3 DEF Host, StartTransfer, SendSegment, ReadInit, ReadSegmentAbort, SkipAnswer,
                HostTimeout, hostVars
  <2>2. \/ step' \in {step, "failed"} /\ UNCHANGED attempts
        \/ step = "start" /\ step' = "init" /\ UNCHANGED attempts
        \/ step = "send" /\ step' = "segment" /\ UNCHANGED attempts
        \/ step = "init" /\ step' = "send" /\ UNCHANGED attempts
        \/ step = "segment" /\ step' = "send" /\ attempts < Retries /\ attempts' = attempts + 1
    BY <1>3 DEF Host, StartTransfer, SendSegment, ReadInit, ReadSegmentAbort, SkipAnswer,
                HostTimeout, hostVars, Retry
  <2> QED
    BY <1>0, <2>1, <2>2 DEF Script, Data
<1>4. CASE RunAgain
  <2>1. run' \in 1 .. MaxRuns /\ acked' = 0 /\ hostToggle' = 0 /\ attempts' = 0 /\ step' = "start"
    BY <1>0, <1>4 DEF RunAgain, Script
  <2>2. Len(Data') \in Nat
    BY <2>1, DataType DEF Data
  <2> QED
    BY <1>0, <2>1, <2>2 DEF Script
<1>5. CASE ServerStep \/ Deliver \/ LoseRequest \/ DeliverAnswer \/ LoseAnswer
  <2>1. UNCHANGED hostVars
    BY <1>5 DEF ServerStep, Deliver, LoseRequest, DeliverAnswer, LoseAnswer
  <2> QED
    BY <1>1, <2>1
<1> QED
  BY <1>2, <1>3, <1>4, <1>5 DEF Next

LEMMA InitBase == Init => Base
<1> SUFFICES ASSUME Init PROVE Base
  OBVIOUS
<1>1. Srv!IInv
  BY ServerInit DEF Init
<1>2. Serving
  BY <1>1 DEF Serving, Init, Server!Init, InTransfer
<1>3. Traffic
  <2>1. toServer = <<>> /\ inbox = <<>> /\ out = <<>> /\ MaxTransit \in Nat
    BY RunAssumption DEF Init, Server!Init
  <2> QED
    BY <2>1 DEF Traffic
<1>4. Script
  <2>1. step = "start" /\ acked = 0 /\ hostToggle = 0 /\ attempts = 0 /\ run = 1
    BY DEF Init
  <2>2. run \in 1 .. MaxRuns /\ Len(Data) \in Nat /\ Retries \in Nat
    BY <2>1, DataType, RunAssumption DEF Data
  <2> QED
    BY <2>1, <2>2 DEF Script
<1> QED
  BY <1>2, <1>3, <1>4 DEF Base

LEMMA NextBase == Base /\ [Next]_vars => Base'
<1> SUFFICES ASSUME Base, [Next]_vars PROVE Base'
  OBVIOUS
<1>1. CASE Next
  BY <1>1, NextServing, NextTraffic, NextScript DEF Base
<1>2. CASE UNCHANGED vars
  <2>1. UNCHANGED serverVars /\ UNCHANGED <<toServer, inbox, hostVars>>
    BY <1>2 DEF vars
  <2>2. Srv!IInv'
    BY <2>1, ServerKeeps DEF Base, Serving
  <2>3. Serving'
    BY <2>1, <2>2 DEF Base, Serving, InTransfer, serverVars
  <2>4. Traffic'
    BY <2>1 DEF Base, Traffic, serverVars
  <2>5. Script'
    BY <2>1 DEF Base, Script, Data, hostVars
  <2> QED
    BY <2>3, <2>4, <2>5 DEF Base
<1> QED
  BY <1>1, <1>2

LEMMA BaseHolds == Spec => []Base
BY InitBase, NextBase, PTL DEF Spec

\* Every variable of host, server and bus keeps its type, and the host is never
\* ahead of its data.
THEOREM TypeCorrect == Spec => []TypeOK
<1>1. Base => TypeOK
  <2>1. Base => Server!TypeOK
    BY SameTypeOK DEF Base, Serving, Srv!IInv
  <2> QED
    BY <2>1 DEF Base, Traffic, Script, TypeOK
<1> QED
  BY <1>1, BaseHolds, PTL

----------------------------------------------------------------------------
(* What the steps do to the line                                           *)

LEMMA FollowsIn ==
  ASSUME NEW s, NEW x, NEW y, Follows(s, x, y)
  PROVE  x \in In(s) /\ y \in In(s)
BY DEF Follows, In

LEMMA EmptyLine ==
  /\ In(<<>>) = {}
  /\ \A x, y : ~Follows(<<>>, x, y)
BY DEF In, Follows

LEMMA AppendLine ==
  ASSUME NEW S, NEW s \in Seq(S), NEW m
  PROVE  /\ \A x \in In(Append(s, m)) : x \in In(s) \/ x = m
         /\ \A x, y : Follows(Append(s, m), x, y) => Follows(s, x, y) \/ (x \in In(s) /\ y = m)
<1>1. /\ DOMAIN s = 1 .. Len(s) /\ Len(s) \in Nat
      /\ DOMAIN Append(s, m) = 1 .. Len(s) + 1
      /\ \A i \in 1 .. Len(s) : Append(s, m)[i] = s[i]
      /\ Append(s, m)[Len(s) + 1] = m
  OBVIOUS
<1> DEFINE t == Append(s, m)
<1> HIDE DEF t
<1>2. ASSUME NEW x \in In(t) PROVE x \in In(s) \/ x = m
  <2>1. PICK i \in 1 .. Len(s) + 1 : t[i] = x
    BY <1>1 DEF In, t
  <2>2. i = Len(s) + 1 \/ i \in 1 .. Len(s)
    BY <1>1
  <2> QED
    BY <1>1, <2>1, <2>2 DEF In, t
<1>3. ASSUME NEW x, NEW y, Follows(t, x, y)
      PROVE  Follows(s, x, y) \/ (x \in In(s) /\ y = m)
  <2>1. PICK i, j \in 1 .. Len(s) + 1 : i < j /\ t[i] = x /\ t[j] = y
    BY <1>1, <1>3 DEF Follows, t
  <2>2. i \in 1 .. Len(s) /\ (j = Len(s) + 1 \/ j \in 1 .. Len(s))
    BY <1>1, <2>1
  <2> QED
    BY <1>1, <2>1, <2>2 DEF In, Follows, t
<1> QED
  BY <1>2, <1>3 DEF t

LEMMA TailLine ==
  ASSUME NEW S, NEW s \in Seq(S), s # <<>>
  PROVE  /\ Head(s) \in In(s)
         /\ \A x \in In(Tail(s)) : x \in In(s) /\ Follows(s, Head(s), x)
         /\ \A x, y : Follows(Tail(s), x, y) => Follows(s, x, y)
<1>1. /\ DOMAIN s = 1 .. Len(s) /\ Len(s) \in Nat /\ Len(s) > 0
      /\ DOMAIN Tail(s) = 1 .. Len(s) - 1
      /\ \A i \in 1 .. Len(s) - 1 : Tail(s)[i] = s[i + 1]
      /\ Head(s) = s[1]
  OBVIOUS
<1> DEFINE t == Tail(s)
<1> HIDE DEF t
<1>2. Head(s) \in In(s)
  BY <1>1 DEF In
<1>3. ASSUME NEW x \in In(t) PROVE x \in In(s) /\ Follows(s, Head(s), x)
  <2>1. PICK i \in 1 .. Len(s) - 1 : t[i] = x
    BY <1>1 DEF In, t
  <2>2. s[i + 1] = x /\ i + 1 \in 1 .. Len(s) /\ 1 < i + 1 /\ 1 \in 1 .. Len(s)
    BY <1>1, <2>1 DEF t
  <2> QED
    BY <1>1, <2>2 DEF In, Follows
<1>4. ASSUME NEW x, NEW y, Follows(t, x, y) PROVE Follows(s, x, y)
  <2>1. PICK i, j \in 1 .. Len(s) - 1 : i < j /\ t[i] = x /\ t[j] = y
    BY <1>1, <1>4 DEF Follows, t
  <2>2. /\ i + 1 < j + 1 /\ i + 1 \in 1 .. Len(s) /\ j + 1 \in 1 .. Len(s)
        /\ s[i + 1] = x /\ s[j + 1] = y
    BY <1>1, <2>1 DEF t
  <2> QED
    BY <1>1, <2>2 DEF Follows
<1> QED
  BY <1>2, <1>3, <1>4 DEF t

LEMMA BeforeMembers ==
  ASSUME NEW x, NEW y, Before(x, y)
  PROVE  x \in Members /\ y \in Members
BY FollowsIn DEF Before, Members

\* Frames only leave the line, but for an abort that is put into it.
Calm ==
  /\ \A x \in Members' : x \in Members \/ x.cs = "abort"
  /\ \A x, y \in Members' : Before(x, y)' => Before(x, y) \/ x.cs = "abort" \/ y.cs = "abort"

\* Frames only leave the line.
Fewer ==
  /\ \A x \in Members' : x \in Members
  /\ \A x, y \in Members' : Before(x, y)' => Before(x, y)

\* The request m is put at its end.
Sent(m) ==
  /\ \A x \in Members' : x \in Members \/ x = m
  /\ \A x, y \in Members' : Before(x, y)' => Before(x, y) \/ (x \in Members /\ y = m)

\* The request that waits is replaced by the answer m.
Replaced(m) ==
  /\ request \in Members
  /\ \A x \in Members' : x = m \/ x.cs \in {"segment", "initSegmented"} \/ Before(x, request)
  /\ \A x \in Members' : x.cs \in {"segment", "initSegmented"} => Before(request, x)
  /\ \A x, y \in Members' : Before(x, y)' =>
       \/ Before(x, y)
       \/ Before(x, request) /\ y = m
       \/ x = m /\ Before(request, y)

LEMMA FewerCalm == Fewer => Calm
BY DEF Fewer, Calm

LEMMA DeliverLine ==
  ASSUME Base, Deliver
  PROVE  Fewer
<1>1. /\ toServer \in Seq(HostFrames) /\ toServer # <<>> /\ toServer' = Tail(toServer)
      /\ request' = IF request = Srv!None THEN Head(toServer) ELSE request
      /\ UNCHANGED <<out, inbox, step>>
  BY DeliverEffect DEF Base, Traffic, hostVars
<1>2. /\ Head(toServer) \in In(toServer)
      /\ \A x \in In(toServer') : x \in In(toServer) /\ Follows(toServer, Head(toServer), x)
      /\ \A x, y : Follows(toServer', x, y) => Follows(toServer, x, y)
  BY <1>1, TailLine
<1>3. Read' = Read
  BY <1>1 DEF Read
<1>4. \A x \in Slot' : x \in Slot \/ x = Head(toServer)
  BY <1>1 DEF Slot
<1>5. \A x \in Members' : x \in Members
  BY <1>1, <1>2, <1>3, <1>4 DEF Members
<1>6. ASSUME NEW x, NEW y, Before(x, y)' PROVE Before(x, y)
  BY <1>1, <1>2, <1>3, <1>4, <1>6 DEF Before
<1> QED
  BY <1>5, <1>6 DEF Fewer

LEMMA LoseRequestLine ==
  ASSUME Base, LoseRequest
  PROVE  Fewer
<1>1. /\ toServer \in Seq(HostFrames) /\ toServer # <<>> /\ toServer' = Tail(toServer)
      /\ UNCHANGED <<request, out, inbox, step>>
  BY DEF LoseRequest, Base, Traffic, serverVars, hostVars
<1>2. /\ \A x \in In(toServer') : x \in In(toServer)
      /\ \A x, y : Follows(toServer', x, y) => Follows(toServer, x, y)
  BY <1>1, TailLine
<1>3. Read' = Read /\ Slot' = Slot
  BY <1>1 DEF Read, Slot
<1>4. \A x \in Members' : x \in Members
  BY <1>1, <1>2, <1>3 DEF Members
<1>5. ASSUME NEW x, NEW y, Before(x, y)' PROVE Before(x, y)
  BY <1>1, <1>2, <1>3, <1>5 DEF Before
<1> QED
  BY <1>4, <1>5 DEF Fewer

LEMMA TransmitLine ==
  ASSUME Base, DeliverAnswer \/ LoseAnswer
  PROVE  Fewer
<1>1. /\ out \in Seq(Replies) /\ out # <<>> /\ out' = Tail(out) /\ inbox \in Seq(Replies)
      /\ inbox' = inbox \/ inbox' = Append(inbox, Head(out))
      /\ UNCHANGED <<request, toServer, step>>
  BY DEF DeliverAnswer, LoseAnswer, Server!Transmit, Base, Traffic, hostVars
<1>2. /\ Head(out) \in In(out)
      /\ \A x \in In(out') : x \in In(out) /\ Follows(out, Head(out), x)
      /\ \A x, y : Follows(out', x, y) => Follows(out, x, y)
  BY <1>1, TailLine
<1>3. /\ \A x \in In(Append(inbox, Head(out))) : x \in In(inbox) \/ x = Head(out)
      /\ \A x, y : Follows(Append(inbox, Head(out)), x, y) =>
           Follows(inbox, x, y) \/ (x \in In(inbox) /\ y = Head(out))
  BY <1>1, AppendLine
<1>4. /\ \A x \in In(Read') : x \in In(Read) \/ x = Head(out)
      /\ \A x, y : Follows(Read', x, y) => Follows(Read, x, y) \/ (x \in In(Read) /\ y = Head(out))
  <2>1. Read' = Read \/ (Read = inbox /\ Read' = Append(inbox, Head(out)))
    BY <1>1 DEF Read
  <2>2. CASE Read' = Read
    BY <2>2
  <2>3. CASE Read = inbox /\ Read' = Append(inbox, Head(out))
    BY <1>3, <2>3
  <2> QED
    BY <2>1, <2>2, <2>3
<1>5. Slot' = Slot
  BY <1>1 DEF Slot
<1>6. \A x \in Members' : x \in Members
  BY <1>1, <1>2, <1>4, <1>5 DEF Members
<1>7. ASSUME NEW x, NEW y, Before(x, y)' PROVE Before(x, y)
  BY <1>1, <1>2, <1>4, <1>5, <1>7 DEF Before
<1> QED
  BY <1>6, <1>7 DEF Fewer

LEMMA ReadLine ==
  ASSUME Base, step \notin {"start"}, step' # "start",
         inbox # <<>>, inbox' = Tail(inbox), UNCHANGED <<request, toServer, out>>
  PROVE  /\ Fewer
         /\ Head(inbox) \in Members
         /\ \A x \in Members' : Before(Head(inbox), x)
<1>1. Read = inbox /\ Read' = Tail(inbox) /\ inbox \in Seq(Replies)
  BY DEF Read, Base, Traffic
<1>2. /\ Head(inbox) \in In(Read)
      /\ \A x \in In(Read') : x \in In(Read) /\ Follows(Read, Head(inbox), x)
      /\ \A x, y : Follows(Read', x, y) => Follows(Read, x, y)
  BY <1>1, TailLine
<1>3. Slot' = Slot
  BY DEF Slot
<1>4. Head(inbox) \in Members /\ \A x \in Members' : x \in Members
  BY <1>2, <1>3 DEF Members
<1>5. ASSUME NEW x \in Members' PROVE Before(Head(inbox), x)
  BY <1>2, <1>3 DEF Members, Before
<1>6. ASSUME NEW x, NEW y, Before(x, y)' PROVE Before(x, y)
  BY <1>2, <1>3, <1>6 DEF Before
<1> QED
  BY <1>4, <1>5, <1>6 DEF Fewer

\* The host discards what it has received, or nothing of the line changes.
LEMMA SilentLine ==
  ASSUME UNCHANGED <<request, toServer, out>>,
         Read' = Read \/ Read' = <<>>
  PROVE  Fewer
<1>1. Slot' = Slot
  BY DEF Slot
<1>2. /\ \A x \in In(Read') : x \in In(Read)
      /\ \A x, y : Follows(Read', x, y) => Follows(Read, x, y)
  BY EmptyLine
<1>3. \A x \in Members' : x \in Members
  BY <1>1, <1>2 DEF Members
<1>4. ASSUME NEW x, NEW y, Before(x, y)' PROVE Before(x, y)
  BY <1>1, <1>2, <1>4 DEF Before
<1> QED
  BY <1>3, <1>4 DEF Fewer

LEMMA SendLine ==
  ASSUME Base, NEW m, Request(m), UNCHANGED <<request, out>>
  PROVE  Sent(m)
<1>1. /\ Slot' = Slot /\ Read' = <<>> /\ toServer \in Seq(HostFrames)
      /\ toServer' = toServer \/ toServer' = Append(toServer, m)
  BY DEF Slot, Read, Request, Base, Traffic
<1>2. /\ \A x \in In(toServer') : x \in In(toServer) \/ x = m
      /\ \A x, y : Follows(toServer', x, y) => Follows(toServer, x, y) \/ (x \in In(toServer) /\ y = m)
  BY <1>1, AppendLine
<1>3. \A x \in Members' : x \in Members \/ x = m
  BY <1>1, <1>2, EmptyLine DEF Members
<1>4. ASSUME NEW x, NEW y, Before(x, y)' PROVE Before(x, y) \/ (x \in Members /\ y = m)
  <2>1. x \notin In(Read') /\ ~Follows(Read', x, y)
    BY <1>1, EmptyLine
  <2> QED
    BY <1>1, <1>2, <1>4, <2>1 DEF Before, Members
<1> QED
  BY <1>3, <1>4 DEF Sent

LEMMA AbortLine ==
  ASSUME Base, Aborted, UNCHANGED <<toServer, inbox, hostVars>>
  PROVE  Calm
<1>1. PICK o \in {Image, "none"}, c \in Srv!Codes :
        out' \in {out, Append(out, [cs |-> "abort", obj |-> o, code |-> c])}
  BY DEF Aborted
<1> DEFINE a == [cs |-> "abort", obj |-> o, code |-> c]
<1>2. a.cs = "abort"
  OBVIOUS
<1>3. out' = out \/ out' = Append(out, a)
  BY <1>1
<1> HIDE DEF a
<1>4. /\ \A x \in In(out') : x \in In(out) \/ x = a
      /\ \A x, y : Follows(out', x, y) => Follows(out, x, y) \/ (x \in In(out) /\ y = a)
  BY <1>3, AppendLine DEF Base, Traffic
<1>5. Read' = Read /\ \A x \in Slot' : x \in Slot
  BY DEF Read, Slot, hostVars, Aborted
<1>6. \A x \in Members' : x \in Members \/ x = a
  BY <1>4, <1>5 DEF Members
<1>7. ASSUME NEW x, NEW y, Before(x, y)' PROVE Before(x, y) \/ x = a \/ y = a
  BY <1>4, <1>5, <1>7 DEF Before
<1> QED
  BY <1>2, <1>6, <1>7 DEF Calm

LEMMA ReplaceLine ==
  ASSUME Base, NEW m, Answered(m), request # Srv!None, m.cs \notin {"segment", "initSegmented"},
         UNCHANGED <<toServer, inbox, hostVars>>
  PROVE  Replaced(m)
<1>1. /\ out \in Seq(Replies) /\ inbox \in Seq(Replies)
      /\ out' = out \/ out' = Append(out, m)
      /\ Read' = Read /\ Slot = {request} /\ Slot' = {}
  BY DEF Base, Traffic, Answered, Read, Slot, hostVars
<1>2. /\ \A x \in In(out') : x \in In(out) \/ x = m
      /\ \A x, y : Follows(out', x, y) => Follows(out, x, y) \/ (x \in In(out) /\ y = m)
  BY <1>1, AppendLine
<1>3. request \in Members
  BY <1>1 DEF Members
<1>4. ASSUME NEW x \in Members'
      PROVE  x = m \/ x.cs \in {"segment", "initSegmented"} \/ Before(x, request)
  <2>1. \A r \in In(toServer) : r.cs \in {"segment", "initSegmented"}
    BY HostFrameType DEF Base, Traffic, In
  <2> QED
    BY <1>1, <1>2, <2>1 DEF Members, Before
<1>5. ASSUME NEW x \in Members', x.cs \in {"segment", "initSegmented"} PROVE Before(request, x)
  <2>1. \A r \in Replies : r.cs \notin {"segment", "initSegmented"}
    BY DEF Replies
  <2>2. \A s \in Seq(Replies) : \A r \in In(s) : r \in Replies
    BY DEF In
  <2>3. x \notin In(out) /\ x \notin In(Read)
    BY <1>1, <1>5, <2>1, <2>2 DEF Read, In
  <2>4. x # m
    BY <1>5
  <2>5. x \in In(toServer)
    BY <1>1, <1>2, <2>3, <2>4 DEF Members
  <2> QED
    BY <1>1, <2>5 DEF Before
<1>6. ASSUME NEW x, NEW y, Before(x, y)'
      PROVE  \/ Before(x, y)
             \/ Before(x, request) /\ y = m
             \/ x = m /\ Before(request, y)
  BY <1>1, <1>2, <1>6 DEF Before
<1> QED
  BY <1>3, <1>4, <1>5, <1>6 DEF Replaced

----------------------------------------------------------------------------
(* Steps that put no frame but aborts into the line                        *)

\* The server does nothing, or ends a transfer.
Kept ==
  \/ UNCHANGED <<state, toggle, offset, buf, content>>
  \/ state' = "IDLE" /\ (content' = content \/ InTransfer)

LEMMA TrackCalm ==
  ASSUME NEW q, NEW p, NEW h, Track(q, p, h), Calm, Kept
  PROVE  Track(q, p, h)'
<1>1. /\ \A x \in Members' : x.cs = "segment" => x \in Members
      /\ \A x, y \in Members' : Before(x, y)' /\ x.cs = "segment" /\ y.cs = "segment" =>
           x \in Members /\ y \in Members /\ Before(x, y)
  BY DEF Calm
<1>2. \A x \in Members' : x.cs = "segment" /\ x.toggle = h => x = Segment(q, p, h)
  BY <1>1 DEF Track
<1>3. ASSUME NEW x \in Members', NEW y \in Members',
             Before(x, y)', x.cs = "segment", y.cs = "segment", x.toggle = h
      PROVE  y.toggle = h
  BY <1>1, <1>3 DEF Track
<1>4. Place(q, p, h)'
  <2>1. CASE UNCHANGED <<state, toggle, offset, buf, content>>
    BY <1>1, <2>1 DEF Track, Place, InTransfer, Stored, Beginning, After
  <2>2. CASE state' = "IDLE"
    BY <2>2 DEF Place, InTransfer
  <2> QED
    BY <2>1, <2>2 DEF Kept
<1> QED
  BY <1>2, <1>3, <1>4 DEF Track, Segment, After

LEMMA WaitingCalm ==
  ASSUME Waiting, Calm, Kept, UNCHANGED <<run, acked, hostToggle>>, step' \in {step, "failed"}
  PROVE  Waiting'
<1>1. /\ \A x \in Members' : x.cs # "abort" => x \in Members
      /\ \A x, y \in Members' : Before(x, y)' /\ x.cs # "abort" /\ y.cs # "abort" =>
           x \in Members /\ y \in Members /\ Before(x, y)
  BY DEF Calm
<1>2. "abort" \notin Openings /\ "abort" \notin Bits /\ "written" \in Openings
  BY DEF Openings, Bits
<1>3. step' # "failed" => acked' = 0 /\ hostToggle' = 0
  BY DEF Waiting
<1>4. InTransfer' => InTransfer /\ UNCHANGED <<state, toggle, offset, buf, content>>
  BY DEF Kept, InTransfer
<1>5. ASSUME InTransfer'
      PROVE  \E q \in 1 .. run' : \E p \in 0 .. Len(DataOf[q]) - 1, h \in {0, 1} : Track(q, p, h)'
  <2>1. PICK q \in 1 .. run : \E p \in 0 .. Len(DataOf[q]) - 1, h \in {0, 1} : Track(q, p, h)
    BY <1>4, <1>5 DEF Waiting
  <2>2. PICK p \in 0 .. Len(DataOf[q]) - 1, h \in {0, 1} : Track(q, p, h)
    BY <2>1
  <2>3. Track(q, p, h)'
    BY <2>2, TrackCalm
  <2> QED
    BY <2>3
<1>6. \A x, y \in Members' : Before(x, y)' /\ x.cs \in Openings => y.cs \notin Bits
  BY <1>1, <1>2 DEF Waiting
<1>7. \A x \in Members' : x.cs = "written" /\ InTransfer' => toggle' = 0 /\ Stored' = <<>>
  BY <1>1, <1>4 DEF Waiting, Stored
<1>8. ASSUME run' = 1
      PROVE  /\ \A x, y \in Members' : ~(Before(x, y)' /\ x.cs \in Openings /\ y.cs \in Openings)
             /\ step' = "start" => NoOpening'
  BY <1>1, <1>2, <1>8 DEF Waiting, NoOpening
<1> QED
  BY <1>3, <1>5, <1>6, <1>7, <1>8 DEF Waiting

LEMMA UnderwayCalm ==
  ASSUME Underway, Calm, Kept, UNCHANGED <<run, acked, hostToggle>>
  PROVE  Underway'
<1>1. /\ \A x \in Members' : x.cs # "abort" => x \in Members
      /\ \A x, y \in Members' : Before(x, y)' /\ x.cs # "abort" /\ y.cs # "abort" =>
           x \in Members /\ y \in Members /\ Before(x, y)
  BY DEF Calm
<1>2. "abort" \notin Openings /\ "abort" \notin Bits
  BY DEF Openings, Bits
<1>3. Data' = Data /\ acked' < Len(Data')
  BY DEF Data, Underway
<1>4. InTransfer' => InTransfer /\ UNCHANGED <<state, toggle, offset, buf, content>>
  BY DEF Kept, InTransfer
<1>5. ~InTransfer => content' = content
  BY DEF Kept
<1>6. Track(run, acked, hostToggle)'
  <2>1. PICK q, p, h : q = run /\ p = acked /\ h = hostToggle
    OBVIOUS
  <2>2. Track(q, p, h)
    BY <2>1 DEF Underway
  <2>3. Track(q, p, h)'
    BY <2>2, TrackCalm
  <2> QED
    BY <2>1, <2>3
<1>7. \A x, y \in Members' :
        Before(x, y)' /\ x.cs \in Bits /\ y.cs \in Bits /\ x.toggle = hostToggle' => y.toggle = hostToggle'
  BY <1>1, <1>2 DEF Underway
<1>8. ASSUME NEW x \in Members', x.cs = "segmentAck", x.toggle = hostToggle'
      PROVE  /\ InTransfer' => toggle' # hostToggle'
             /\ IsLast(acked)' => ~InTransfer' /\ content'[Image] = Data'
  <2>1. IsLast(acked)' = IsLast(acked)
    BY <1>3 DEF IsLast
  <2> QED
    BY <1>1, <1>3, <1>4, <1>5, <1>8, <2>1 DEF Underway
<1>9. \A x \in Members' : x.cs = "initSegmented" =>
        acked' = 0 /\ hostToggle' = 0 /\ (InTransfer' => toggle' = 0)
  BY <1>1, <1>4 DEF Underway
<1>10. \A x, y \in Members' : Before(x, y)' /\ y.cs = "initSegmented" => x.cs \notin Bits
  BY <1>1, <1>2 DEF Underway
<1>11. run' = 1 => NoOpening'
  BY <1>1, <1>2 DEF Underway, NoOpening
<1> QED
  BY <1>3, <1>6, <1>7, <1>8, <1>9, <1>10, <1>11 DEF Underway

LEMMA CompleteCalm ==
  ASSUME Complete, Calm, Kept, UNCHANGED run
  PROVE  Complete'
<1>1. \A x \in Members' : x.cs # "abort" => x \in Members
  BY DEF Calm
<1>2. "abort" \notin Openings
  BY DEF Openings
<1>3. ~InTransfer' /\ content' = content /\ Data' = Data
  BY DEF Complete, Kept, InTransfer, Data
<1> QED
  BY <1>1, <1>2, <1>3 DEF Complete, NoOpening

\* Steps of the bus and steps that end a transfer at the server.
LEMMA CalmKeeps ==
  ASSUME IInv, Calm, Kept, UNCHANGED hostVars
  PROVE  IInv'
BY WaitingCalm, UnderwayCalm, CompleteCalm DEF IInv, hostVars

----------------------------------------------------------------------------
(* An initiation is answered                                               *)

\* Behind an initiation is no segment of a run before.
LEMMA WaitingOpened ==
  ASSUME Base, Waiting, Opened, Replaced([cs |-> "written", obj |-> Image]),
         UNCHANGED <<run, acked, hostToggle, step>>
  PROVE  Waiting'
<1> DEFINE m == [cs |-> "written", obj |-> Image]
<1>1. m.cs = "written" /\ Replaced(m)
  OBVIOUS
<1> HIDE DEF m
<1>2. /\ request.cs \in Openings /\ "written" \in Openings /\ "written" \notin Bits
      /\ "segment" \in Bits /\ "initSegmented" \notin Bits
  BY DEF Opened, Openings, Bits
<1>3. request \in Members /\ \A x, y : Before(x, y) => x \in Members /\ y \in Members
  BY <1>1, BeforeMembers DEF Replaced
<1>4. \A x, y \in Members' : Before(x, y)' =>
        Before(x, y) \/ (Before(x, request) /\ y = m) \/ (x = m /\ Before(request, y))
  BY <1>1 DEF Replaced
<1>5. \A x \in Members' : x.cs # "segment"
  BY <1>1, <1>2, <1>3 DEF Replaced, Waiting
<1>6. toggle' = 0 /\ Stored' = <<>>
  <2>1. toggle' = 0 /\ offset' = 0 /\ buf' = <<>>
    BY DEF Opened
  <2>2. SubSeq(content'[Image], 1, 0) = <<>>
    BY SubSeqEmpty
  <2> QED
    BY <2>1, <2>2 DEF Stored
<1>7. InTransfer' => \E q \in 1 .. run' : \E p \in 0 .. Len(DataOf[q]) - 1, h \in {0, 1} : Track(q, p, h)'
  <2>1. PICK q \in 1 .. run : q = 1
    BY DEF Base, Script
  <2>2. 0 \in 0 .. Len(DataOf[q]) - 1
    BY DataType, <2>1
  <2>3. Beginning(q, 0) = <<>>
    BY SubSeqEmpty DEF Beginning
  <2>4. Track(q, 0, 0)'
    BY <1>5, <1>6, <2>3 DEF Track, Place, Beginning
  <2> QED
    BY <2>2, <2>4
<1>8. \A x, y \in Members' : Before(x, y)' /\ x.cs \in Openings => y.cs \notin Bits
  BY <1>1, <1>2, <1>3, <1>4 DEF Waiting
<1>9. ASSUME run' = 1
      PROVE  /\ \A x, y \in Members' : ~(Before(x, y)' /\ x.cs \in Openings /\ y.cs \in Openings)
             /\ step' = "start" => NoOpening'
  <2>1. step # "start"
    BY <1>2, <1>3, <1>9 DEF Waiting, NoOpening
  <2> QED
    BY <1>2, <1>3, <1>4, <1>9, <2>1 DEF Waiting
<1> QED
  BY <1>6, <1>7, <1>8, <1>9 DEF Waiting

\* The host is served by the initiation of the run before, and nothing else of
\* that run is on its way: to begin once more changes nothing.
LEMMA UnderwayOpened ==
  ASSUME Base, Underway, Opened, Replaced([cs |-> "written", obj |-> Image]),
         UNCHANGED <<run, acked, hostToggle>>
  PROVE  Underway'
<1> DEFINE m == [cs |-> "written", obj |-> Image]
<1>1. m.cs = "written" /\ Replaced(m)
  OBVIOUS
<1> HIDE DEF m
<1>2. /\ request.cs = "initSegmented" /\ "initSegmented" \in Openings
      /\ "written" \notin Bits /\ "segmentAck" \in Bits
  BY DEF Opened, Openings, Bits
<1>3. request \in Members /\ \A x, y : Before(x, y) => x \in Members /\ y \in Members
  BY <1>1, BeforeMembers DEF Replaced
<1>4. \A x, y \in Members' : Before(x, y)' =>
        Before(x, y) \/ (Before(x, request) /\ y = m) \/ (x = m /\ Before(request, y))
  BY <1>1 DEF Replaced
<1>5. acked = 0 /\ hostToggle = 0 /\ run # 1
  BY <1>2, <1>3 DEF Underway, NoOpening
<1>6. toggle' = 0 /\ Stored' = <<>> /\ InTransfer'
  <2>1. toggle' = 0 /\ offset' = 0 /\ buf' = <<>> /\ InTransfer'
    BY DEF Opened
  <2>2. SubSeq(content'[Image], 1, 0) = <<>>
    BY SubSeqEmpty
  <2> QED
    BY <2>1, <2>2 DEF Stored
<1>7. \A x \in Members' : x.cs \in {"segment", "initSegmented"} => x \in Members
  BY <1>1, <1>3 DEF Replaced
<1>8. Data' = Data /\ acked' < Len(Data')
  BY DEF Data, Underway
<1>9. Track(run, acked, hostToggle)'
  <2>1. \A x \in Members' : x.cs = "segment" /\ x.toggle = hostToggle => x = Segment(run, acked, hostToggle)
    BY <1>7 DEF Underway, Track
  <2>2. \A x, y \in Members' :
          Before(x, y)' /\ x.cs = "segment" /\ y.cs = "segment" /\ x.toggle = hostToggle => y.toggle = hostToggle
    BY <1>1, <1>4, <1>7 DEF Underway, Track
  <2>3. Stored' = Beginning(run, acked)
    BY <1>5, <1>6, SubSeqEmpty DEF Beginning
  <2> QED
    BY <1>5, <1>6, <2>1, <2>2, <2>3 DEF Track, Place, Segment, Beginning, After
<1>10. \A x, y \in Members' :
         Before(x, y)' /\ x.cs \in Bits /\ y.cs \in Bits /\ x.toggle = hostToggle' => y.toggle = hostToggle'
  BY <1>1, <1>2, <1>3, <1>4 DEF Underway
<1>11. \A x \in Members' : x.cs # "segmentAck"
  BY <1>1, <1>2, <1>3 DEF Underway, Replaced
<1>12. \A x \in Members' : x.cs = "initSegmented" =>
         acked' = 0 /\ hostToggle' = 0 /\ (InTransfer' => toggle' = 0)
  BY <1>5, <1>6
<1>13. \A x, y \in Members' : Before(x, y)' /\ y.cs = "initSegmented" => x.cs \notin Bits
  BY <1>1, <1>2, <1>3, <1>4 DEF Underway
<1> QED
  BY <1>5, <1>8, <1>9, <1>10, <1>11, <1>12, <1>13 DEF Underway

LEMMA OpenKeeps ==
  ASSUME Base, IInv, Opened, UNCHANGED <<toServer, inbox, hostVars>>
  PROVE  IInv'
<1> DEFINE m == [cs |-> "written", obj |-> Image]
<1>1. Replaced(m)
  <2>1. m.cs \notin {"segment", "initSegmented"} /\ Answered(m) /\ request # Srv!None
    BY DEF Opened
  <2> QED
    BY <2>1, ReplaceLine
<1>2. CASE step = "done" /\ Complete
  BY <1>1, <1>2 DEF Complete, Opened, Replaced
<1> QED
  BY <1>1, <1>2, WaitingOpened, UnderwayOpened DEF IInv, hostVars

----------------------------------------------------------------------------
(* A segment is answered                                                   *)

\* A segment behind what is stored prolongs it, and the last one ends the data.
LEMMA Prolonged ==
  ASSUME NEW q \in 1 .. MaxRuns, NEW p \in 0 .. Len(DataOf[q]) - 1
  PROVE  /\ Beginning(q, p) \o SubSeq(DataOf[q], p + 1, After(q, p)) = Beginning(q, After(q, p))
         /\ p + SegBytes >= Len(DataOf[q]) => Beginning(q, After(q, p)) = DataOf[q]
<1> DEFINE data == DataOf[q]
           top == After(q, p)
<1>1. data \in Seq(Byte) /\ Len(data) \in Nat /\ SegBytes \in Nat /\ SegBytes > 0
  BY DataType, ServerAssumption
<1>2. top \in p .. Len(data) /\ (p + SegBytes >= Len(data) => top = Len(data))
  BY <1>1 DEF After, Shorter
<1> HIDE DEF data, top
<1>3. p \in 0 .. Len(data) /\ 1 \in 1 .. Len(data) + 1 /\ p \in 1 - 1 .. Len(data)
  BY <1>1 DEF data
<1>4. SubSeq(data, 1, p) \o SubSeq(data, p + 1, top) = SubSeq(data, 1, top)
  BY <1>1, <1>2, <1>3, ConcatAdjacentSubSeq
<1>5. SubSeq(data, 1, Len(data)) = data
  BY <1>1, SubSeqFull
<1> QED
  BY <1>2, <1>4, <1>5 DEF Beginning, data, top

\* The answer m takes the place of a segment and has its toggle bit.
Acknowledges(m) ==
  /\ Replaced(m) /\ m.cs = "segmentAck" /\ m.toggle = request.toggle
  /\ request.cs = "segment"

LEMMA TrackRepeated ==
  ASSUME NEW q, NEW p, NEW h, Track(q, p, h), NEW m, Acknowledges(m),
         UNCHANGED <<state, toggle, offset, buf, content>>
  PROVE  Track(q, p, h)'
<1>1. \A x \in Members' : x.cs = "segment" => x \in Members
  BY BeforeMembers DEF Acknowledges, Replaced
<1>2. \A x, y \in Members' : Before(x, y)' /\ x.cs = "segment" /\ y.cs = "segment" => Before(x, y)
  BY DEF Acknowledges, Replaced
<1>3. \A x \in Members' : x.cs = "segment" /\ x.toggle = h => x = Segment(q, p, h)
  BY <1>1 DEF Track
<1>4. ASSUME NEW x \in Members', NEW y \in Members',
             Before(x, y)', x.cs = "segment", y.cs = "segment", x.toggle = h
      PROVE  y.toggle = h
  BY <1>1, <1>2, <1>4 DEF Track
<1>5. Place(q, p, h)'
  BY <1>1 DEF Track, Place, InTransfer, Stored, Beginning, After
<1> QED
  BY <1>3, <1>4, <1>5 DEF Track, Segment, After

\* A segment that is taken is the one behind what is stored.
LEMMA TrackTook ==
  ASSUME Base, NEW q \in 1 .. MaxRuns, NEW p \in 0 .. Len(DataOf[q]) - 1, NEW h \in {0, 1},
         Track(q, p, h), NEW m, Acknowledges(m), Took
  PROVE  /\ Track(q, p, h)'
         /\ toggle = h
         /\ Stored \o request.data = Beginning(q, After(q, p))
         /\ request.last = (p + SegBytes >= Len(DataOf[q]))
<1>1. /\ InTransfer /\ request.cs = "segment" /\ request.toggle = toggle
      /\ request \in Members /\ toggle \in {0, 1}
  BY ServerTypes DEF Took, Acknowledges, Replaced
<1>2. toggle = h /\ Stored = Beginning(q, p)
  BY <1>1 DEF Track, Place
<1>3. request = Segment(q, p, h)
  BY <1>1, <1>2 DEF Track
<1>4. request.data = SubSeq(DataOf[q], p + 1, After(q, p)) /\ request.last = (p + SegBytes >= Len(DataOf[q]))
  BY <1>3 DEF Segment
<1>5. Stored \o request.data = Beginning(q, After(q, p))
  BY <1>2, <1>4, Prolonged
<1>6. /\ \A x \in Members' : x.cs = "segment" => x \in Members /\ Before(request, x)
      /\ \A x, y \in Members' : Before(x, y)' /\ x.cs = "segment" /\ y.cs = "segment" => Before(x, y)
  BY BeforeMembers DEF Acknowledges, Replaced
<1>7. \A x \in Members' : x.cs = "segment" => x.toggle = h
  BY <1>1, <1>2, <1>6 DEF Track
<1>8. \A x \in Members' : x.cs = "segment" /\ x.toggle = h => x = Segment(q, p, h)
  BY <1>6 DEF Track
<1>9. Place(q, p, h)'
  <2>1. CASE request.last
    BY <2>1 DEF Took, Place, InTransfer
  <2>2. CASE ~request.last
    <3>1. toggle' = 1 - h /\ Stored' = Beginning(q, After(q, p))
      BY <1>2, <1>5, <2>2 DEF Took
    <3>2. p + SegBytes < Len(DataOf[q])
      <4>1. Len(DataOf[q]) \in Nat /\ SegBytes \in Nat /\ p \in Nat
        BY DataType, ServerAssumption
      <4>2. ~(p + SegBytes >= Len(DataOf[q]))
        BY <1>4, <2>2
      <4> QED
        BY <4>1, <4>2
    <3> QED
      BY <1>7, <3>1, <3>2 DEF Place, Beginning, After
  <2> QED
    BY <2>1, <2>2
<1>10. Track(q, p, h)'
  BY <1>7, <1>8, <1>9 DEF Track, Segment, After
<1> QED
  BY <1>2, <1>4, <1>5, <1>10

LEMMA WaitingAcknowledged ==
  ASSUME Base, Waiting, NEW m, Acknowledges(m), Repeated \/ Took, UNCHANGED <<run, acked, hostToggle, step>>
  PROVE  Waiting'
<1>1. Replaced(m) /\ m.cs = "segmentAck" /\ request.cs = "segment" /\ InTransfer
  BY DEF Acknowledges, Repeated, Took
<1>2. /\ "segment" \in Bits /\ "segmentAck" \notin Openings /\ "written" \in Openings
      /\ "segmentAck" \in Bits
  BY DEF Openings, Bits
<1>3. request \in Members /\ \A x, y : Before(x, y) => x \in Members /\ y \in Members
  BY <1>1, BeforeMembers DEF Replaced
<1>4. \A x, y \in Members' : Before(x, y)' =>
        Before(x, y) \/ (Before(x, request) /\ y = m) \/ (x = m /\ Before(request, y))
  BY <1>1 DEF Replaced
<1>5. \E q \in 1 .. run' : \E p \in 0 .. Len(DataOf[q]) - 1, h \in {0, 1} : Track(q, p, h)'
  <2>1. PICK q \in 1 .. run : \E p \in 0 .. Len(DataOf[q]) - 1, h \in {0, 1} : Track(q, p, h)
    BY <1>1 DEF Waiting
  <2>2. PICK p \in 0 .. Len(DataOf[q]) - 1, h \in {0, 1} : Track(q, p, h)
    BY <2>1
  <2>3. q \in 1 .. MaxRuns
    BY DataType DEF Base, Script
  <2>4. CASE Repeated
    BY <2>2, <2>4, TrackRepeated DEF Repeated
  <2>5. CASE Took
    BY <2>2, <2>3, <2>5, TrackTook
  <2> QED
    BY <2>4, <2>5
<1>6. \A x, y \in Members' : Before(x, y)' /\ x.cs \in Openings => y.cs \notin Bits
  BY <1>1, <1>2, <1>3, <1>4 DEF Waiting
<1>7. \A x \in Members' : x.cs # "written"
  BY <1>1, <1>2, <1>3 DEF Waiting, Replaced
<1>8. ASSUME run' = 1
      PROVE  /\ \A x, y \in Members' : ~(Before(x, y)' /\ x.cs \in Openings /\ y.cs \in Openings)
             /\ step' = "start" => NoOpening'
  <2>1. step = "start" => NoOpening'
    BY <1>1, <1>2, <1>3, <1>8 DEF Waiting, NoOpening, Replaced
  <2> QED
    BY <1>1, <1>2, <1>3, <1>4, <1>8, <2>1 DEF Waiting
<1> QED
  BY <1>5, <1>6, <1>7, <1>8 DEF Waiting

LEMMA UnderwayAcknowledged ==
  ASSUME Base, Underway, NEW m, Acknowledges(m), Repeated \/ Took, UNCHANGED <<run, acked, hostToggle>>
  PROVE  Underway'
<1>1. /\ Replaced(m) /\ m.cs = "segmentAck" /\ m.toggle = request.toggle
      /\ request.cs = "segment" /\ InTransfer
  BY DEF Acknowledges, Repeated, Took
<1>2. /\ "segment" \in Bits /\ "segmentAck" \notin Openings /\ "initSegmented" \in Openings
      /\ "segmentAck" \in Bits
  BY DEF Openings, Bits
<1>3. request \in Members /\ \A x, y : Before(x, y) => x \in Members /\ y \in Members
  BY <1>1, BeforeMembers DEF Replaced
<1>4. \A x, y \in Members' : Before(x, y)' =>
        Before(x, y) \/ (Before(x, request) /\ y = m) \/ (x = m /\ Before(request, y))
  BY <1>1 DEF Replaced
<1>5. \A x \in Members' : x \in Members \/ x = m
  BY <1>1, <1>3 DEF Replaced
<1>6. Data' = Data /\ Data = DataOf[run] /\ acked < Len(Data) /\ IsLast(acked)' = IsLast(acked)
  BY DEF Data, Underway, IsLast
<1>7. /\ run \in 1 .. MaxRuns /\ acked \in 0 .. Len(DataOf[run]) - 1 /\ hostToggle \in {0, 1}
      /\ toggle \in {0, 1} /\ Len(DataOf[run]) \in Nat /\ SegBytes \in Nat
  BY <1>6, DataType, ServerTypes, ServerAssumption DEF Base, Script
<1>8. PICK q, p, h : q = run /\ p = acked /\ h = hostToggle
  OBVIOUS
<1>9. Track(q, p, h)
  BY <1>8 DEF Underway
<1>10. Took => /\ Track(q, p, h)' /\ toggle = h
               /\ Stored \o request.data = Beginning(q, After(q, p))
               /\ request.last = (p + SegBytes >= Len(DataOf[q]))
  BY <1>7, <1>8, <1>9, TrackTook
<1>11. Track(run, acked, hostToggle)'
  <2>1. CASE Repeated
    <3>1. Track(q, p, h)'
      BY <1>9, <2>1, TrackRepeated DEF Repeated
    <3> QED
      BY <1>8, <3>1
  <2>2. CASE Took
    BY <1>8, <1>10, <2>2
  <2> QED
    BY <2>1, <2>2
<1>12. \A x, y \in Members' :
         Before(x, y)' /\ x.cs \in Bits /\ y.cs \in Bits /\ x.toggle = hostToggle' => y.toggle = hostToggle'
  BY <1>1, <1>2, <1>3, <1>4 DEF Underway
<1>13. ASSUME NEW x \in Members', x.cs = "segmentAck", x.toggle = hostToggle'
       PROVE  /\ InTransfer' => toggle' # hostToggle'
              /\ IsLast(acked)' => ~InTransfer' /\ content'[Image] = Data'
  <2>1. CASE Took
    <3>1. toggle' # hostToggle'
      BY <1>7, <1>8, <1>10, <2>1 DEF Took
    <3>2. ASSUME IsLast(acked) PROVE ~InTransfer' /\ content'[Image] = Data
      <4>1. p + SegBytes >= Len(DataOf[q])
        BY <1>6, <1>8, <3>2 DEF IsLast
      <4>2. Beginning(q, After(q, p)) = DataOf[q]
        BY <1>7, <1>8, <4>1, Prolonged
      <4>3. state' = "IDLE" /\ content'[Image] = Stored \o request.data
        BY <1>10, <2>1, <4>1 DEF Took
      <4> QED
        BY <1>6, <1>8, <1>10, <2>1, <4>2, <4>3 DEF InTransfer
    <3> QED
      BY <1>6, <3>1, <3>2
  <2>2. CASE Repeated
    <3>1. UNCHANGED <<state, toggle, content>> /\ request.toggle # toggle
      BY <2>2 DEF Repeated
    <3>2. toggle # hostToggle
      BY <1>1, <1>5, <1>13, <3>1 DEF Underway
    <3>3. ~IsLast(acked)
      <4>1. acked + SegBytes < Len(DataOf[run])
        BY <1>1, <3>2 DEF Underway, Track, Place
      <4> QED
        BY <1>6, <1>7, <4>1 DEF IsLast
    <3> QED
      BY <1>6, <3>1, <3>2, <3>3
  <2> QED
    BY <2>1, <2>2
<1>14. \A x \in Members' : x.cs # "initSegmented"
  BY <1>1, <1>2, <1>3 DEF Underway, Replaced
<1>15. run' = 1 => NoOpening'
  BY <1>1, <1>2, <1>5 DEF Underway, NoOpening
<1> QED
  BY <1>6, <1>11, <1>12, <1>13, <1>14, <1>15 DEF Underway

LEMMA AcknowledgeKeeps ==
  ASSUME Base, IInv, Repeated \/ Took, UNCHANGED <<toServer, inbox, hostVars>>
  PROVE  IInv'
<1> DEFINE m == [cs |-> "segmentAck", toggle |-> request.toggle]
<1>1. Acknowledges(m)
  <2>1. m.cs = "segmentAck" /\ m.toggle = request.toggle
    OBVIOUS
  <2>2. Answered(m) /\ request # Srv!None /\ request.cs = "segment"
    BY DEF Repeated, Took
  <2> HIDE DEF m
  <2>3. Replaced(m)
    BY <2>1, <2>2, ReplaceLine
  <2> QED
    BY <2>1, <2>2, <2>3 DEF Acknowledges
<1>2. ~Complete
  BY DEF Complete, Repeated, Took
<1> HIDE DEF m
<1> QED
  BY <1>1, <1>2, WaitingAcknowledged, UnderwayAcknowledged DEF IInv, hostVars

----------------------------------------------------------------------------
(* The host sends, reads and gives up                                      *)

LEMMA StartKeeps ==
  ASSUME Base, IInv, StartTransfer
  PROVE  IInv'
<1>1. /\ step = "start" /\ step' = "init" /\ Waiting
      /\ UNCHANGED <<state, request, toggle, offset, buf, content, out, run, acked, hostToggle>>
  BY DEF StartTransfer, IInv, serverVars
<1>2. PICK m : m = InitFrame
  OBVIOUS
<1>3. m.cs = "initSegmented" /\ m.cs \in Openings /\ m.cs \notin Bits
  BY <1>2 DEF InitFrame, Openings, Bits
<1>4. Sent(m)
  BY <1>1, <1>2, SendLine DEF StartTransfer
<1>5. /\ \A x \in Members' : x \in Members \/ x = m
      /\ \A x, y \in Members' : Before(x, y)' => Before(x, y) \/ (x \in Members /\ y = m)
      /\ \A x, y : Before(x, y) => x \in Members /\ y \in Members
  BY <1>4, BeforeMembers DEF Sent
<1>6. acked' = 0 /\ hostToggle' = 0
  BY <1>1 DEF Waiting
<1>7. ASSUME InTransfer'
      PROVE  \E q \in 1 .. run' : \E p \in 0 .. Len(DataOf[q]) - 1, h \in {0, 1} : Track(q, p, h)'
  <2>1. PICK q \in 1 .. run : \E p \in 0 .. Len(DataOf[q]) - 1, h \in {0, 1} : Track(q, p, h)
    BY <1>1, <1>7 DEF Waiting, InTransfer
  <2>2. PICK p \in 0 .. Len(DataOf[q]) - 1, h \in {0, 1} : Track(q, p, h)
    BY <2>1
  <2>3. /\ \A x \in Members' : x.cs = "segment" /\ x.toggle = h => x = Segment(q, p, h)
        /\ \A x, y \in Members' :
             Before(x, y)' /\ x.cs = "segment" /\ y.cs = "segment" /\ x.toggle = h => y.toggle = h
    BY <1>3, <1>5, <2>2 DEF Track
  <2>4. Place(q, p, h)'
    BY <1>1, <1>3, <1>5, <2>2 DEF Track, Place, InTransfer, Stored, Beginning, After
  <2>5. Track(q, p, h)'
    BY <2>3, <2>4 DEF Track, Segment, After
  <2> QED
    BY <1>1, <2>5
<1>8. \A x, y \in Members' : Before(x, y)' /\ x.cs \in Openings => y.cs \notin Bits
  BY <1>1, <1>3, <1>5 DEF Waiting
<1>9. \A x \in Members' : x.cs = "written" /\ InTransfer' => toggle' = 0 /\ Stored' = <<>>
  BY <1>1, <1>3, <1>5 DEF Waiting, InTransfer, Stored
<1>10. run' = 1 => \A x, y \in Members' : ~(Before(x, y)' /\ x.cs \in Openings /\ y.cs \in Openings)
  BY <1>1, <1>5 DEF Waiting, NoOpening
<1>11. Waiting'
  BY <1>1, <1>6, <1>7, <1>8, <1>9, <1>10 DEF Waiting
<1> QED
  BY <1>1, <1>11 DEF IInv

LEMMA SendKeeps ==
  ASSUME Base, IInv, SendSegment
  PROVE  IInv'
<1>1. /\ step = "send" /\ step' = "segment" /\ Underway
      /\ UNCHANGED <<state, request, toggle, offset, buf, content, out, run, acked, hostToggle>>
  BY DEF SendSegment, IInv, serverVars
<1>2. PICK m : m = SegmentFrame
  OBVIOUS
<1>3. m = Segment(run, acked, hostToggle)
  BY <1>2 DEF SegmentFrame, Segment, After, IsLast, Data
<1>4. m.cs = "segment" /\ m.toggle = hostToggle /\ m.cs \notin Openings
  BY <1>3 DEF Segment, Openings
<1>5. Sent(m)
  BY <1>1, <1>2, SendLine DEF SendSegment
<1>6. /\ \A x \in Members' : x \in Members \/ x = m
      /\ \A x, y \in Members' : Before(x, y)' => Before(x, y) \/ (x \in Members /\ y = m)
      /\ \A x, y : Before(x, y) => x \in Members /\ y \in Members
  BY <1>5, BeforeMembers DEF Sent
<1>7. Data' = Data /\ acked' < Len(Data') /\ IsLast(acked)' = IsLast(acked)
  BY <1>1 DEF Data, Underway, IsLast
<1>8. Track(run, acked, hostToggle)'
  <2>1. /\ \A x \in Members' : x.cs = "segment" /\ x.toggle = hostToggle => x = Segment(run, acked, hostToggle)
        /\ \A x, y \in Members' :
             Before(x, y)' /\ x.cs = "segment" /\ y.cs = "segment" /\ x.toggle = hostToggle => y.toggle = hostToggle
    BY <1>1, <1>3, <1>4, <1>6 DEF Underway, Track
  <2>2. Place(run, acked, hostToggle)'
    BY <1>1, <1>4, <1>6 DEF Underway, Track, Place, InTransfer, Stored, Beginning, After
  <2> QED
    BY <1>1, <2>1, <2>2 DEF Track, Segment, After
<1>9. \A x, y \in Members' :
        Before(x, y)' /\ x.cs \in Bits /\ y.cs \in Bits /\ x.toggle = hostToggle' => y.toggle = hostToggle'
  BY <1>1, <1>4, <1>6 DEF Underway
<1>10. \A x \in Members' : x.cs = "segmentAck" /\ x.toggle = hostToggle' =>
         /\ InTransfer' => toggle' # hostToggle'
         /\ IsLast(acked)' => ~InTransfer' /\ content'[Image] = Data'
  BY <1>1, <1>4, <1>6, <1>7 DEF Underway, InTransfer
<1>11. \A x \in Members' : x.cs = "initSegmented" =>
         acked' = 0 /\ hostToggle' = 0 /\ (InTransfer' => toggle' = 0)
  BY <1>1, <1>4, <1>6 DEF Underway, InTransfer
<1>12. \A x, y \in Members' : Before(x, y)' /\ y.cs = "initSegmented" => x.cs \notin Bits
  BY <1>1, <1>4, <1>6 DEF Underway
<1>13. run' = 1 => NoOpening'
  BY <1>1, <1>4, <1>6 DEF Underway, NoOpening
<1>14. Underway'
  BY <1>7, <1>8, <1>9, <1>10, <1>11, <1>12, <1>13 DEF Underway
<1> QED
  BY <1>1, <1>14 DEF IInv

\* All that is behind the answer to the initiation is no segment and no answer
\* to one.
LEMMA ReadInitKeeps ==
  ASSUME Base, IInv, ReadInit
  PROVE  IInv'
<1>1. /\ step = "init" /\ Waiting /\ inbox # <<>> /\ inbox' = Tail(inbox)
      /\ UNCHANGED <<state, request, toggle, offset, buf, content, out, toServer, run, acked, hostToggle>>
      /\ step' = CASE Head(inbox).cs = "abort" -> "failed"
                   [] Head(inbox).cs = "written" -> "send"
                   [] OTHER -> step
  BY DEF ReadInit, IInv, serverVars
<1>2. step' \in {"failed", "send", "init"} /\ (step' = "send" => Head(inbox).cs = "written")
  BY <1>1
<1>3. Fewer /\ Head(inbox) \in Members /\ \A x \in Members' : Before(Head(inbox), x)
  BY <1>1, <1>2, ReadLine
<1>4. Calm /\ Kept
  BY <1>1, <1>3, FewerCalm DEF Kept
<1>5. CASE step' # "send"
  BY <1>1, <1>2, <1>4, <1>5, WaitingCalm DEF IInv
<1>6. CASE step' = "send"
  <2>1. Head(inbox).cs = "written" /\ "written" \in Openings /\ "initSegmented" \in Openings
        /\ "segment" \in Bits /\ "segmentAck" \in Bits
    BY <1>2, <1>6 DEF Openings, Bits
  <2>2. \A x \in Members' : x \in Members /\ Before(Head(inbox), x)
    BY <1>3 DEF Fewer
  <2>3. \A x \in Members' : x.cs \notin Bits
    BY <1>1, <1>3, <2>1, <2>2 DEF Waiting
  <2>4. acked' = 0 /\ hostToggle' = 0 /\ Data' = Data
    BY <1>1 DEF Waiting, Data
  <2>5. InTransfer' => toggle' = 0 /\ Stored' = <<>>
    BY <1>1, <1>3, <2>1 DEF Waiting, InTransfer, Stored
  <2>6. acked' < Len(Data')
    BY <2>4, DataType DEF Data, Base, Script
  <2>7. Beginning(run, 0)' = <<>>
    BY SubSeqEmpty DEF Beginning
  <2>8. Track(run, acked, hostToggle)'
    BY <2>1, <2>3, <2>4, <2>5, <2>7 DEF Track, Place, Beginning
  <2>9. run' = 1 => NoOpening'
    BY <1>1, <1>3, <2>1, <2>2 DEF Waiting, NoOpening
  <2>10. Underway'
    BY <2>1, <2>3, <2>4, <2>5, <2>6, <2>8, <2>9 DEF Underway
  <2> QED
    BY <1>6, <2>10 DEF IInv
<1> QED
  BY <1>5, <1>6

\* All that is behind an answer with the toggle bit of the host has that bit,
\* so none of it is about the next segment.
LEMMA ReadAckKeeps ==
  ASSUME Base, IInv, ReadSegmentAck
  PROVE  IInv'
<1>1. /\ step = "segment" /\ Underway /\ inbox # <<>> /\ inbox' = Tail(inbox)
      /\ UNCHANGED <<state, request, toggle, offset, buf, content, out, toServer, run>>
      /\ Head(inbox).cs = "segmentAck"
  BY DEF ReadSegmentAck, IInv, serverVars
<1>2. \/ /\ Head(inbox).toggle = hostToggle
         /\ acked' = After(run, acked) /\ hostToggle' = 1 - hostToggle
         /\ step' = IF acked' = Len(Data) THEN "done" ELSE "send"
      \/ step' = "failed" /\ UNCHANGED <<acked, hostToggle>>
  BY DEF ReadSegmentAck, ToggleRight, After, Data
<1>3. Fewer /\ Head(inbox) \in Members /\ \A x \in Members' : Before(Head(inbox), x)
  <2>1. step' # "start"
    BY <1>2
  <2> QED
    BY <1>1, <2>1, ReadLine
<1>4. CASE step' = "failed" /\ UNCHANGED <<acked, hostToggle>>
  BY <1>1, <1>3, <1>4, FewerCalm, UnderwayCalm DEF Kept, IInv
<1>5. CASE /\ Head(inbox).toggle = hostToggle
           /\ acked' = After(run, acked) /\ hostToggle' = 1 - hostToggle
           /\ step' = IF acked' = Len(Data) THEN "done" ELSE "send"
  <2>1. /\ hostToggle \in {0, 1} /\ hostToggle' # hostToggle /\ hostToggle = 1 - hostToggle'
        /\ run \in 1 .. MaxRuns /\ Len(Data) \in Nat /\ SegBytes \in Nat /\ acked \in Nat
        /\ toggle \in {0, 1} /\ Data = DataOf[run] /\ Data' = Data
    BY <1>1, <1>5, DataType, ServerTypes, ServerAssumption DEF Base, Script, Data
  <2>2. \A x \in Members' : x \in Members /\ Before(Head(inbox), x)
    BY <1>3 DEF Fewer
  <2>3. \A x \in Members' : x.cs \in Bits => x.toggle = hostToggle
    BY <1>1, <1>3, <1>5, <2>2 DEF Underway, Bits
  <2>4. \A x \in Members' : x.cs # "initSegmented"
    BY <1>1, <1>3, <2>2 DEF Underway, Bits
  <2>5. run' = 1 => NoOpening'
    BY <1>1, <2>2 DEF Underway, NoOpening
  <2>6. InTransfer => toggle # hostToggle
    BY <1>1, <1>3, <1>5 DEF Underway
  <2>7. "segment" \in Bits /\ "segmentAck" \in Bits
    BY DEF Bits
  <2>8. CASE acked' = Len(Data)
    <3>1. IsLast(acked)
      BY <1>5, <2>1, <2>8 DEF IsLast, After, Shorter
    <3>2. ~InTransfer /\ content[Image] = Data
      BY <1>1, <1>3, <1>5, <3>1 DEF Underway
    <3>3. Complete'
      BY <1>1, <2>1, <2>4, <2>5, <3>2 DEF Complete, InTransfer
    <3> QED
      BY <1>5, <2>8, <3>3 DEF IInv
  <2>9. CASE acked' # Len(Data)
    <3>1. acked' < Len(Data') /\ acked' = After(run, acked)
      BY <1>5, <2>1, <2>9 DEF After, Shorter
    <3>2. InTransfer' => toggle' = hostToggle' /\ Stored' = Beginning(run, acked)'
      <4>1. InTransfer => Stored = Beginning(run, After(run, acked)) /\ toggle = 1 - hostToggle
        BY <1>1, <2>6 DEF Underway, Track, Place
      <4>2. Stored' = Stored
        BY <1>1 DEF Stored
      <4>3. Beginning(run, acked)' = Beginning(run, After(run, acked))
        BY <1>1, <3>1 DEF Beginning
      <4> QED
        BY <1>1, <1>5, <4>1, <4>2, <4>3 DEF InTransfer
    <3>3. Track(run, acked, hostToggle)'
      BY <2>1, <2>3, <2>7, <3>2 DEF Track, Place, Beginning
    <3>4. Underway'
      BY <2>1, <2>3, <2>4, <2>5, <2>7, <3>1, <3>3 DEF Underway
    <3> QED
      BY <1>5, <2>9, <3>4 DEF IInv
  <2> QED
    BY <2>8, <2>9
<1> QED
  BY <1>2, <1>4, <1>5

LEMMA GiveUpKeeps ==
  ASSUME Base, IInv, ReadSegmentAbort \/ SkipAnswer \/ HostTimeout
  PROVE  IInv'
<1>1. /\ UNCHANGED <<state, request, toggle, offset, buf, content, out, toServer, run, acked, hostToggle>>
      /\ \/ step = "init" /\ step' = "failed"
         \/ step = "segment" /\ step' \in {"send", "segment", "failed"}
      /\ inbox' = inbox \/ (inbox # <<>> /\ inbox' = Tail(inbox))
  BY DEF ReadSegmentAbort, SkipAnswer, HostTimeout, Retry, serverVars, hostVars
<1>2. Fewer
  <2>1. CASE inbox' = inbox
    <3>1. Read' = Read
      BY <1>1, <2>1 DEF Read
    <3> QED
      BY <1>1, <3>1, SilentLine
  <2>2. CASE inbox # <<>> /\ inbox' = Tail(inbox)
    BY <1>1, <2>2, ReadLine
  <2> QED
    BY <1>1, <2>1, <2>2
<1>3. Calm /\ Kept
  BY <1>1, <1>2, FewerCalm DEF Kept
<1>4. CASE step = "init" /\ step' = "failed"
  <2>1. Waiting
    BY <1>4 DEF IInv
  <2>2. Waiting'
    BY <1>1, <1>3, <1>4, <2>1, WaitingCalm
  <2> QED
    BY <1>4, <2>2 DEF IInv
<1>5. CASE step = "segment" /\ step' \in {"send", "segment", "failed"}
  <2>1. Underway
    BY <1>5 DEF IInv
  <2>2. Underway'
    BY <1>1, <1>3, <2>1, UnderwayCalm
  <2> QED
    BY <1>5, <2>2 DEF IInv
<1> QED
  BY <1>1, <1>4, <1>5

\* An initiation, or the answer to one, is on its way.
Opening == \E x \in In(out) \cup Slot \cup In(toServer) : x.cs \in Openings

LEMMA AgainKeeps ==
  ASSUME Base, IInv, RunAgain, run = 1 \/ ~Opening
  PROVE  IInv'
<1>1. /\ step \in {"done", "failed"} /\ step' = "start" /\ run' = run + 1
      /\ acked' = 0 /\ hostToggle' = 0
      /\ UNCHANGED <<state, request, toggle, offset, buf, content, out, toServer, inbox>>
  BY DEF RunAgain, serverVars
<1>2. run \in Nat /\ run >= 1 /\ run' # 1 /\ run \in 1 .. MaxRuns
      /\ acked \in 0 .. Len(DataOf[run]) /\ hostToggle \in {0, 1}
  BY <1>1, DataType DEF Base, Script, Data
<1>3. Read' = <<>> /\ Slot' = Slot
  BY <1>1 DEF Read, Slot
<1>4. Fewer
  BY <1>1, <1>3, SilentLine
<1>5. Calm /\ Kept
  BY <1>1, <1>4, FewerCalm DEF Kept
<1>6. ~Opening => NoOpening'
  BY <1>1, <1>3, EmptyLine DEF Opening, NoOpening, Members
<1>7. run = 1 /\ NoOpening => NoOpening'
  BY <1>4 DEF NoOpening, Fewer
<1>8. InTransfer' => \E q \in 1 .. run : \E p \in 0 .. Len(DataOf[q]) - 1, h \in {0, 1} : Track(q, p, h)
  <2>1. InTransfer' => InTransfer
    BY <1>1 DEF InTransfer
  <2>2. CASE Waiting
    BY <2>1, <2>2 DEF Waiting
  <2>3. CASE Underway
    <3>1. Track(run, acked, hostToggle) /\ acked < Len(DataOf[run]) /\ run \in 1 .. run
      BY <1>2, <2>3 DEF Underway, Data
    <3>2. acked \in 0 .. Len(DataOf[run]) - 1
      BY <1>2, <3>1, DataType
    <3> QED
      BY <1>2, <3>1, <3>2
  <2>4. CASE Complete
    BY <2>1, <2>4 DEF Complete
  <2> QED
    BY <2>2, <2>3, <2>4 DEF IInv
<1>9. InTransfer' => \E q \in 1 .. run' : \E p \in 0 .. Len(DataOf[q]) - 1, h \in {0, 1} : Track(q, p, h)'
  <2> SUFFICES ASSUME InTransfer'
               PROVE  \E q \in 1 .. run' : \E p \in 0 .. Len(DataOf[q]) - 1, h \in {0, 1} : Track(q, p, h)'
    OBVIOUS
  <2>1. PICK q \in 1 .. run : \E p \in 0 .. Len(DataOf[q]) - 1, h \in {0, 1} : Track(q, p, h)
    BY <1>8
  <2>2. PICK p \in 0 .. Len(DataOf[q]) - 1, h \in {0, 1} : Track(q, p, h)
    BY <2>1
  <2>3. Track(q, p, h)'
    BY <1>5, <2>2, TrackCalm
  <2>4. q \in 1 .. run'
    BY <1>1, <1>2
  <2> QED
    BY <2>3, <2>4
<1>10. "written" \in Openings
  BY DEF Openings
<1>11. CASE NoOpening'
  BY <1>1, <1>2, <1>9, <1>10, <1>11 DEF Waiting, NoOpening, IInv
<1>12. CASE run = 1 /\ Waiting
  <2>1. /\ \A x \in Members' : x \in Members
        /\ \A x, y \in Members' : Before(x, y)' => Before(x, y)
    BY <1>4 DEF Fewer
  <2>2. \A x, y \in Members' : Before(x, y)' /\ x.cs \in Openings => y.cs \notin Bits
    BY <1>12, <2>1 DEF Waiting
  <2>3. \A x \in Members' : x.cs = "written" /\ InTransfer' => toggle' = 0 /\ Stored' = <<>>
    BY <1>1, <1>12, <2>1 DEF Waiting, InTransfer, Stored
  <2> QED
    BY <1>1, <1>2, <1>9, <2>2, <2>3 DEF Waiting, IInv
<1>13. run = 1 /\ ~Waiting => NoOpening
  BY <1>1 DEF IInv, Underway, Complete
<1> QED
  BY <1>6, <1>7, <1>11, <1>12, <1>13

----------------------------------------------------------------------------
(* The invariant                                                           *)

LEMMA InitIInv == Init => IInv
<1> SUFFICES ASSUME Init PROVE IInv
  OBVIOUS
<1>1. /\ step = "start" /\ acked = 0 /\ hostToggle = 0 /\ state = "IDLE"
      /\ request = Srv!None /\ toServer = <<>> /\ out = <<>>
  BY DEF Init, Server!Init, Server!None, Srv!None
<1>2. Members = {}
  BY <1>1, EmptyLine DEF Members, Read, Slot
<1> QED
  BY <1>1, <1>2 DEF IInv, Waiting, InTransfer, NoOpening

LEMMA NextIInv == Base /\ IInv /\ [Next]_vars /\ [RunAgain => run = 1 \/ ~Opening]_vars => IInv'
<1> SUFFICES ASSUME Base, IInv, [Next]_vars, [RunAgain => run = 1 \/ ~Opening]_vars
             PROVE  IInv'
  OBVIOUS
<1>1. CASE Host
  BY <1>1, StartKeeps, SendKeeps, ReadInitKeeps, ReadAckKeeps, GiveUpKeeps DEF Host
<1>2. CASE RunAgain
  <2>1. vars' # vars
    <3>1. run' = run + 1 /\ run \in Nat
      BY <1>2, DataType DEF RunAgain, Base, Script
    <3>2. run' # run
      BY <3>1
    <3> QED
      BY <3>2 DEF vars, hostVars
  <2> QED
    BY <1>2, <2>1, AgainKeeps
<1>3. CASE ServerStep
  <2>1. UNCHANGED <<toServer, inbox, hostVars>>
    BY <1>3, StepEffect
  <2>2. CASE Aborted
    <3>1. Kept
      BY <2>2 DEF Aborted, Kept
    <3> QED
      BY <2>1, <2>2, <3>1, AbortLine, CalmKeeps
  <2> QED
    BY <1>3, <2>1, <2>2, StepEffect, OpenKeeps, AcknowledgeKeeps
<1>4. CASE Deliver
  <2>1. Kept /\ UNCHANGED hostVars
    BY <1>4, DeliverEffect DEF Kept
  <2> QED
    BY <1>4, <2>1, DeliverLine, FewerCalm, CalmKeeps
<1>5. CASE LoseRequest
  <2>1. Kept /\ UNCHANGED hostVars
    BY <1>5 DEF LoseRequest, Kept, serverVars
  <2> QED
    BY <1>5, <2>1, LoseRequestLine, FewerCalm, CalmKeeps
<1>6. CASE DeliverAnswer \/ LoseAnswer
  <2>1. Kept /\ UNCHANGED hostVars
    BY <1>6 DEF DeliverAnswer, LoseAnswer, Server!Transmit, Server!transferVars, Kept
  <2> QED
    BY <1>6, <2>1, TransmitLine, FewerCalm, CalmKeeps
<1>7. CASE UNCHANGED vars
  <2>1. UNCHANGED <<request, toServer, out, inbox>> /\ UNCHANGED hostVars
        /\ UNCHANGED <<state, toggle, offset, buf, content>>
    BY <1>7 DEF vars, serverVars
  <2>2. Kept /\ Read' = Read
    BY <2>1 DEF Kept, Read, hostVars
  <2> QED
    BY <2>1, <2>2, SilentLine, FewerCalm, CalmKeeps
<1> QED
  BY <1>1, <1>2, <1>3, <1>4, <1>5, <1>6, <1>7 DEF Next

LEMMA InvariantImplies ==
  ASSUME Base, IInv
  PROVE  SuccessStored /\ NoMixture
<1>1. SuccessStored
  BY DEF IInv, Complete, SuccessStored
<1>2. NoMixture
  <2> SUFFICES ASSUME InTransfer
               PROVE  \E r \in 1 .. run :
                        Len(Stored) <= Len(DataOf[r]) /\ Stored = SubSeq(DataOf[r], 1, Len(Stored))
    BY DEF NoMixture, Stored, InTransfer
  <2>1. run \in 1 .. MaxRuns /\ acked \in 0 .. Len(DataOf[run]) /\ hostToggle \in {0, 1}
        /\ toggle \in {0, 1} /\ MaxRuns \in Nat
    BY DataType, ServerTypes DEF Base, Script, Data
  <2>2. \E q \in 1 .. run : \E p \in 0 .. Len(DataOf[q]) - 1, h \in {0, 1} : Track(q, p, h)
    <3>1. CASE Waiting
      BY <3>1 DEF Waiting
    <3>2. CASE Underway
      <4>1. Track(run, acked, hostToggle) /\ acked < Len(DataOf[run]) /\ run \in 1 .. run
        BY <2>1, <3>2 DEF Underway, Data
      <4>2. acked \in 0 .. Len(DataOf[run]) - 1
        BY <2>1, <4>1, DataType
      <4> QED
        BY <2>1, <4>1, <4>2
    <3> QED
      BY <3>1, <3>2 DEF IInv, Complete
  <2>3. PICK q \in 1 .. run : \E p \in 0 .. Len(DataOf[q]) - 1, h \in {0, 1} : Track(q, p, h)
    BY <2>2
  <2>4. PICK p \in 0 .. Len(DataOf[q]) - 1, h \in {0, 1} : Track(q, p, h)
    BY <2>3
  <2>5. q \in 1 .. MaxRuns /\ DataOf[q] \in Seq(Byte) /\ Len(DataOf[q]) \in Nat /\ SegBytes \in Nat
    BY <2>1, DataType, ServerAssumption
  <2>6. PICK n \in 0 .. Len(DataOf[q]) : Stored = SubSeq(DataOf[q], 1, n)
    <3>1. p \in 0 .. Len(DataOf[q]) /\ After(q, p) \in 0 .. Len(DataOf[q])
      BY <2>5 DEF After, Shorter
    <3> QED
      BY <2>4, <3>1 DEF Track, Place, Beginning
  <2>7. Len(SubSeq(DataOf[q], 1, n)) = n
    <3>1. \A i \in 1 .. n : DataOf[q][i] \in Byte
      BY <2>5
    <3> QED
      BY <2>5, <3>1, SubSeqProperties
  <2> QED
    BY <2>6, <2>7
<1> QED
  BY <1>1, <1>2

\* From the second run on, the user runs the program again only when no
\* initiation and no answer to one is on its way.
Patient == [][RunAgain => run = 1 \/ ~Opening]_vars

THEOREM Invariance == Spec /\ Patient => []IInv
BY InitIInv, NextIInv, BaseHolds, PTL DEF Spec, Patient

\* A download reported as done is stored in the object, all of it and nothing
\* twice, whatever was lost, late or repeated and whatever runs before left.
THEOREM ReportedDownloadStored == Spec /\ Patient => []SuccessStored
BY InvariantImplies, Invariance, BaseHolds, PTL

\* What object and buffer hold is the beginning of the data of one run.
THEOREM RunsNeverMix == Spec /\ Patient => []NoMixture
BY InvariantImplies, Invariance, BaseHolds, PTL

\* With two runs, the case that is model-checked, nothing is asked of the user.
THEOREM TwoRuns == MaxRuns <= 2 => (Spec => [](SuccessStored /\ NoMixture))
<1> SUFFICES ASSUME MaxRuns <= 2 PROVE Spec => [](SuccessStored /\ NoMixture)
  OBVIOUS
<1>1. Base /\ IInv /\ [Next]_vars => IInv'
  <2>1. Base /\ RunAgain => run = 1
    BY DataType DEF Base, Script, RunAgain
  <2> QED
    BY <2>1, NextIInv
<1>2. Spec => []IInv
  BY <1>1, InitIInv, BaseHolds, PTL DEF Spec
<1> QED
  BY <1>2, InvariantImplies, BaseHolds, PTL

\* The buffer of the server never overflows during a download, and every byte
\* counted is in the object or in the buffer.
THEOREM DownloadWithinBuffer == Spec => [](Server!BufferFits /\ Server!Accounted)
<1>1. Base => Srv!BufferFits /\ Srv!Accounted
  BY DEF Base, Serving, Srv!IInv
<1>2. Base => Server!BufferFits /\ Server!Accounted
  BY <1>1 DEF Server!BufferFits, Server!Accounted, Srv!BufferFits, Srv!Accounted
<1> QED
  BY <1>2, BaseHolds, PTL
=============================================================================
