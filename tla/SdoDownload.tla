----------------------------- MODULE SdoDownload -----------------------------
(***************************************************************************)
(* A segmented download end to end: write_data_segmented and _sdo of the   *)
(* host program (write-firmware.py) against the SDO server (SdoServer),    *)
(* over a bus that keeps the order of frames and loses some of them.       *)
(*                                                                         *)
(* Time is not measured: a deadline of the host may pass at any moment, so *)
(* an answer can come too late as well as not at all, and the server's     *)
(* timeout may pass whenever it has no request.  The user runs the program *)
(* up to MaxRuns times, with what the run before left on its way.          *)
(***************************************************************************)
EXTENDS Integers, Sequences

CONSTANTS
  Byte,
  DataOf,        \* the data of each run of the program, a sequence of sequences
  Retries,       \* segment_retries
  MaxTransit,    \* bound: frames on their way from the host to the server
  SegBytes, BufferSize, MaxBlock, Limit, Timeout, BlockTimeout, TxSize  \* see SdoServer

ASSUME RunAssumption ==
  /\ DataOf \in Seq(Seq(Byte) \ {<<>>}) /\ DataOf # <<>>
  /\ Retries \in Nat /\ MaxTransit \in Nat \ {0}
ASSUME ServerAssumption ==
  /\ SegBytes \in Nat /\ 1 < SegBytes
  /\ BufferSize \in Nat /\ MaxBlock \in Nat \ {0} /\ MaxBlock * SegBytes + 2 <= BufferSize
  /\ Timeout \in Nat /\ BlockTimeout \in Nat /\ 0 < BlockTimeout /\ BlockTimeout < Timeout
  /\ TxSize \in Nat /\ Limit \in Nat

VARIABLES
  state, request, obj, offset, sizeInd, sizeTran, finished, toggle, buf,
  blksize, seqno, crcOn, crc, timer, blockTimer, content, out,    \* the server
  toServer,      \* frames on their way to the server
  inbox,         \* what the adapter has received, the host's input buffer
  step,          \* where the host is
  acked,         \* offset
  hostToggle,    \* toggle
  attempts,
  run            \* which run of the program this is

Image == "image"
MaxRuns == Len(DataOf)
Data == DataOf[run]

Shorter(a, b) == IF a < b THEN a ELSE b

IsLast(n) == n + SegBytes >= Len(Data)

InitFrame == [cs |-> "initSegmented", obj |-> Image, sized |-> TRUE, size |-> Len(Data)]

SegmentFrame ==
  [cs |-> "segment", toggle |-> hostToggle,
   data |-> SubSeq(Data, acked + 1, Shorter(acked + SegBytes, Len(Data))), last |-> IsLast(acked)]

\* All the host may ever send.
HostFrames ==
       [cs : {"initSegmented"}, obj : {Image}, sized : {TRUE}, size : {Len(DataOf[r]) : r \in 1 .. MaxRuns}]
  \cup [cs : {"segment"}, toggle : {0, 1}, data : UNION {[1 .. n -> Byte] : n \in 1 .. SegBytes}, last : BOOLEAN]

Server == INSTANCE SdoServer WITH
  Object <- {Image}, Missing <- "none", Readable <- {}, Writable <- {Image},
  Size <- [o \in {Image} |-> 0], Initial <- [o \in {Image} |-> <<>>],
  Frames <- HostFrames, ExpBytes <- 1

serverVars == <<state, request, obj, offset, sizeInd, sizeTran, finished, toggle, buf,
                blksize, seqno, crcOn, crc, timer, blockTimer, content, out>>
hostVars == <<step, acked, hostToggle, attempts, run>>
vars == <<serverVars, toServer, inbox, hostVars>>

----------------------------------------------------------------------------
(* The host                                                                *)

\* The start of _sdo: what was received is discarded, the request goes out; a
\* frame that finds no place on the bus is lost.
Request(m) ==
  /\ inbox' = <<>>
  /\ toServer' = IF Len(toServer) < MaxTransit THEN Append(toServer, m) ELSE toServer

StartTransfer ==
  /\ step = "start"
  /\ Request(InitFrame)
  /\ step' = "init"
  /\ UNCHANGED <<serverVars, acked, hostToggle, attempts, run>>

SendSegment ==
  /\ step = "send"
  /\ Request(SegmentFrame)
  /\ step' = "segment"
  /\ UNCHANGED <<serverVars, acked, hostToggle, attempts, run>>

\* The answer to the initiation.  Every abort ends the program, and what is not
\* an answer to it is skipped.
ReadInit ==
  /\ step = "init" /\ inbox # <<>>
  /\ step' = CASE Head(inbox).cs = "abort" -> "failed"
               [] Head(inbox).cs = "written" -> "send"
               [] OTHER -> step
  /\ inbox' = Tail(inbox)
  /\ UNCHANGED <<serverVars, toServer, acked, hostToggle, attempts, run>>

\* Fault: the toggle bit of the answer is not looked at.
AnyToggle(m) == TRUE

ToggleRight(m) == m.toggle = hostToggle

\* prefix 0x20: the answer to a segment; a wrong toggle bit ends the program.
ReadSegmentAck ==
  /\ step = "segment" /\ inbox # <<>> /\ Head(inbox).cs = "segmentAck"
  /\ IF ToggleRight(Head(inbox))
     THEN /\ acked' = Shorter(acked + SegBytes, Len(Data))
          /\ hostToggle' = 1 - hostToggle /\ attempts' = 0
          /\ step' = IF acked' = Len(Data) THEN "done" ELSE "send"
     ELSE step' = "failed" /\ UNCHANGED <<acked, hostToggle, attempts>>
  /\ inbox' = Tail(inbox)
  /\ UNCHANGED <<serverVars, toServer, run>>

\* Fault: attempts are not counted.
RetryForEver ==
  /\ step' = "send" /\ UNCHANGED attempts

\* Fault: one attempt more than there are.
RetryOnceMore ==
  IF attempts <= Retries
  THEN step' = "send" /\ attempts' = attempts + 1
  ELSE step' = "failed" /\ UNCHANGED attempts

\* The segment again, as long as there are attempts left.
Retry ==
  IF attempts < Retries
  THEN step' = "send" /\ attempts' = attempts + 1
  ELSE step' = "failed" /\ UNCHANGED attempts

\* SDO_ABORT_TIMEOUT, SDO_ABORT_CMD_SPEC_UNKNOWN; the server has no toggle abort.
Recoverable(code) == code \in {"timeout", "cmd"}

ReadSegmentAbort ==
  /\ step = "segment" /\ inbox # <<>> /\ Head(inbox).cs = "abort"
  /\ IF Recoverable(Head(inbox).code) /\ Head(inbox).obj = Image
     THEN Retry
     ELSE step' = "failed" /\ UNCHANGED attempts
  /\ inbox' = Tail(inbox)
  /\ UNCHANGED <<serverVars, toServer, acked, hostToggle, run>>

\* Neither an abort nor the answer to a segment.
SkipAnswer ==
  /\ step = "segment" /\ inbox # <<>> /\ Head(inbox).cs \notin {"segmentAck", "abort"}
  /\ inbox' = Tail(inbox)
  /\ UNCHANGED <<serverVars, toServer, hostVars>>

\* The deadline of _sdo passes: the initiation is not repeated.
HostTimeout ==
  /\ \/ step = "init" /\ step' = "failed" /\ UNCHANGED attempts
     \/ step = "segment" /\ Retry
  /\ UNCHANGED <<serverVars, toServer, inbox, acked, hostToggle, run>>

\* The user runs the program again.
RunAgain ==
  /\ step \in {"done", "failed"} /\ run < MaxRuns
  /\ run' = run + 1
  /\ step' = "start" /\ acked' = 0 /\ hostToggle' = 0 /\ attempts' = 0
  /\ UNCHANGED <<serverVars, toServer, inbox>>

Host ==
  \/ StartTransfer \/ SendSegment
  \/ ReadInit \/ ReadSegmentAck \/ ReadSegmentAbort \/ SkipAnswer
  \/ HostTimeout

----------------------------------------------------------------------------
(* The bus                                                                 *)

Deliver ==
  /\ toServer # <<>> /\ toServer' = Tail(toServer)
  /\ Server!Receive(Head(toServer))
  /\ UNCHANGED <<inbox, hostVars>>

LoseRequest ==
  /\ toServer # <<>> /\ toServer' = Tail(toServer)
  /\ UNCHANGED <<serverVars, inbox, hostVars>>

\* An answer leaves the node and reaches the adapter, or is lost.
DeliverAnswer ==
  /\ Server!Transmit
  /\ inbox' = Append(inbox, Head(out))
  /\ UNCHANGED <<toServer, hostVars>>

LoseAnswer ==
  /\ Server!Transmit
  /\ UNCHANGED <<toServer, inbox, hostVars>>

\* A call of CO_SDOserver_process.  Frames before this one in the receive queue
\* are drained first, in any number.
ServerStep ==
  /\ \/ Server!RefuseCommand \/ Server!RefuseFrame
     \/ Server!InitSegmented \/ Server!RepeatSegment \/ Server!DownloadSegment
     \/ Server!TransferTimeout(Timeout)
     \/ Server!Stop
  /\ UNCHANGED <<toServer, inbox, hostVars>>

Init ==
  /\ Server!Init
  /\ toServer = <<>> /\ inbox = <<>>
  /\ step = "start" /\ acked = 0 /\ hostToggle = 0 /\ attempts = 0 /\ run = 1

Next == Host \/ RunAgain \/ ServerStep \/ Deliver \/ LoseRequest \/ DeliverAnswer \/ LoseAnswer

Spec == Init /\ [][Next]_vars

\* The host program goes on, and its deadlines pass.
FairSpec == Spec /\ WF_vars(Host)

----------------------------------------------------------------------------
(* Properties                                                              *)

\* Every variable has its type; the host is never ahead of its data.
TypeOK ==
  /\ Server!TypeOK
  /\ toServer \in Seq(HostFrames) /\ Len(toServer) <= MaxTransit
  /\ step \in {"start", "init", "send", "segment", "done", "failed"}
  /\ acked \in 0 .. Len(Data) /\ (step \in {"send", "segment"} => acked < Len(Data))
  /\ hostToggle \in {0, 1} /\ attempts \in 0 .. Retries /\ run \in 1 .. MaxRuns

\* If the host takes the transfer for complete, the object holds its data, all
\* of it and nothing twice, whatever was lost, late or repeated on the way and
\* whatever the run before left there. It holds for two runs; for more it does
\* if none starts while a "written" of an earlier run is on its way: one that
\* waits in the node's transmit queue for a whole run could open the next.
SuccessStored == step = "done" => content[Image] = Data

\* What the object and the buffer hold during a transfer is the beginning of
\* the data of one run: repeated, lost and leftover segments never get mixed in.
NoMixture ==
  state = "DOWNLOAD_SEGMENT_REQ" =>
    \E r \in 1 .. run :
      LET stored == SubSeq(content[Image], 1, offset) \o buf
      IN Len(stored) <= Len(DataOf[r]) /\ stored = SubSeq(DataOf[r], 1, Len(stored))

\* Every transfer ends at the host, in success or failure, although the bus may
\* lose everything from some moment on and the server may stop.
TransferEnds == step \in {"init", "segment"} ~> step \in {"done", "failed"}
=============================================================================
