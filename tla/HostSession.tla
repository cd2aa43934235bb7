----------------------------- MODULE HostSession -----------------------------
(***************************************************************************)
(* An update session end to end: _run_single_ota of the host program       *)
(* (write-firmware.py) against the update object (OtaApp) of a device that *)
(* can restart, over SDO exchanges that can fail.                          *)
(*                                                                         *)
(* An exchange is a request and an answer.  The server keeps one request   *)
(* and loses another that comes meanwhile; requests and answers are lost,  *)
(* answered late, or met by a timeout of the host first.  The image goes   *)
(* over in pieces, what the server's buffer hands to the update object at  *)
(* once; the segments of a piece and their repetitions are SdoDownload's.  *)
(* The user runs the program for every element of Sessions in turn, or     *)
(* once for a kernel and the PLC's image behind it.                        *)
(***************************************************************************)
EXTENDS Integers, Sequences

CONSTANTS
  Byte, Blank, WordBytes, PageBytes, StageSize, InitialFlash,
  TickMod, ApplyDelay, UseFlash, NoImage,                      \* see OtaApp
  Sessions,      \* a sequence of [image, target, apply]
  SkipIdentity,  \* --skip-identity
  PieceBytes,    \* bytes of a piece
  MaxAnswers     \* bound: answers on their way to the host

\* As OtaApp assumes them.
ASSUME DeviceAssumption ==
  /\ Blank \in Byte /\ WordBytes \in {2, 4}
  /\ StageSize \in Nat /\ StageSize % WordBytes = 0
  /\ PageBytes \in Nat \ {0} /\ PageBytes % WordBytes = 0
  /\ InitialFlash \subseteq [0 .. StageSize - 1 -> Byte] /\ UseFlash \in BOOLEAN
  /\ TickMod \in Nat /\ ApplyDelay \in Nat /\ 0 < ApplyDelay /\ 2 * ApplyDelay <= TickMod
  /\ NoImage \notin Seq(Byte)

\* Only a session that updates the kernel is run with APPLY.
ASSUME SessionAssumption ==
  /\ Sessions # <<>>
  /\ Sessions \in Seq([image : Seq(Byte), target : {"AT32", "OTHER"}, apply : BOOLEAN])
  /\ \A r \in 1 .. Len(Sessions) : Sessions[r].apply => Sessions[r].target = "AT32"
  /\ SkipIdentity \in BOOLEAN /\ PieceBytes \in Nat \ {0} /\ MaxAnswers \in Nat \ {0}

VARIABLES
  target, imageType, expectedSize, expectedCRC, state, lastError,
  bytesReceived, bytesWritten, imageCRC, session, crc, prepared, nextOffset, cache,
  swapPending, deadline, flash, flashErr, open, dataOffset, busy, chunk, idx, now,
  waited, installed,   \* the device
  request,     \* what its SDO server has to process
  owed,        \* the answer to the piece in work
  answers,     \* answers on their way, the host's input buffer included
  step, pos,   \* where the host is, and how far in that part
  waiting,     \* inside _sdo
  seen,        \* what read_status has read so far
  endFailed,   \* end_abort is not None
  run,         \* which session this is
  trouble      \* history: in this run of the program something was lost, late or
               \* refused by flash, power failed or the user stopped it

deviceVars ==
  <<target, imageType, expectedSize, expectedCRC, state, lastError, bytesReceived,
    bytesWritten, imageCRC, session, crc, prepared, nextOffset, cache, swapPending,
    deadline, flash, flashErr, open, dataOffset, busy, chunk, idx, now, waited, installed>>
serverVars == <<request, owed>>
hostVars == <<step, pos, waiting, seen, endFailed, run>>
vars == <<deviceVars, serverVars, answers, hostVars, trouble>>

Session == Sessions[run]
Size(r) == Len(Sessions[r].image)
Shorter(a, b) == IF a < b THEN a ELSE b

Device == INSTANCE OtaApp WITH
  Chunks <- Seq(Byte), Sizes <- {Size(r) : r \in 1 .. Len(Sessions)},
  Crcs <- {Sessions[r].image : r \in 1 .. Len(Sessions)},
  Targets <- {"AT32", "OTHER"}, ImageTypes <- {"KERNEL"}

----------------------------------------------------------------------------
(* The script of the host: what it asks for, part by part.  A run of the    *)
(* program begins with a look at the device, which may fail, and a session *)
(* that fails ends with another.                                           *)

\* read_status, but for the progress, which nothing depends on.
Fields == <<"state", "lastError", "bytesReceived", "bytesWritten", "imageCRC">>

Identity  == <<"vendorId", "productCode", "revision", "serial">>
Diagnosis == <<"mainFwVersion", "commFwVersion", "userFwVersion">>

\* The reads whose values do not matter.
Looks == {Identity[i] : i \in 1 .. Len(Identity)} \cup {Diagnosis[i] : i \in 1 .. Len(Diagnosis)}

Preparation == <<"target", "imageType", "sessionId", "expectedSize", "expectedCRC",
                 "chunkSize", "readChunkSize", "start">> \o Fields

None == [what |-> "none"]

\* The request of the moment; of a piece, where it begins.
Asked ==
  CASE step = "identity" -> [what |-> Identity[pos], run |-> run]
    [] step = "prepare" -> [what |-> Preparation[pos], run |-> run]
    [] step = "data"    -> [what |-> "piece", run |-> run, from |-> pos]
    [] step = "poll"    -> [what |-> Fields[pos], run |-> run]
    [] step = "leave"   -> [what |-> "state", run |-> run]
    [] step = "diagnose" -> [what |-> Diagnosis[pos], run |-> run]
    [] OTHER            -> [what |-> step, run |-> run]

Commands == {"start", "end", "apply"}

\* The object a request is for: answers are told apart by it alone.
ObjectOf(what) == IF what \in Commands THEN "command" ELSE what

Working == {"identity", "prepare", "data", "end", "poll", "apply", "leave", "diagnose"}

----------------------------------------------------------------------------
(* The host.  _sdo discards what was received so far and sends a request,  *)
(* which the bus loses, or the server, if it still has one.                *)

Ask ==
  /\ step \in Working /\ ~waiting
  /\ waiting' = TRUE
  /\ \E k \in 0 .. Len(answers) : answers' = SubSeq(answers, k + 1, Len(answers))
  /\ \/ request = None /\ request' = Asked /\ UNCHANGED trouble
     \/ UNCHANGED request /\ trouble' = TRUE
  /\ UNCHANGED <<deviceVars, owed, step, pos, seen, endFailed, run>>

GoTo(s, p) == step' = s /\ pos' = p

\* The session has failed: the host has a look at the device before it says so.
GiveUp == GoTo("diagnose", 1)

\* Fault: without the look at the device in the beginning.
NoOpening == "prepare"

Opening == IF SkipIdentity THEN "prepare" ELSE "identity"

\* Fault: end_abort is not looked at again.
EndUnchecked == TRUE

EndConfirmed == ~endFailed

\* What the loop that waits for completion makes of the values of Fields: ERROR
\* and a last error end the session, and a CRC of 0 is not compared.
Judge(s) ==
  LET failed   == s[1] = "ERROR" \/ s[2] # "NONE"
      complete == s[3] >= Size(run) /\ s[4] >= Size(run)
      right    == (s[5] = <<>> \/ s[5] = Session.image) /\ EndConfirmed
  IN IF failed \/ (complete /\ ~right) THEN GiveUp
     ELSE IF ~complete THEN GoTo("poll", 1)
     ELSE GoTo(IF Session.target = "AT32" /\ Session.apply THEN "apply" ELSE "success", 1)

\* Fault: the piece that was just confirmed is not counted.
PieceUncounted == pos < Size(run)

MorePieces == pos + PieceBytes < Size(run)

\* The exchange succeeded with the answer a.
Succeed(a) ==
  /\ seen' = IF step = "poll" /\ pos < Len(Fields) THEN Append(seen, a.value) ELSE <<>>
  /\ CASE step = "identity" -> IF pos < Len(Identity) THEN GoTo(step, pos + 1) ELSE GoTo("prepare", 1)
       [] step = "prepare" -> IF pos < Len(Preparation) THEN GoTo(step, pos + 1) ELSE GoTo("data", 0)
       [] step = "data"    -> IF MorePieces THEN GoTo(step, pos + PieceBytes) ELSE GoTo("end", 1)
       [] step = "end"     -> GoTo("poll", 1)
       [] step = "poll"    -> IF pos < Len(Fields) THEN GoTo(step, pos + 1) ELSE Judge(Append(seen, a.value))
       [] step = "apply"   -> GoTo("leave", 1)
       [] step = "leave"   -> GoTo("leave", 1)
       [] step = "diagnose" -> IF pos < Len(Diagnosis) THEN GoTo(step, pos + 1) ELSE GoTo("failed", 1)
  /\ UNCHANGED endFailed

Optional == {"chunkSize", "readChunkSize"}

\* Fault: a failed APPLY is not an error.
ApplyIgnored == GoTo("leave", 1)

ApplyFailed == GiveUp

\* The exchange failed: by an abort or a timeout, which all parts treat alike.
\* After APPLY it means that the target has left CANopen.
Fail ==
  /\ CASE step = "identity" -> GoTo("prepare", 1)
       [] step = "prepare" -> IF Preparation[pos] \in Optional THEN GoTo(step, pos + 1) ELSE GoTo("failed", 1)
       [] step = "data"    -> GiveUp
       [] step = "end"     -> GoTo("poll", 1)
       [] step = "poll"    -> GoTo("poll", 1)
       [] step = "apply"   -> ApplyFailed
       [] step = "leave"   -> GoTo("success", 1)
       [] step = "diagnose" -> GoTo("failed", 1)
  /\ endFailed' = (endFailed \/ step = "end")
  /\ seen' = <<>>

\* An abort ends the exchange whatever it is about; an answer about another
\* object is skipped.
ReadAnswer ==
  /\ waiting /\ answers # <<>>
  /\ answers' = Tail(answers)
  /\ LET a == Head(answers)
     IN IF a.obj = "abort" THEN waiting' = FALSE /\ Fail
        ELSE IF a.obj = ObjectOf(Asked.what) THEN waiting' = FALSE /\ Succeed(a)
        ELSE UNCHANGED <<waiting, step, pos, seen, endFailed>>
  /\ UNCHANGED <<deviceVars, serverVars, run, trouble>>

AnswerTimeout ==
  /\ waiting
  /\ waiting' = FALSE
  /\ Fail
  /\ trouble' = TRUE
  /\ UNCHANGED <<deviceVars, serverVars, answers, run>>

\* Fault: the wait for completion has no deadline.
OnlyLeave == step = "leave"

\* The two waits of the host, for completion and for the target to leave.
Limited == step \in {"poll", "leave"}

DeadlinePasses ==
  /\ Limited /\ ~waiting /\ pos = 1
  /\ GiveUp
  /\ trouble' = TRUE
  /\ UNCHANGED <<deviceVars, serverVars, answers, waiting, seen, endFailed, run>>

\* Fault: end_abort outlives the session.
EndOutlives == UNCHANGED endFailed

NewSession == endFailed' = FALSE

\* The user runs the program again.  What is still on its way is late, and a
\* flash controller that has refused something goes on refusing.
RunAgain ==
  /\ step \in {"success", "failed"} /\ run < Len(Sessions)
  /\ run' = run + 1
  /\ GoTo(Opening, 1)
  /\ NewSession
  /\ trouble' = (flashErr \/ request # None \/ owed # None \/ answers # <<>>)
  /\ UNCHANGED <<deviceVars, serverVars, answers, waiting, seen>>

\* The same run of the program goes on from the kernel to the image of the PLC.
NextImage ==
  /\ step = "success" /\ run < Len(Sessions)
  /\ Session.target = "AT32" /\ ~Session.apply /\ Sessions[run + 1].target = "OTHER"
  /\ run' = run + 1
  /\ GoTo("prepare", 1)
  /\ NewSession
  /\ UNCHANGED <<deviceVars, serverVars, answers, waiting, seen, trouble>>

\* The user stops the program, which sends nothing more.
Interrupt ==
  /\ step \in Working
  /\ GoTo("failed", 1) /\ waiting' = FALSE /\ trouble' = TRUE
  /\ UNCHANGED <<deviceVars, serverVars, answers, seen, endFailed, run>>

HostStep == Ask \/ ReadAnswer \/ AnswerTimeout \/ DeadlinePasses \/ Interrupt

----------------------------------------------------------------------------
(* The SDO server of the device, in front of its objects.                  *)

\* The word the flash controller gets next.
WordInHand == IF busy /\ ~Device!Stale THEN Device!Word.addr ELSE cache.addr

\* The step fails because the flash controller does not do what it could do.
FlashFails ==
  /\ state' = "ERROR"
  /\ IF owed = None /\ request.what = "start"
     THEN Device!SizeFits(expectedSize)
     ELSE /\ busy \/ request.what = "end"
          /\ lastError' = "STAGE_WRITE" /\ Device!IsBlank(flash, WordInHand)

\* The answer goes out, or is lost.
Answer(a) ==
  \/ /\ Len(answers) < MaxAnswers /\ answers' = Append(answers, a)
     /\ trouble' = (trouble \/ FlashFails)
  \/ UNCHANGED answers /\ trouble' = TRUE

Abort  == [obj |-> "abort"]
Done   == [obj |-> ObjectOf(request.what)]
Value(v) == [obj |-> request.what, value |-> v]

Starts(names) == request # None /\ ~busy /\ owed = None /\ request.what \in names
Idle(names)   == Starts(names) /\ ~open
Served == request' = None /\ UNCHANGED <<owed, hostVars>>

Parameters == {"target", "imageType", "expectedSize", "expectedCRC"}

ServeParameter ==
  /\ Idle(Parameters) /\ Served
  /\ Device!WriteParameter
  /\ target'       = IF request.what = "target" THEN Sessions[request.run].target ELSE target
  /\ imageType'    = IF request.what = "imageType" THEN "KERNEL" ELSE imageType
  /\ expectedSize' = IF request.what = "expectedSize" THEN Size(request.run) ELSE expectedSize
  /\ expectedCRC'  = IF request.what = "expectedCRC" THEN Sessions[request.run].image ELSE expectedCRC
  /\ Answer(Done)

\* Session id and chunk size mean nothing to the update object, and of the
\* identity and the versions nothing depends on the values.
ServeOther ==
  /\ Idle({"sessionId"} \cup Optional \cup Looks) /\ Served
  /\ UNCHANGED deviceVars
  /\ Answer(Done)

ServeStatus ==
  /\ Idle({Fields[i] : i \in 1 .. Len(Fields)}) /\ Served
  /\ UNCHANGED deviceVars
  /\ Answer(Value(CASE request.what = "state"         -> state
                    [] request.what = "lastError"     -> lastError
                    [] request.what = "bytesReceived" -> bytesReceived
                    [] request.what = "bytesWritten"  -> bytesWritten
                    [] request.what = "imageCRC"      -> imageCRC))

\* A command is refused exactly when it leaves an error behind.
ServeCommand ==
  /\ Idle(Commands) /\ Served
  /\ CASE request.what = "start" -> Device!Start \/ Device!StartRefused
       [] request.what = "end"   -> Device!End \/ Device!EndRefused
       [] request.what = "apply" -> Device!Apply \/ Device!ApplyRefused
  /\ Answer(IF state' = "ERROR" THEN Abort ELSE Done)

\* The first piece opens the transfer, the others continue it.
ServePiece ==
  /\ Starts({"piece"})
  /\ open <=> request.from # 0
  /\ LET image == Sessions[request.run].image
     IN Device!WriteData(request.from = 0,
          SubSeq(image, request.from + 1, Shorter(request.from + PieceBytes, Len(image))))
  /\ owed' = request /\ request' = None
  /\ UNCHANGED <<hostVars, answers, trouble>>

\* The handler has returned: the last piece has to complete the object, the
\* others must not; else the server aborts the transfer.
PieceServed ==
  LET last == owed.from + PieceBytes >= Size(owed.run)
      good == state = "RECV" /\ (open <=> ~last)
  IN /\ owed # None /\ ~busy
     /\ owed' = None
     /\ IF ~good /\ open THEN Device!DropTransfer ELSE UNCHANGED deviceVars
     /\ Answer(IF good THEN [obj |-> "piece"] ELSE Abort)
     /\ UNCHANGED <<request, hostVars>>

\* In the middle of a transfer any other request ends it, and without a transfer
\* there is nothing to continue.
Refuse ==
  /\ \/ Starts({"piece"}) /\ ~(open <=> request.from # 0)
     \/ request # None /\ request.what # "piece" /\ Starts({request.what}) /\ open
  /\ IF open THEN Device!DropTransfer ELSE UNCHANGED deviceVars
  /\ Served
  /\ Answer(Abort)

\* SDOtimeoutTime_us without a request: it came too late.
TransferTimeout ==
  /\ owed = None /\ request = None
  /\ Device!DropTransfer
  /\ \/ UNCHANGED answers
     \/ Len(answers) < MaxAnswers /\ answers' = Append(answers, Abort)
  /\ trouble' = TRUE
  /\ UNCHANGED <<serverVars, hostVars>>

Server ==
  \/ ServeParameter \/ ServeOther \/ ServeStatus \/ ServeCommand
  \/ ServePiece \/ PieceServed \/ Refuse \/ TransferTimeout

\* The loop of the data handler, the main loop and the timer.
Work ==
  /\ Device!StageByte \/ Device!FinishData \/ Device!ProcessPending \/ Device!Tick
  /\ trouble' = (trouble \/ FlashFails)
  /\ UNCHANGED <<serverVars, answers, hostVars>>

\* Power fails, also while a request waits or is in work.
Restart ==
  /\ Device!Restart
  /\ request' = None /\ owed' = None
  /\ trouble' = TRUE
  /\ UNCHANGED <<answers, hostVars>>

Init ==
  /\ Device!Init
  /\ request = None /\ owed = None /\ answers = <<>>
  /\ step = Opening /\ pos = 1 /\ waiting = FALSE
  /\ seen = <<>> /\ endFailed = FALSE /\ run = 1 /\ trouble = FALSE

Next == HostStep \/ RunAgain \/ NextImage \/ Server \/ Work \/ Restart

Spec == Init /\ [][Next]_vars

\* The host program goes on, and the time it waits for an answer or for the
\* target passes; of the device nothing is assumed.
FairSpec == Spec /\ WF_vars(Ask) /\ WF_vars(ReadAnswer \/ AnswerTimeout) /\ SF_vars(DeadlinePasses)

----------------------------------------------------------------------------
(* Properties                                                              *)

\* Every variable has its type.
TypeOK ==
  /\ Device!TypeOK
  /\ \A q \in {request, owed} \ {None} : q.run \in 1 .. run
  /\ Len(answers) <= MaxAnswers
  /\ step \in Working \cup {"success", "failed"}
  /\ pos \in Nat /\ (step = "data" => pos = 0 \/ pos < Size(run))
  /\ waiting \in BOOLEAN /\ endFailed \in BOOLEAN /\ trouble \in BOOLEAN
  /\ (step = "poll" => Len(seen) = pos - 1) /\ run \in 1 .. Len(Sessions)

\* When the host reports success the staging area holds its image, whatever was
\* lost, late or left over from a session before, and also if power failed since.
\* It takes old answers for a whole preparation to break it: more than MaxAnswers
\* lets be on their way in the runs, unless the user waits for them to be gone.
SuccessStaged ==
  step = "success" => Device!StagePrefix(Size(run)) = Session.image

\* What is installed was sent whole by a session that asked for it.
InstalledWhole ==
  installed # NoImage =>
    \E r \in 1 .. run : Sessions[r].apply /\ installed = Sessions[r].image

\* After a session with APPLY that succeeded the installation is due or done,
\* unless the device restarted and has lost it.
SuccessApplied ==
  step = "success" /\ Session.apply /\ state # "IDLE" => swapPending \/ installed = Session.image

\* A session fails only if in this run of the program something is lost or late,
\* a timeout passes on either side, the flash refuses what it could do, power
\* fails or the user stops it.  A transfer that an older run has left open is no
\* reason: the read of the identity is what the server aborts it with.
NoFalseAlarm ==
  step \in {"diagnose", "failed"} /\ ~trouble => Session.target # "AT32" \/ ~Device!SizeFits(Size(run))

\* Every session ends, in success or failure, whatever becomes of the device.
SessionEnds == step \in Working ~> step \in {"success", "failed"}
=============================================================================
