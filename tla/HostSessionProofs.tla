------------------------- MODULE HostSessionProofs -------------------------
(***************************************************************************)
(* Proofs about HostSession.  The device of a session is OtaApp, whatever  *)
(* the host, the server and the bus do: type correctness, and what         *)
(* OtaAppProofs proves of OtaApp alone, hold in every session.  That a     *)
(* success reported by the host is true is proved for a user who runs the  *)
(* program again only when nothing of the session before is on its way.    *)
(***************************************************************************)
EXTENDS HostSession, SequenceTheorems, TLAPS

Ota == INSTANCE OtaAppProofs WITH
  Chunks <- Seq(Byte), Sizes <- {Size(r) : r \in 1 .. Len(Sessions)},
  Crcs <- {Sessions[r].image : r \in 1 .. Len(Sessions)},
  Targets <- {"AT32", "OTHER"}, ImageTypes <- {"KERNEL"}

----------------------------------------------------------------------------
(* The inductive invariants *)

FieldNames == {"state", "lastError", "bytesReceived", "bytesWritten", "imageCRC"}
LookNames  == {"vendorId", "productCode", "revision", "serial",
               "mainFwVersion", "commFwVersion", "userFwVersion"}
Names      == LookNames \cup FieldNames \cup Parameters \cup {"sessionId"} \cup Optional \cup Commands
Objects    == LookNames \cup Parameters \cup {"sessionId"} \cup Optional \cup {"command", "piece", "abort"}
Readings   == Device!States \cup Device!Errors \cup Nat \cup Seq(Byte)

\* What a request and an answer can be.
Requests ==
  {None} \cup [what : Names, run : 1 .. Len(Sessions)]
         \cup {q \in [what : {"piece"}, run : 1 .. Len(Sessions), from : Nat] :
                 q.from = 0 \/ q.from < Size(q.run)}
Replies == [obj : Objects] \cup [obj : FieldNames, value : Readings]

\* What is on its way.
Messages ==
  /\ request \in Requests
  /\ owed \in Requests /\ (owed # None => owed.what = "piece")
  /\ \A q \in {request, owed} \ {None} : q.run <= run
  /\ answers \in Seq(Replies) /\ Len(answers) <= MaxAnswers

\* Where the host can be in its script.
Script ==
  /\ run \in 1 .. Len(Sessions)
  /\ step \in Working \cup {"success", "failed"}
  /\ pos \in Nat
  /\ step = "identity" => pos \in 1 .. 4
  /\ step = "diagnose" => pos \in 1 .. 3
  /\ step = "prepare" => pos \in 1 .. 13
  /\ step = "data" => pos = 0 \/ pos < Size(run)
  /\ step = "poll" => pos \in 1 .. 5 /\ Len(seen) = pos - 1
  /\ seen \in Seq(Readings)
  /\ waiting \in BOOLEAN /\ endFailed \in BOOLEAN /\ trouble \in BOOLEAN
  /\ waiting => step \in Working

Base == Messages /\ Script

\* Nothing of a session is on its way any more.
Settled == request = None /\ owed = None /\ answers = <<>>

\* Where the host only has a look at the device.
Looking == {"identity", "diagnose"}

\* How far the host is in its script.
Place ==
  CASE step = "prepare" -> pos
    [] step = "data"    -> 14
    [] step = "end"     -> 15
    [] step = "poll"    -> 16
    [] step = "apply"   -> 17
    [] step = "leave"   -> 18
    [] step = "success" -> 19
    [] OTHER            -> 0

\* What is on its way about an object: a request, a piece in work, an answer.
AskedObject  == ObjectOf(Asked.what)
Pending(o)   == request # None /\ ObjectOf(request.what) = o
InWork(o)    == o = "piece" /\ owed # None
HasAnswer(o) == \E i \in 1 .. Len(answers) : answers[i].obj = o

\* The exchange at place n of the script has had its effect.
Sure(n) == Place > n \/ (Place = n /\ waiting /\ HasAnswer(AskedObject))

\* The session can still succeed.
Alive == step \notin {"diagnose", "failed"} /\ ~endFailed

\* About an object whose exchange has to succeed nothing is on its way but the
\* one request or the one answer of the exchange the host is in.
Once(o) ==
  IF waiting /\ AskedObject = o
  THEN /\ Pending(o) => request = Asked /\ ~InWork(o) /\ ~HasAnswer(o)
       /\ InWork(o) => ~HasAnswer(o)
       /\ \A i, j \in 1 .. Len(answers) : answers[i].obj = o /\ answers[j].obj = o => i = j
  ELSE ~Pending(o) /\ ~InWork(o) /\ ~HasAnswer(o)

Needed == {"expectedSize", "expectedCRC", "command", "piece"}

Traffic ==
  /\ \A q \in {request, owed} \ {None} : ObjectOf(q.what) \in Needed => q.run = run
  /\ Alive => \A o \in Needed : Once(o)
  /\ endFailed => step \in {"poll", "diagnose", "failed"}
  /\ step \in {"apply", "leave"} => Session.apply

\* The device knows size and CRC of the image, or it has restarted and has no
\* size; then it does not receive.
Announced ==
  Alive =>
    /\ Sure(4) => expectedSize \in {0, Size(run)}
    /\ Sure(5) => expectedSize = 0 \/ (expectedSize = Size(run) /\ expectedCRC = Session.image)
    /\ Sure(8) /\ state = "RECV" => expectedSize # 0

\* Once END was answered the image is in flash for good.
Confirmed ==
  Alive /\ Sure(15) =>
    /\ state # "RECV"
    /\ Device!StagePrefix(Size(run)) = Session.image
    /\ state = "REBOOT" => imageCRC = Session.image

\* What an APPLY that is still to come would install.
ApplyDue ==
  request # None /\ request.what = "apply" =>
    /\ Session.apply /\ state # "RECV"
    /\ state = "REBOOT" => imageCRC = Session.image

\* What is going to be installed, and what is.
Installing ==
  /\ swapPending => \E r \in 1 .. run : Sessions[r].apply /\ imageCRC = Sessions[r].image
  /\ InstalledWhole
  /\ Alive /\ Session.apply /\ Sure(17) /\ state # "IDLE" =>
       IF swapPending THEN imageCRC = Session.image ELSE installed = Session.image

IInv == Traffic /\ Announced /\ Confirmed /\ ApplyDue /\ Installing

----------------------------------------------------------------------------
(* The script, and the device                                              *)

\* The script of a session.
LEMMA ScriptText ==
  /\ Len(Preparation) = 13 /\ Len(Fields) = 5
  /\ Preparation[1] = "target" /\ Preparation[2] = "imageType" /\ Preparation[3] = "sessionId"
  /\ Preparation[4] = "expectedSize" /\ Preparation[5] = "expectedCRC" /\ Preparation[6] = "chunkSize"
  /\ Preparation[7] = "readChunkSize" /\ Preparation[8] = "start"
  /\ \A i \in 9 .. 13 : Preparation[i] = Fields[i - 8]
  /\ Fields[1] = "state" /\ Fields[2] = "lastError" /\ Fields[3] = "bytesReceived"
  /\ Fields[4] = "bytesWritten" /\ Fields[5] = "imageCRC"
  BY DEF Preparation, Fields

LEMMA LookText ==
  /\ Len(Identity) = 4 /\ Len(Diagnosis) = 3 /\ Looks \subseteq LookNames
  /\ \A i \in 1 .. 4 : Identity[i] \in LookNames
  /\ \A i \in 1 .. 3 : Diagnosis[i] \in LookNames
  <1>1. Len(Identity) = 4 /\ \A i \in 1 .. 4 : Identity[i] \in LookNames
    BY DEF Identity, LookNames
  <1>2. Len(Diagnosis) = 3 /\ \A i \in 1 .. 3 : Diagnosis[i] \in LookNames
    BY DEF Diagnosis, LookNames
  <1> QED
    BY <1>1, <1>2 DEF Looks

\* A session has an image, whose size is a number.
LEMMA SessionType ==
  ASSUME NEW r \in 1 .. Len(Sessions)
  PROVE  /\ Sessions[r] \in [image : Seq(Byte), target : {"AT32", "OTHER"}, apply : BOOLEAN]
         /\ Sessions[r].image \in Seq(Byte) /\ Size(r) \in Nat
         /\ Sessions[r].target \in {"AT32", "OTHER"}
  <1>1. Sessions[r] \in [image : Seq(Byte), target : {"AT32", "OTHER"}, apply : BOOLEAN]
    BY SessionAssumption, ElementOfSeq
  <1>2. Sessions[r].image \in Seq(Byte)
    BY <1>1
  <1>3. Size(r) \in Nat
    BY <1>2, LenProperties DEF Size
  <1> QED
    BY <1>1, <1>2, <1>3

\* What OtaApp assumes of its constants holds of the device of a session.
LEMMA DeviceAssumptions ==
  /\ Blank \in Byte
  /\ WordBytes \in {2, 4}
  /\ /\ StageSize \in Nat
     /\ StageSize % WordBytes = 0
     /\ PageBytes \in Nat \ {0}
     /\ PageBytes % WordBytes = 0
  /\ /\ Seq(Byte) \subseteq Seq(Byte)
     /\ {Size(r) : r \in 1 .. Len(Sessions)} \subseteq Nat
     /\ {Sessions[r].image : r \in 1 .. Len(Sessions)} \subseteq Seq(Byte)
     /\ "AT32" \in {"AT32", "OTHER"} /\ "KERNEL" \in {"KERNEL"}
  /\ /\ InitialFlash \subseteq [0 .. StageSize - 1 -> Byte]
     /\ UseFlash \in BOOLEAN
  /\ /\ TickMod \in Nat /\ ApplyDelay \in Nat
     /\ 0 < ApplyDelay /\ 2 * ApplyDelay <= TickMod
  /\ NoImage \notin Seq(Byte)
  <1>1. {Size(r) : r \in 1 .. Len(Sessions)} \subseteq Nat
    BY SessionType
  <1>2. {Sessions[r].image : r \in 1 .. Len(Sessions)} \subseteq Seq(Byte)
    BY SessionType
  <1>3. Blank \in Byte /\ WordBytes \in {2, 4} /\ NoImage \notin Seq(Byte)
    BY DeviceAssumption
  <1>4. /\ StageSize \in Nat /\ StageSize % WordBytes = 0
        /\ PageBytes \in Nat \ {0} /\ PageBytes % WordBytes = 0
    BY DeviceAssumption
  <1>5. InitialFlash \subseteq [0 .. StageSize - 1 -> Byte] /\ UseFlash \in BOOLEAN
    BY DeviceAssumption
  <1>6. TickMod \in Nat /\ ApplyDelay \in Nat /\ 0 < ApplyDelay /\ 2 * ApplyDelay <= TickMod
    BY DeviceAssumption
  <1>7. Seq(Byte) \subseteq Seq(Byte) /\ "AT32" \in {"AT32", "OTHER"} /\ "KERNEL" \in {"KERNEL"}
    OBVIOUS
  <1> QED
    BY <1>1, <1>2, <1>3, <1>4, <1>5, <1>6, <1>7, Zenon

LEMMA SameVars == UNCHANGED deviceVars => UNCHANGED Ota!vars
  BY DEF deviceVars, Ota!vars, Ota!ctlVars, Ota!countVars, Ota!statusVars, Ota!stageVars,
    Ota!flashVars, Ota!swapVars, Ota!streamVars, Ota!jobVars

LEMMA SameInit == Device!Init <=> Ota!Init
  BY DEF
    Device!Init, Device!EmptyCache, Device!BlankWord, Device!Lanes, Ota!Init, Ota!EmptyCache,
    Ota!BlankWord, Ota!Lanes

LEMMA SameNext == Device!Next <=> Ota!Next
  BY DEF
    Device!Next, Device!Host, Device!StageByte, Device!FinishData, Device!ProcessPending,
    Device!Tick, Device!Restart, Device!ResetStatus, Device!CloseStream, Device!EmptyCache,
    Device!BlankWord, Device!Lanes, Device!ctlVars, Device!countVars, Device!statusVars,
    Device!stageVars, Device!flashVars, Device!streamVars, Device!jobVars, Device!SwapDue,
    Device!StagePrefix, Device!SetError, Device!swapVars, Device!Stale, Device!ProgramWord,
    Device!Filled, Device!Word, Device!Position, Device!WordBase, Device!IsBlank,
    Device!ProgramDone, Device!Addr, Device!WriteParameter, Device!StartRefused, Device!Start,
    Device!EndRefused, Device!End, Device!Abort, Device!ApplyRefused, Device!Apply,
    Device!InvalidCommand, Device!WriteData, Device!DropTransfer, Device!ChunkAccepted,
    Device!Refuse, Device!ApplyAllowed, Device!DeadlineAfter, Device!FlushCache, Device!Verdict,
    Device!SizeMatches, Device!CrcMatches, Device!PrepareStage, Device!SizeFits, Device!EraseStage,
    Device!EraseLen, Ota!Next, Ota!Host, Ota!StageByte, Ota!FinishData, Ota!ProcessPending,
    Ota!Tick, Ota!Restart, Ota!ResetStatus, Ota!CloseStream, Ota!EmptyCache, Ota!BlankWord,
    Ota!Lanes, Ota!ctlVars, Ota!countVars, Ota!statusVars, Ota!stageVars, Ota!flashVars,
    Ota!streamVars, Ota!jobVars, Ota!SwapDue, Ota!StagePrefix, Ota!SetError, Ota!swapVars,
    Ota!Stale, Ota!ProgramWord, Ota!Filled, Ota!Word, Ota!Position, Ota!WordBase, Ota!IsBlank,
    Ota!ProgramDone, Ota!Addr, Ota!WriteParameter, Ota!StartRefused, Ota!Start, Ota!EndRefused,
    Ota!End, Ota!Abort, Ota!ApplyRefused, Ota!Apply, Ota!InvalidCommand, Ota!WriteData,
    Ota!DropTransfer, Ota!ChunkAccepted, Ota!Refuse, Ota!ApplyAllowed, Ota!DeadlineAfter,
    Ota!FlushCache, Ota!Verdict, Ota!SizeMatches, Ota!CrcMatches, Ota!PrepareStage, Ota!SizeFits,
    Ota!EraseStage, Ota!EraseLen

LEMMA SameTypeOK == Device!TypeOK <=> Ota!TypeOK
  BY DEF
    Device!TypeOK, Device!States, Device!Errors, Device!Caches, Device!Ticks, Device!Addr,
    Device!Lanes, Ota!TypeOK, Ota!States, Ota!Errors, Ota!Caches, Ota!Ticks, Ota!Addr, Ota!Lanes

LEMMA SameStagedImage == Device!StagedImage <=> Ota!StagedImage
  BY DEF
    Device!StagedImage, Device!ImageInFlash, Device!StagePrefix, Ota!StagedImage, Ota!ImageInFlash,
    Ota!StagePrefix

LEMMA SameSwapSource == Device!SwapSource <=> Ota!SwapSource
  BY DEF
    Device!SwapSource, Device!ImageInFlash, Device!StagePrefix, Ota!SwapSource, Ota!ImageInFlash,
    Ota!StagePrefix

\* Every action of OtaApp is a step of it.
LEMMA DeviceActions ==
  /\ Device!WriteParameter \/ Device!Start \/ Device!StartRefused \/ Device!End \/ Device!EndRefused
       \/ Device!Apply \/ Device!ApplyRefused \/ Device!DropTransfer => Ota!Next
  /\ Device!StageByte \/ Device!FinishData \/ Device!ProcessPending \/ Device!Tick
       \/ Device!Restart => Ota!Next
  /\ \A new \in BOOLEAN, data \in Seq(Byte) : Device!WriteData(new, data) => Ota!Next
  BY SameNext, Zenon DEF Device!Next, Device!Host

\* A piece is a sequence of bytes.
LEMMA PieceType ==
  ASSUME NEW r \in 1 .. Len(Sessions), NEW from \in Nat
  PROVE  LET image == Sessions[r].image
         IN SubSeq(image, from + 1, Shorter(from + PieceBytes, Len(image))) \in Seq(Byte)
  <1> DEFINE image == Sessions[r].image
             last  == Shorter(from + PieceBytes, Len(image))
  <1>1. image \in Seq(Byte) /\ Len(image) \in Nat
    BY SessionType, LenProperties
  <1>2. last \in Int /\ last <= Len(image)
    BY <1>1, SessionAssumption DEF Shorter
  <1>3. \A i \in from + 1 .. last : image[i] \in Byte
    BY <1>1, <1>2, ElementOfSeq
  <1> HIDE DEF image, last
  <1>4. SubSeq(image, from + 1, last) \in Seq(Byte)
    BY <1>2, <1>3, SubSeqProperties
  <1> QED
    BY <1>4 DEF image, last

\* Whatever happens in a session, the device takes a step of OtaApp or none.
LEMMA DeviceStep == Base /\ [Next]_vars => [Ota!Next]_(Ota!vars)
  <1> SUFFICES ASSUME Base, [Next]_vars PROVE Ota!Next \/ UNCHANGED deviceVars
    BY SameVars
  <1>1. CASE HostStep \/ RunAgain \/ NextImage
    BY <1>1 DEF HostStep, Ask, ReadAnswer, AnswerTimeout, DeadlinePasses, Interrupt, RunAgain, NextImage
  <1>2. CASE ServeParameter
    BY <1>2, DeviceActions, Zenon DEF ServeParameter
  <1>3. CASE ServeOther \/ ServeStatus
    BY <1>3, Zenon DEF ServeOther, ServeStatus
  <1>4. CASE ServeCommand
    <2>1. request.what \in Commands
      BY <1>4 DEF ServeCommand, Idle, Starts
    <2> QED
      BY <1>4, <2>1, DeviceActions DEF ServeCommand, Commands
  <1>5. CASE ServePiece
    <2>1. request # None /\ request.what = "piece"
      BY <1>5 DEF ServePiece, Starts
    <2>2. request.run \in 1 .. Len(Sessions) /\ request.from \in Nat
      BY <2>1 DEF Base, Messages, Requests, Names, LookNames, FieldNames, Parameters, Optional, Commands
    <2>3. (request.from = 0) \in BOOLEAN
      OBVIOUS
    <2> QED
      BY <1>5, <2>2, <2>3, PieceType, DeviceActions DEF ServePiece
  <1>6. CASE PieceServed
    BY <1>6, DeviceActions DEF PieceServed
  <1>7. CASE Refuse
    BY <1>7, DeviceActions, Zenon DEF Refuse
  <1>8. CASE TransferTimeout
    BY <1>8, DeviceActions, Zenon DEF TransferTimeout
  <1>9. CASE Work
    BY <1>9, DeviceActions, Zenon DEF Work
  <1>10. CASE Restart
    BY <1>10, DeviceActions, Zenon DEF Restart
  <1>11. CASE UNCHANGED vars
    BY <1>11 DEF vars
  <1> QED
    BY <1>1, <1>2, <1>3, <1>4, <1>5, <1>6, <1>7, <1>8, <1>9, <1>10, <1>11, Zenon DEF Next, Server

----------------------------------------------------------------------------
(* Types                                                                   *)

\* A request names a session that was begun and something the server knows.
LEMMA RequestType ==
  ASSUME Messages, Script, request # None
  PROVE  /\ request.run \in 1 .. run /\ request.run \in 1 .. Len(Sessions)
         /\ request.what \in Names \cup {"piece"}
  <1>1. request.run \in 1 .. Len(Sessions) /\ request.what \in Names \cup {"piece"}
    BY DEF Messages, Requests
  <1>2. request.run <= run /\ run \in 1 .. Len(Sessions)
    BY DEF Messages, Script
  <1>3. Len(Sessions) \in Nat
    BY SessionAssumption, LenProperties
  <1> QED
    BY <1>1, <1>2, <1>3

\* What the host asks for is a request of the session it runs.
LEMMA AskedType ==
  ASSUME Script, step \in Working
  PROVE  Asked \in Requests /\ Asked # None /\ Asked.run = run
  <1> USE DEF Script, Asked
  <1>1. CASE step = "prepare"
    <2>1. Preparation[pos] \in Names
      BY <1>1, ScriptText DEF Names, FieldNames, Parameters, Optional, Commands
    <2> QED
      BY <1>1, <2>1 DEF Requests, None, Names, FieldNames, Parameters, Optional, Commands
  <1>2. CASE step = "data"
    BY <1>2 DEF Requests, None
  <1>3. CASE step = "poll"
    <2>1. Fields[pos] \in FieldNames
      BY <1>3, ScriptText DEF FieldNames
    <2> QED
      BY <1>3, <2>1 DEF Requests, None, Names, FieldNames
  <1>4. CASE step \in {"end", "apply", "leave"}
    BY <1>4 DEF Requests, None, Names, FieldNames, Commands
  <1>5. CASE step \in Looking
    <2>1. Asked.what \in LookNames /\ Asked = [what |-> Asked.what, run |-> run]
      BY <1>5, LookText DEF Looking
    <2> HIDE DEF Asked
    <2>2. Asked \in [what : Names, run : 1 .. Len(Sessions)]
      BY <2>1 DEF Names
    <2>3. Asked # None
      BY <2>1 DEF None
    <2> QED
      BY <2>1, <2>2, <2>3 DEF Requests
  <1> QED
    BY <1>1, <1>2, <1>3, <1>4, <1>5 DEF Working, Looking

\* An answer that goes out is one the host can read.
LEMMA AnswerType ==
  ASSUME Messages, NEW a \in Replies, Answer(a)
  PROVE  answers' \in Seq(Replies) /\ Len(answers') <= MaxAnswers
  <1>1. answers \in Seq(Replies) /\ Len(answers) <= MaxAnswers /\ Len(answers) \in Nat
    BY LenProperties DEF Messages
  <1>2. CASE Len(answers) < MaxAnswers /\ answers' = Append(answers, a)
    BY <1>1, <1>2, SessionAssumption
  <1>3. CASE UNCHANGED answers
    BY <1>1, <1>3
  <1> QED
    BY <1>2, <1>3 DEF Answer

LEMMA AbortType == Abort \in Replies
  BY DEF Abort, Replies, Objects

\* What is left of the answers after some of them were dropped.
LEMMA DropType ==
  ASSUME Messages, NEW k \in 0 .. Len(answers)
  PROVE  LET rest == SubSeq(answers, k + 1, Len(answers))
         IN /\ rest \in Seq(Replies) /\ Len(rest) = Len(answers) - k
            /\ \A i \in 1 .. Len(rest) : rest[i] = answers[i + k]
  <1>1. answers \in Seq(Replies) /\ Len(answers) \in Nat
    BY LenProperties DEF Messages
  <1>2. \A i \in k + 1 .. Len(answers) : answers[i] \in Replies
    BY <1>1, ElementOfSeq
  <1> QED
    BY <1>1, <1>2, SubSeqProperties

LEMMA InitBase == Init => Base
  <1>1. Len(Sessions) \in Nat /\ 1 \in 1 .. Len(Sessions)
    BY SessionAssumption, LenProperties, EmptySeq
  <1>2. Init => Messages
    BY <1>1, SessionAssumption DEF Init, Messages, Requests, None
  <1>3. Init => Script
    <2> SUFFICES ASSUME Init PROVE Script
      OBVIOUS
    <2>1. step \in {"identity", "prepare"} /\ pos = 1 /\ seen = <<>> /\ run = 1
      BY DEF Init, Opening
    <2>2. waiting \in BOOLEAN /\ endFailed \in BOOLEAN /\ trouble \in BOOLEAN /\ ~waiting
      BY DEF Init
    <2>3. seen \in Seq(Readings)
      BY <2>1
    <2> QED
      BY <1>1, <2>1, <2>2, <2>3 DEF Script, Working
  <1> QED
    BY <1>2, <1>3 DEF Base

\* Where the host goes when an exchange fails.
LEMMA FailType ==
  ASSUME Script, step \in Working, Fail, waiting' = FALSE, UNCHANGED run, trouble' \in BOOLEAN
  PROVE  Script'
  <1>0. /\ waiting' \in BOOLEAN /\ ~waiting' /\ trouble' \in BOOLEAN
        /\ run' = run /\ run \in 1 .. Len(Sessions)
    BY DEF Script
  <1>1. seen' = <<>> /\ endFailed' \in BOOLEAN
    BY DEF Fail, Script
  <1>2. seen' \in Seq(Readings) /\ Len(seen') = 0
    BY <1>1
  <1>3. /\ step' \in Working \cup {"success", "failed"} /\ pos' \in Nat
        /\ step' = "identity" => pos' \in 1 .. 4
        /\ step' = "diagnose" => pos' \in 1 .. 3
        /\ step' = "prepare" => pos' \in 1 .. 13
        /\ step' = "data" => pos' = 0
        /\ step' = "poll" => pos' = 1
    <2>1. CASE step = "prepare"
      <3>1. CASE Preparation[pos] \in Optional
        <4>1. pos \in 1 .. 13 /\ pos # 13
          BY <2>1, <3>1, ScriptText DEF Script, Optional
        <4> QED
          BY <2>1, <3>1, <4>1 DEF Fail, GoTo, Working
      <3>2. CASE Preparation[pos] \notin Optional
        BY <2>1, <3>2 DEF Fail, GoTo, Working
      <3> QED
        BY <3>1, <3>2
    <2>2. CASE step \in {"end", "poll"}
      <3>1. GoTo("poll", 1)
        BY <2>2 DEF Fail
      <3> QED
        BY <3>1 DEF GoTo, Working
    <2>3. CASE step \in {"data", "apply"}
      <3>1. GoTo("diagnose", 1)
        BY <2>3 DEF Fail, ApplyFailed, GiveUp
      <3> QED
        BY <3>1 DEF GoTo, Working
    <2>4. CASE step = "leave"
      <3>1. GoTo("success", 1)
        BY <2>4 DEF Fail
      <3> QED
        BY <3>1 DEF GoTo, Working
    <2>5. CASE step \in Looking
      <3>1. GoTo("prepare", 1) \/ GoTo("failed", 1)
        BY <2>5 DEF Fail, Looking
      <3> QED
        BY <3>1 DEF GoTo, Working
    <2> QED
      BY <2>1, <2>2, <2>3, <2>4, <2>5 DEF Working, Looking
  <1> QED
    BY <1>0, <1>1, <1>2, <1>3 DEF Script

\* Where the host goes when it has read all the fields.
LEMMA JudgeType ==
  ASSUME NEW s, Judge(s)
  PROVE  pos' = 1 /\ step' \in {"diagnose", "poll", "apply", "success"}
  BY DEF Judge, GoTo, GiveUp

\* Where the host goes when an exchange succeeds.
LEMMA SucceedType ==
  ASSUME Script, step \in Working, NEW a \in Replies, a.obj = ObjectOf(Asked.what), Succeed(a),
         waiting' = FALSE, UNCHANGED <<run, trouble>>
  PROVE  Script'
  <1>0. /\ endFailed' \in BOOLEAN /\ trouble' \in BOOLEAN /\ waiting' \in BOOLEAN /\ ~waiting'
        /\ run' = run /\ run \in 1 .. Len(Sessions)
    BY DEF Succeed, Script
  <1>1. CASE step = "poll" /\ pos < 5
    <2>1. Fields[pos] \in FieldNames
      BY <1>1, ScriptText DEF FieldNames, Script
    <2>2. a.obj \in FieldNames
      BY <1>1, <2>1 DEF Asked, ObjectOf, Commands, FieldNames
    <2>3. a.value \in Readings
      BY <2>2 DEF Replies, FieldNames, LookNames, Objects, Parameters, Optional
    <2>4. seen' = Append(seen, a.value) /\ step' = "poll" /\ pos' = pos + 1
      BY <1>1, ScriptText DEF Succeed, GoTo
    <2>5. seen \in Seq(Readings) /\ Len(seen) = pos - 1 /\ pos \in 1 .. 5
      BY <1>1 DEF Script
    <2>6. seen' \in Seq(Readings) /\ Len(seen') = pos' - 1
      BY <2>3, <2>4, <2>5
    <2> QED
      BY <1>0, <1>1, <2>4, <2>5, <2>6 DEF Script, Working
  <1>2. CASE ~(step = "poll" /\ pos < 5)
    <2>1. seen' = <<>>
      BY <1>2, ScriptText DEF Succeed
    <2>2. seen' \in Seq(Readings) /\ Len(seen') = 0
      BY <2>1
    <2>3. /\ step' \in Working \cup {"success", "failed"} /\ pos' \in Nat
          /\ step' = "identity" => pos' \in 1 .. 4
          /\ step' = "diagnose" => pos' \in 1 .. 3
          /\ step' = "prepare" => pos' \in 1 .. 13
          /\ step' = "data" => pos' = 0 \/ pos' < Size(run)
          /\ step' = "poll" => pos' = 1
      <3>1. CASE step = "prepare"
        BY <3>1, ScriptText DEF Succeed, GoTo, Working, Script
      <3>2. CASE step = "data"
        <4>1. pos + PieceBytes \in Nat
          BY SessionAssumption DEF Script
        <4> QED
          BY <3>2, <4>1 DEF Succeed, GoTo, Working, Script, MorePieces
      <3>3. CASE step = "poll"
        <4>1. Judge(Append(seen, a.value))
          BY <1>2, <3>3, ScriptText DEF Succeed
        <4> QED
          BY <4>1, JudgeType DEF Working
      <3>4. CASE step \in {"end", "apply", "leave"}
        <4>1. GoTo("poll", 1) \/ GoTo("leave", 1)
          BY <3>4 DEF Succeed
        <4> QED
          BY <4>1 DEF GoTo, Working
      <3>5. CASE step \in Looking
        <4>1. CASE step = "identity"
          <5>1. (pos < 4 /\ GoTo(step, pos + 1)) \/ GoTo("prepare", 1)
            BY <4>1, LookText DEF Succeed
          <5> QED
            BY <4>1, <5>1 DEF GoTo, Working, Script
        <4>2. CASE step = "diagnose"
          <5>1. (pos < 3 /\ GoTo(step, pos + 1)) \/ GoTo("failed", 1)
            BY <4>2, LookText DEF Succeed
          <5> QED
            BY <4>2, <5>1 DEF GoTo, Working, Script
        <4> QED
          BY <3>5, <4>1, <4>2 DEF Looking
      <3> QED
        BY <3>1, <3>2, <3>3, <3>4, <3>5 DEF Working, Looking
    <2> QED
      BY <1>0, <2>2, <2>3 DEF Script
  <1> QED
    BY <1>1, <1>2

LEMMA HostBase ==
  ASSUME Base, HostStep
  PROVE  Base'
  <1>1. CASE Ask
    <2>1. PICK k \in 0 .. Len(answers) : answers' = SubSeq(answers, k + 1, Len(answers))
      BY <1>1 DEF Ask
    <2>2. answers' \in Seq(Replies) /\ Len(answers') <= MaxAnswers
      <3>1. answers' \in Seq(Replies) /\ Len(answers') = Len(answers) - k
        BY <2>1, DropType DEF Base
      <3>2. Len(answers) \in Nat /\ Len(answers) <= MaxAnswers
        BY LenProperties DEF Base, Messages
      <3> QED
        BY <3>1, <3>2, SessionAssumption
    <2>3. request' \in Requests /\ (request' # None => request'.run <= run) /\ UNCHANGED <<owed, run>>
      BY <1>1, AskedType DEF Ask, Base, Messages, Script
    <2>4. Messages'
      BY <2>2, <2>3 DEF Base, Messages
    <2>5. UNCHANGED <<step, pos, seen, endFailed, run>> /\ waiting' = TRUE /\ trouble' \in BOOLEAN
          /\ step \in Working
      BY <1>1 DEF Ask, Base, Script
    <2>6. Script'
      BY <2>5 DEF Base, Script
    <2> QED
      BY <2>4, <2>6 DEF Base
  <1>2. CASE ReadAnswer
    <2>1. answers # <<>> /\ answers' = Tail(answers) /\ UNCHANGED <<request, owed, run, trouble>> /\ waiting
      BY <1>2 DEF ReadAnswer, serverVars
    <2>2. Messages'
      <3>1. answers' \in Seq(Replies) /\ Len(answers') = Len(answers) - 1 /\ Len(answers) \in Nat
        BY <2>1, HeadTailProperties, LenProperties DEF Base, Messages
      <3> QED
        BY <2>1, <3>1, SessionAssumption DEF Base, Messages
    <2>3. Head(answers) \in Replies
      BY <2>1, HeadTailProperties DEF Base, Messages
    <2>4. Script /\ step \in Working /\ trouble' \in BOOLEAN
      BY <2>1 DEF Base, Script
    <2>5. CASE Head(answers).obj = "abort"
      <3>1. waiting' = FALSE /\ Fail
        BY <1>2, <2>5 DEF ReadAnswer
      <3> QED
        BY <2>1, <2>2, <2>4, <3>1, FailType DEF Base
    <2>6. CASE Head(answers).obj # "abort" /\ Head(answers).obj = ObjectOf(Asked.what)
      <3>1. waiting' = FALSE /\ Succeed(Head(answers))
        BY <1>2, <2>6 DEF ReadAnswer
      <3> QED
        BY <2>1, <2>2, <2>3, <2>4, <2>6, <3>1, SucceedType DEF Base
    <2>7. CASE Head(answers).obj # "abort" /\ Head(answers).obj # ObjectOf(Asked.what)
      <3>1. UNCHANGED <<waiting, step, pos, seen, endFailed, run, trouble>>
        BY <1>2, <2>1, <2>7 DEF ReadAnswer
      <3>2. Script'
        BY <2>4, <3>1 DEF Script
      <3> QED
        BY <2>2, <3>2 DEF Base
    <2> QED
      BY <2>5, <2>6, <2>7
  <1>3. CASE AnswerTimeout
    <2>1. UNCHANGED <<request, owed, answers, run>> /\ waiting /\ waiting' = FALSE /\ Fail /\ trouble' \in BOOLEAN
      BY <1>3 DEF AnswerTimeout, serverVars
    <2>2. Messages'
      BY <2>1 DEF Base, Messages
    <2>3. Script'
      BY <2>1, FailType DEF Base, Script
    <2> QED
      BY <2>2, <2>3 DEF Base
  <1>4. CASE DeadlinePasses
    <2>1. /\ UNCHANGED <<request, owed, answers, run, waiting, seen, endFailed>>
          /\ step' = "diagnose" /\ pos' = 1 /\ ~waiting /\ trouble' \in BOOLEAN
      BY <1>4 DEF DeadlinePasses, serverVars, GoTo, GiveUp
    <2>2. Messages'
      BY <2>1 DEF Base, Messages
    <2>3. Script'
      BY <2>1 DEF Base, Script, Working
    <2> QED
      BY <2>2, <2>3 DEF Base
  <1>5. CASE Interrupt
    <2>1. /\ UNCHANGED <<request, owed, answers, run, seen, endFailed>>
          /\ step' = "failed" /\ pos' = 1 /\ waiting' = FALSE /\ trouble' \in BOOLEAN
      BY <1>5 DEF Interrupt, serverVars, GoTo
    <2>2. Messages'
      BY <2>1 DEF Base, Messages
    <2>3. Script'
      BY <2>1 DEF Base, Script
    <2> QED
      BY <2>2, <2>3 DEF Base
  <1> QED
    BY <1>1, <1>2, <1>3, <1>4, <1>5 DEF HostStep

\* The host stays where it is.
LEMMA HostRests ==
  ASSUME Script, UNCHANGED hostVars, trouble' \in BOOLEAN
  PROVE  Script'
  BY DEF Script, hostVars

LEMMA AnswerTrouble ==
  ASSUME Script, NEW a, Answer(a)
  PROVE  trouble' \in BOOLEAN
  <1>1. (trouble \/ FlashFails) \in BOOLEAN /\ trouble \in BOOLEAN
    BY DEF Script
  <1> QED
    BY <1>1 DEF Answer

\* A request is taken from the server's buffer and answered.
LEMMA ServedBase ==
  ASSUME Base, Served, NEW a \in Replies, Answer(a)
  PROVE  Base'
  <1>1. request' = None /\ owed' = owed /\ run' = run
    BY DEF Served, hostVars
  <1>2. answers' \in Seq(Replies) /\ Len(answers') <= MaxAnswers
    BY AnswerType DEF Base
  <1>3. Messages'
    BY <1>1, <1>2 DEF Base, Messages, Requests
  <1>4. Script'
    BY HostRests, AnswerTrouble DEF Base, Served
  <1> QED
    BY <1>3, <1>4 DEF Base

\* The answer to a request for a part of the status.
LEMMA StatusAnswer ==
  ASSUME Device!TypeOK, ServeStatus
  PROVE  /\ \E a \in Replies : a.obj \in FieldNames /\ Answer(a)
         /\ Served /\ UNCHANGED deviceVars
  <1> DEFINE v == CASE request.what = "state"         -> state
                    [] request.what = "lastError"     -> lastError
                    [] request.what = "bytesReceived" -> bytesReceived
                    [] request.what = "bytesWritten"  -> bytesWritten
                    [] request.what = "imageCRC"      -> imageCRC
  <1>1. \E i \in 1 .. 5 : request.what = Fields[i]
    BY ScriptText DEF ServeStatus, Idle, Starts
  <1>2. request.what \in FieldNames
    BY <1>1, ScriptText DEF FieldNames
  <1>3. state \in Readings /\ lastError \in Readings /\ bytesReceived \in Readings
        /\ bytesWritten \in Readings /\ imageCRC \in Readings
    BY DEF Device!TypeOK, Readings
  <1>4. v \in Readings
    BY <1>2, <1>3 DEF FieldNames
  <1> HIDE DEF v
  <1>5. Value(v) \in Replies /\ Value(v).obj \in FieldNames
    BY <1>2, <1>4 DEF Value, Replies
  <1>6. Answer(Value(v)) /\ Served /\ UNCHANGED deviceVars
    BY DEF ServeStatus, v
  <1> QED
    BY <1>5, <1>6

LEMMA ServerBase ==
  ASSUME Base, Device!TypeOK, Server
  PROVE  Base'
  <1>1. CASE ServeParameter
    <2>1. request.what \in Parameters
      BY <1>1 DEF ServeParameter, Idle, Starts
    <2>2. Done \in Replies
      BY <2>1 DEF Done, Replies, Objects, ObjectOf, Parameters, Commands
    <2> QED
      BY <1>1, <2>2, ServedBase DEF ServeParameter
  <1>2. CASE ServeOther
    <2>1. request.what \in {"sessionId"} \cup Optional \cup LookNames
      BY <1>2, LookText DEF ServeOther, Idle, Starts
    <2>2. Done \in Replies
      BY <2>1 DEF Done, Replies, Objects, ObjectOf, Optional, LookNames, Commands
    <2> QED
      BY <1>2, <2>2, ServedBase DEF ServeOther
  <1>3. CASE ServeStatus
    BY <1>3, StatusAnswer, ServedBase
  <1>4. CASE ServeCommand
    <2>1. request.what \in Commands
      BY <1>4 DEF ServeCommand, Idle, Starts
    <2>2. Done \in Replies
      BY <2>1 DEF Done, Replies, Objects, ObjectOf
    <2>3. Served /\ (Answer(Abort) \/ Answer(Done))
      BY <1>4 DEF ServeCommand
    <2> QED
      BY <2>2, <2>3, AbortType, ServedBase
  <1>5. CASE ServePiece
    <2>1. /\ request # None /\ request.what = "piece" /\ owed' = request /\ request' = None
          /\ UNCHANGED <<hostVars, answers, trouble>>
      BY <1>5 DEF ServePiece, Starts
    <2>2. Messages'
      BY <2>1 DEF Base, Messages, Requests, hostVars
    <2>3. Script'
      BY <2>1, HostRests DEF Base, Script
    <2> QED
      BY <2>2, <2>3 DEF Base
  <1>6. CASE PieceServed
    <2>1. \E a \in {[obj |-> "piece"], Abort} : Answer(a)
      BY <1>6 DEF PieceServed
    <2>2. [obj |-> "piece"] \in Replies
      BY DEF Replies, Objects
    <2>3. owed' = None /\ UNCHANGED <<request, hostVars>>
      BY <1>6 DEF PieceServed
    <2>4. answers' \in Seq(Replies) /\ Len(answers') <= MaxAnswers
      BY <2>1, <2>2, AbortType, AnswerType DEF Base
    <2>5. Messages'
      BY <2>3, <2>4 DEF Base, Messages, Requests, hostVars
    <2>6. Script'
      BY <2>1, <2>3, HostRests, AnswerTrouble DEF Base
    <2> QED
      BY <2>5, <2>6 DEF Base
  <1>7. CASE Refuse
    BY <1>7, AbortType, ServedBase DEF Refuse
  <1>8. CASE TransferTimeout
    <2>1. UNCHANGED <<request, owed, hostVars>> /\ trouble' = TRUE
      BY <1>8 DEF TransferTimeout, serverVars
    <2>2. answers \in Seq(Replies) /\ Len(answers) <= MaxAnswers /\ Len(answers) \in Nat
      BY LenProperties DEF Base, Messages
    <2>3. UNCHANGED answers \/ (Len(answers) < MaxAnswers /\ answers' = Append(answers, Abort))
      BY <1>8 DEF TransferTimeout
    <2>4. answers' \in Seq(Replies) /\ Len(answers') <= MaxAnswers
      <3>1. CASE UNCHANGED answers
        BY <2>2, <3>1
      <3>2. CASE Len(answers) < MaxAnswers /\ answers' = Append(answers, Abort)
        BY <2>2, <3>2, AbortType, SessionAssumption
      <3> QED
        BY <2>3, <3>1, <3>2
    <2>5. Messages'
      BY <2>1, <2>4 DEF Base, Messages, hostVars
    <2>6. Script'
      BY <2>1, HostRests DEF Base
    <2> QED
      BY <2>5, <2>6 DEF Base
  <1> QED
    BY <1>1, <1>2, <1>3, <1>4, <1>5, <1>6, <1>7, <1>8 DEF Server

LEMMA NextBase == Base /\ Device!TypeOK /\ [Next]_vars => Base'
  <1> SUFFICES ASSUME Base, Device!TypeOK, [Next]_vars PROVE Base'
    OBVIOUS
  <1>1. CASE RunAgain \/ NextImage
    <2>1. /\ step \in {"success", "failed"} /\ run < Len(Sessions) /\ run' = run + 1
          /\ step' \in {"identity", "prepare"} /\ pos' = 1 /\ endFailed' = FALSE
          /\ UNCHANGED <<request, owed, answers, waiting, seen>>
      BY <1>1 DEF RunAgain, NextImage, Opening, GoTo, NewSession, serverVars
    <2>2. trouble' \in BOOLEAN
      BY <1>1 DEF RunAgain, NextImage, Base, Script
    <2>3. Len(Sessions) \in Nat
      BY SessionAssumption, LenProperties
    <2>4. ~waiting /\ waiting' \in BOOLEAN /\ endFailed' \in BOOLEAN
      BY <2>1 DEF Base, Script, Working
    <2>5. run' \in 1 .. Len(Sessions) /\ run \in Nat
      BY <2>1, <2>3 DEF Base, Script
    <2>6. \A q \in {request, owed} \ {None} : q.run \in 1 .. Len(Sessions)
      BY DEF Base, Messages, Requests
    <2>7. Messages'
      BY <2>1, <2>5, <2>6 DEF Base, Messages
    <2>8. Script'
      BY <2>1, <2>2, <2>4, <2>5 DEF Base, Script, Working
    <2> QED
      BY <2>7, <2>8 DEF Base
  <1>2. CASE Work
    <2>1. UNCHANGED <<serverVars, answers, hostVars>> /\ trouble' \in BOOLEAN
      BY <1>2 DEF Work, Base, Script
    <2> QED
      BY <2>1, HostRests DEF Base, Messages, serverVars, hostVars
  <1>3. CASE Restart
    <2>1. UNCHANGED <<answers, hostVars>> /\ trouble' = TRUE /\ request' = None /\ owed' = None
      BY <1>3 DEF Restart
    <2>2. Messages'
      BY <2>1 DEF Base, Messages, Requests, hostVars
    <2>3. Script'
      BY <2>1, HostRests DEF Base
    <2> QED
      BY <2>2, <2>3 DEF Base
  <1>4. CASE UNCHANGED vars
    BY <1>4, HostRests DEF vars, hostVars, serverVars, Base, Messages, Script
  <1> QED
    BY <1>1, <1>2, <1>3, <1>4, HostBase, ServerBase DEF Next

----------------------------------------------------------------------------
(* The device in a session                                                 *)

LEMMA BaseHolds == Spec => [](Base /\ Ota!TypeOK) /\ Ota!Spec
  <1>1. Init => Base /\ Ota!Init
    BY InitBase, SameInit DEF Init
  <1>2. Ota!Init => Ota!TypeOK /\ Ota!InArea
    <2>1. Ota!Init => Ota!TypeOK
      BY DeviceAssumptions, Ota!InitType
    <2>2. Ota!Init => Ota!InArea
      BY DeviceAssumption DEF Ota!Init, Ota!InArea
    <2> QED
      BY <2>1, <2>2
  <1>3. Base /\ Ota!TypeOK /\ [Next]_vars => Base'
    BY NextBase, SameTypeOK
  <1>4. Base /\ [Next]_vars => [Ota!Next]_(Ota!vars)
    BY DeviceStep
  <1>5. Ota!TypeOK /\ Ota!InArea /\ [Ota!Next]_(Ota!vars) => (Ota!TypeOK /\ Ota!InArea)'
    BY DeviceAssumptions, Ota!NextFlags, Ota!NextValues, Ota!NextInArea, Ota!TypeSplitNext
  <1> QED
    BY <1>1, <1>2, <1>3, <1>4, <1>5, PTL DEF Spec, Ota!Spec

\* Every variable of host, server and device keeps its type, whatever is lost,
\* late or repeated, and the host never sends from beyond the end of its image.
THEOREM TypeCorrect == Spec => []TypeOK
  <1>1. Base /\ Ota!TypeOK => TypeOK
    <2> SUFFICES ASSUME Base, Ota!TypeOK PROVE TypeOK
      OBVIOUS
    <2>1. \A q \in {request, owed} \ {None} : q.run \in 1 .. run
      <3> SUFFICES ASSUME NEW q \in {request, owed} \ {None} PROVE q.run \in 1 .. run
        OBVIOUS
      <3>1. q.run \in 1 .. Len(Sessions) /\ q.run <= run
        BY DEF Base, Messages, Requests
      <3>2. run \in 1 .. Len(Sessions) /\ Len(Sessions) \in Nat
        BY SessionAssumption, LenProperties DEF Base, Script
      <3> QED
        BY <3>1, <3>2
    <2> QED
      BY <2>1, SameTypeOK DEF Base, Messages, Script, TypeOK
  <1> QED
    BY <1>1, BaseHolds, PTL

\* In every session the image that END accepted is in flash to its last byte.
THEOREM SessionStaged == UseFlash => (Spec => []Device!StagedImage)
  <1>1. UseFlash => (Ota!Spec => []Ota!StagedImage)
    BY DeviceAssumptions, Ota!AcceptedImageStaged
  <1> QED
    BY <1>1, SameStagedImage, BaseHolds, PTL

\* In every session the image that waits for its installation is the accepted one.
THEOREM SessionSwapSource == UseFlash => (Spec => []Device!SwapSource)
  <1>1. UseFlash => (Ota!Spec => []Ota!SwapSource)
    BY DeviceAssumptions, Ota!PendingImageStaged
  <1> QED
    BY <1>1, SameSwapSource, BaseHolds, PTL

\* A session keeps the promises of FwUpdate.
THEOREM SessionPromise == UseFlash => (Spec => Device!Promise)
  <1>1. UseFlash => (Ota!Spec => Ota!Promise)
    BY DeviceAssumptions, Ota!Implementation
  <1>2. Ota!Abstract!Init => Device!Abstract!Init
    BY DEF Ota!Abstract!Init, Device!Abstract!Init, Ota!Phase, Device!Phase
  <1>3. [Ota!Abstract!Next]_(Ota!Abstract!vars) => [Device!Abstract!Next]_(Device!Abstract!vars)
    BY DEF
      Ota!Abstract!Next, Ota!Abstract!vars, Ota!Abstract!Begin, Ota!Abstract!Receive,
      Ota!Abstract!Rewind, Ota!Abstract!Accept, Ota!Abstract!Fail, Ota!Abstract!Arm,
      Ota!Abstract!Install, Ota!Abstract!Cancel, Ota!Phase, Device!Abstract!Next,
      Device!Abstract!vars, Device!Abstract!Begin, Device!Abstract!Receive, Device!Abstract!Rewind,
      Device!Abstract!Accept, Device!Abstract!Fail, Device!Abstract!Arm, Device!Abstract!Install,
      Device!Abstract!Cancel, Device!Phase
  <1>4. Ota!Promise => Device!Promise
    BY <1>2, <1>3, PTL DEF Ota!Promise, Device!Promise, Ota!Abstract!Spec, Device!Abstract!Spec
  <1> QED
    BY <1>1, <1>4, BaseHolds, PTL

----------------------------------------------------------------------------
(* A success that is reported is true: the host's steps                    *)

\* What the host asks for at the places of its script that have to succeed.
LEMMA AskedAt ==
  ASSUME Script, step \in Working
  PROVE  /\ Place \in 0 .. 18
         /\ step \in Looking <=> Place = 0
         /\ AskedObject = "expectedSize" <=> Place = 4
         /\ AskedObject = "expectedCRC" <=> Place = 5
         /\ AskedObject = "piece" <=> Place = 14
         /\ AskedObject = "command" <=> Place \in {8, 15, 17}
         /\ Place = 8 => Asked.what = "start"
         /\ Place = 15 => Asked.what = "end"
         /\ Place = 17 => Asked.what = "apply"
         /\ AskedObject # "abort"
  <1> USE DEF Script, AskedObject, Asked, Place, ObjectOf, Commands, Looking
  <1>1. CASE step = "prepare"
    <2>1. pos \in 1 .. 13 /\ Asked.what = Preparation[pos] /\ Place = pos
      BY <1>1
    <2>2. CASE pos \in 1 .. 8
      <3>1. pos = 1 \/ pos = 2 \/ pos = 3 \/ pos = 4 \/ pos = 5 \/ pos = 6 \/ pos = 7 \/ pos = 8
        BY <2>2
      <3> HIDE DEF Place, Asked
      <3> QED
        BY <1>1, <2>1, <3>1, ScriptText
    <2>3. CASE pos \in 9 .. 13
      <3>1. Preparation[pos] = Fields[pos - 8] /\ pos - 8 \in 1 .. 5
        BY <2>3, ScriptText
      <3>2. Preparation[pos] \in FieldNames
        BY <3>1, ScriptText DEF FieldNames
      <3> QED
        BY <2>1, <2>3, <3>2 DEF FieldNames
    <2> QED
      BY <2>1, <2>2, <2>3
  <1>2. CASE step = "poll"
    <2>1. Fields[pos] \in FieldNames
      BY <1>2, ScriptText DEF FieldNames
    <2> QED
      BY <1>2, <2>1 DEF FieldNames
  <1>3. CASE step \in {"data", "end", "apply", "leave"}
    BY <1>3
  <1>4. CASE step \in Looking
    <2>1. Asked.what \in LookNames /\ Place = 0
      BY <1>4, LookText DEF Looking
    <2> HIDE DEF Asked, Place
    <2> QED
      BY <1>4, <2>1 DEF LookNames
  <1> QED
    BY <1>1, <1>2, <1>3, <1>4 DEF Working, Looking

\* The script is followed place by place; only a session without APPLY leaves
\* out what comes after the wait for completion.
LEMMA Onward ==
  ASSUME Script, Script', step \in Working, UNCHANGED run, Fail \/ \E a \in Replies : Succeed(a)
  PROVE  Place' <= Place \/ Place' = Place + 1 \/ (Place = 16 /\ Place' = 19 /\ ~Session.apply)
  <1>1. CASE step = "prepare"
    <2>1. \/ step' = "prepare" /\ pos' = pos + 1
          \/ step' = "failed"
          \/ step' = "data" /\ pos = 13
      <3>1. CASE Fail
        <4>1. GoTo(step, pos + 1) \/ GoTo("failed", 1)
          BY <1>1, <3>1 DEF Fail
        <4> QED
          BY <1>1, <4>1 DEF GoTo
      <3>2. CASE \E a \in Replies : Succeed(a)
        <4>1. GoTo(step, pos + 1) \/ (pos = 13 /\ GoTo("data", 0))
          BY <1>1, <3>2, ScriptText DEF Succeed, Script
        <4> QED
          BY <1>1, <4>1 DEF GoTo
      <3> QED
        BY <3>1, <3>2
    <2> QED
      BY <1>1, <2>1 DEF Place, Script
  <1>2. CASE step = "data"
    <2>1. step' \in {"data", "end", "diagnose"}
      BY <1>2 DEF Fail, Succeed, GoTo, GiveUp
    <2> QED
      BY <1>2, <2>1 DEF Place, Script
  <1>3. CASE step = "end"
    <2>1. step' = "poll"
      BY <1>3 DEF Fail, Succeed, GoTo
    <2> QED
      BY <1>3, <2>1 DEF Place, Script
  <1>4. CASE step = "poll"
    <2>1. \/ step' \in {"poll", "diagnose"}
          \/ step' = "apply"
          \/ step' = "success" /\ ~Session.apply
      <3>1. CASE Fail
        BY <1>4, <3>1 DEF Fail, GoTo
      <3>2. CASE \E a \in Replies : Succeed(a)
        <4>1. PICK a \in Replies : Succeed(a)
          BY <3>2
        <4>2. GoTo("poll", pos + 1) \/ Judge(Append(seen, a.value))
          BY <1>4, <4>1 DEF Succeed
        <4>3. Session.apply => Session.target = "AT32"
          BY SessionAssumption DEF Script, Session
        <4> QED
          BY <4>2, <4>3 DEF Judge, GoTo, GiveUp
      <3> QED
        BY <3>1, <3>2
    <2> QED
      BY <1>4, <2>1 DEF Place, Script
  <1>5. CASE step \in {"apply", "leave"}
    <2>1. CASE step = "apply"
      <3>1. step' \in {"leave", "diagnose"}
        BY <2>1 DEF Fail, Succeed, GoTo, ApplyFailed, GiveUp
      <3> QED
        BY <2>1, <3>1 DEF Place, Script
    <2>2. CASE step = "leave"
      <3>1. step' \in {"leave", "success"}
        BY <2>2 DEF Fail, Succeed, GoTo
      <3> QED
        BY <2>2, <3>1 DEF Place, Script
    <2> QED
      BY <1>5, <2>1, <2>2
  <1>6. CASE step \in Looking
    <2>1. step' \in Looking \/ step' = "failed" \/ (step' = "prepare" /\ pos' = 1)
      BY <1>6 DEF Fail, Succeed, GoTo, Looking
    <2> QED
      BY <1>6, <2>1 DEF Place, Script, Looking
  <1> QED
    BY <1>1, <1>2, <1>3, <1>4, <1>5, <1>6 DEF Working, Looking

\* An exchange that has to succeed and does not ends the session's hope.
LEMMA FailHere ==
  ASSUME Script, step \in Working, Fail, AskedObject \in Needed
  PROVE  ~Alive'
  <1>1. Place \in {4, 5, 8, 14, 15, 17}
    BY AskedAt DEF Needed
  <1>2. CASE step = "prepare"
    <2>1. pos \in {4, 5, 8} \cup {14, 15, 17} /\ pos \in 1 .. 13
      BY <1>1, <1>2 DEF Place, Script
    <2>2. Preparation[pos] \notin Optional
      BY <2>1, ScriptText DEF Optional
    <2>3. GoTo("failed", 1)
      BY <1>2, <2>2 DEF Fail
    <2> QED
      BY <2>3 DEF GoTo, Alive
  <1>3. CASE step \in {"data", "apply"}
    <2>1. GoTo("diagnose", 1)
      BY <1>3 DEF Fail, ApplyFailed, GiveUp
    <2> QED
      BY <2>1 DEF GoTo, Alive
  <1>4. CASE step = "end"
    BY <1>4 DEF Fail, Alive
  <1>5. step \notin {"poll", "leave"} \cup Looking
    BY <1>1 DEF Place, Looking
  <1> QED
    BY <1>2, <1>3, <1>4, <1>5 DEF Working, Looking

\* While the host works, what it has asked for stays what it asked for.
LEMMA AskedRests ==
  ASSUME UNCHANGED <<step, pos, run>>
  PROVE  Place' = Place /\ Asked' = Asked /\ AskedObject' = AskedObject
  BY DEF Place, Asked, AskedObject

\* Answers are only taken from the head of the queue.
LEMMA AnswersDropped ==
  ASSUME Messages, NEW k \in 0 .. Len(answers), answers' = SubSeq(answers, k + 1, Len(answers)), NEW o
  PROVE  /\ HasAnswer(o)' => HasAnswer(o)
         /\ (\A i, j \in 1 .. Len(answers) : answers[i].obj = o /\ answers[j].obj = o => i = j) =>
              \A i, j \in 1 .. Len(answers') : answers'[i].obj = o /\ answers'[j].obj = o => i = j
  <1>1. /\ Len(answers') = Len(answers) - k
        /\ \A i \in 1 .. Len(answers') : answers'[i] = answers[i + k]
    BY DropType
  <1>2. Len(answers) \in Nat
    BY LenProperties DEF Messages
  <1>3. \A i \in 1 .. Len(answers') : i + k \in 1 .. Len(answers)
    BY <1>1, <1>2
  <1>4. HasAnswer(o)' => HasAnswer(o)
    BY <1>1, <1>3 DEF HasAnswer
  <1>5. ASSUME \A i, j \in 1 .. Len(answers) : answers[i].obj = o /\ answers[j].obj = o => i = j,
               NEW i \in 1 .. Len(answers'), NEW j \in 1 .. Len(answers'),
               answers'[i].obj = o, answers'[j].obj = o
        PROVE  i = j
    <2>1. i + k = j + k
      BY <1>1, <1>3, <1>5
    <2>2. i \in Int /\ j \in Int /\ k \in Int
      BY <1>1, <1>2
    <2> QED
      BY <2>1, <2>2
  <1> QED
    BY <1>4, <1>5

LEMMA AnswerTaken ==
  ASSUME Messages, answers # <<>>, answers' = Tail(answers), NEW o
  PROVE  /\ 1 \in 0 .. Len(answers) /\ answers' = SubSeq(answers, 1 + 1, Len(answers))
         /\ Head(answers) = answers[1] /\ 1 \in 1 .. Len(answers)
         /\ Head(answers).obj = o => HasAnswer(o)
         /\ (\A i, j \in 1 .. Len(answers) : answers[i].obj = o /\ answers[j].obj = o => i = j)
              /\ Head(answers).obj = o => ~HasAnswer(o)'
  <1>1. answers \in Seq(Replies) /\ Len(answers) \in Nat \ {0}
    BY EmptySeq DEF Messages
  <1>2. Head(answers) = answers[1] /\ 1 \in 1 .. Len(answers)
    BY <1>1
  <1>3. answers' = SubSeq(answers, 2, Len(answers))
    BY TailIsSubSeq DEF Messages
  <1>4. \A i \in 1 .. Len(answers') : answers'[i] = answers[i + 1] /\ i + 1 \in 1 .. Len(answers) /\ i + 1 # 1
    BY <1>1, HeadTailProperties
  <1> QED
    BY <1>1, <1>2, <1>3, <1>4 DEF HasAnswer

\* An exchange that fails: by an abort or a timeout.
ExchangeFails ==
  /\ waiting /\ waiting' = FALSE /\ Fail
  /\ UNCHANGED <<deviceVars, serverVars, run>>
  /\ answers' = answers \/ (answers # <<>> /\ answers' = Tail(answers))

\* The steps of the host as the proofs below take them.
LEMMA HostCases ==
  ASSUME HostStep
  PROVE  \/ Ask
         \/ ExchangeFails
         \/ /\ waiting /\ answers # <<>> /\ answers' = Tail(answers)
            /\ Head(answers).obj = AskedObject
            /\ waiting' = FALSE /\ Succeed(Head(answers))
            /\ UNCHANGED <<deviceVars, serverVars, run, trouble>>
         \/ /\ waiting /\ answers # <<>> /\ answers' = Tail(answers)
            /\ Head(answers).obj # AskedObject
            /\ UNCHANGED <<waiting, step, pos, seen, endFailed, deviceVars, serverVars, run, trouble>>
         \/ DeadlinePasses \/ Interrupt
  BY DEF HostStep, ReadAnswer, AnswerTimeout, ExchangeFails, AskedObject, serverVars

\* No step of the host makes an exchange count that has had no effect.
LEMMA HostSure ==
  ASSUME Base, Base', Traffic, HostStep, NEW n \in {4, 5, 8, 15, 17}, n = 17 => Session.apply,
         Alive', Sure(n)'
  PROVE  Alive /\ Sure(n)
  <1> USE DEF Base
  <1>0. ASSUME step \in Working, Place = n
        PROVE  AskedObject \in Needed
    BY <1>0, AskedAt DEF Needed
  <1>1. CASE Ask
    <2>1. step \in Working /\ ~waiting /\ UNCHANGED <<step, pos, run, endFailed>>
      BY <1>1 DEF Ask
    <2>2. Alive /\ Place' = Place /\ AskedObject' = AskedObject
      BY <2>1, AskedRests DEF Alive
    <2>3. CASE Place = n
      <3>1. ~HasAnswer(AskedObject)
        BY <1>0, <2>1, <2>2, <2>3 DEF Traffic, Once
      <3>2. PICK k \in 0 .. Len(answers) : answers' = SubSeq(answers, k + 1, Len(answers))
        BY <1>1 DEF Ask
      <3>3. HasAnswer(AskedObject)'
        BY <2>2, <2>3 DEF Sure, Place
      <3>4. ASSUME NEW o, o = AskedObject, HasAnswer(o)' PROVE FALSE
        BY <3>1, <3>2, <3>4, AnswersDropped
      <3> QED
        BY <2>2, <3>3, <3>4 DEF HasAnswer
    <2>4. CASE Place # n
      BY <2>2, <2>4 DEF Sure
    <2> QED
      BY <2>3, <2>4
  <1>2. CASE ExchangeFails
    <2>1. step \in Working /\ waiting' = FALSE /\ Fail /\ UNCHANGED run
      BY <1>2 DEF ExchangeFails, Script
    <2>2. Alive
      BY <2>1 DEF Fail, Alive, Script, Working, GoTo
    <2>3. Place # n
      BY <1>0, <2>1, FailHere
    <2>4. Place' > n
      BY <2>1 DEF Sure
    <2>5. Place' <= Place \/ Place' = Place + 1 \/ (Place = 16 /\ Place' = 19 /\ ~Session.apply)
      BY <2>1, Onward
    <2>6. Place \in 0 .. 18
      BY <2>1, AskedAt
    <2>7. Place' \in Int
      BY DEF Place, Script
    <2>8. Place > n
      BY <2>3, <2>4, <2>5, <2>6, <2>7
    <2> QED
      BY <2>2, <2>8 DEF Sure
  <1>3. ASSUME waiting, answers # <<>>, answers' = Tail(answers), Head(answers).obj = AskedObject,
               waiting' = FALSE, Succeed(Head(answers)), UNCHANGED <<deviceVars, serverVars, run, trouble>>
        PROVE  Alive /\ Sure(n)
    <2>1. step \in Working
      BY <1>3 DEF Script
    <2>2. Alive
      BY <1>3, <2>1, LookText DEF Succeed, Alive, Working, GoTo
    <2>3. HasAnswer(AskedObject)
      BY <1>3, AnswerTaken
    <2>4. Place' > n
      BY <1>3 DEF Sure
    <2>5. Head(answers) \in Replies
      BY <1>3, HeadTailProperties DEF Messages
    <2>6. Place' <= Place \/ Place' = Place + 1 \/ (Place = 16 /\ Place' = 19 /\ ~Session.apply)
      BY <1>3, <2>1, <2>5, Onward
    <2>7. Place \in 0 .. 18
      BY <2>1, AskedAt
    <2>8. Place' \in Int
      BY DEF Place, Script
    <2>9. Place >= n
      BY <2>4, <2>6, <2>7, <2>8
    <2> QED
      BY <1>3, <2>2, <2>3, <2>7, <2>9 DEF Sure
  <1>4. ASSUME answers # <<>>, answers' = Tail(answers),
               UNCHANGED <<waiting, step, pos, seen, endFailed, deviceVars, serverVars, run, trouble>>
        PROVE  Alive /\ Sure(n)
    <2>1. Place' = Place /\ AskedObject' = AskedObject /\ Alive /\ waiting' = waiting
      BY <1>4, AskedRests DEF Alive
    <2>2. ASSUME NEW o, HasAnswer(o)' PROVE HasAnswer(o)
      BY <1>4, <2>2, AnswerTaken, AnswersDropped
    <2>3. HasAnswer(AskedObject)' => HasAnswer(AskedObject)
      BY <2>1, <2>2 DEF HasAnswer
    <2> QED
      BY <2>1, <2>3 DEF Sure
  <1>5. CASE DeadlinePasses \/ Interrupt
    BY <1>5 DEF DeadlinePasses, Interrupt, GoTo, GiveUp, Alive
  <1> QED
    BY <1>1, <1>2, <1>3, <1>4, <1>5, HostCases

\* Nothing is left over of an exchange that succeeded, and nothing is asked twice.
LEMMA HostTraffic ==
  ASSUME Base, Base', Traffic, HostStep
  PROVE  Traffic'
  <1> USE DEF Base
  <1>1. CASE Ask
    <2>1. /\ step \in Working /\ ~waiting /\ waiting'
          /\ UNCHANGED <<step, pos, run, endFailed, owed>>
          /\ (request = None /\ request' = Asked) \/ request' = request
      BY <1>1 DEF Ask
    <2>2. Place' = Place /\ AskedObject' = AskedObject /\ Asked' = Asked /\ Alive' = Alive
      BY <2>1, AskedRests DEF Alive
    <2>3. Asked.run = run /\ Asked # None
      BY <2>1, AskedType
    <2>4. \A q \in {request', owed'} \ {None} : ObjectOf(q.what) \in Needed => q.run = run'
      BY <2>1, <2>3 DEF Traffic
    <2>5. ASSUME Alive', NEW o \in Needed PROVE Once(o)'
      <3>1. ~Pending(o) /\ ~InWork(o) /\ ~HasAnswer(o)
        BY <2>1, <2>2, <2>5 DEF Traffic, Once
      <3>2. ~InWork(o)'
        BY <2>1, <3>1 DEF InWork
      <3>3. PICK k \in 0 .. Len(answers) : answers' = SubSeq(answers, k + 1, Len(answers))
        BY <1>1 DEF Ask
      <3>4. ~HasAnswer(o)'
        BY <3>1, <3>3, AnswersDropped
      <3>5. Pending(o)' => request' = Asked /\ AskedObject = o
        BY <2>1, <3>1 DEF Pending, AskedObject
      <3> QED
        BY <2>1, <2>2, <3>2, <3>4, <3>5 DEF Once, HasAnswer
    <2> QED
      BY <2>1, <2>4, <2>5 DEF Traffic, Session
  <1>2. CASE ExchangeFails
    <2>1. /\ step \in Working /\ waiting /\ waiting' = FALSE /\ Fail
          /\ UNCHANGED <<request, owed, run>>
      BY <1>2 DEF ExchangeFails, Script, serverVars
    <2>2. \A q \in {request', owed'} \ {None} : ObjectOf(q.what) \in Needed => q.run = run'
      BY <2>1 DEF Traffic
    <2>3. ASSUME Alive', NEW o \in Needed PROVE Once(o)'
      <3>1. Alive
        BY <2>1, <2>3 DEF Fail, Alive, Working, GoTo
      <3>2. AskedObject # o
        BY <2>1, <2>3, FailHere
      <3>3. ~Pending(o) /\ ~InWork(o) /\ ~HasAnswer(o)
        BY <2>3, <3>1, <3>2 DEF Traffic, Once
      <3>4. ~HasAnswer(o)'
        <4>1. CASE answers' = answers
          BY <3>3, <4>1 DEF HasAnswer
        <4>2. CASE answers # <<>> /\ answers' = Tail(answers)
          BY <3>3, <4>2, AnswerTaken, AnswersDropped
        <4> QED
          BY <1>2, <4>1, <4>2 DEF ExchangeFails
      <3> QED
        BY <2>1, <3>3, <3>4 DEF Once, Pending, InWork
    <2>4. endFailed' => step' \in {"poll", "diagnose", "failed"}
      <3>1. endFailed' => step \in {"poll", "end", "diagnose"}
        BY <2>1 DEF Fail, Traffic, Working
      <3>2. /\ step \in {"poll", "end"} => step' = "poll"
            /\ step = "diagnose" => step' = "failed"
        BY <2>1 DEF Fail, GoTo
      <3> QED
        BY <3>1, <3>2
    <2>5. step' \in {"apply", "leave"} => Session.apply
      BY <2>1 DEF Fail, GoTo, GiveUp, ApplyFailed, Working, Traffic
    <2> QED
      BY <2>1, <2>2, <2>3, <2>4, <2>5 DEF Traffic, Session
  <1>3. ASSUME waiting, answers # <<>>, answers' = Tail(answers), Head(answers).obj = AskedObject,
               waiting' = FALSE, Succeed(Head(answers)), UNCHANGED <<deviceVars, serverVars, run, trouble>>
        PROVE  Traffic'
    <2>1. step \in Working /\ UNCHANGED <<request, owed, run, endFailed>>
      BY <1>3 DEF Script, serverVars, Succeed
    <2>2. \A q \in {request', owed'} \ {None} : ObjectOf(q.what) \in Needed => q.run = run'
      BY <2>1 DEF Traffic
    <2>3. ASSUME Alive', NEW o \in Needed PROVE Once(o)'
      <3>1. Alive
        <4>1. step = "diagnose" => step' \in {"diagnose", "failed"}
          BY <1>3 DEF Succeed, GoTo
        <4> QED
          BY <2>1, <2>3, <4>1 DEF Alive, Working
      <3>2. Once(o)
        BY <2>3, <3>1 DEF Traffic
      <3>3. CASE AskedObject = o
        <4>1. HasAnswer(o) /\ ~HasAnswer(o)'
          BY <1>3, <3>2, <3>3, AnswerTaken DEF Once
        <4>2. ~Pending(o) /\ ~InWork(o)
          BY <1>3, <3>2, <3>3, <4>1 DEF Once
        <4> QED
          BY <1>3, <2>1, <4>1, <4>2 DEF Once, Pending, InWork
      <3>4. CASE AskedObject # o
        <4>1. ~Pending(o) /\ ~InWork(o) /\ ~HasAnswer(o)
          BY <3>2, <3>4 DEF Once
        <4>2. ~HasAnswer(o)'
          BY <1>3, <4>1, AnswerTaken, AnswersDropped
        <4> QED
          BY <1>3, <2>1, <4>1, <4>2 DEF Once, Pending, InWork
      <3> QED
        BY <3>3, <3>4
    <2>4. /\ endFailed' => step' \in {"poll", "diagnose", "failed"}
          /\ step' \in {"apply", "leave"} => Session.apply
      <3>1. CASE step = "poll"
        <4>1. GoTo("poll", pos + 1) \/ Judge(Append(seen, Head(answers).value))
          BY <1>3, <3>1 DEF Succeed
        <4>2. endFailed' => step' \in {"poll", "diagnose"}
          BY <2>1, <4>1 DEF Judge, GoTo, GiveUp, EndConfirmed
        <4>3. step' \in {"apply", "leave"} => Session.apply
          BY <4>1 DEF Judge, GoTo, GiveUp
        <4> QED
          BY <4>2, <4>3
      <3>2. CASE step # "poll"
        <4>1. endFailed' => step' \in {"diagnose", "failed"}
          <5>1. endFailed' => step = "diagnose"
            BY <2>1, <3>2 DEF Traffic, Working
          <5>2. step = "diagnose" => step' \in {"diagnose", "failed"}
            BY <1>3 DEF Succeed, GoTo
          <5> QED
            BY <5>1, <5>2
        <4>2. step' \in {"apply", "leave"} => step \in {"apply", "leave"}
          BY <1>3, <2>1, <3>2 DEF Succeed, GoTo, Working
        <4> QED
          BY <2>1, <4>1, <4>2 DEF Traffic
      <3> QED
        BY <3>1, <3>2
    <2> QED
      BY <2>1, <2>2, <2>3, <2>4 DEF Traffic, Session
  <1>4. ASSUME waiting, answers # <<>>, answers' = Tail(answers), Head(answers).obj # AskedObject,
               UNCHANGED <<waiting, step, pos, seen, endFailed, deviceVars, serverVars, run, trouble>>
        PROVE  Traffic'
    <2>1. /\ AskedObject' = AskedObject /\ Asked' = Asked /\ Alive' = Alive
          /\ UNCHANGED <<waiting, request, owed, run, endFailed, step>>
      BY <1>4, AskedRests DEF Alive, serverVars
    <2>2. ASSUME Alive', NEW o \in Needed PROVE Once(o)'
      <3>1. Once(o)
        BY <2>1, <2>2 DEF Traffic
      <3>2. Pending(o)' = Pending(o) /\ InWork(o)' = InWork(o)
        BY <2>1 DEF Pending, InWork
      <3>3. HasAnswer(o)' => HasAnswer(o)
        BY <1>4, AnswerTaken, AnswersDropped
      <3>4. (\A i, j \in 1 .. Len(answers) : answers[i].obj = o /\ answers[j].obj = o => i = j) =>
              \A i, j \in 1 .. Len(answers') : answers'[i].obj = o /\ answers'[j].obj = o => i = j
        BY <1>4, AnswerTaken, AnswersDropped
      <3> QED
        BY <2>1, <3>1, <3>2, <3>3, <3>4 DEF Once
    <2> QED
      BY <2>1, <2>2 DEF Traffic, Session
  <1>5. CASE DeadlinePasses \/ Interrupt
    <2>1. step' \in {"diagnose", "failed"} /\ UNCHANGED <<request, owed, run>>
      BY <1>5 DEF DeadlinePasses, Interrupt, GoTo, GiveUp, serverVars
    <2> QED
      BY <2>1 DEF Traffic, Alive
  <1> QED
    BY <1>1, <1>2, <1>3, <1>4, <1>5, HostCases

LEMMA HostIInv ==
  ASSUME Base, Base', IInv, HostStep
  PROVE  IInv'
  <1>0. /\ UNCHANGED <<expectedSize, expectedCRC, state, imageCRC, flash, swapPending, installed>>
        /\ UNCHANGED run
    BY DEF HostStep, Ask, ReadAnswer, AnswerTimeout, DeadlinePasses, Interrupt, deviceVars
  <1>1. Traffic'
    BY HostTraffic DEF IInv
  <1>2. ASSUME Alive', NEW n \in {4, 5, 8, 15, 17}, Sure(n)', n = 17 => Session.apply
        PROVE  Alive /\ Sure(n)
    BY <1>2, HostSure DEF IInv
  <1>3. Size(run)' = Size(run) /\ Session' = Session
    BY <1>0 DEF Size, Session
  <1>4. Announced'
    <2>1. ASSUME Alive', NEW n \in {4, 5, 8}, Sure(n)' PROVE Alive /\ Sure(n)
      BY <1>2, <2>1
    <2> QED
      BY <1>0, <1>3, <2>1 DEF IInv, Announced
  <1>5. Confirmed'
    <2>1. ASSUME Alive', Sure(15)' PROVE Alive /\ Sure(15)
      BY <1>2, <2>1
    <2>2. Device!StagePrefix(Size(run))' = Device!StagePrefix(Size(run))
      BY <1>0, <1>3 DEF Device!StagePrefix
    <2> QED
      BY <1>0, <1>3, <2>1, <2>2 DEF IInv, Confirmed
  <1>6. ApplyDue'
    <2>1. CASE request' = request
      BY <1>0, <1>3, <2>1 DEF IInv, ApplyDue
    <2>2. CASE request' # request
      <3>1. request' = Asked /\ step \in Working
        BY <2>2 DEF HostStep, Ask, ReadAnswer, AnswerTimeout, DeadlinePasses, Interrupt, serverVars
      <3>2. ASSUME Asked.what = "apply"
            PROVE  Session.apply /\ state # "RECV" /\ (state = "REBOOT" => imageCRC = Session.image)
        <4>1. AskedObject = "command"
          BY <3>2 DEF AskedObject, ObjectOf, Commands
        <4>2. Place \in {8, 15, 17} /\ Place # 8 /\ Place # 15
          BY <3>1, <3>2, <4>1, AskedAt DEF Base
        <4>3. step = "apply"
          BY <3>1, <4>2 DEF Place, Base, Script, Working
        <4>4. Alive /\ Session.apply
          BY <4>3 DEF Alive, IInv, Traffic
        <4>5. Sure(15)
          BY <4>2 DEF Sure
        <4> QED
          BY <4>4, <4>5 DEF IInv, Confirmed
      <3> QED
        BY <1>0, <1>3, <3>1, <3>2 DEF ApplyDue
    <2> QED
      BY <2>1, <2>2
  <1>7. Installing'
    <2>1. ASSUME Alive', Session.apply, Sure(17)' PROVE Alive /\ Sure(17)
      BY <1>2, <2>1
    <2> QED
      BY <1>0, <1>3, <2>1 DEF IInv, Installing, InstalledWhole
  <1> QED
    BY <1>1, <1>4, <1>5, <1>6, <1>7 DEF IInv

----------------------------------------------------------------------------
(* A success that is reported is true: the steps of server and device      *)

\* The answers a step of the server leaves on their way.
Answered(a) == answers' = answers \/ answers' = Append(answers, a)

LEMMA AnsweredBy ==
  ASSUME Messages, NEW a \in Replies, Answered(a), NEW o
  PROVE  /\ HasAnswer(o)' => HasAnswer(o) \/ a.obj = o
         /\ \A i \in 1 .. Len(answers') :
              \/ i \in 1 .. Len(answers) /\ answers'[i] = answers[i]
              \/ i = Len(answers) + 1 /\ answers'[i] = a
  <1>1. answers \in Seq(Replies) /\ Len(answers) \in Nat
    BY LenProperties DEF Messages
  <1>2. \A i \in 1 .. Len(answers') :
          (i \in 1 .. Len(answers) /\ answers'[i] = answers[i]) \/ (i = Len(answers) + 1 /\ answers'[i] = a)
    BY <1>1 DEF Answered
  <1> QED
    BY <1>2 DEF HasAnswer

\* The answer to an exchange that has to succeed takes the place of its request.
Replaces(a) ==
  a.obj \in Needed =>
    \/ Pending(a.obj) /\ request' = None
    \/ InWork(a.obj) /\ owed' = None

LEMMA AnswerTraffic ==
  ASSUME Messages, Traffic, UNCHANGED hostVars, NEW a \in Replies, Answered(a), Replaces(a),
         request' \in {request, None}, owed' \in {owed, None}
  PROVE  Traffic'
  <1>1. UNCHANGED <<step, pos, waiting, run, endFailed>>
    BY DEF hostVars
  <1>2. AskedObject' = AskedObject /\ Asked' = Asked /\ Alive' = Alive
    BY <1>1, AskedRests DEF Alive
  <1>3. ASSUME Alive', NEW o \in Needed PROVE Once(o)'
    <2>1. Once(o)
      BY <1>2, <1>3 DEF Traffic
    <2>2. (Pending(o)' => Pending(o) /\ request' = request) /\ (InWork(o)' => InWork(o))
      BY DEF Pending, InWork
    <2>3. CASE a.obj # o
      <3>1. HasAnswer(o)' => HasAnswer(o)
        BY <2>3, AnsweredBy
      <3>2. \A i \in 1 .. Len(answers') : answers'[i].obj = o => i \in 1 .. Len(answers) /\ answers[i].obj = o
        BY <2>3, AnsweredBy
      <3> QED
        BY <1>1, <1>2, <2>1, <2>2, <3>1, <3>2 DEF Once
    <2>4. CASE a.obj = o
      <3>1. (Pending(o) /\ request' = None) \/ (InWork(o) /\ owed' = None)
        BY <1>3, <2>4 DEF Replaces
      <3>2. waiting /\ AskedObject = o /\ ~HasAnswer(o)
        BY <2>1, <3>1 DEF Once
      <3>3. ~Pending(o)' /\ ~InWork(o)'
        BY <2>1, <2>2, <3>1 DEF Once, Pending, InWork
      <3>4. \A i \in 1 .. Len(answers') : answers'[i].obj = o => i = Len(answers) + 1
        BY <3>2, AnsweredBy DEF HasAnswer
      <3> QED
        BY <1>1, <1>2, <3>2, <3>3, <3>4 DEF Once
    <2> QED
      BY <2>3, <2>4
  <1>4. \A q \in {request', owed'} \ {None} : ObjectOf(q.what) \in Needed => q.run = run'
    BY <1>1 DEF Traffic
  <1> QED
    BY <1>1, <1>3, <1>4 DEF Traffic, Session

\* Only the answer to the exchange the host is in makes it count.
LEMMA AnswerSure ==
  ASSUME Messages, UNCHANGED hostVars, NEW a \in Replies, Answered(a), NEW n, Sure(n)'
  PROVE  Sure(n) \/ (Place = n /\ waiting /\ a.obj = AskedObject /\ HasAnswer(AskedObject)')
  <1>1. UNCHANGED <<step, pos, waiting, run>>
    BY DEF hostVars
  <1>2. Place' = Place /\ AskedObject' = AskedObject
    BY <1>1, AskedRests
  <1>3. ASSUME NEW o, HasAnswer(o)' PROVE HasAnswer(o) \/ a.obj = o
    BY <1>3, AnsweredBy
  <1>4. HasAnswer(AskedObject)' => HasAnswer(AskedObject) \/ a.obj = AskedObject
    BY <1>2, <1>3 DEF HasAnswer
  <1> QED
    BY <1>1, <1>2, <1>4 DEF Sure

\* A request for an exchange that has to succeed, while the session can: the host
\* is in that exchange, and it has had no effect yet.
LEMMA RequestAt ==
  ASSUME Base, Traffic, Alive, request # None, ObjectOf(request.what) \in Needed
  PROVE  /\ waiting /\ step \in Working /\ request = Asked /\ AskedObject = ObjectOf(request.what)
         /\ ~HasAnswer(AskedObject)
  <1>1. Once(ObjectOf(request.what)) /\ Pending(ObjectOf(request.what))
    BY DEF Traffic, Pending
  <1>2. waiting /\ AskedObject = ObjectOf(request.what) /\ request = Asked /\ ~HasAnswer(AskedObject)
    BY <1>1 DEF Once
  <1> QED
    BY <1>2 DEF Base, Script

\* A step of the device that changes nothing of what a success rests on, but may
\* record an error.
Quiet ==
  /\ UNCHANGED <<hostVars, expectedSize, expectedCRC, swapPending, installed>>
  /\ state' \in {state, "ERROR"}
  /\ state # "RECV" => UNCHANGED <<flash, imageCRC>>
  /\ Alive /\ Sure(17) /\ state = "IDLE" => state' = "IDLE"

LEMMA QuietIInv ==
  ASSUME Base, IInv, Device!SwapSource, Traffic', Quiet,
         request' \in {request, None} \/ (request' # None => request'.what # "apply"),
         \A n \in {4, 5, 8, 15, 17} : Alive /\ Sure(n)' => Sure(n)
  PROVE  IInv'
  <1>0. UNCHANGED <<step, pos, waiting, run, endFailed>>
    BY DEF Quiet, hostVars
  <1>1. Alive' = Alive /\ Size(run)' = Size(run) /\ Session' = Session
    BY <1>0 DEF Alive, Size, Session
  <1>2. Announced'
    BY <1>1 DEF IInv, Announced, Quiet
  <1>3. Confirmed'
    <2>1. SUFFICES ASSUME Alive, Sure(15)
                   PROVE  /\ state' # "RECV"
                          /\ Device!StagePrefix(Size(run))' = Session.image
                          /\ state' = "REBOOT" => imageCRC' = Session.image
      BY <1>1 DEF Confirmed
    <2>2. /\ state # "RECV" /\ Device!StagePrefix(Size(run)) = Session.image
          /\ state = "REBOOT" => imageCRC = Session.image
      BY <2>1 DEF IInv, Confirmed
    <2>3. Device!StagePrefix(Size(run))' = Device!StagePrefix(Size(run))
      BY <1>1, <2>2 DEF Quiet, Device!StagePrefix
    <2> QED
      BY <2>2, <2>3 DEF Quiet
  <1>4. ApplyDue'
    <2>1. CASE request' = request
      BY <1>1, <2>1 DEF IInv, ApplyDue, Quiet
    <2>2. CASE request' # request
      BY <2>2 DEF ApplyDue
    <2> QED
      BY <2>1, <2>2
  <1>5. Installing'
    <2>1. swapPending => state # "RECV"
      BY DEF Device!SwapSource
    <2>2. swapPending' => \E r \in 1 .. run' : Sessions[r].apply /\ imageCRC' = Sessions[r].image
      BY <1>0, <2>1 DEF IInv, Installing, Quiet
    <2>3. InstalledWhole'
      BY <1>0 DEF IInv, Installing, InstalledWhole, Quiet
    <2>4. ASSUME Alive, Session.apply, Sure(17), state' # "IDLE"
          PROVE  IF swapPending' THEN imageCRC' = Session.image ELSE installed' = Session.image
      <3>1. state # "IDLE"
        BY <2>4 DEF Quiet
      <3>2. IF swapPending THEN imageCRC = Session.image ELSE installed = Session.image
        BY <2>4, <3>1 DEF IInv, Installing
      <3> QED
        BY <2>1, <3>2 DEF Quiet
    <2> QED
      BY <1>1, <2>2, <2>3, <2>4 DEF Installing
  <1> QED
    BY <1>2, <1>3, <1>4, <1>5 DEF IInv

\* What the actions of OtaApp that a success does not rest on change.
LEMMA DropEffect ==
  ASSUME Device!DropTransfer \/ UNCHANGED deviceVars
  PROVE  UNCHANGED <<expectedSize, expectedCRC, swapPending, installed, state, flash, imageCRC>>
  BY DEF Device!DropTransfer, deviceVars, Device!ctlVars, Device!countVars, Device!statusVars,
    Device!flashVars, Device!swapVars

LEMMA WriteEffect ==
  ASSUME NEW new, NEW data, Device!WriteData(new, data)
  PROVE  /\ UNCHANGED <<expectedSize, expectedCRC, swapPending, installed, flash>>
         /\ state' \in {state, "ERROR"} /\ (state # "RECV" => UNCHANGED imageCRC)
  BY DEF Device!WriteData, Device!SetError, Device!ctlVars, Device!countVars, Device!statusVars,
    Device!flashVars, Device!swapVars

LEMMA RefusedEffect ==
  ASSUME Device!StartRefused \/ Device!EndRefused \/ Device!ApplyRefused
  PROVE  /\ UNCHANGED <<expectedSize, expectedCRC, swapPending, installed, flash, imageCRC>>
         /\ state' = "ERROR"
  <1>1. \E code \in Device!Errors : Device!Refuse(code)
    BY DEF Device!StartRefused, Device!EndRefused, Device!ApplyRefused, Device!Errors
  <1> QED
    BY <1>1 DEF Device!Refuse, Device!SetError, Device!ctlVars, Device!countVars,
      Device!flashVars, Device!swapVars

LEMMA LoopEffect ==
  ASSUME Device!StageByte \/ Device!FinishData
  PROVE  /\ UNCHANGED <<expectedSize, expectedCRC, swapPending, installed, imageCRC>>
         /\ state' \in {state, "ERROR"} /\ busy
  BY DEF Device!StageByte, Device!FinishData, Device!SetError, Device!ctlVars, Device!countVars,
    Device!statusVars, Device!swapVars

LEMMA TickEffect ==
  ASSUME Device!Tick
  PROVE  UNCHANGED <<expectedSize, expectedCRC, swapPending, installed, state, flash, imageCRC>>
  BY DEF Device!Tick, Device!ctlVars, Device!countVars, Device!statusVars, Device!flashVars

\* The steps of the server that do not touch what a success rests on.
LEMMA QuietServer ==
  ASSUME Base, IInv, Device!TypeOK, Device!SwapSource,
         ServeOther \/ ServeStatus \/ ServePiece \/ PieceServed \/ Refuse \/ TransferTimeout
  PROVE  IInv'
  <1>1. ASSUME NEW a \in Replies, Answered(a), Replaces(a), AskedObject = a.obj => a.obj \notin Needed \/ a.obj = "piece",
               UNCHANGED <<hostVars, expectedSize, expectedCRC, swapPending, installed, state, flash, imageCRC>>,
               request' \in {request, None}, owed' \in {owed, None}
        PROVE  IInv'
    <2>1. Traffic'
      BY <1>1, AnswerTraffic DEF Base, IInv
    <2>2. ASSUME NEW n \in {4, 5, 8, 15, 17}, Alive, Sure(n)' PROVE Sure(n)
      <3>1. SUFFICES ASSUME Place = n, waiting, a.obj = AskedObject PROVE FALSE
        BY <1>1, <2>2, AnswerSure DEF Base
      <3>2. AskedObject \in Needed /\ AskedObject # "piece"
        BY <3>1, AskedAt DEF Base, Script, Needed
      <3> QED
        BY <1>1, <3>1, <3>2
    <2>3. Quiet
      BY <1>1 DEF Quiet
    <2> QED
      BY <1>1, <2>1, <2>2, <2>3, QuietIInv
  <1>2. CASE ServeOther
    <2>1. /\ request # None /\ request.what \in {"sessionId"} \cup Optional \cup LookNames
          /\ Served /\ UNCHANGED deviceVars
      BY <1>2, LookText DEF ServeOther, Idle, Starts
    <2>2. Done \in Replies /\ Done.obj \notin Needed
      BY <2>1 DEF Done, Replies, Objects, ObjectOf, Optional, LookNames, Commands, Needed
    <2>3. Answered(Done)
      BY <1>2 DEF ServeOther, Answer, Answered
    <2> QED
      BY <1>1, <2>1, <2>2, <2>3, DropEffect DEF Served, Replaces
  <1>3. CASE ServeStatus
    <2>1. PICK a \in Replies : a.obj \in FieldNames /\ Answer(a)
      BY <1>3, StatusAnswer
    <2>2. Served /\ UNCHANGED deviceVars
      BY <1>3, StatusAnswer
    <2>3. Answered(a) /\ a.obj \notin Needed
      BY <2>1 DEF Answer, Answered, FieldNames, Needed
    <2> QED
      BY <1>1, <2>2, <2>3, DropEffect DEF Served, Replaces
  <1>4. CASE ServePiece
    <2>1. /\ request # None /\ request.what = "piece" /\ request' = None /\ owed' = request
          /\ owed = None /\ UNCHANGED <<hostVars, answers>>
      BY <1>4 DEF ServePiece, Starts
    <2>2. Quiet
      <3>1. \E new, data : Device!WriteData(new, data)
        BY <1>4 DEF ServePiece
      <3>2. ~(Alive /\ Sure(17))
        <4>1. SUFFICES ASSUME Alive, Sure(17) PROVE FALSE
          OBVIOUS
        <4>2. step \in Working /\ AskedObject = "piece"
          BY <2>1, <4>1, RequestAt DEF IInv, ObjectOf, Commands, Needed
        <4>3. Place = 14
          BY <4>2, AskedAt DEF Base
        <4> QED
          BY <4>1, <4>3 DEF Sure
      <3> QED
        BY <2>1, <3>1, <3>2, WriteEffect DEF Quiet
    <2>3. UNCHANGED <<step, pos, waiting, run, endFailed>>
      BY <2>1 DEF hostVars
    <2>4. AskedObject' = AskedObject /\ Asked' = Asked /\ Alive' = Alive /\ Place' = Place
      BY <2>3, AskedRests DEF Alive
    <2>5. \A o : HasAnswer(o)' = HasAnswer(o)
      BY <2>1 DEF HasAnswer
    <2>6. ASSUME Alive', NEW o \in Needed PROVE Once(o)'
      <3>1. Once(o)
        BY <2>4, <2>6 DEF IInv, Traffic
      <3>2. ~Pending(o)' /\ (InWork(o)' => Pending(o))
        BY <2>1 DEF Pending, InWork, ObjectOf, Commands
      <3> QED
        BY <2>1, <2>3, <2>4, <2>5, <3>1, <3>2 DEF Once
    <2>7. Traffic'
      BY <2>1, <2>3, <2>6 DEF IInv, Traffic, Session
    <2>8. \A n \in {4, 5, 8, 15, 17} : Sure(n)' => Sure(n)
      BY <2>1, <2>3, <2>4 DEF Sure, HasAnswer
    <2> QED
      BY <2>1, <2>2, <2>7, <2>8, QuietIInv
  <1>5. CASE PieceServed
    <2>1. PICK a \in {[obj |-> "piece"], Abort} : Answer(a)
      BY <1>5 DEF PieceServed
    <2>2. a \in Replies /\ a.obj \in {"piece", "abort"}
      BY <2>1, AbortType DEF Abort, Replies, Objects
    <2>3. /\ owed # None /\ owed' = None /\ UNCHANGED <<request, hostVars>>
          /\ Device!DropTransfer \/ UNCHANGED deviceVars
      BY <1>5 DEF PieceServed
    <2>4. Answered(a) /\ Replaces(a)
      BY <2>1, <2>2, <2>3 DEF Answer, Answered, Replaces, InWork, Needed
    <2>5. a.obj \notin Needed \/ a.obj = "piece"
      BY <2>2 DEF Needed
    <2> QED
      BY <1>1, <2>2, <2>3, <2>4, <2>5, DropEffect
  <1>6. ASSUME Answered(Abort), Device!DropTransfer \/ UNCHANGED deviceVars,
               UNCHANGED hostVars, request' \in {request, None}, owed' = owed
        PROVE  IInv'
    <2>1. Abort.obj \notin Needed
      BY DEF Abort, Needed
    <2> QED
      BY <1>1, <1>6, <2>1, AbortType, DropEffect DEF Replaces
  <1>7. CASE Refuse
    BY <1>6, <1>7 DEF Refuse, Served, Answer, Answered
  <1>8. CASE TransferTimeout
    BY <1>6, <1>8 DEF TransferTimeout, serverVars, Answered
  <1> QED
    BY <1>2, <1>3, <1>4, <1>5, <1>7, <1>8

\* A parameter that is written is that of the session which runs, and the size
\* is not written again once the CRC is there.
LEMMA ParameterIInv ==
  ASSUME Base, IInv, ServeParameter
  PROVE  IInv'
  <1>1. /\ request # None /\ request.what \in Parameters /\ request' = None /\ owed' = owed
        /\ UNCHANGED hostVars
        /\ Device!WriteParameter
        /\ expectedSize' = IF request.what = "expectedSize" THEN Size(request.run) ELSE expectedSize
        /\ expectedCRC' = IF request.what = "expectedCRC" THEN Sessions[request.run].image ELSE expectedCRC
        /\ Answer(Done)
    BY DEF ServeParameter, Idle, Starts, Served
  <1>2. UNCHANGED <<state, imageCRC, flash, swapPending, installed>>
    BY <1>1 DEF Device!WriteParameter, Device!statusVars, Device!countVars, Device!flashVars, Device!swapVars
  <1>3. /\ UNCHANGED <<step, pos, waiting, run, endFailed>>
        /\ request.what \in {"expectedSize", "expectedCRC"} => request.run = run
    BY <1>1 DEF hostVars, IInv, Traffic, ObjectOf, Commands, Needed
  <1>4. Alive' = Alive /\ Size(run)' = Size(run) /\ Session' = Session
    BY <1>3 DEF Alive, Size, Session
  <1>5. Done \in Replies /\ Done.obj = request.what /\ ObjectOf(request.what) = request.what
    BY <1>1 DEF Done, ObjectOf, Replies, Objects, Parameters, Commands
  <1>6. Answered(Done)
    BY <1>1 DEF Answer, Answered
  <1>7. Traffic'
    <2>1. Replaces(Done)
      BY <1>1, <1>5 DEF Replaces, Pending
    <2> QED
      BY <1>1, <1>5, <1>6, <2>1, AnswerTraffic DEF Base, IInv
  <1>8. ASSUME Alive, request.what = "expectedSize" PROVE Place = 4
    BY <1>1, <1>5, <1>8, RequestAt, AskedAt DEF Base, IInv, Needed
  <1>9. ASSUME Alive, request.what = "expectedCRC" PROVE Place = 5
    BY <1>1, <1>5, <1>9, RequestAt, AskedAt DEF Base, IInv, Needed
  <1>10. ASSUME NEW n \in {4, 5, 8, 15, 17}, Alive, Sure(n)'
         PROVE  Sure(n) \/ (n = 4 /\ request.what = "expectedSize") \/ (n = 5 /\ request.what = "expectedCRC")
    <2>1. SUFFICES ASSUME Place = n, waiting, Done.obj = AskedObject
                   PROVE  (n = 4 /\ request.what = "expectedSize") \/ (n = 5 /\ request.what = "expectedCRC")
      BY <1>1, <1>5, <1>6, <1>10, AnswerSure DEF Base
    <2>2. step \in Working
      BY <2>1 DEF Base, Script
    <2>3. request.what # "command"
      BY <1>1 DEF Parameters
    <2> QED
      BY <1>5, <2>1, <2>2, <2>3, AskedAt DEF Base
  <1>11. Announced'
    <2>1. SUFFICES ASSUME Alive
                   PROVE  /\ Sure(4)' => expectedSize' \in {0, Size(run)}
                          /\ Sure(5)' => \/ expectedSize' = 0
                                         \/ expectedSize' = Size(run) /\ expectedCRC' = Session.image
                          /\ Sure(8)' /\ state' = "RECV" => expectedSize' # 0
      BY <1>4 DEF Announced
    <2>2. Sure(4)' => expectedSize' \in {0, Size(run)}
      BY <1>1, <1>3, <1>10, <2>1 DEF IInv, Announced
    <2>3. ASSUME Sure(5)'
          PROVE  expectedSize' = 0 \/ (expectedSize' = Size(run) /\ expectedCRC' = Session.image)
      <3>1. CASE request.what = "expectedCRC"
        <4>1. Sure(4)
          BY <1>9, <2>1, <3>1 DEF Sure
        <4> QED
          BY <1>1, <1>3, <2>1, <3>1, <4>1 DEF IInv, Announced, Session
      <3>2. CASE request.what # "expectedCRC"
        <4>1. Sure(5)
          BY <1>10, <2>1, <2>3, <3>2
        <4>2. request.what # "expectedSize"
          BY <1>8, <2>1, <4>1 DEF Sure
        <4> QED
          BY <1>1, <2>1, <3>2, <4>1, <4>2 DEF IInv, Announced
      <3> QED
        BY <3>1, <3>2
    <2>4. ASSUME Sure(8)', state' = "RECV" PROVE expectedSize' # 0
      <3>1. Sure(8)
        BY <1>10, <2>1, <2>4
      <3>2. request.what # "expectedSize"
        BY <1>8, <2>1, <3>1 DEF Sure
      <3> QED
        BY <1>1, <1>2, <2>1, <2>4, <3>1, <3>2 DEF IInv, Announced
    <2> QED
      BY <2>2, <2>3, <2>4
  <1>12. Confirmed'
    <2>1. Alive /\ Sure(15)' => Sure(15)
      BY <1>10
    <2>2. Device!StagePrefix(Size(run))' = Device!StagePrefix(Size(run))
      BY <1>2, <1>4 DEF Device!StagePrefix
    <2> QED
      BY <1>2, <1>4, <2>1, <2>2 DEF IInv, Confirmed
  <1>13. ApplyDue'
    BY <1>1 DEF ApplyDue
  <1>14. Installing'
    <2>1. Alive /\ Sure(17)' => Sure(17)
      BY <1>10
    <2> QED
      BY <1>2, <1>3, <1>4, <2>1 DEF IInv, Installing, InstalledWhole
  <1> QED
    BY <1>7, <1>11, <1>12, <1>13, <1>14 DEF IInv

\* A command that is refused leaves an error and nothing else.
LEMMA RefusedIInv ==
  ASSUME Base, IInv, Device!SwapSource, ServeCommand,
         Device!StartRefused \/ Device!EndRefused \/ Device!ApplyRefused
  PROVE  IInv'
  <1>1. /\ request # None /\ request.what \in Commands /\ request' = None /\ owed' = owed
        /\ UNCHANGED hostVars
    BY DEF ServeCommand, Idle, Starts, Served
  <1>2. UNCHANGED <<expectedSize, expectedCRC, swapPending, installed, flash, imageCRC>> /\ state' = "ERROR"
    BY RefusedEffect
  <1>3. Answered(Abort) /\ Abort.obj = "abort"
    BY <1>2 DEF ServeCommand, Answer, Answered, Abort
  <1>4. ObjectOf(request.what) = "command"
    BY <1>1 DEF ObjectOf
  <1>5. Traffic'
    BY <1>1, <1>3, AbortType, AnswerTraffic DEF Base, IInv, Replaces, Needed
  <1>6. ASSUME NEW n \in {4, 5, 8, 15, 17}, Alive, Sure(n)' PROVE Sure(n)
    <2>1. SUFFICES ASSUME waiting, AskedObject = "abort" PROVE FALSE
      BY <1>1, <1>3, <1>6, AbortType, AnswerSure DEF Base
    <2> QED
      BY <2>1, AskedAt DEF Base, Script
  <1>7. ~(Alive /\ Sure(17))
    <2>1. SUFFICES ASSUME Alive, Sure(17) PROVE FALSE
      OBVIOUS
    <2>2. step \in Working /\ AskedObject = "command" /\ ~HasAnswer(AskedObject)
      BY <1>1, <1>4, <2>1, RequestAt DEF IInv, Needed
    <2>3. Place \in {8, 15, 17}
      BY <2>2, AskedAt DEF Base
    <2> QED
      BY <2>1, <2>2, <2>3 DEF Sure
  <1>8. Quiet
    BY <1>1, <1>2, <1>7 DEF Quiet
  <1> QED
    BY <1>1, <1>5, <1>6, <1>8, QuietIInv

\* A command that is carried out: it is the one the host asks for, or the session
\* has failed.
LEMMA CommandAt ==
  ASSUME Base, IInv, Alive, request # None, request.what \in Commands
  PROVE  /\ Place \in {8, 15, 17} /\ waiting /\ ~HasAnswer(AskedObject)
         /\ Place = 8 <=> request.what = "start"
         /\ Place = 15 <=> request.what = "end"
         /\ Place = 17 <=> request.what = "apply"
  <1>1. ObjectOf(request.what) = "command"
    BY DEF ObjectOf
  <1>2. step \in Working /\ waiting /\ request = Asked /\ AskedObject = "command" /\ ~HasAnswer(AskedObject)
    BY <1>1, RequestAt DEF IInv, Needed
  <1>3. Place \in {8, 15, 17}
    BY <1>2, AskedAt DEF Base
  <1>4. /\ Place = 8 => request.what = "start"
        /\ Place = 15 => request.what = "end"
        /\ Place = 17 => request.what = "apply"
    BY <1>2, AskedAt DEF Base
  <1> QED
    BY <1>2, <1>3, <1>4

\* The answer to a command, and what it says of the exchanges.
LEMMA CommandAnswer ==
  ASSUME Base, IInv, ServeCommand
  PROVE  /\ request # None /\ request.what \in Commands /\ request' = None
         /\ UNCHANGED <<step, pos, waiting, run, endFailed>>
         /\ Traffic'
         /\ \A n \in {4, 5, 8, 15, 17} : Alive /\ Sure(n)' =>
              Sure(n) \/ (Place = n /\ state' # "ERROR")
  <1>1. /\ request # None /\ request.what \in Commands /\ request' = None /\ owed' = owed
        /\ UNCHANGED hostVars
    BY DEF ServeCommand, Idle, Starts, Served
  <1>2. PICK a \in {Abort, Done} : Answer(a) /\ (state' = "ERROR" => a = Abort)
    BY DEF ServeCommand
  <1>3. Abort.obj = "abort" /\ Done.obj = "command" /\ ObjectOf(request.what) = "command"
    BY <1>1 DEF Abort, Done, ObjectOf
  <1>4. a \in Replies /\ Answered(a)
    BY <1>1, <1>2, AbortType DEF Done, ObjectOf, Replies, Objects, Answer, Answered
  <1>5. Traffic'
    <2>1. Replaces(a)
      BY <1>1, <1>2, <1>3 DEF Replaces, Pending, Needed
    <2> QED
      BY <1>1, <1>4, <2>1, AnswerTraffic DEF Base, IInv
  <1>6. ASSUME NEW n \in {4, 5, 8, 15, 17}, Alive, Sure(n)'
        PROVE  Sure(n) \/ (Place = n /\ state' # "ERROR")
    <2>1. SUFFICES ASSUME Place = n, waiting, a.obj = AskedObject PROVE state' # "ERROR"
      BY <1>1, <1>4, <1>6, AnswerSure DEF Base
    <2>2. AskedObject # "abort"
      BY <2>1, AskedAt DEF Base, Script
    <2> QED
      BY <1>2, <1>3, <2>1, <2>2
  <1> QED
    BY <1>1, <1>5, <1>6 DEF hostVars

LEMMA StartIInv ==
  ASSUME Base, IInv, ServeCommand, Device!Start, request.what = "start"
  PROVE  IInv'
  <1>1. /\ request # None /\ request.what \in Commands /\ request' = None
        /\ UNCHANGED <<step, pos, waiting, run, endFailed>> /\ Traffic'
    BY CommandAnswer
  <1>2. /\ UNCHANGED <<expectedSize, expectedCRC>> /\ ~swapPending' /\ installed' = NoImage
        /\ state' = "RECV" => expectedSize # 0
    BY DEF Device!Start, Device!ctlVars, Device!ResetStatus, Device!PrepareStage, Device!SizeFits,
      Device!SetError
  <1>3. Alive' = Alive /\ Size(run)' = Size(run) /\ Session' = Session
    BY <1>1 DEF Alive, Size, Session
  <1>4. Alive => Place = 8
    BY <1>1, CommandAt
  <1>5. Alive => ~Sure(15)' /\ ~Sure(17)' /\ Sure(4) /\ Sure(5)
    BY <1>1, <1>4, AskedRests DEF Sure
  <1>6. Announced'
    BY <1>2, <1>3, <1>5 DEF IInv, Announced
  <1>7. Confirmed'
    BY <1>3, <1>5 DEF Confirmed
  <1>8. ApplyDue'
    BY <1>1 DEF ApplyDue
  <1>9. Installing'
    BY <1>2, <1>3, <1>5 DEF Installing, InstalledWhole
  <1> QED
    BY <1>1, <1>6, <1>7, <1>8, <1>9 DEF IInv

\* What END has accepted is the image of the session that runs.
LEMMA EndIInv ==
  ASSUME Base, IInv, Device!SwapSource, Device!StagedImage', ServeCommand, Device!End,
         request.what = "end"
  PROVE  IInv'
  <1>1. /\ request # None /\ request.what \in Commands /\ request' = None
        /\ UNCHANGED <<step, pos, waiting, run, endFailed>> /\ Traffic'
    BY CommandAnswer
  <1>2. /\ UNCHANGED <<expectedSize, expectedCRC, swapPending, installed>>
        /\ state = "RECV" /\ state' \in {"REBOOT", "ERROR"} /\ ~swapPending
    BY DEF Device!End, Device!ctlVars, Device!swapVars, Device!Verdict, Device!SetError, Device!SwapSource
  <1>3. Alive' = Alive /\ Size(run)' = Size(run) /\ Session' = Session
    BY <1>1 DEF Alive, Size, Session
  <1>4. Alive => Place = 15
    BY <1>1, CommandAt
  <1>5. Alive => ~Sure(17)' /\ Sure(4) /\ Sure(5) /\ Sure(8)
    BY <1>1, <1>4, AskedRests DEF Sure
  <1>6. Announced'
    BY <1>2, <1>3, <1>5 DEF IInv, Announced
  <1>7. Confirmed'
    <2>1. SUFFICES ASSUME Alive, Sure(15)'
                   PROVE  /\ Device!StagePrefix(Size(run))' = Session.image
                          /\ imageCRC' = Session.image
      BY <1>2, <1>3 DEF Confirmed
    <2>2. ~Sure(15)
      BY <1>1, <1>4, <2>1, CommandAt DEF Sure
    <2>3. state' # "ERROR"
      BY <2>1, <2>2, CommandAnswer
    <2>4. /\ Device!SizeMatches /\ Device!CrcMatches
          /\ imageCRC' = crc /\ bytesWritten' = bytesReceived /\ crc' = crc
      BY <2>3 DEF Device!End, Device!Verdict, Device!SetError
    <2>5. expectedSize = Size(run) /\ expectedCRC = Session.image /\ Size(run) # 0
      BY <1>2, <1>5, <2>1 DEF IInv, Announced
    <2>6. bytesReceived = Size(run)
      BY <2>4, <2>5 DEF Device!SizeMatches
    <2>7. Session.image # <<>>
      BY <2>5 DEF Size, Session
    <2>8. crc = Session.image
      BY <2>4, <2>5, <2>7 DEF Device!CrcMatches
    <2>9. state' = "REBOOT"
      BY <1>2, <2>3
    <2>10. Device!StagePrefix(bytesWritten)' = crc'
      BY <2>9 DEF Device!StagedImage, Device!ImageInFlash
    <2>11. Device!StagePrefix(Size(run))' = Device!StagePrefix(bytesWritten)'
      BY <1>3, <2>4, <2>6 DEF Device!StagePrefix
    <2> QED
      BY <2>4, <2>8, <2>10, <2>11
  <1>8. ApplyDue'
    BY <1>1 DEF ApplyDue
  <1>9. Installing'
    BY <1>1, <1>2, <1>3, <1>5 DEF IInv, Installing, InstalledWhole
  <1> QED
    BY <1>1, <1>6, <1>7, <1>8, <1>9 DEF IInv

\* What APPLY lets be installed was confirmed, by a session that may apply it.
LEMMA ApplyIInv ==
  ASSUME Base, IInv, ServeCommand, Device!Apply, request.what = "apply"
  PROVE  IInv'
  <1>1. /\ request # None /\ request.what \in Commands /\ request' = None
        /\ UNCHANGED <<step, pos, waiting, run, endFailed>> /\ Traffic'
    BY CommandAnswer
  <1>2. /\ UNCHANGED <<expectedSize, expectedCRC, installed, state, imageCRC, flash>>
        /\ state = "REBOOT" /\ swapPending'
    BY DEF Device!Apply, Device!ApplyAllowed, Device!ctlVars, Device!statusVars, Device!countVars,
      Device!flashVars
  <1>3. Alive' = Alive /\ Size(run)' = Size(run) /\ Session' = Session
    BY <1>1 DEF Alive, Size, Session
  <1>4. Session.apply /\ imageCRC = Session.image
    BY <1>1, <1>2 DEF IInv, ApplyDue
  <1>5. Alive => Sure(4) /\ Sure(5) /\ Sure(8) /\ Sure(15)
    BY <1>1, CommandAt DEF Sure
  <1>6. Announced'
    BY <1>2, <1>3, <1>5 DEF IInv, Announced
  <1>7. Confirmed'
    <2>1. Device!StagePrefix(Size(run))' = Device!StagePrefix(Size(run))
      BY <1>2, <1>3 DEF Device!StagePrefix
    <2> QED
      BY <1>2, <1>3, <1>5, <2>1 DEF IInv, Confirmed
  <1>8. ApplyDue'
    BY <1>1 DEF ApplyDue
  <1>9. Installing'
    <2>1. run \in 1 .. run /\ run' = run
      BY <1>1 DEF Base, Script
    <2>2. \E r \in 1 .. run' : Sessions[r].apply /\ imageCRC' = Sessions[r].image
      BY <1>2, <1>4, <2>1 DEF Session
    <2>3. InstalledWhole'
      BY <1>1, <1>2 DEF IInv, Installing, InstalledWhole
    <2> QED
      BY <1>2, <1>3, <1>4, <2>2, <2>3 DEF Installing
  <1> QED
    BY <1>1, <1>6, <1>7, <1>8, <1>9 DEF IInv

\* Without a step of host or server what was sure stays so.
LEMMA RestSure ==
  ASSUME UNCHANGED <<hostVars, answers>>
  PROVE  /\ UNCHANGED <<step, pos, waiting, run, endFailed>> /\ Alive' = Alive
         /\ \A n : Sure(n)' => Sure(n)
  <1>1. UNCHANGED <<step, pos, waiting, run, endFailed>>
    BY DEF hostVars
  <1> QED
    BY <1>1, AskedRests DEF Sure, HasAnswer, Alive

LEMMA RestTraffic ==
  ASSUME Base, Traffic, UNCHANGED <<hostVars, answers>>,
         request' \in {request, None}, owed' \in {owed, None}
  PROVE  Traffic'
  BY AbortType, AnswerTraffic DEF Base, Answered, Replaces, Needed, Abort

\* The installer is given the image of a session that asked for it.
LEMMA InstallIInv ==
  ASSUME Base, IInv, Device!SwapSource, Device!ProcessPending,
         UNCHANGED <<hostVars, serverVars, answers>>
  PROVE  IInv'
  <1>1. UNCHANGED <<request, owed>>
    BY DEF serverVars
  <1>2. Traffic' /\ UNCHANGED <<step, pos, waiting, run, endFailed>> /\ Alive' = Alive
    BY <1>1, RestTraffic, RestSure DEF IInv
  <1>3. \A n : Sure(n)' => Sure(n)
    BY RestSure
  <1>4. Size(run)' = Size(run) /\ Session' = Session
    BY <1>2 DEF Size, Session
  <1>5. /\ UNCHANGED <<expectedSize, expectedCRC, state, imageCRC, flash>>
        /\ swapPending /\ ~swapPending' /\ installed' = Device!StagePrefix(bytesWritten)
    BY DEF Device!ProcessPending, Device!ctlVars, Device!statusVars, Device!countVars, Device!flashVars
  <1>6. installed' = imageCRC
    BY <1>5 DEF Device!SwapSource, Device!ImageInFlash
  <1>7. Announced'
    BY <1>2, <1>3, <1>4, <1>5 DEF IInv, Announced
  <1>8. Confirmed'
    <2>1. Device!StagePrefix(Size(run))' = Device!StagePrefix(Size(run))
      BY <1>4, <1>5 DEF Device!StagePrefix
    <2> QED
      BY <1>2, <1>3, <1>4, <1>5, <2>1 DEF IInv, Confirmed
  <1>9. ApplyDue'
    BY <1>1, <1>4, <1>5 DEF IInv, ApplyDue
  <1>10. Installing'
    <2>1. InstalledWhole'
      BY <1>2, <1>5, <1>6 DEF IInv, Installing, InstalledWhole
    <2>2. ASSUME Alive, Session.apply, Sure(17)', state # "IDLE" PROVE installed' = Session.image
      BY <1>3, <1>5, <1>6, <2>2 DEF IInv, Installing
    <2> QED
      BY <1>2, <1>4, <1>5, <2>1, <2>2 DEF Installing
  <1> QED
    BY <1>2, <1>7, <1>8, <1>9, <1>10 DEF IInv

LEMMA WorkIInv ==
  ASSUME Base, IInv, Device!SwapSource, busy => state = "RECV", Work
  PROVE  IInv'
  <1>1. UNCHANGED <<hostVars, serverVars, answers>> /\ UNCHANGED <<request, owed>>
    BY DEF Work, serverVars
  <1>2. Traffic' /\ \A n : Sure(n)' => Sure(n)
    BY <1>1, RestTraffic, RestSure DEF IInv
  <1>3. CASE Device!StageByte \/ Device!FinishData
    <2>1. Quiet
      BY <1>1, <1>3, LoopEffect DEF Quiet
    <2> QED
      BY <1>1, <1>2, <2>1, QuietIInv
  <1>4. CASE Device!Tick
    <2>1. Quiet
      BY <1>1, <1>4, TickEffect DEF Quiet
    <2> QED
      BY <1>1, <1>2, <2>1, QuietIInv
  <1>5. CASE Device!ProcessPending
    BY <1>1, <1>5, InstallIInv
  <1> QED
    BY <1>3, <1>4, <1>5 DEF Work

\* A restart takes the size from the device, not the image from flash.
LEMMA RestartIInv ==
  ASSUME Base, IInv, Restart
  PROVE  IInv'
  <1>1. UNCHANGED <<hostVars, answers>> /\ request' = None /\ owed' = None
    BY DEF Restart
  <1>2. Traffic' /\ UNCHANGED <<step, pos, waiting, run, endFailed>> /\ Alive' = Alive
    BY <1>1, RestTraffic, RestSure DEF IInv
  <1>3. \A n : Sure(n)' => Sure(n)
    BY <1>1, RestSure
  <1>4. Size(run)' = Size(run) /\ Session' = Session
    BY <1>2 DEF Size, Session
  <1>5. /\ expectedSize' = 0 /\ state' = "IDLE" /\ flash' = flash
        /\ ~swapPending' /\ installed' = NoImage
    BY DEF Restart, Device!Restart, Device!ResetStatus
  <1>6. Announced'
    BY <1>5 DEF Announced
  <1>7. Confirmed'
    <2>1. Device!StagePrefix(Size(run))' = Device!StagePrefix(Size(run))
      BY <1>4, <1>5 DEF Device!StagePrefix
    <2> QED
      BY <1>2, <1>3, <1>4, <1>5, <2>1 DEF IInv, Confirmed
  <1>8. ApplyDue'
    BY <1>1 DEF ApplyDue
  <1>9. Installing'
    BY <1>5 DEF Installing, InstalledWhole
  <1> QED
    BY <1>2, <1>6, <1>7, <1>8, <1>9 DEF IInv

\* A session that begins when nothing is on its way.
LEMMA AgainIInv ==
  ASSUME Base, IInv, RunAgain, Settled
  PROVE  IInv'
  <1>1. /\ step \in {"success", "failed"} /\ run < Len(Sessions) /\ run' = run + 1
        /\ step' \in {"identity", "prepare"} /\ pos' = 1 /\ ~endFailed'
        /\ UNCHANGED <<request, owed, answers, waiting>>
        /\ UNCHANGED <<expectedSize, expectedCRC, state, imageCRC, flash, swapPending, installed>>
    BY DEF RunAgain, Opening, GoTo, NewSession, serverVars, deviceVars
  <1>2. ~waiting' /\ run \in Nat
    BY <1>1 DEF Base, Script, Working
  <1>3. request' = None /\ owed' = None /\ answers' = <<>>
    BY <1>1 DEF Settled
  <1>4. Traffic'
    <2>1. ASSUME NEW o PROVE Once(o)'
      BY <1>2, <1>3 DEF Once, Pending, InWork, HasAnswer
    <2> QED
      BY <1>1, <1>3, <2>1 DEF Traffic
  <1>5. \A n \in {4, 5, 8, 15, 17} : ~Sure(n)'
    BY <1>1 DEF Sure, Place
  <1>6. Announced' /\ Confirmed'
    BY <1>5 DEF Announced, Confirmed
  <1>7. ApplyDue'
    BY <1>3 DEF ApplyDue
  <1>8. Installing'
    <2>1. \A r \in 1 .. run : r \in 1 .. run'
      BY <1>1, <1>2
    <2>2. swapPending' => \E r \in 1 .. run' : Sessions[r].apply /\ imageCRC' = Sessions[r].image
      BY <1>1, <2>1 DEF IInv, Installing
    <2>3. InstalledWhole'
      BY <1>1, <2>1 DEF IInv, Installing, InstalledWhole
    <2> QED
      BY <1>5, <2>2, <2>3 DEF Installing
  <1> QED
    BY <1>4, <1>6, <1>7, <1>8 DEF IInv

\* The next session of a run of the program: of the one before, which succeeded,
\* nothing is on its way that matters.
LEMMA ContinueIInv ==
  ASSUME Base, IInv, NextImage
  PROVE  IInv'
  <1>1. /\ step = "success" /\ run < Len(Sessions) /\ run' = run + 1
        /\ step' = "prepare" /\ pos' = 1 /\ ~endFailed'
        /\ UNCHANGED <<request, owed, answers, waiting>>
        /\ UNCHANGED <<expectedSize, expectedCRC, state, imageCRC, flash, swapPending, installed>>
    BY DEF NextImage, GoTo, NewSession, serverVars, deviceVars
  <1>2. ~waiting /\ ~waiting' /\ run \in Nat
    BY <1>1 DEF Base, Script, Working
  <1>3. Alive
    BY <1>1 DEF IInv, Traffic, Alive
  <1>4. \A o \in Needed : ~Pending(o) /\ ~InWork(o) /\ ~HasAnswer(o)
    BY <1>2, <1>3 DEF IInv, Traffic, Once
  <1>5. Traffic'
    <2>1. ASSUME NEW o \in Needed PROVE Once(o)'
      BY <1>1, <1>2, <1>4 DEF Once, Pending, InWork, HasAnswer
    <2>2. owed' = None /\ (request' # None => ObjectOf(request'.what) \notin Needed)
      BY <1>1, <1>4 DEF Pending, InWork, Needed
    <2> QED
      BY <1>1, <2>1, <2>2 DEF Traffic
  <1>6. \A n \in {4, 5, 8, 15, 17} : ~Sure(n)'
    BY <1>1 DEF Sure, Place
  <1>7. Announced' /\ Confirmed'
    BY <1>6 DEF Announced, Confirmed
  <1>8. ApplyDue'
    BY <1>1, <1>4 DEF ApplyDue, Pending, ObjectOf, Commands, Needed
  <1>9. Installing'
    <2>1. \A r \in 1 .. run : r \in 1 .. run'
      BY <1>1, <1>2
    <2>2. swapPending' => \E r \in 1 .. run' : Sessions[r].apply /\ imageCRC' = Sessions[r].image
      BY <1>1, <2>1 DEF IInv, Installing
    <2>3. InstalledWhole'
      BY <1>1, <2>1 DEF IInv, Installing, InstalledWhole
    <2> QED
      BY <1>6, <2>2, <2>3 DEF Installing
  <1> QED
    BY <1>5, <1>7, <1>8, <1>9 DEF IInv

LEMMA InitIInv == Init => IInv
  <1> SUFFICES ASSUME Init PROVE IInv
    OBVIOUS
  <1>1. /\ request = None /\ owed = None /\ answers = <<>>
        /\ step \in {"identity", "prepare"} /\ pos = 1 /\ ~waiting /\ ~endFailed
    BY DEF Init, Opening
  <1>2. ~swapPending /\ installed = NoImage
    BY DEF Init, Device!Init
  <1>3. \A n \in {4, 5, 8, 15, 17} : ~Sure(n)
    BY <1>1 DEF Sure, Place
  <1>4. \A o : Once(o)
    BY <1>1 DEF Once, Pending, InWork, HasAnswer
  <1> QED
    BY <1>1, <1>2, <1>3, <1>4 DEF IInv, Traffic, Announced, Confirmed, ApplyDue, Installing, InstalledWhole

\* What is known of the device in every session.
Known == Base /\ Device!TypeOK /\ Device!StagedImage /\ Device!SwapSource /\ (busy => state = "RECV")

LEMMA NextIInv ==
  ASSUME Known, Known', IInv, [Next]_vars, RunAgain => Settled
  PROVE  IInv'
  <1> USE DEF Known
  <1>1. CASE HostStep
    BY <1>1, HostIInv
  <1>2. CASE RunAgain
    BY <1>2, AgainIInv
  <1>7. CASE NextImage
    BY <1>7, ContinueIInv
  <1>3. CASE Server
    <2>1. CASE ServeParameter
      BY <2>1, ParameterIInv
    <2>2. CASE ServeCommand
      <3>1. \/ Device!Start /\ request.what = "start"
            \/ Device!End /\ request.what = "end"
            \/ Device!Apply /\ request.what = "apply"
            \/ Device!StartRefused \/ Device!EndRefused \/ Device!ApplyRefused
        <4>1. request.what \in Commands
          BY <2>2 DEF ServeCommand, Idle, Starts
        <4> QED
          BY <2>2, <4>1 DEF ServeCommand, Commands
      <3> QED
        BY <2>2, <3>1, StartIInv, EndIInv, ApplyIInv, RefusedIInv
    <2> QED
      BY <1>3, <2>1, <2>2, QuietServer DEF Server
  <1>4. CASE Work
    BY <1>4, WorkIInv
  <1>5. CASE Restart
    BY <1>5, RestartIInv
  <1>6. CASE UNCHANGED vars
    <2>1. UNCHANGED <<hostVars, serverVars, answers, deviceVars>> /\ UNCHANGED <<request, owed>>
      BY <1>6 DEF vars, serverVars
    <2>2. Traffic' /\ \A n : Sure(n)' => Sure(n)
      BY <2>1, RestTraffic, RestSure DEF IInv
    <2>3. Quiet
      BY <2>1, DropEffect DEF Quiet
    <2> QED
      BY <2>1, <2>2, <2>3, QuietIInv
  <1> QED
    BY <1>1, <1>2, <1>3, <1>4, <1>5, <1>6, <1>7 DEF Next

----------------------------------------------------------------------------
(* A success that is reported is true                                      *)

\* The user waits until nothing of a session is on its way before running the
\* program again.
Patient == [][RunAgain => Settled]_vars

THEOREM Invariance == UseFlash => (Spec /\ Patient => []IInv)
  <1> SUFFICES ASSUME UseFlash PROVE Spec /\ Patient => []IInv
    OBVIOUS
  <1>1. Spec => []Known
    <2>1. Ota!Spec => []Ota!IInv /\ []Ota!TypeOK
      BY DeviceAssumptions, Ota!Invariance, Ota!TypeCorrect, PTL
    <2>2. Base /\ Ota!IInv /\ Ota!TypeOK => Known
      BY SameTypeOK, SameStagedImage, SameSwapSource DEF Known, Ota!IInv, Ota!InLoop
    <2> QED
      BY <2>1, <2>2, BaseHolds, PTL
  <1>2. Known /\ Known' /\ IInv /\ [Next]_vars /\ [RunAgain => Settled]_vars => IInv'
    <2>1. Known /\ UNCHANGED vars => ~RunAgain
      BY DEF Known, Base, Script, RunAgain, vars, hostVars
    <2> QED
      BY <2>1, NextIInv
  <1> QED
    BY <1>1, <1>2, InitIInv, PTL DEF Spec, Patient

\* When the host reports success its image is in the staging area of the device,
\* byte for byte, whatever was lost, late or repeated and whenever power failed.
THEOREM ReportedImageStaged == UseFlash => (Spec /\ Patient => []SuccessStaged)
  <1>1. IInv => SuccessStaged
    BY DEF IInv, Traffic, Confirmed, Alive, Sure, Place, SuccessStaged
  <1> QED
    BY <1>1, Invariance, PTL

\* What is installed was sent by one session that asked for it, whole.
THEOREM OnlyWholeImages == UseFlash => (Spec /\ Patient => []InstalledWhole)
  <1>1. IInv => InstalledWhole
    BY DEF IInv, Installing
  <1> QED
    BY <1>1, Invariance, PTL

\* After a session with APPLY that succeeded the installation is due or done,
\* unless the device has restarted.
THEOREM ReportedImageApplied == UseFlash => (Spec /\ Patient => []SuccessApplied)
  <1>1. IInv => SuccessApplied
    BY DEF IInv, Traffic, Installing, Alive, Sure, Place, SuccessApplied
  <1> QED
    BY <1>1, Invariance, PTL
=============================================================================
