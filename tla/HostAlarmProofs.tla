--------------------------- MODULE HostAlarmProofs ---------------------------
(***************************************************************************)
(* A session of HostSession does not fail if in its run of the program     *)
(* nothing is lost, late or refused by the flash, power stays on and the   *)
(* user lets it go on (NoFalseAlarm), provided that it begins with the     *)
(* read of the identity.  An older run may have left a transfer open: the  *)
(* first request then ends it, and the answer to that request may be an    *)
(* abort, which only the read of the identity takes lightly.  From then on *)
(* host, server and device are in step: at every place of the script the   *)
(* device has done exactly what was asked so far.                          *)
(***************************************************************************)
EXTENDS HostSessionProofs

----------------------------------------------------------------------------
(* The inductive invariant                                                 *)

\* The session is one for this target, and nothing went wrong in it so far.
Healthy == ~trouble /\ Session.target = "AT32" /\ Device!SizeFits(Size(run))

\* What the status says of the whole image, field by field.
Final(i) ==
  CASE i = 1 -> "REBOOT"
    [] i = 2 -> "NONE"
    [] i = 3 -> Size(run)
    [] i = 4 -> Size(run)
    [] OTHER -> Session.image

\* Of the exchange there is the request, or the piece in work, or the answer; to
\* the read of the identity that may be an abort.
Exchange ==
  /\ request # None => request = Asked /\ owed = None /\ answers = <<>>
  /\ owed # None => owed = Asked /\ step = "data" /\ answers = <<>>
  /\ answers # <<>> => /\ Len(answers) = 1
                       /\ \/ answers[1].obj = AskedObject
                          \/ step = "identity" /\ answers[1].obj = "abort"
                       /\ step = "poll" => answers[1].value = Final(pos)
  /\ waiting <=> request # None \/ owed # None \/ answers # <<>>

\* The host follows its script.
Orderly ==
  /\ Exchange
  /\ step \notin {"diagnose", "failed"} /\ ~endFailed
  /\ step = "poll" => \A i \in 1 .. pos - 1 : seen[i] = Final(i)

\* The exchange at place n of the script has had its effect on the device.
Effect(n) == Place > n \/ (Place = n /\ answers # <<>>)

\* The end of the piece at pos, and how much of the image the device has taken.
After == Shorter(pos + PieceBytes, Size(run))

Taken ==
  CASE step \in {"identity", "prepare"} -> 0
    [] step = "data"    -> IF ~waiting \/ request # None THEN pos ELSE After
    [] OTHER            -> Size(run)

Front(n) == SubSeq(Session.image, 1, n)

\* The parameters of the session.
Informed ==
  /\ Effect(1) => target = "AT32"
  /\ Effect(2) => imageType = "KERNEL"
  /\ Effect(4) => expectedSize = Size(run)
  /\ Effect(5) => expectedCRC = Session.image

\* Between the first piece and the last the transfer is open.
Underway == step = "data" /\ Taken \notin {0, Size(run)}

\* Until the first request of a run is answered, a transfer that an older run has
\* left may be open.
MayBeOpen == step = "identity" /\ pos = 1 /\ answers = <<>>

Streaming == IF MayBeOpen THEN ~busy ELSE open <=> Underway \/ busy

\* From START to END the device receives: it has what was sent, in order, and the
\* rest of the stage is erased.
Collecting ==
  Effect(8) /\ ~Effect(15) =>
    /\ state = "RECV" /\ prepared /\ crc = Front(Taken)
    /\ open => ~session
    /\ IF busy
       THEN /\ nextOffset = pos /\ dataOffset = pos
            /\ Ota!Fresh(dataOffset + idx, Size(run))
       ELSE /\ nextOffset = Taken /\ (open => dataOffset = Taken)
            /\ Ota!Fresh(nextOffset, Size(run))

\* From END on it shows the whole image.
Finished ==
  Effect(15) =>
    /\ state = "REBOOT" /\ lastError = "NONE" /\ imageCRC = Session.image
    /\ bytesReceived = Size(run) /\ bytesWritten = Size(run)

InStep == Orderly /\ Informed /\ Streaming /\ Collecting /\ Finished

\* The data handler works on a piece the server owes an answer to.
WorkOwed == busy => owed # None

----------------------------------------------------------------------------
(* The script                                                              *)

\* What the host asks for at each place of its script.
LEMMA ScriptPlace ==
  ASSUME Script, step \in Working
  PROVE  /\ Place \in 0 .. 18
         /\ step \in Looking <=> Place = 0
         /\ Place = 1 <=> Asked.what = "target"
         /\ Place = 2 <=> Asked.what = "imageType"
         /\ Place = 4 <=> Asked.what = "expectedSize"
         /\ Place = 5 <=> Asked.what = "expectedCRC"
         /\ Place = 8 <=> Asked.what = "start"
         /\ Place = 14 <=> Asked.what = "piece"
         /\ Place = 15 <=> Asked.what = "end"
         /\ Place = 17 <=> Asked.what = "apply"
         /\ Asked.what \in {"sessionId"} \cup Optional \cup LookNames => Place \in {0, 3, 6, 7}
         /\ Asked.what \in FieldNames => Place \in {9, 10, 11, 12, 13, 16, 18}
         /\ Place \in 1 .. 13 <=> step = "prepare"
  <1> USE DEF Script, Asked, Place, Looking
  <1>1. CASE step = "prepare"
    <2>1. pos \in 1 .. 13 /\ Asked.what = Preparation[pos] /\ Place = pos
      BY <1>1
    <2>2. CASE pos \in 1 .. 8
      <3>1. pos = 1 \/ pos = 2 \/ pos = 3 \/ pos = 4 \/ pos = 5 \/ pos = 6 \/ pos = 7 \/ pos = 8
        BY <2>2
      <3> HIDE DEF Place, Asked
      <3> QED
        BY <1>1, <2>1, <3>1, ScriptText DEF FieldNames, Optional, LookNames
    <2>3. CASE pos \in 9 .. 13
      <3>1. Preparation[pos] = Fields[pos - 8] /\ pos - 8 \in 1 .. 5
        BY <2>3, ScriptText
      <3>2. Preparation[pos] \in FieldNames
        BY <3>1, ScriptText DEF FieldNames
      <3>3. pos = 9 \/ pos = 10 \/ pos = 11 \/ pos = 12 \/ pos = 13
        BY <2>3
      <3> HIDE DEF Place, Asked
      <3> QED
        BY <1>1, <2>1, <3>2, <3>3 DEF FieldNames, Optional, LookNames
    <2> QED
      BY <2>1, <2>2, <2>3
  <1>2. CASE step = "poll"
    <2>1. Fields[pos] \in FieldNames
      BY <1>2, ScriptText DEF FieldNames
    <2> QED
      BY <1>2, <2>1 DEF FieldNames, Optional, LookNames
  <1>3. CASE step \in {"data", "end", "apply", "leave"}
    BY <1>3 DEF FieldNames, Optional, LookNames
  <1>4. CASE step \in Looking
    <2>1. Asked.what \in LookNames /\ Place = 0
      BY <1>4, LookText
    <2> HIDE DEF Asked, Place
    <2> QED
      BY <1>4, <2>1 DEF LookNames, FieldNames, Optional
  <1> QED
    BY <1>1, <1>2, <1>3, <1>4 DEF Working

\* A piece ends behind where it begins, and at the end of the image only if it
\* is the last one.
LEMMA PieceEnd ==
  ASSUME Script, step = "data", Device!SizeFits(Size(run))
  PROVE  /\ Size(run) \in Nat \ {0} /\ pos \in Nat /\ pos < Size(run)
         /\ After \in Nat /\ pos < After /\ After <= Size(run) /\ After # 0
         /\ MorePieces <=> After # Size(run)
         /\ MorePieces => After = pos + PieceBytes
         /\ pos + PieceBytes >= Size(run) <=> After = Size(run)
  <1>1. Size(run) \in Nat \ {0}
    BY SessionType DEF Script, Device!SizeFits
  <1>2. pos \in Nat /\ (pos = 0 \/ pos < Size(run))
    BY DEF Script
  <1>3. PieceBytes \in Nat \ {0}
    BY SessionAssumption
  <1> QED
    BY <1>1, <1>2, <1>3 DEF After, Shorter, MorePieces

----------------------------------------------------------------------------
(* The host's steps: no effect on the device                               *)

Marks == {1, 2, 4, 5, 8, 15}

\* Seen from the device, the host is where it was.
SamePlace ==
  /\ UNCHANGED run
  /\ \A n \in Marks : Effect(n)' <=> Effect(n)
  /\ Taken' = Taken /\ Underway' = Underway
  /\ busy => UNCHANGED pos
  /\ MayBeOpen' => MayBeOpen
  /\ MayBeOpen => MayBeOpen' \/ ~open

\* The reading of the status that ends the wait for completion is the right one.
LEMMA RightJudgement ==
  ASSUME Script, Healthy, Orderly, step = "poll", pos = 5, NEW v, v = Final(5), Judge(Append(seen, v))
  PROVE  GoTo(IF Session.apply THEN "apply" ELSE "success", 1)
  <1> DEFINE s == Append(seen, v)
  <1>1. seen \in Seq(Readings) /\ Len(seen) = 4
    BY DEF Script
  <1>2. \A i \in 1 .. 4 : seen[i] = Final(i)
    BY DEF Orderly
  <1>3. /\ s[1] = Final(1) /\ s[2] = Final(2) /\ s[3] = Final(3) /\ s[4] = Final(4) /\ s[5] = Final(5)
    <2>1. s[1] = seen[1] /\ s[2] = seen[2] /\ s[3] = seen[3] /\ s[4] = seen[4] /\ s[5] = v
      <3>1. v \in Readings
        BY SessionType DEF Final, Readings, Script, Session
      <3>2. \A x \in Seq(Readings), e \in Readings :
              Append(x, e)[Len(x) + 1] = e /\ \A i \in 1 .. Len(x) : Append(x, e)[i] = x[i]
        BY AppendProperties
      <3>3. s[Len(seen) + 1] = v /\ \A i \in 1 .. Len(seen) : s[i] = seen[i]
        BY <1>1, <3>1, <3>2
      <3> HIDE DEF s
      <3> QED
        BY <1>1, <3>3
    <2> HIDE DEF s
    <2> QED
      BY <1>2, <2>1
  <1> HIDE DEF s
  <1>4. /\ s[1] = "REBOOT" /\ s[2] = "NONE" /\ s[3] = Size(run) /\ s[4] = Size(run)
        /\ s[5] = Session.image
    BY <1>3 DEF Final
  <1>5. Size(run) \in Nat
    BY SessionType DEF Script
  <1>6. EndConfirmed /\ Session.target = "AT32"
    BY DEF Orderly, EndConfirmed, Healthy
  <1>7. Judge(s)
    BY DEF s
  <1> QED
    BY <1>4, <1>5, <1>6, <1>7 DEF Judge

\* Where the host goes with an answer.
LEMMA RightStep ==
  ASSUME Script, Healthy, Orderly, step \in Working, NEW a, Succeed(a), a.obj = AskedObject,
         step = "poll" => a.value = Final(pos)
  PROVE  /\ UNCHANGED endFailed
         /\ \/ step = "identity" /\ step' = "identity" /\ pos' = pos + 1
            \/ step = "identity" /\ step' = "prepare" /\ pos' = 1
            \/ step = "prepare" /\ pos < 13 /\ step' = "prepare" /\ pos' = pos + 1
            \/ step = "prepare" /\ pos = 13 /\ step' = "data" /\ pos' = 0
            \/ step = "data" /\ MorePieces /\ step' = "data" /\ pos' = pos + PieceBytes
            \/ step = "data" /\ ~MorePieces /\ step' = "end"
            \/ step = "end" /\ step' = "poll" /\ pos' = 1
            \/ step = "poll" /\ pos < 5 /\ step' = "poll" /\ pos' = pos + 1 /\ seen' = Append(seen, a.value)
            \/ step = "poll" /\ step' \in {"apply", "success"}
            \/ step \in {"apply", "leave"} /\ step' = "leave"
  <1>1. UNCHANGED endFailed
    BY DEF Succeed
  <1>2. CASE step = "poll"
    <2>1. pos \in 1 .. 5 /\ Len(Fields) = 5
      BY <1>2, ScriptText DEF Script
    <2>2. CASE pos < 5
      BY <1>1, <1>2, <2>1, <2>2 DEF Succeed, GoTo
    <2>3. CASE pos = 5
      <3>1. Judge(Append(seen, a.value))
        BY <1>2, <2>1, <2>3 DEF Succeed
      <3>2. GoTo(IF Session.apply THEN "apply" ELSE "success", 1)
        BY <1>2, <2>3, <3>1, RightJudgement
      <3> QED
        BY <1>1, <1>2, <3>2 DEF GoTo
    <2> QED
      BY <2>1, <2>2, <2>3
  <1>3. CASE step = "prepare"
    <2>1. pos \in 1 .. 13 /\ Len(Preparation) = 13
      BY <1>3, ScriptText DEF Script
    <2> QED
      BY <1>1, <1>3, <2>1 DEF Succeed, GoTo
  <1>4. CASE step \in {"data", "end", "apply", "leave"}
    BY <1>1, <1>4 DEF Succeed, GoTo
  <1>5. CASE step = "identity"
    BY <1>1, <1>5 DEF Succeed, GoTo
  <1> QED
    BY <1>2, <1>3, <1>4, <1>5 DEF Working, Orderly

\* The host asks, or reads the answer, and no more.
LEMMA HostInStep ==
  ASSUME Base, Base', WorkOwed, Healthy, Orderly, HostStep, ~trouble'
  PROVE  Orderly' /\ SamePlace /\ UNCHANGED deviceVars
  <1> USE DEF Base
  <1>1. CASE Ask
    <2>1. /\ step \in Working /\ ~waiting /\ waiting' = TRUE
          /\ request' = Asked /\ UNCHANGED <<deviceVars, owed, step, pos, seen, endFailed, run>>
      BY <1>1 DEF Ask
    <2>2. request = None /\ owed = None /\ answers = <<>>
      BY <2>1 DEF Orderly, Exchange
    <2>3. answers' = <<>>
      BY <1>1, <2>2 DEF Ask
    <2>4. Asked' = Asked /\ Place' = Place /\ AskedObject' = AskedObject /\ Asked # None
      BY <2>1, AskedRests, AskedType
    <2>5. Session' = Session /\ Size(run)' = Size(run)
      BY <2>1 DEF Session, Size
    <2>6. Orderly'
      BY <2>1, <2>2, <2>3, <2>4, <2>5 DEF Orderly, Exchange, Final
    <2>7. \A n : Effect(n)' <=> Effect(n)
      BY <2>2, <2>3, <2>4 DEF Effect
    <2>8. Taken' = Taken /\ Underway' = Underway
      BY <2>1, <2>4, <2>5 DEF Taken, After, Underway
    <2>9. MayBeOpen' <=> MayBeOpen
      BY <2>1, <2>2, <2>3 DEF MayBeOpen
    <2> QED
      BY <2>1, <2>6, <2>7, <2>8, <2>9 DEF SamePlace
  <1>2. CASE ~Ask
    <2>1. /\ waiting /\ answers # <<>> /\ answers' = Tail(answers)
          /\ UNCHANGED <<deviceVars, serverVars, run>>
          /\ IF Head(answers).obj = "abort" THEN waiting' = FALSE /\ Fail
             ELSE IF Head(answers).obj = AskedObject THEN waiting' = FALSE /\ Succeed(Head(answers))
             ELSE UNCHANGED <<waiting, step, pos, seen, endFailed>>
      BY <1>2 DEF HostStep, ReadAnswer, AnswerTimeout, DeadlinePasses, Interrupt, AskedObject
    <2>2. step \in Working /\ AskedObject # "abort"
      BY <2>1, AskedAt DEF Script
    <2>3. /\ Len(answers) = 1
          /\ \/ answers[1].obj = AskedObject
             \/ step = "identity" /\ answers[1].obj = "abort"
          /\ step = "poll" => answers[1].value = Final(pos)
          /\ request = None /\ owed = None
      BY <2>1 DEF Orderly, Exchange
    <2>4. Head(answers) = answers[1] /\ answers' = <<>>
      <3>1. answers \in Seq(Replies)
        BY DEF Messages
      <3>2. Head(answers) = answers[1] /\ Len(Tail(answers)) = 0 /\ Tail(answers) \in Seq(Replies)
        BY <2>1, <2>3, <3>1
      <3> QED
        BY <2>1, <3>2, EmptySeq
    <2> DEFINE a == answers[1]
    <2>5. /\ waiting' = FALSE
          /\ \/ a.obj = AskedObject /\ Succeed(a)
             \/ step = "identity" /\ Fail
      BY <2>1, <2>2, <2>3, <2>4
    <2>6. ~busy /\ request' = None /\ owed' = None
      BY <2>1, <2>3 DEF WorkOwed, serverVars
    <2>7. step = "poll" => a.value = Final(pos)
      BY <2>3
    <2> HIDE DEF a
    <2>8. /\ UNCHANGED endFailed
          /\ \/ step = "identity" /\ step' = "identity" /\ pos' = pos + 1
             \/ step = "identity" /\ step' = "prepare" /\ pos' = 1
             \/ step = "prepare" /\ pos < 13 /\ step' = "prepare" /\ pos' = pos + 1
             \/ step = "prepare" /\ pos = 13 /\ step' = "data" /\ pos' = 0
             \/ step = "data" /\ MorePieces /\ step' = "data" /\ pos' = pos + PieceBytes
             \/ step = "data" /\ ~MorePieces /\ step' = "end"
             \/ step = "end" /\ step' = "poll" /\ pos' = 1
             \/ step = "poll" /\ pos < 5 /\ step' = "poll" /\ pos' = pos + 1 /\ seen' = Append(seen, a.value)
             \/ step = "poll" /\ step' \in {"apply", "success"}
             \/ step \in {"apply", "leave"} /\ step' = "leave"
      <3>1. CASE a.obj = AskedObject /\ Succeed(a)
        BY <2>2, <2>7, <3>1, RightStep
      <3>2. CASE step = "identity" /\ Fail
        BY <3>2 DEF Fail, GoTo, Script
      <3> QED
        BY <2>5, <3>1, <3>2
    <2>9. Session' = Session /\ Size(run)' = Size(run) /\ run' = run
      BY <2>1 DEF Session, Size
    <2>10. Orderly'
      <3>1. Exchange'
        BY <2>4, <2>5, <2>6 DEF Exchange
      <3>2. step' \notin {"diagnose", "failed"} /\ ~endFailed'
        BY <2>8 DEF Orderly
      <3>3. ASSUME step' = "poll", NEW i \in 1 .. pos' - 1 PROVE seen'[i] = Final(i)
        <4>1. CASE pos' = 1
          BY <3>3, <4>1
        <4>2. CASE step = "poll" /\ pos < 5 /\ pos' = pos + 1 /\ seen' = Append(seen, a.value)
          <5>1. seen \in Seq(Readings) /\ Len(seen) = pos - 1 /\ pos \in 1 .. 5
            BY <4>2 DEF Script
          <5>2. i \in 1 .. pos
            BY <3>3, <4>2, <5>1
          <5>3. CASE i = pos
            BY <2>7, <4>2, <5>1, <5>3
          <5>4. CASE i # pos
            BY <4>2, <5>1, <5>2, <5>4 DEF Orderly
          <5> QED
            BY <5>3, <5>4
        <4> QED
          BY <2>8, <3>3, <4>1, <4>2
      <3>4. Final(1)' = Final(1)
        BY <2>9 DEF Final
      <3>5. ASSUME step' = "poll", NEW i \in 1 .. pos' - 1 PROVE seen'[i] = Final(i)'
        BY <2>9, <3>3, <3>5 DEF Final
      <3> QED
        BY <3>1, <3>2, <3>5 DEF Orderly, Final
    <2>11. ASSUME NEW n \in Marks PROVE Effect(n)' <=> Effect(n)
      <3>1. Effect(n)' <=> Place' > n
        BY <2>4 DEF Effect
      <3>2. Effect(n) <=> Place >= n
        <4>1. Place \in 0 .. 18
          BY <2>2, AskedAt
        <4> QED
          BY <2>1, <4>1 DEF Effect, Marks
      <3>3. Place' > n <=> Place >= n
        <4> USE DEF Place, Marks
        <4>1. CASE step = "prepare"
          BY <2>8, <4>1 DEF Script
        <4>2. CASE step = "data"
          BY <2>8, <4>2
        <4>3. CASE step \in {"end", "poll"}
          BY <2>8, <4>3
        <4>4. CASE step \in {"apply", "leave"}
          BY <2>8, <4>4
        <4>5. CASE step = "identity"
          BY <2>8, <4>5
        <4> QED
          BY <2>2, <4>1, <4>2, <4>3, <4>4, <4>5 DEF Working, Orderly
      <3> QED
        BY <3>1, <3>2, <3>3
    <2>12. Taken' = Taken /\ Underway' = Underway
      <3>1. CASE step = "data"
        <4>1. /\ After \in Nat /\ After <= Size(run) /\ After # 0
              /\ MorePieces <=> After # Size(run)
              /\ MorePieces => After = pos + PieceBytes
          BY <3>1, PieceEnd DEF Healthy
        <4>2. Taken = After
          BY <2>1, <2>3, <3>1 DEF Taken
        <4>3. Taken' = After
          BY <2>5, <2>8, <2>9, <3>1, <4>1 DEF Taken
        <4> QED
          BY <2>8, <2>9, <3>1, <4>1, <4>2, <4>3 DEF Underway
      <3>2. CASE step # "data"
        BY <2>5, <2>8, <2>9, <3>2 DEF Taken, Underway
      <3> QED
        BY <3>1, <3>2
    <2>13. ~MayBeOpen /\ ~MayBeOpen'
      BY <2>1, <2>8 DEF MayBeOpen, Script
    <2> QED
      BY <2>1, <2>6, <2>9, <2>10, <2>11, <2>12, <2>13 DEF SamePlace
  <1> QED
    BY <1>1, <1>2

\* What the invariant says of the device does not change.
DeviceRests ==
  UNCHANGED <<target, imageType, expectedSize, expectedCRC, state, lastError, bytesReceived,
              bytesWritten, imageCRC, crc, prepared, session, nextOffset, flash, open, dataOffset,
              busy, idx>>

LEMMA RestInStep ==
  ASSUME InStep, SamePlace, DeviceRests
  PROVE  Informed' /\ Streaming' /\ Collecting' /\ Finished'
  <1>1. /\ run' = run /\ Session' = Session /\ Size(run)' = Size(run)
        /\ \A n \in Marks : Effect(n)' <=> Effect(n)
        /\ Taken' = Taken /\ Underway' = Underway /\ (busy => UNCHANGED pos)
    BY DEF SamePlace, Session, Size
  <1>2. /\ Effect(1)' <=> Effect(1)
        /\ Effect(2)' <=> Effect(2)
        /\ Effect(4)' <=> Effect(4)
        /\ Effect(5)' <=> Effect(5)
        /\ Effect(8)' <=> Effect(8)
        /\ Effect(15)' <=> Effect(15)
    BY <1>1 DEF Marks
  <1>3. Informed'
    BY <1>1, <1>2 DEF InStep, Informed, DeviceRests
  <1>4. Streaming'
    <2>1. /\ MayBeOpen' => MayBeOpen
          /\ MayBeOpen => MayBeOpen' \/ ~open
          /\ open' = open /\ busy' = busy
      BY DEF SamePlace, DeviceRests
    <2>2. MayBeOpen => ~Underway
      BY DEF MayBeOpen, Underway
    <2> QED
      BY <1>1, <2>1, <2>2 DEF InStep, Streaming
  <1>5. Front(Taken)' = Front(Taken)
    BY <1>1 DEF Front
  <1>6. busy' = busy /\ nextOffset' = nextOffset /\ dataOffset' = dataOffset /\ idx' = idx /\ flash' = flash
    BY DEF DeviceRests
  <1>7. /\ Ota!Fresh(dataOffset + idx, Size(run))' <=> Ota!Fresh(dataOffset + idx, Size(run))
        /\ Ota!Fresh(nextOffset, Size(run))' <=> Ota!Fresh(nextOffset, Size(run))
    BY <1>1, <1>6 DEF Ota!Fresh
  <1>8. Collecting'
    BY <1>1, <1>2, <1>5, <1>6, <1>7 DEF InStep, Collecting, DeviceRests
  <1>9. Finished'
    BY <1>1, <1>2 DEF InStep, Finished, DeviceRests
  <1> QED
    BY <1>3, <1>4, <1>8, <1>9

\* At the beginning of a run nothing is known of the device, but that nothing is
\* on its way.
LEMMA SessionBegins ==
  ASSUME request = None, owed = None, answers = <<>>, WorkOwed,
         step = "identity", pos = 1, ~waiting, ~endFailed
  PROVE  InStep
  <1>1. \A n \in Marks : ~Effect(n)
    BY DEF Effect, Place, Marks
  <1>2. ~Effect(1) /\ ~Effect(2) /\ ~Effect(4) /\ ~Effect(5) /\ ~Effect(8) /\ ~Effect(15)
    BY <1>1 DEF Marks
  <1>3. Informed /\ Collecting /\ Finished
    BY <1>2 DEF Informed, Collecting, Finished
  <1>4. Streaming
    BY DEF Streaming, MayBeOpen, WorkOwed
  <1>5. Orderly
    BY DEF Orderly, Exchange
  <1> QED
    BY <1>3, <1>4, <1>5 DEF InStep

LEMMA InitInStep == ~SkipIdentity /\ Init => WorkOwed /\ InStep
  <1>1. ~SkipIdentity /\ Init =>
          /\ request = None /\ owed = None /\ answers = <<>> /\ ~busy
          /\ step = "identity" /\ pos = 1 /\ ~waiting /\ ~endFailed
    BY DEF Init, Device!Init, Opening
  <1> QED
    BY <1>1, SessionBegins DEF WorkOwed

LEMMA AgainInStep ==
  ASSUME ~SkipIdentity, Base, WorkOwed, RunAgain, ~trouble', Device!TypeOK
  PROVE  InStep'
  <1>1. /\ step \in {"success", "failed"} /\ step' = "identity" /\ pos' = 1 /\ endFailed' = FALSE
        /\ UNCHANGED <<deviceVars, serverVars, answers, waiting>>
        /\ trouble' = (flashErr \/ request # None \/ owed # None \/ answers # <<>>)
    BY DEF RunAgain, GoTo, NewSession, Opening
  <1>2. request = None /\ owed = None /\ answers = <<>>
    BY <1>1
  <1>3. ~waiting
    BY <1>1 DEF Base, Script, Working
  <1>4. /\ request' = None /\ owed' = None /\ answers' = <<>> /\ WorkOwed'
        /\ step' = "identity" /\ pos' = 1 /\ ~waiting' /\ ~endFailed'
    BY <1>1, <1>2, <1>3 DEF WorkOwed, serverVars, deviceVars
  <1>5. \A n \in Marks : ~Effect(n)'
    BY <1>4 DEF Effect, Place, Marks
  <1>6. /\ ~Effect(1)' /\ ~Effect(2)' /\ ~Effect(4)' /\ ~Effect(5)' /\ ~Effect(8)' /\ ~Effect(15)'
    BY <1>5 DEF Marks
  <1>7. Informed' /\ Collecting' /\ Finished'
    BY <1>6 DEF Informed, Collecting, Finished
  <1>8. Streaming'
    BY <1>4 DEF Streaming, MayBeOpen, WorkOwed
  <1>9. Orderly'
    BY <1>4 DEF Orderly, Exchange
  <1> QED
    BY <1>7, <1>8, <1>9 DEF InStep

----------------------------------------------------------------------------
(* The server's steps                                                      *)

\* An answer that goes out in a session that stays healthy.
LEMMA AnswerGoes ==
  ASSUME Base, NEW a, Answer(a), ~trouble'
  PROVE  ~trouble /\ ~FlashFails /\ answers' = Append(answers, a)
  BY DEF Answer, Base, Script

\* A request is the one of the moment, and nothing else is on its way.
LEMMA RequestOf ==
  ASSUME Base, Orderly, request # None
  PROVE  /\ step \in Working /\ waiting /\ request = Asked /\ request.run = run
         /\ owed = None /\ answers = <<>> /\ ObjectOf(request.what) = AskedObject
  <1>1. waiting /\ request = Asked /\ owed = None /\ answers = <<>>
    BY DEF Orderly, Exchange
  <1>2. step \in Working
    BY <1>1 DEF Base, Script
  <1>3. request.run = run
    BY <1>1, <1>2, AskedType DEF Base
  <1> QED
    BY <1>1, <1>2, <1>3 DEF AskedObject

\* The answer takes the place of the request or of the piece in work.
LEMMA AnswerInStep ==
  ASSUME Base, Orderly, waiting, answers = <<>>, NEW a \in Replies,
         a.obj = AskedObject \/ (step = "identity" /\ a.obj = "abort"),
         step = "poll" => a.value = Final(pos),
         answers' = Append(answers, a), request' = None, owed' = None, UNCHANGED hostVars
  PROVE  /\ Orderly'
         /\ \A n \in Marks : (Effect(n)' <=> Place >= n) /\ (Effect(n) <=> Place > n)
         /\ owed # None \/ step # "data" => Taken' = Taken /\ Underway' = Underway
         /\ ~MayBeOpen'
  <1>1. UNCHANGED <<step, pos, waiting, seen, endFailed, run>>
    BY DEF hostVars
  <1>2. Place' = Place /\ AskedObject' = AskedObject /\ Session' = Session /\ Size(run)' = Size(run)
    BY <1>1, AskedRests DEF Session, Size
  <1>3. Len(answers') = 1 /\ answers'[1] = a /\ answers' # <<>>
    <2>1. \A e \in Replies : LET x == Append(<<>>, e) IN Len(x) = 1 /\ x[1] = e /\ x # <<>>
      OBVIOUS
    <2> QED
      BY <2>1
  <1>4. Exchange'
    BY <1>1, <1>2, <1>3 DEF Exchange, Final
  <1>5. Orderly'
    BY <1>1, <1>2, <1>4 DEF Orderly, Final
  <1>6. ASSUME NEW n \in Marks PROVE (Effect(n)' <=> Place >= n) /\ (Effect(n) <=> Place > n)
    <2>1. Place \in 0 .. 18
      BY AskedAt DEF Base, Script
    <2> QED
      BY <1>2, <1>3, <2>1 DEF Effect, Marks
  <1>7. owed # None \/ step # "data" => Taken' = Taken /\ Underway' = Underway
    <2>1. CASE step = "data" /\ owed # None
      <3>1. request = None
        BY <2>1 DEF Orderly, Exchange
      <3> QED
        BY <1>1, <1>2, <2>1, <3>1 DEF Taken, Underway, After
    <2>2. CASE step # "data"
      BY <1>1, <1>2, <2>2 DEF Taken, Underway
    <2> QED
      BY <2>1, <2>2
  <1>8. ~MayBeOpen'
    BY <1>3 DEF MayBeOpen
  <1> QED
    BY <1>5, <1>6, <1>7, <1>8

\* The answer to a request of which the device keeps no trace.
LEMMA QuietAnswer ==
  ASSUME Base, InStep, waiting, answers = <<>>,
         NEW a \in Replies, a.obj = AskedObject, step = "poll" => a.value = Final(pos),
         answers' = Append(answers, a), request' = None, owed' = None, UNCHANGED hostVars,
         Place \notin Marks, owed # None \/ step # "data", MayBeOpen => ~open, UNCHANGED deviceVars
  PROVE  InStep'
  <1>1. /\ Orderly'
        /\ \A n \in Marks : (Effect(n)' <=> Place >= n) /\ (Effect(n) <=> Place > n)
        /\ Taken' = Taken /\ Underway' = Underway /\ ~MayBeOpen'
    BY AnswerInStep DEF InStep
  <1>2. Place \in 0 .. 18
    BY AskedAt DEF Base, Script
  <1>3. \A n \in Marks : Effect(n)' <=> Effect(n)
    BY <1>1, <1>2 DEF Marks
  <1>4. SamePlace
    BY <1>1, <1>3 DEF SamePlace, hostVars
  <1>5. DeviceRests
    BY DEF DeviceRests, deviceVars
  <1> QED
    BY <1>1, <1>4, <1>5, RestInStep DEF InStep

LEMMA OtherInStep ==
  ASSUME Base, InStep, ServeOther, ~trouble'
  PROVE  InStep'
  <1>1. /\ request # None /\ request.what \in {"sessionId"} \cup Optional \cup LookNames /\ ~open
        /\ UNCHANGED deviceVars /\ Answer(Done) /\ request' = None /\ owed' = owed /\ UNCHANGED hostVars
    BY LookText DEF ServeOther, Idle, Starts, Served
  <1>2. /\ step \in Working /\ waiting /\ request = Asked /\ owed = None /\ answers = <<>>
        /\ ObjectOf(request.what) = AskedObject
    BY <1>1, RequestOf DEF InStep
  <1>3. Place \in {0, 3, 6, 7} /\ step \notin {"poll", "data"}
    <2>1. Place \in {0, 3, 6, 7}
      BY <1>1, <1>2, ScriptPlace DEF Base
    <2> QED
      BY <2>1 DEF Place
  <1>4. answers' = Append(answers, Done)
    BY <1>1, AnswerGoes
  <1>5. Done \in Replies /\ Done.obj = AskedObject
    BY <1>1, <1>2 DEF Done, Replies, Objects, ObjectOf, Commands, Optional, LookNames
  <1> QED
    BY <1>1, <1>2, <1>3, <1>4, <1>5, QuietAnswer DEF Marks

LEMMA StatusInStep ==
  ASSUME Base, Device!TypeOK, InStep, ServeStatus, ~trouble'
  PROVE  InStep'
  <1> DEFINE v == CASE request.what = "state"         -> state
                    [] request.what = "lastError"     -> lastError
                    [] request.what = "bytesReceived" -> bytesReceived
                    [] request.what = "bytesWritten"  -> bytesWritten
                    [] request.what = "imageCRC"      -> imageCRC
  <1>1. /\ request # None /\ (\E i \in 1 .. 5 : request.what = Fields[i]) /\ ~open
        /\ UNCHANGED deviceVars /\ Answer(Value(v)) /\ request' = None /\ owed' = owed /\ UNCHANGED hostVars
    BY ScriptText DEF ServeStatus, Idle, Starts, Served
  <1>2. /\ step \in Working /\ waiting /\ request = Asked /\ owed = None /\ answers = <<>>
        /\ ObjectOf(request.what) = AskedObject
    BY <1>1, RequestOf DEF InStep
  <1>3. request.what \in FieldNames
    BY <1>1, ScriptText DEF FieldNames
  <1>4. Place \in {9, 10, 11, 12, 13, 16, 18} /\ step # "data"
    BY <1>2, <1>3, ScriptPlace DEF Base, Place
  <1>5. v \in Readings
    <2>1. state \in Readings /\ lastError \in Readings /\ bytesReceived \in Readings
          /\ bytesWritten \in Readings /\ imageCRC \in Readings
      BY DEF Device!TypeOK, Readings
    <2> QED
      BY <1>3, <2>1 DEF FieldNames
  <1>6. ASSUME step = "poll" PROVE v = Final(pos)
    <2>1. Effect(15)
      BY <1>6 DEF Effect, Place
    <2>2. /\ state = "REBOOT" /\ lastError = "NONE" /\ imageCRC = Session.image
          /\ bytesReceived = Size(run) /\ bytesWritten = Size(run)
      BY <2>1 DEF InStep, Finished
    <2>3. request.what = Fields[pos] /\ pos \in 1 .. 5
      BY <1>2, <1>6 DEF Asked, Base, Script
    <2>4. pos = 1 \/ pos = 2 \/ pos = 3 \/ pos = 4 \/ pos = 5
      BY <2>3
    <2> QED
      BY <2>2, <2>3, <2>4, ScriptText DEF Final
  <1> HIDE DEF v
  <1>7. answers' = Append(answers, Value(v))
    BY <1>1, AnswerGoes
  <1>8. Value(v) \in Replies /\ Value(v).obj = AskedObject /\ Value(v).value = v
    BY <1>2, <1>3, <1>5 DEF Value, Replies, ObjectOf, Commands, FieldNames
  <1> QED
    BY <1>1, <1>2, <1>4, <1>6, <1>7, <1>8, QuietAnswer DEF Marks

\* What a request that is served and answered does to the exchange; the answer
\* at place n of the script is what gives place n its effect.
LEMMA Marked ==
  ASSUME Base, Orderly, request # None,
         NEW a \in Replies, a.obj = AskedObject, step \notin {"poll", "data"},
         answers' = Append(answers, a), request' = None, owed' = owed, UNCHANGED hostVars
  PROVE  /\ Orderly' /\ Place \in 0 .. 18 /\ UNCHANGED <<step, pos, run>> /\ ~MayBeOpen'
         /\ Session' = Session /\ Size(run)' = Size(run)
         /\ Taken' = Taken /\ Underway' = Underway
         /\ (Effect(1)' <=> Place >= 1) /\ (Effect(1) <=> Place > 1)
         /\ (Effect(2)' <=> Place >= 2) /\ (Effect(2) <=> Place > 2)
         /\ (Effect(4)' <=> Place >= 4) /\ (Effect(4) <=> Place > 4)
         /\ (Effect(5)' <=> Place >= 5) /\ (Effect(5) <=> Place > 5)
         /\ (Effect(8)' <=> Place >= 8) /\ (Effect(8) <=> Place > 8)
         /\ (Effect(15)' <=> Place >= 15) /\ (Effect(15) <=> Place > 15)
  <1>1. waiting /\ owed = None /\ answers = <<>> /\ step \in Working
    BY RequestOf
  <1>2. /\ Orderly' /\ Taken' = Taken /\ Underway' = Underway /\ ~MayBeOpen'
        /\ \A n \in Marks : (Effect(n)' <=> Place >= n) /\ (Effect(n) <=> Place > n)
    BY <1>1, AnswerInStep
  <1>3. Place \in 0 .. 18
    BY <1>1, AskedAt DEF Base
  <1>4. UNCHANGED <<step, pos, run>> /\ Session' = Session /\ Size(run)' = Size(run)
    BY DEF hostVars, Session, Size
  <1> QED
    BY <1>2, <1>3, <1>4 DEF Marks

\* A parameter of the session arrives where it belongs.
LEMMA ParameterInStep ==
  ASSUME Base, Healthy, InStep, ServeParameter, ~trouble'
  PROVE  InStep'
  <1>1. /\ request # None /\ request.what \in Parameters /\ ~open /\ ~busy
        /\ Device!WriteParameter
        /\ target' = IF request.what = "target" THEN Sessions[request.run].target ELSE target
        /\ imageType' = IF request.what = "imageType" THEN "KERNEL" ELSE imageType
        /\ expectedSize' = IF request.what = "expectedSize" THEN Size(request.run) ELSE expectedSize
        /\ expectedCRC' = IF request.what = "expectedCRC" THEN Sessions[request.run].image ELSE expectedCRC
        /\ Answer(Done) /\ request' = None /\ owed' = owed /\ UNCHANGED hostVars
    BY DEF ServeParameter, Idle, Starts, Served
  <1>2. /\ step \in Working /\ request = Asked /\ request.run = run
        /\ ObjectOf(request.what) = AskedObject
    BY <1>1, RequestOf DEF InStep
  <1>3. /\ Place = 1 <=> request.what = "target"
        /\ Place = 2 <=> request.what = "imageType"
        /\ Place = 4 <=> request.what = "expectedSize"
        /\ Place = 5 <=> request.what = "expectedCRC"
        /\ Place \in 1 .. 13 <=> step = "prepare"
    BY <1>2, ScriptPlace DEF Base
  <1>4. Place \in {1, 2, 4, 5} /\ step = "prepare"
    BY <1>1, <1>3 DEF Parameters
  <1>5. answers' = Append(answers, Done)
    BY <1>1, AnswerGoes
  <1>6. Done \in Replies /\ Done.obj = AskedObject
    BY <1>1, <1>2 DEF Done, Replies, Objects, ObjectOf, Commands, Parameters
  <1>7. /\ Orderly' /\ Place \in 0 .. 18 /\ UNCHANGED <<step, pos, run>> /\ ~MayBeOpen'
        /\ Session' = Session /\ Size(run)' = Size(run)
        /\ Taken' = Taken /\ Underway' = Underway
        /\ (Effect(1)' <=> Place >= 1) /\ (Effect(1) <=> Place > 1)
        /\ (Effect(2)' <=> Place >= 2) /\ (Effect(2) <=> Place > 2)
        /\ (Effect(4)' <=> Place >= 4) /\ (Effect(4) <=> Place > 4)
        /\ (Effect(5)' <=> Place >= 5) /\ (Effect(5) <=> Place > 5)
        /\ (Effect(8)' <=> Place >= 8) /\ (Effect(8) <=> Place > 8)
        /\ (Effect(15)' <=> Place >= 15) /\ (Effect(15) <=> Place > 15)
    BY <1>1, <1>4, <1>5, <1>6, Marked DEF InStep
  <1>8. ~Effect(8)' /\ ~Effect(15)'
    BY <1>4, <1>7
  <1>9. Informed'
    <2>1. Effect(1)' => target' = "AT32"
      BY <1>1, <1>2, <1>3, <1>7 DEF InStep, Informed, Healthy, Session
    <2>2. Effect(2)' => imageType' = "KERNEL"
      BY <1>1, <1>3, <1>7 DEF InStep, Informed
    <2>3. Effect(4)' => expectedSize' = Size(run)
      BY <1>1, <1>2, <1>3, <1>7 DEF InStep, Informed
    <2>4. Effect(5)' => expectedCRC' = Session.image
      BY <1>1, <1>2, <1>3, <1>7 DEF InStep, Informed, Session
    <2> QED
      BY <1>7, <2>1, <2>2, <2>3, <2>4 DEF Informed
  <1>10. ~open' /\ busy' = busy
    BY <1>1 DEF Device!WriteParameter, Device!CloseStream, Device!jobVars
  <1>11. Streaming'
    <2>1. ~MayBeOpen
      BY <1>4 DEF MayBeOpen
    <2> QED
      BY <1>1, <1>7, <1>10, <2>1 DEF InStep, Streaming
  <1> QED
    BY <1>7, <1>8, <1>9, <1>11 DEF InStep, Collecting, Finished

----------------------------------------------------------------------------
(* The commands                                                            *)

LEMMA SameStart == Device!Start <=> Ota!Start
  BY DEF
    Device!Start, Device!ResetStatus, Device!CloseStream, Device!EmptyCache, Device!BlankWord,
    Device!Lanes, Device!ctlVars, Device!jobVars, Device!SetError, Device!PrepareStage,
    Device!SizeFits, Device!EraseStage, Device!EraseLen, Device!flashVars, Device!Addr,
    Ota!Start, Ota!ResetStatus, Ota!CloseStream, Ota!EmptyCache, Ota!BlankWord, Ota!Lanes,
    Ota!ctlVars, Ota!jobVars, Ota!SetError, Ota!PrepareStage, Ota!SizeFits, Ota!EraseStage,
    Ota!EraseLen, Ota!flashVars, Ota!Addr

LEMMA SameEnd == Device!End <=> Ota!End
  BY DEF
    Device!End, Device!FlushCache, Device!Verdict, Device!SetError, Device!SizeMatches,
    Device!CrcMatches, Device!ProgramWord, Device!ProgramDone, Device!IsBlank, Device!Addr,
    Device!Lanes, Device!EmptyCache, Device!BlankWord, Device!CloseStream, Device!ctlVars,
    Device!swapVars, Device!jobVars, Device!flashVars,
    Ota!End, Ota!FlushCache, Ota!Verdict, Ota!SetError, Ota!SizeMatches, Ota!CrcMatches,
    Ota!ProgramWord, Ota!ProgramDone, Ota!IsBlank, Ota!Addr, Ota!Lanes, Ota!EmptyCache,
    Ota!BlankWord, Ota!CloseStream, Ota!ctlVars, Ota!swapVars, Ota!jobVars, Ota!flashVars

\* The place of a command, what the device knows there, and the answer.
LEMMA CommandInStep ==
  ASSUME Base, Healthy, InStep, ServeCommand, ~trouble'
  PROVE  /\ request # None /\ request.what \in Commands /\ ~open /\ ~busy /\ owed = None
         /\ (Place = 8 <=> request.what = "start") /\ (Place = 15 <=> request.what = "end")
         /\ (Place = 17 <=> request.what = "apply") /\ (Place \in 1 .. 13 <=> step = "prepare")
         /\ target = "AT32" /\ imageType = "KERNEL"
         /\ expectedSize = Size(run) /\ expectedCRC = Session.image
         /\ ~FlashFails /\ ~MayBeOpen
         /\ state' # "ERROR" =>
              /\ Orderly' /\ UNCHANGED <<step, pos, run>> /\ ~MayBeOpen'
              /\ Session' = Session /\ Size(run)' = Size(run)
              /\ Taken' = Taken /\ Underway' = Underway
              /\ (Effect(8)' <=> Place >= 8) /\ (Effect(8) <=> Place > 8)
              /\ (Effect(15)' <=> Place >= 15) /\ (Effect(15) <=> Place > 15)
  <1>1. /\ request # None /\ request.what \in Commands /\ ~open /\ ~busy /\ owed = None
        /\ Answer(IF state' = "ERROR" THEN Abort ELSE Done)
        /\ request' = None /\ owed' = owed /\ UNCHANGED hostVars
    BY DEF ServeCommand, Idle, Starts, Served
  <1>2. step \in Working /\ request = Asked /\ ObjectOf(request.what) = AskedObject
    BY <1>1, RequestOf DEF InStep
  <1>3. /\ Place \in 0 .. 18
        /\ (Place = 8 <=> request.what = "start") /\ (Place = 15 <=> request.what = "end")
        /\ (Place = 17 <=> request.what = "apply") /\ (Place \in 1 .. 13 <=> step = "prepare")
    BY <1>2, ScriptPlace DEF Base
  <1>4. Place \in {8, 15, 17}
    BY <1>1, <1>3 DEF Commands
  <1>5. Effect(1) /\ Effect(2) /\ Effect(4) /\ Effect(5)
    BY <1>4 DEF Effect
  <1>6. /\ target = "AT32" /\ imageType = "KERNEL"
        /\ expectedSize = Size(run) /\ expectedCRC = Session.image
    BY <1>5 DEF InStep, Informed
  <1>7. ~FlashFails
    BY <1>1, AnswerGoes
  <1>8. ASSUME state' # "ERROR"
        PROVE  /\ Orderly' /\ UNCHANGED <<step, pos, run>> /\ ~MayBeOpen'
               /\ Session' = Session /\ Size(run)' = Size(run)
               /\ Taken' = Taken /\ Underway' = Underway
               /\ (Effect(8)' <=> Place >= 8) /\ (Effect(8) <=> Place > 8)
               /\ (Effect(15)' <=> Place >= 15) /\ (Effect(15) <=> Place > 15)
    <2>1. answers' = Append(answers, Done)
      BY <1>1, <1>8, AnswerGoes
    <2>2. Done \in Replies /\ Done.obj = AskedObject
      BY <1>1, <1>2 DEF Done, Replies, Objects, ObjectOf
    <2>3. step \notin {"poll", "data"}
      BY <1>4 DEF Place
    <2> QED
      BY <1>1, <2>1, <2>2, <2>3, Marked DEF InStep
  <1>9. ~MayBeOpen
    BY <1>4 DEF MayBeOpen, Place
  <1> QED
    BY <1>1, <1>3, <1>6, <1>7, <1>8, <1>9

\* START finds its parameters and erases the stage.
LEMMA StartInStep ==
  ASSUME UseFlash, Base, Device!TypeOK, Healthy, InStep, ServeCommand, request.what = "start", ~trouble'
  PROVE  InStep'
  <1>1. /\ owed = None /\ ~open /\ ~busy /\ Place = 8 /\ step = "prepare"
        /\ target = "AT32" /\ imageType = "KERNEL" /\ expectedSize = Size(run)
        /\ expectedCRC = Session.image /\ ~FlashFails /\ ~MayBeOpen
    BY CommandInStep
  <1>2. Device!Start
    BY <1>1 DEF ServeCommand, Device!StartRefused
  <1>3. state' # "ERROR"
    BY <1>1 DEF FlashFails, Healthy
  <1>4. /\ state' = "RECV" /\ prepared' /\ crc' = <<>> /\ nextOffset' = 0
        /\ Ota!Fresh(0, expectedSize)'
    BY <1>2, <1>3, SameStart, SameTypeOK, DeviceAssumptions, Ota!CleanStart
  <1>5. UNCHANGED <<target, imageType, expectedSize, expectedCRC, busy>> /\ ~open'
    BY <1>2 DEF Device!Start, Device!ctlVars, Device!jobVars, Device!CloseStream
  <1>6. /\ Orderly' /\ UNCHANGED <<step, pos, run>>
        /\ Session' = Session /\ Size(run)' = Size(run)
        /\ Taken' = Taken /\ Underway' = Underway /\ ~Effect(15)' /\ ~MayBeOpen'
    BY <1>1, <1>3, CommandInStep
  <1>7. Taken = 0
    BY <1>1 DEF Taken
  <1>8. Informed'
    BY <1>1, <1>5, <1>6 DEF Informed
  <1>9. Streaming'
    BY <1>1, <1>5, <1>6 DEF InStep, Streaming
  <1>10. Collecting'
    <2>1. Front(0) = <<>>
      <3>1. Session.image \in Seq(Byte)
        BY SessionType DEF Base, Script, Session
      <3> QED
        BY <3>1 DEF Front
    <2>2. crc' = Front(Taken)'
      BY <1>4, <1>6, <1>7, <2>1 DEF Front
    <2>3. nextOffset' = Taken' /\ Ota!Fresh(nextOffset, Size(run))'
      BY <1>1, <1>4, <1>5, <1>6, <1>7 DEF Ota!Fresh
    <2> QED
      BY <1>1, <1>4, <1>5, <2>2, <2>3 DEF Collecting
  <1> QED
    BY <1>6, <1>8, <1>9, <1>10 DEF InStep, Finished

\* The whole image is its own beginning.
LEMMA WholeFront ==
  ASSUME Script
  PROVE  /\ Session.image \in Seq(Byte) /\ Size(run) \in Nat /\ Size(run) = Len(Session.image)
         /\ Front(Size(run)) = Session.image
  <1>1. Session.image \in Seq(Byte) /\ Size(run) \in Nat /\ Size(run) = Len(Session.image)
    BY SessionType DEF Script, Session, Size
  <1>2. \A s \in Seq(Byte) : SubSeq(s, 1, Len(s)) = s
    OBVIOUS
  <1> QED
    BY <1>1, <1>2 DEF Front

\* END finds the whole image.
LEMMA EndInStep ==
  ASSUME UseFlash, Base, Device!TypeOK, Ota!IInv, Healthy, InStep, ServeCommand,
         request.what = "end", ~trouble'
  PROVE  InStep'
  <1>1. /\ request # None /\ owed = None /\ ~open /\ ~busy /\ Place = 15
        /\ target = "AT32" /\ imageType = "KERNEL" /\ expectedSize = Size(run)
        /\ expectedCRC = Session.image /\ ~FlashFails /\ ~MayBeOpen
    BY CommandInStep
  <1>2. step = "end" /\ answers = <<>>
    <2>1. answers = <<>>
      BY <1>1, RequestOf DEF InStep
    <2>2. step = "end"
      BY <1>1 DEF Base, Script, Place, Working
    <2> QED
      BY <2>1, <2>2
  <1>3. Effect(8) /\ ~Effect(15)
    BY <1>1, <1>2 DEF Effect
  <1>4. Taken = Size(run)
    BY <1>2 DEF Taken
  <1>5. /\ state = "RECV" /\ crc = Session.image /\ nextOffset = Size(run)
        /\ Ota!Fresh(nextOffset, Size(run))
    BY <1>1, <1>3, <1>4, WholeFront DEF InStep, Collecting, Base
  <1>6. Device!End
    BY <1>1, <1>5 DEF ServeCommand, Device!EndRefused
  <1>7. Size(run) \in Nat \ {0} /\ Len(crc) = Size(run) /\ crc # <<>>
    <2>1. Size(run) # 0
      BY DEF Healthy, Device!SizeFits
    <2>2. Len(crc) = Size(run)
      BY <1>5, WholeFront DEF Base
    <2> QED
      BY <2>1, <2>2, WholeFront DEF Base
  <1>8. bytesReceived = Size(run)
    BY <1>1, <1>5, <1>7 DEF Ota!IInv, Ota!AtRest
  <1>9. Ota!SizeMatches /\ Ota!CrcMatches
    BY <1>1, <1>5, <1>8 DEF Ota!SizeMatches, Ota!CrcMatches
  <1>10. \/ state' = "ERROR" /\ lastError' = "STAGE_WRITE" /\ Ota!IsBlank(flash, cache.addr)
         \/ /\ state' = "REBOOT" /\ lastError' = "NONE" /\ imageCRC' = crc
            /\ UNCHANGED bytesReceived /\ bytesWritten' = bytesReceived
    BY <1>1, <1>5, <1>6, <1>7, <1>9, SameEnd, SameTypeOK, DeviceAssumptions, Ota!CleanEnd
  <1>11. Ota!IsBlank(flash, cache.addr) <=> Device!IsBlank(flash, cache.addr)
    BY DEF Ota!IsBlank, Device!IsBlank, Ota!Lanes, Device!Lanes
  <1>12. state' = "REBOOT" /\ lastError' = "NONE" /\ imageCRC' = crc
         /\ UNCHANGED bytesReceived /\ bytesWritten' = bytesReceived
    BY <1>1, <1>10, <1>11 DEF FlashFails, WordInHand
  <1>13. UNCHANGED <<target, imageType, expectedSize, expectedCRC, busy>> /\ ~open'
    BY <1>6 DEF Device!End, Device!ctlVars, Device!jobVars, Device!CloseStream
  <1>14. /\ Orderly' /\ UNCHANGED <<step, pos, run>>
         /\ Session' = Session /\ Size(run)' = Size(run) /\ Underway' = Underway /\ Effect(15)'
         /\ ~MayBeOpen'
    BY <1>1, <1>12, CommandInStep
  <1>15. Informed'
    BY <1>1, <1>13, <1>14 DEF Informed
  <1>16. Streaming'
    BY <1>1, <1>13, <1>14 DEF InStep, Streaming
  <1>17. Finished'
    BY <1>5, <1>8, <1>12, <1>14 DEF Finished
  <1> QED
    BY <1>14, <1>15, <1>16, <1>17 DEF InStep, Collecting

\* APPLY finds the accepted image.
LEMMA ApplyInStep ==
  ASSUME Base, Healthy, InStep, ServeCommand, request.what = "apply", ~trouble'
  PROVE  InStep'
  <1>1. /\ ~open /\ ~busy /\ Place = 17
        /\ target = "AT32" /\ imageType = "KERNEL" /\ expectedSize = Size(run)
        /\ expectedCRC = Session.image /\ ~MayBeOpen
    BY CommandInStep
  <1>2. Effect(15)
    BY <1>1 DEF Effect
  <1>3. /\ state = "REBOOT" /\ lastError = "NONE" /\ imageCRC = Session.image
        /\ bytesReceived = Size(run) /\ bytesWritten = Size(run)
    BY <1>2 DEF InStep, Finished
  <1>4. Device!ApplyAllowed
    BY <1>3 DEF Device!ApplyAllowed, Healthy, Device!SizeFits
  <1>5. Device!Apply
    BY <1>1, <1>4 DEF ServeCommand, Device!ApplyRefused
  <1>6. /\ UNCHANGED <<target, imageType, expectedSize, expectedCRC, busy, state, lastError,
                       imageCRC, bytesReceived, bytesWritten>>
        /\ ~open'
    BY <1>5 DEF Device!Apply, Device!ctlVars, Device!countVars, Device!statusVars, Device!jobVars,
      Device!CloseStream
  <1>7. /\ Orderly' /\ UNCHANGED <<step, pos, run>>
        /\ Session' = Session /\ Size(run)' = Size(run) /\ Underway' = Underway /\ Effect(15)'
        /\ ~MayBeOpen'
    BY <1>1, <1>3, <1>6, CommandInStep
  <1>8. Informed'
    BY <1>1, <1>6, <1>7 DEF Informed
  <1>9. Streaming'
    BY <1>1, <1>6, <1>7 DEF InStep, Streaming
  <1>10. Finished'
    BY <1>3, <1>6, <1>7 DEF Finished
  <1> QED
    BY <1>7, <1>8, <1>9, <1>10 DEF InStep, Collecting

----------------------------------------------------------------------------
(* The pieces                                                              *)

LEMMA FrontGrows ==
  ASSUME NEW s \in Seq(Byte), NEW a \in Nat, NEW b \in Nat, a <= b, b <= Len(s)
  PROVE  /\ SubSeq(s, 1, a) \o SubSeq(s, a + 1, b) = SubSeq(s, 1, b)
         /\ SubSeq(s, a + 1, b) \in Seq(Byte) /\ Len(SubSeq(s, a + 1, b)) = b - a
  <1> DEFINE front == SubSeq(s, 1, a)
             rest  == SubSeq(s, a + 1, b)
             whole == SubSeq(s, 1, b)
  <1>1. \A i \in 1 .. b : s[i] \in Byte
    BY ElementOfSeq, LenProperties
  <1>2. /\ front \in Seq(Byte) /\ Len(front) = a /\ \A i \in 1 .. a : front[i] = s[i]
        /\ whole \in Seq(Byte) /\ Len(whole) = b /\ \A i \in 1 .. b : whole[i] = s[i]
    BY <1>1, SubSeqProperties
  <1>3. /\ rest \in Seq(Byte) /\ Len(rest) = b - a
        /\ \A i \in 1 .. b - a : rest[i] = s[a + i]
    BY <1>1, SubSeqProperties
  <1> HIDE DEF front, rest, whole
  <1>4. /\ front \o rest \in Seq(Byte) /\ Len(front \o rest) = b
        /\ \A i \in 1 .. b : (front \o rest)[i] = IF i <= a THEN front[i] ELSE rest[i - a]
    BY <1>2, <1>3, ConcatProperties
  <1>5. \A i \in 1 .. b : (front \o rest)[i] = whole[i]
    BY <1>2, <1>3, <1>4
  <1>6. front \o rest = whole
    BY <1>2, <1>4, <1>5, SeqEqual
  <1> QED
    BY <1>3, <1>6 DEF front, rest, whole

\* In the data part of the script the device is told everything but END.
LEMMA DataPart ==
  ASSUME InStep, Script, step = "data"
  PROVE  /\ Place = 14 /\ Effect(8) /\ ~Effect(15)
         /\ target = "AT32" /\ expectedSize = Size(run) /\ state = "RECV" /\ prepared
         /\ crc = Front(Taken) /\ (open => ~session)
         /\ Asked = [what |-> "piece", run |-> run, from |-> pos] /\ ~MayBeOpen
  <1>1. Place = 14 /\ Asked = [what |-> "piece", run |-> run, from |-> pos]
    BY DEF Place, Asked
  <1>2. Effect(1) /\ Effect(4) /\ Effect(8) /\ ~Effect(15)
    BY <1>1 DEF Effect
  <1> QED
    BY <1>1, <1>2 DEF InStep, Informed, Collecting, MayBeOpen

\* The next piece is the one the device waits for, and it takes it.
LEMMA PieceBegins ==
  ASSUME Base, Healthy, InStep, ServePiece
  PROVE  InStep' /\ WorkOwed'
  <1>1. /\ request # None /\ request.what = "piece" /\ ~busy
        /\ open <=> request.from # 0
        /\ owed' = request /\ request' = None /\ UNCHANGED <<hostVars, answers, trouble>>
    BY DEF ServePiece, Starts
  <1>2. /\ step = "data" /\ waiting /\ request = Asked /\ answers = <<>>
        /\ request.run = run /\ request.from = pos
    <2>1. step \in Working /\ waiting /\ request = Asked /\ answers = <<>>
      BY <1>1, RequestOf DEF InStep
    <2>2. Place = 14
      BY <1>1, <2>1, ScriptPlace DEF Base
    <2>3. step = "data"
      BY <2>2 DEF Base, Script, Place, Working
    <2>4. request = [what |-> "piece", run |-> run, from |-> pos]
      BY <2>1, <2>3, DataPart DEF Base
    <2> QED
      BY <2>1, <2>3, <2>4
  <1>3. /\ Place = 14 /\ Effect(8) /\ ~Effect(15)
        /\ target = "AT32" /\ state = "RECV" /\ prepared
        /\ crc = Front(Taken) /\ (open => ~session)
    BY <1>2, DataPart DEF Base
  <1>4. Taken = pos
    BY <1>1, <1>2 DEF Taken
  <1>5. /\ Size(run) \in Nat \ {0} /\ Size(run) <= StageSize /\ pos \in Nat /\ pos < Size(run)
        /\ After \in Nat /\ pos < After /\ After <= Size(run)
        /\ Session.image \in Seq(Byte) /\ Size(run) = Len(Session.image) /\ StageSize \in Nat
    BY <1>2, PieceEnd, WholeFront, DeviceAssumption DEF Base, Healthy, Device!SizeFits
  <1>6. /\ nextOffset = pos /\ (open => dataOffset = pos) /\ Ota!Fresh(pos, Size(run))
    BY <1>1, <1>3, <1>4 DEF InStep, Collecting
  <1> DEFINE data == SubSeq(Session.image, pos + 1, After)
             off  == IF pos = 0 \/ session THEN 0 ELSE dataOffset
  <1>7. /\ Front(pos) \o data = Front(After) /\ data \in Seq(Byte) /\ Len(data) = After - pos
    BY <1>5, FrontGrows DEF Front
  <1>8. Device!WriteData(pos = 0, data)
    BY <1>2 DEF ServePiece, After, Session, Size
  <1>9. off = pos
    BY <1>1, <1>2, <1>3, <1>6
  <1>10. (IF off = 0 THEN <<>> ELSE crc) \o data = Front(After)
    <2>1. pos = 0 => Front(pos) = <<>>
      BY <1>5 DEF Front
    <2> QED
      BY <1>3, <1>4, <1>7, <1>9, <2>1
  <1>11. Device!ChunkAccepted(off, Len(data))
    <2>1. off < StageSize /\ Len(data) <= StageSize - off
      <3> HIDE DEF off, data
      <3> QED
        BY <1>5, <1>7, <1>9
    <2> QED
      BY <1>3, <1>6, <1>9, <2>1 DEF Device!ChunkAccepted
  <1> HIDE DEF data
  <1>12. /\ crc' = Front(After) /\ open' = TRUE /\ dataOffset' = pos /\ busy' = TRUE /\ idx' = 0
         /\ UNCHANGED <<state, lastError>> /\ session' = FALSE
         /\ UNCHANGED <<target, imageType, expectedSize, expectedCRC, prepared, nextOffset, flash>>
    BY <1>3, <1>8, <1>9, <1>10, <1>11 DEF Device!WriteData, Device!statusVars, Device!ctlVars,
      Device!stageVars, Device!flashVars
  <1> HIDE DEF off
  <1>13. /\ UNCHANGED <<step, pos, waiting, seen, endFailed, run>> /\ answers' = answers
         /\ Asked' = Asked /\ AskedObject' = AskedObject /\ Place' = Place
         /\ Session' = Session /\ Size(run)' = Size(run) /\ After' = After
    BY <1>1, AskedRests DEF hostVars, Session, Size, After
  <1>14. \A n \in Marks : Effect(n)' <=> Effect(n)
    BY <1>13 DEF Effect
  <1>15. /\ Effect(1)' <=> Effect(1)
         /\ Effect(2)' <=> Effect(2)
         /\ Effect(4)' <=> Effect(4)
         /\ Effect(5)' <=> Effect(5)
         /\ Effect(15)' <=> Effect(15)
    BY <1>14 DEF Marks
  <1>16. Taken' = After
    BY <1>1, <1>2, <1>13 DEF Taken
  <1>17. Orderly'
    BY <1>1, <1>2, <1>13 DEF InStep, Orderly, Exchange
  <1>18. Informed'
    BY <1>12, <1>13, <1>15 DEF InStep, Informed
  <1>19. Streaming'
    BY <1>2, <1>12, <1>13 DEF Streaming, MayBeOpen
  <1>20. Collecting'
    <2>1. crc' = Front(Taken)'
      BY <1>12, <1>13, <1>16 DEF Front
    <2>2. Ota!Fresh(dataOffset + idx, Size(run))'
      BY <1>5, <1>6, <1>12, <1>13 DEF Ota!Fresh
    <2> QED
      BY <1>3, <1>6, <1>12, <1>13, <2>1, <2>2 DEF Collecting
  <1>21. Finished'
    BY <1>3, <1>15 DEF Finished
  <1> QED
    BY <1>1, <1>17, <1>18, <1>19, <1>20, <1>21 DEF InStep, WorkOwed

\* A piece that was served to its end leaves the transfer as the server expects it.
LEMMA PieceEnds ==
  ASSUME Base, Healthy, InStep, PieceServed, ~trouble'
  PROVE  InStep' /\ WorkOwed'
  <1>1. /\ owed # None /\ ~busy /\ owed' = None /\ UNCHANGED <<request, hostVars>>
    BY DEF PieceServed
  <1>2. /\ owed = Asked /\ step = "data" /\ answers = <<>> /\ request = None /\ waiting
    BY <1>1 DEF InStep, Orderly, Exchange
  <1>3. /\ Place = 14 /\ state = "RECV" /\ owed.run = run /\ owed.from = pos
        /\ AskedObject = "piece" /\ ~MayBeOpen
    <2>1. /\ Place = 14 /\ state = "RECV" /\ Asked = [what |-> "piece", run |-> run, from |-> pos]
          /\ ~MayBeOpen
      BY <1>2, DataPart DEF Base
    <2> QED
      BY <1>2, <2>1 DEF AskedObject, ObjectOf, Commands
  <1>4. open <=> ~(owed.from + PieceBytes >= Size(owed.run))
    <2>1. Taken = After
      BY <1>2 DEF Taken
    <2>2. open <=> After \notin {0, Size(run)}
      BY <1>1, <1>2, <1>3, <2>1 DEF InStep, Streaming, Underway
    <2>3. After # 0 /\ (pos + PieceBytes >= Size(run) <=> After = Size(run))
      BY <1>2, PieceEnd DEF Base, Healthy
    <2> QED
      BY <1>3, <2>2, <2>3
  <1>5. UNCHANGED deviceVars /\ Answer([obj |-> "piece"])
    BY <1>3, <1>4 DEF PieceServed
  <1>6. answers' = Append(answers, [obj |-> "piece"])
    BY <1>5, AnswerGoes
  <1>7. [obj |-> "piece"] \in Replies
    BY DEF Replies, Objects
  <1>8. InStep'
    BY <1>1, <1>2, <1>3, <1>5, <1>6, <1>7, QuietAnswer DEF Marks
  <1>9. WorkOwed'
    BY <1>1, <1>5 DEF WorkOwed, deviceVars
  <1> QED
    BY <1>8, <1>9

\* The server refuses nothing but the first request of a run, for the transfer that
\* was left open, which it ends by that.
LEMMA RefuseInStep ==
  ASSUME Base, Healthy, InStep, WorkOwed, Refuse, ~trouble'
  PROVE  InStep' /\ WorkOwed'
  <1>1. /\ request # None /\ ~busy /\ owed = None
        /\ IF request.what = "piece" THEN ~(open <=> request.from # 0) ELSE open
        /\ IF open THEN Device!DropTransfer ELSE UNCHANGED deviceVars
        /\ Answer(Abort) /\ request' = None /\ owed' = owed /\ UNCHANGED hostVars
    BY DEF Refuse, Starts, Served
  <1>2. /\ step \in Working /\ waiting /\ request = Asked /\ answers = <<>>
    BY <1>1, RequestOf DEF InStep
  <1>3. Place = 14 <=> request.what = "piece"
    BY <1>2, ScriptPlace DEF Base
  <1>4. MayBeOpen
    <2> SUFFICES ASSUME ~MayBeOpen PROVE FALSE
      OBVIOUS
    <2>1. open <=> Underway
      BY <1>1 DEF InStep, Streaming
    <2>2. CASE step = "data"
      <3>1. Place = 14 /\ request.from = pos
        BY <1>2, <2>2, DataPart DEF Base
      <3>2. Taken = pos
        BY <1>1, <2>2 DEF Taken
      <3>3. pos \in Nat /\ pos < Size(run) /\ Size(run) \in Nat
        BY <2>2, PieceEnd DEF Base, Healthy
      <3>4. pos # Size(run)
        BY <3>3
      <3>5. Underway <=> pos # 0
        BY <2>2, <3>2, <3>4 DEF Underway
      <3> QED
        BY <1>1, <1>3, <2>1, <3>1, <3>5
    <2>3. CASE step # "data"
      <3>1. ~Underway
        BY <2>3 DEF Underway
      <3>2. Place # 14
        BY <2>3 DEF Base, Script, Place, Working
      <3> QED
        BY <1>1, <1>3, <2>1, <3>1, <3>2
    <2> QED
      BY <2>2, <2>3
  <1>5. step = "identity" /\ Place = 0
    BY <1>4 DEF MayBeOpen, Place
  <1>6. Device!DropTransfer
    BY <1>1, <1>3, <1>5
  <1>7. ~open' /\ busy' = busy
    BY <1>6 DEF Device!DropTransfer, Device!CloseStream, Device!jobVars
  <1>8. answers' = Append(answers, Abort)
    BY <1>1, AnswerGoes
  <1>9. /\ Orderly' /\ ~MayBeOpen' /\ Underway' = Underway
        /\ \A n \in Marks : Effect(n)' <=> Place >= n
    BY <1>1, <1>2, <1>5, <1>8, AbortType, AnswerInStep DEF InStep, Abort
  <1>10. ~Effect(1)' /\ ~Effect(2)' /\ ~Effect(4)' /\ ~Effect(5)' /\ ~Effect(8)' /\ ~Effect(15)'
    BY <1>5, <1>9 DEF Marks
  <1>11. Informed' /\ Collecting' /\ Finished'
    BY <1>10 DEF Informed, Collecting, Finished
  <1>12. Streaming'
    BY <1>1, <1>5, <1>7, <1>9 DEF Streaming, Underway
  <1> QED
    BY <1>1, <1>7, <1>9, <1>11, <1>12 DEF InStep, WorkOwed

----------------------------------------------------------------------------
(* The data handler's loop, the main loop and the timer                    *)

LEMMA SameStageByte ==
  /\ Device!StageByte <=> Ota!StageByte
  /\ Device!Stale <=> Ota!Stale
  /\ Device!Word = Ota!Word
  /\ Device!IsBlank(flash, Device!Word.addr) <=> Ota!IsBlank(flash, Ota!Word.addr)
  BY DEF
    Device!StageByte, Device!Stale, Device!Word, Device!Filled, Device!Position, Device!WordBase,
    Device!ProgramWord, Device!ProgramDone, Device!IsBlank, Device!Addr, Device!Lanes,
    Device!EmptyCache, Device!BlankWord, Device!SetError, Device!CloseStream, Device!ctlVars,
    Device!countVars, Device!statusVars, Device!flashVars, Device!swapVars, Device!streamVars,
    Ota!StageByte, Ota!Stale, Ota!Word, Ota!Filled, Ota!Position, Ota!WordBase,
    Ota!ProgramWord, Ota!ProgramDone, Ota!IsBlank, Ota!Addr, Ota!Lanes,
    Ota!EmptyCache, Ota!BlankWord, Ota!SetError, Ota!CloseStream, Ota!ctlVars,
    Ota!countVars, Ota!statusVars, Ota!flashVars, Ota!swapVars, Ota!streamVars

\* A step of the device alone leaves host and exchange where they are.
LEMMA PlaceRests ==
  ASSUME UNCHANGED <<serverVars, answers, hostVars>>
  PROVE  /\ Orderly => Orderly'
         /\ run' = run /\ Session' = Session /\ Size(run)' = Size(run)
         /\ \A n : Effect(n)' <=> Effect(n)
         /\ Taken' = Taken /\ Underway' = Underway /\ UNCHANGED <<pos, request, owed>>
         /\ MayBeOpen' <=> MayBeOpen
  <1>1. /\ UNCHANGED <<step, pos, waiting, seen, endFailed, run>> /\ UNCHANGED <<request, owed>>
        /\ answers' = answers
        /\ Asked' = Asked /\ AskedObject' = AskedObject /\ Place' = Place
    BY AskedRests DEF hostVars, serverVars
  <1>2. Session' = Session /\ Size(run)' = Size(run) /\ After' = After
    BY <1>1 DEF Session, Size, After
  <1>3. Taken' = Taken /\ Underway' = Underway
    BY <1>1, <1>2 DEF Taken, Underway
  <1>4. \A n : Effect(n)' <=> Effect(n)
    BY <1>1 DEF Effect
  <1>5. Orderly => Orderly'
    BY <1>1, <1>2 DEF Orderly, Exchange, Final
  <1>6. MayBeOpen' <=> MayBeOpen
    BY <1>1 DEF MayBeOpen
  <1> QED
    BY <1>1, <1>2, <1>3, <1>4, <1>5, <1>6

\* A piece in work.
LEMMA PieceInWork ==
  ASSUME Base, Ota!IInv, Device!TypeOK, Healthy, InStep, WorkOwed, busy
  PROVE  /\ owed # None /\ Effect(8) /\ ~Effect(15) /\ Taken = After /\ open /\ ~session
         /\ ~MayBeOpen
         /\ expectedSize = Size(run) /\ state = "RECV" /\ prepared
         /\ Size(run) \in Nat \ {0} /\ After \in Nat /\ pos \in Nat /\ pos < After /\ After <= Size(run)
         /\ dataOffset = pos /\ nextOffset = pos /\ crc = Front(After)
         /\ Len(crc) = After /\ After = pos + Len(chunk) /\ Len(chunk) \in Nat
         /\ Ota!Fresh(dataOffset + idx, Size(run))
  <1>1. owed # None /\ step = "data" /\ request = None /\ waiting
    BY DEF WorkOwed, InStep, Orderly, Exchange
  <1>2. Taken = After
    BY <1>1 DEF Taken
  <1>3. /\ Effect(8) /\ ~Effect(15) /\ expectedSize = Size(run) /\ state = "RECV" /\ prepared
        /\ crc = Front(After) /\ ~MayBeOpen
    BY <1>1, <1>2, DataPart DEF Base
  <1>4. open /\ ~session
    BY <1>1, <1>3, DataPart DEF Base, InStep, Streaming
  <1>5. /\ Size(run) \in Nat \ {0} /\ After \in Nat /\ pos \in Nat /\ pos < After /\ After <= Size(run)
    BY <1>1, PieceEnd DEF Base, Healthy
  <1>6. dataOffset = pos /\ nextOffset = pos /\ Ota!Fresh(dataOffset + idx, Size(run))
    BY <1>3 DEF InStep, Collecting
  <1>7. Len(crc) = After
    <2>1. Session.image \in Seq(Byte) /\ Size(run) = Len(Session.image)
      BY WholeFront DEF Base
    <2>2. \A i \in 1 .. After : Session.image[i] \in Byte
      BY <1>5, <2>1, ElementOfSeq
    <2> QED
      BY <1>3, <1>5, <2>2, SubSeqProperties DEF Front
  <1>8. Len(crc) = dataOffset + Len(chunk) /\ Len(chunk) \in Nat
    BY DEF Ota!IInv, Ota!InLoop, Device!TypeOK
  <1>9. After = pos + Len(chunk)
    BY <1>6, <1>7, <1>8
  <1> QED
    BY <1>1, <1>2, <1>3, <1>4, <1>5, <1>6, <1>7, <1>8, <1>9

\* A byte of a piece goes to erased flash, or waits in the cache for its word.
LEMMA ByteInStep ==
  ASSUME UseFlash, Base, Device!TypeOK, Ota!IInv, Ota!InArea, Healthy, InStep, WorkOwed, Device!StageByte,
         ~FlashFails, UNCHANGED <<serverVars, answers, hostVars>>
  PROVE  InStep' /\ WorkOwed'
  <1>1. busy
    BY DEF Device!StageByte
  <1>2. /\ owed # None /\ Effect(8) /\ ~Effect(15) /\ Taken = After /\ open /\ ~session /\ ~MayBeOpen
        /\ state = "RECV" /\ prepared /\ Size(run) \in Nat /\ After <= Size(run)
        /\ dataOffset = pos /\ nextOffset = pos /\ crc = Front(After) /\ Len(crc) = After
        /\ Ota!Fresh(dataOffset + idx, Size(run))
    BY <1>1, PieceInWork
  <1>3. /\ Orderly' /\ run' = run /\ Session' = Session /\ Size(run)' = Size(run)
        /\ \A n : Effect(n)' <=> Effect(n)
        /\ Taken' = Taken /\ Underway' = Underway /\ UNCHANGED <<pos, request, owed>>
        /\ MayBeOpen' <=> MayBeOpen
    BY PlaceRests DEF InStep
  <1>4. /\ UNCHANGED <<target, imageType, expectedSize, expectedCRC, crc, session, prepared, nextOffset>>
    BY DEF Device!StageByte, Device!ctlVars, Device!countVars
  <1>5. \/ /\ state' = "ERROR" /\ lastError' = "STAGE_WRITE" /\ ~Ota!Stale
           /\ Ota!IsBlank(flash, Ota!Word.addr)
        \/ /\ UNCHANGED <<Ota!statusVars, Ota!streamVars, busy, chunk>>
           /\ Ota!Fresh(Ota!Position, Size(run))'
    <2>1. Ota!Fresh(Ota!Position, Size(run))
      BY <1>2 DEF Ota!Position
    <2>2. PICK n \in Nat : n = Size(run)
      BY <1>2
    <2>3. \/ /\ state' = "ERROR" /\ lastError' = "STAGE_WRITE" /\ ~Ota!Stale
             /\ Ota!IsBlank(flash, Ota!Word.addr)
          \/ /\ UNCHANGED <<Ota!statusVars, Ota!streamVars, busy, chunk>>
             /\ Ota!Fresh(Ota!Position, n)'
      BY <1>2, <2>1, <2>2, SameStageByte, SameTypeOK, DeviceAssumptions, Ota!CleanByte
    <2> QED
      BY <1>3, <2>2, <2>3 DEF Ota!Fresh
  <1>6. /\ UNCHANGED <<state, lastError, open, dataOffset, busy>>
        /\ Ota!Fresh(dataOffset + idx, Size(run))'
    <2>1. ~(/\ state' = "ERROR" /\ lastError' = "STAGE_WRITE" /\ ~Ota!Stale
            /\ Ota!IsBlank(flash, Ota!Word.addr))
      BY <1>1, <1>2, SameStageByte DEF FlashFails, WordInHand
    <2> QED
      BY <1>5, <2>1 DEF Ota!statusVars, Ota!streamVars, Ota!Position
  <1>7. Informed'
    BY <1>3, <1>4 DEF InStep, Informed
  <1>8. Streaming'
    BY <1>2, <1>3, <1>6 DEF InStep, Streaming
  <1>9. Collecting'
    <2>1. crc' = Front(Taken)'
      BY <1>2, <1>3, <1>4 DEF Front
    <2> QED
      BY <1>1, <1>2, <1>3, <1>4, <1>6, <2>1 DEF Collecting
  <1>10. Finished'
    BY <1>2, <1>3 DEF Finished
  <1> QED
    BY <1>2, <1>3, <1>7, <1>8, <1>9, <1>10 DEF InStep, WorkOwed

\* The end of a piece closes the transfer exactly if the image is complete.
LEMMA FinishInStep ==
  ASSUME Base, Device!TypeOK, Ota!IInv, Healthy, InStep, WorkOwed, Device!FinishData,
         UNCHANGED <<serverVars, answers, hostVars>>
  PROVE  InStep' /\ WorkOwed'
  <1>1. busy /\ idx = Len(chunk)
    BY DEF Device!FinishData
  <1>2. /\ Effect(8) /\ ~Effect(15) /\ Taken = After /\ open /\ ~session /\ ~MayBeOpen
        /\ expectedSize = Size(run) /\ state = "RECV" /\ prepared
        /\ Size(run) \in Nat \ {0} /\ After \in Nat /\ pos \in Nat /\ pos < After /\ After <= Size(run)
        /\ dataOffset = pos /\ crc = Front(After) /\ After = pos + Len(chunk) /\ Len(chunk) \in Nat
        /\ Ota!Fresh(dataOffset + idx, Size(run))
    BY <1>1, PieceInWork
  <1>3. /\ Orderly' /\ run' = run /\ Session' = Session /\ Size(run)' = Size(run)
        /\ \A n : Effect(n)' <=> Effect(n)
        /\ Taken' = Taken /\ Underway' = Underway /\ (MayBeOpen' <=> MayBeOpen)
    BY PlaceRests DEF InStep
  <1>4. dataOffset + Len(chunk) = After /\ chunk # <<>> /\ ~(After > Size(run)) /\ After # 0
    <2>1. Len(chunk) # 0
      BY <1>2
    <2> QED
      BY <1>2, <2>1
  <1>5. /\ UNCHANGED <<target, imageType, expectedSize, expectedCRC, crc, session, prepared, flash, state>>
        /\ busy' = FALSE /\ nextOffset' = After
        /\ IF After = Size(run) THEN open' = FALSE ELSE open' = TRUE /\ dataOffset' = After
    BY <1>2, <1>4 DEF Device!FinishData, Device!CloseStream, Device!ctlVars, Device!statusVars,
      Device!flashVars
  <1>6. Underway <=> After # Size(run)
    <2>1. step = "data"
      BY <1>1 DEF WorkOwed, InStep, Orderly, Exchange
    <2> QED
      BY <1>2, <1>4, <2>1 DEF Underway
  <1>7. Informed'
    BY <1>3, <1>5 DEF InStep, Informed
  <1>8. Streaming'
    BY <1>2, <1>3, <1>5, <1>6 DEF Streaming
  <1>9. Collecting'
    <2>1. crc' = Front(Taken)' /\ nextOffset' = Taken' /\ (open' => dataOffset' = Taken')
      BY <1>2, <1>3, <1>5 DEF Front
    <2>2. Ota!Fresh(nextOffset, Size(run))'
      BY <1>1, <1>2, <1>3, <1>4, <1>5 DEF Ota!Fresh
    <2> QED
      BY <1>2, <1>5, <2>1, <2>2 DEF Collecting
  <1>10. Finished'
    BY <1>2, <1>3 DEF Finished
  <1> QED
    BY <1>3, <1>5, <1>7, <1>8, <1>9, <1>10 DEF InStep, WorkOwed

\* The installation, the timer, and nothing at all.
LEMMA TimeInStep ==
  ASSUME InStep, WorkOwed, Device!ProcessPending \/ Device!Tick \/ UNCHANGED deviceVars,
         UNCHANGED <<serverVars, answers, hostVars>>
  PROVE  InStep' /\ WorkOwed'
  <1>1. DeviceRests
    <2>1. Device!ProcessPending => DeviceRests
      BY DEF DeviceRests, Device!ProcessPending, Device!ctlVars, Device!countVars, Device!statusVars,
        Device!stageVars, Device!flashVars, Device!streamVars, Device!jobVars
    <2>2. Device!Tick => DeviceRests
      BY DEF DeviceRests, Device!Tick, Device!ctlVars, Device!countVars, Device!statusVars,
        Device!stageVars, Device!flashVars, Device!streamVars, Device!jobVars
    <2>3. UNCHANGED deviceVars => DeviceRests
      BY DEF DeviceRests, deviceVars
    <2> QED
      BY <2>1, <2>2, <2>3
  <1>2. Orderly' /\ SamePlace /\ UNCHANGED owed
    BY PlaceRests DEF InStep, SamePlace
  <1>3. Informed' /\ Streaming' /\ Collecting' /\ Finished'
    BY <1>1, <1>2, RestInStep
  <1>4. WorkOwed'
    BY <1>1, <1>2 DEF WorkOwed, DeviceRests
  <1> QED
    BY <1>2, <1>3, <1>4 DEF InStep

----------------------------------------------------------------------------
(* No session fails without a cause                                        *)

\* Work is owed whatever goes wrong.
LEMMA NextWorkOwed ==
  ASSUME Base, WorkOwed, [Next]_vars
  PROVE  WorkOwed'
  <1>1. CASE HostStep \/ RunAgain \/ NextImage \/ UNCHANGED vars
    <2>1. UNCHANGED <<busy, owed>>
      BY <1>1 DEF HostStep, Ask, ReadAnswer, AnswerTimeout, DeadlinePasses, Interrupt, RunAgain,
        NextImage, vars,
        deviceVars, serverVars
    <2> QED
      BY <2>1 DEF WorkOwed
  <1>2. CASE ServeParameter \/ ServeOther \/ ServeStatus \/ ServeCommand
    <2>1. ~busy /\ owed' = owed
      BY <1>2 DEF ServeParameter, ServeOther, ServeStatus, ServeCommand, Idle, Starts, Served
    <2>2. busy' = busy
      <3>1. CASE ServeParameter
        BY <3>1 DEF ServeParameter, Device!WriteParameter, Device!jobVars
      <3>2. CASE ServeOther \/ ServeStatus
        BY <3>2 DEF ServeOther, ServeStatus, deviceVars
      <3>3. CASE ServeCommand
        <4>1. \/ Device!Start \/ Device!End \/ Device!Apply
              \/ Device!StartRefused \/ Device!EndRefused \/ Device!ApplyRefused
          <5>1. request.what \in Commands
            BY <3>3 DEF ServeCommand, Idle, Starts
          <5> QED
            BY <3>3, <5>1 DEF ServeCommand, Commands
        <4> QED
          BY <4>1 DEF Device!Start, Device!End, Device!Apply, Device!StartRefused, Device!EndRefused,
            Device!ApplyRefused, Device!Refuse, Device!jobVars
      <3> QED
        BY <1>2, <3>1, <3>2, <3>3
    <2> QED
      BY <2>1, <2>2 DEF WorkOwed
  <1>3. CASE ServePiece
    BY <1>3 DEF ServePiece, Starts, WorkOwed
  <1>4. CASE PieceServed \/ Refuse \/ TransferTimeout
    <2>1. ~busy
      BY <1>4 DEF PieceServed, Refuse, Starts, TransferTimeout, Device!DropTransfer
    <2>2. busy' = busy
      BY <1>4 DEF PieceServed, Refuse, TransferTimeout, Device!DropTransfer, Device!jobVars, deviceVars
    <2> QED
      BY <2>1, <2>2 DEF WorkOwed
  <1>5. CASE Work
    <2>1. owed' = owed
      BY <1>5 DEF Work, serverVars
    <2>2. busy' => busy
      BY <1>5 DEF Work, Device!StageByte, Device!FinishData, Device!ProcessPending, Device!Tick,
        Device!jobVars
    <2> QED
      BY <2>1, <2>2 DEF WorkOwed
  <1>6. CASE Restart
    BY <1>6 DEF Restart, Device!Restart, WorkOwed
  <1> QED
    BY <1>1, <1>2, <1>3, <1>4, <1>5, <1>6 DEF Next, Server

\* Trouble stays for the session.
LEMMA TroubleStays ==
  ASSUME Base, HostStep \/ Server \/ Work \/ UNCHANGED vars, ~trouble'
  PROVE  ~trouble /\ run' = run
  <1>1. CASE HostStep
    BY <1>1 DEF HostStep, Ask, ReadAnswer, AnswerTimeout, DeadlinePasses, Interrupt
  <1>2. CASE Server
    <2>1. run' = run
      BY <1>2 DEF Server, ServeParameter, ServeOther, ServeStatus, ServeCommand, ServePiece,
        PieceServed, Refuse, TransferTimeout, Served, serverVars, hostVars
    <2>2. CASE ServePiece \/ TransferTimeout
      BY <2>1, <2>2 DEF ServePiece, TransferTimeout
    <2>3. CASE ServeParameter \/ ServeOther \/ ServeStatus \/ ServeCommand \/ PieceServed \/ Refuse
      <3>1. \E a : Answer(a)
        BY <2>3 DEF ServeParameter, ServeOther, ServeStatus, ServeCommand, PieceServed, Refuse
      <3> QED
        BY <2>1, <3>1, AnswerGoes
    <2> QED
      BY <1>2, <2>2, <2>3 DEF Server
  <1>3. CASE Work
    BY <1>3 DEF Work, hostVars, Base, Script
  <1>4. CASE UNCHANGED vars
    BY <1>4 DEF vars, hostVars
  <1> QED
    BY <1>1, <1>2, <1>3, <1>4

\* What is known of device and messages in every session.
Sound == Base /\ Device!TypeOK /\ Ota!IInv /\ Ota!InArea

LEMMA NextInStep ==
  ASSUME UseFlash, ~SkipIdentity, Sound, Sound', WorkOwed, Healthy => InStep, [Next]_vars, Healthy'
  PROVE  InStep'
  <1> USE DEF Sound
  <1>1. ~trouble'
    BY DEF Healthy
  <1>2. CASE RunAgain
    BY <1>1, <1>2, AgainInStep
  <1>3. CASE Restart
    BY <1>1, <1>3 DEF Restart
  <1>4. CASE HostStep \/ Server \/ Work \/ UNCHANGED vars
    <2>1. ~trouble /\ run' = run
      BY <1>1, <1>4, TroubleStays
    <2>2. Healthy /\ InStep
      BY <2>1 DEF Healthy, Session, Size, Device!SizeFits
    <2>3. CASE HostStep
      <3>1. Orderly' /\ SamePlace /\ UNCHANGED deviceVars
        BY <1>1, <2>2, <2>3, HostInStep DEF InStep
      <3>2. DeviceRests
        BY <3>1 DEF DeviceRests, deviceVars
      <3> QED
        BY <2>2, <3>1, <3>2, RestInStep DEF InStep
    <2>4. CASE Server
      <3>1. CASE ServeCommand
        <4>1. request.what \in Commands
          BY <3>1 DEF ServeCommand, Idle, Starts
        <4> QED
          BY <1>1, <2>2, <3>1, <4>1, StartInStep, EndInStep, ApplyInStep DEF Commands
      <3>2. CASE ServeParameter \/ ServeOther \/ ServeStatus
        BY <1>1, <2>2, <3>2, ParameterInStep, OtherInStep, StatusInStep
      <3>3. CASE ServePiece \/ PieceServed
        BY <1>1, <2>2, <3>3, PieceBegins, PieceEnds
      <3>4. CASE Refuse \/ TransferTimeout
        BY <1>1, <2>2, <3>4, RefuseInStep DEF TransferTimeout
      <3> QED
        BY <2>4, <3>1, <3>2, <3>3, <3>4 DEF Server
    <2>5. CASE Work
      <3>1. ~FlashFails /\ UNCHANGED <<serverVars, answers, hostVars>>
        BY <1>1, <2>5 DEF Work
      <3>2. Device!StageByte \/ Device!FinishData \/ Device!ProcessPending \/ Device!Tick
        BY <2>5 DEF Work
      <3> QED
        BY <2>2, <3>1, <3>2, ByteInStep, FinishInStep, TimeInStep
    <2>6. CASE UNCHANGED vars
      <3>1. UNCHANGED <<serverVars, answers, hostVars>> /\ UNCHANGED deviceVars
        BY <2>6 DEF vars
      <3> QED
        BY <2>2, <3>1, TimeInStep
    <2> QED
      BY <1>4, <2>3, <2>4, <2>5, <2>6
  <1>5. CASE NextImage
    BY <1>5 DEF NextImage, Healthy, Session
  <1> QED
    BY <1>2, <1>3, <1>4, <1>5 DEF Next

\* Host, server and device stay in step as long as nothing goes wrong, if every run
\* of the program begins with the read of the identity.
THEOREM Together == UseFlash /\ ~SkipIdentity => (Spec => [](WorkOwed /\ (Healthy => InStep)))
  <1> SUFFICES ASSUME UseFlash, ~SkipIdentity PROVE Spec => [](WorkOwed /\ (Healthy => InStep))
    OBVIOUS
  <1>1. Spec => []Sound
    <2>1. Ota!Spec => []Ota!IInv /\ []Ota!TypeOK
      BY DeviceAssumptions, Ota!Invariance, Ota!TypeCorrect, PTL
    <2>2. Ota!Init => Ota!InArea
      BY DeviceAssumption DEF Ota!Init, Ota!InArea
    <2>3. Ota!TypeOK /\ Ota!InArea /\ [Ota!Next]_(Ota!vars) => Ota!InArea'
      BY DeviceAssumptions, Ota!NextInArea
    <2>4. Ota!Spec => []Ota!InArea
      BY <2>1, <2>2, <2>3, PTL DEF Ota!Spec
    <2>5. Base /\ Ota!TypeOK /\ Ota!IInv /\ Ota!InArea => Sound
      BY SameTypeOK DEF Sound
    <2> QED
      BY <2>1, <2>4, <2>5, BaseHolds, PTL
  <1>2. Sound /\ Sound' /\ WorkOwed /\ (Healthy => InStep) /\ [Next]_vars
          => WorkOwed' /\ (Healthy' => InStep')
    BY NextWorkOwed, NextInStep DEF Sound
  <1>3. Init => WorkOwed /\ (Healthy => InStep)
    BY InitInStep
  <1> QED
    BY <1>1, <1>2, <1>3, PTL DEF Spec

\* A session for this target, with an image that fits, does not fail unless in its
\* run of the program something was lost or late, a timeout passed, the flash
\* refused what it could do, power failed or the user stopped it.  What older runs
\* have done to the update object is no reason, nor is a transfer they left open;
\* with --skip-identity it is one.
THEOREM FailureHasCause == UseFlash /\ ~SkipIdentity => (Spec => []NoFalseAlarm)
  <1>1. Base /\ (Healthy => InStep) => NoFalseAlarm
    BY DEF NoFalseAlarm, Healthy, InStep, Orderly
  <1> QED
    BY <1>1, Together, BaseHolds, PTL
=============================================================================
