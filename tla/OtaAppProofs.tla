---------------------------- MODULE OtaAppProofs ----------------------------
(***************************************************************************)
(* Proofs about OtaApp: type correctness and, for builds that program      *)
(* flash, that an accepted image is in flash and stays there until it is   *)
(* installed, which is never before its delay has passed.                  *)
(***************************************************************************)
EXTENDS OtaApp, TLAPS

----------------------------------------------------------------------------
(* The inductive invariant *)

\* The first n bytes of img have been staged: the whole words in flash f, the
\* rest in the word cache c.
Collected(f, c, n, img) ==
  /\ n <= Len(img) /\ n <= StageSize
  /\ \A a \in 0 .. WordBase(n) - 1 : f[a] = img[a + 1]
  /\ IF n % WordBytes = 0
     THEN ~c.valid
     ELSE /\ c.valid
          /\ c.addr = WordBase(n)
          /\ c.mask = 0 .. (n % WordBytes) - 1
          /\ \A l \in c.mask : c.data[l] = img[WordBase(n) + l + 1]

\* Everything up to nextOffset is staged, or the host has opened the transfer
\* again with an empty segment, which leaves nothing that counts.
Staged ==
  \/ nextOffset = Len(crc) /\ Collected(flash, cache, nextOffset, crc)
  \/ nextOffset # 0 /\ crc = <<>>

\* Between two calls of the data handler.
AtRest ==
  state = "RECV" /\ ~busy =>
    /\ Staged
    /\ bytesReceived = Len(crc) /\ bytesWritten = Len(crc)
    /\ open => dataOffset = Len(crc)

\* In the middle of the data handler's loop.
InLoop ==
  busy =>
    /\ state = "RECV" /\ open
    /\ idx <= Len(chunk)
    /\ Len(crc) = dataOffset + Len(chunk)
    /\ bytesReceived = Len(crc)
    /\ IF chunk = <<>>
       THEN Staged
       ELSE /\ dataOffset = nextOffset
            /\ Len(crc) <= StageSize
            /\ \A j \in 1 .. Len(chunk) : crc[dataOffset + j] = chunk[j]
            /\ Collected(flash, cache, dataOffset + idx, crc)

\* What reception itself guarantees.
Receiving ==
  state = "RECV" => prepared /\ imageCRC = crc /\ ~swapPending

IInv ==
  /\ AtRest
  /\ InLoop
  /\ Receiving
  /\ StagedImage
  /\ SwapSource
  /\ NoImageAfterFlashError

----------------------------------------------------------------------------
(* Helpers *)

\* A word has at least two bytes.
LEMMA WordFacts == WordBytes \in Nat /\ WordBytes > 1 /\ BlankWord \in [Lanes -> Byte]
                   /\ EmptyCache \in Caches
  BY WordAssumption, BlankAssumption DEF BlankWord, Lanes, EmptyCache, Caches

\* The lane and the word of an offset.
LEMMA WordOf ==
  ASSUME NEW a \in Nat
  PROVE  /\ a % WordBytes \in Lanes
         /\ WordBase(a) \in Nat
         /\ a = WordBase(a) + (a % WordBytes)
  <1>1. CASE WordBytes = 2  BY <1>1 DEF Lanes, WordBase
  <1>2. CASE WordBytes = 4  BY <1>2 DEF Lanes, WordBase
  <1> QED BY <1>1, <1>2, WordAssumption

\* The offset after a byte: in the same word, or, after its last lane, at the
\* start of the next one.
LEMMA NextByte ==
  ASSUME NEW n \in Nat
  PROVE  /\ (n % WordBytes) + 1 # WordBytes =>
              WordBase(n + 1) = WordBase(n) /\ (n + 1) % WordBytes = (n % WordBytes) + 1
         /\ (n % WordBytes) + 1 = WordBytes =>
              /\ WordBase(n + 1) = n + 1 /\ (n + 1) % WordBytes = 0
              /\ WordBase(n) + WordBytes = n + 1
  <1>1. CASE WordBytes = 2  BY <1>1 DEF WordBase
  <1>2. CASE WordBytes = 4  BY <1>2 DEF WordBase
  <1> QED BY <1>1, <1>2, WordAssumption

\* A word that begins in the staging area ends there.
LEMMA WordInArea ==
  ASSUME NEW n \in Nat, n < StageSize
  PROVE  WordBase(n) + WordBytes <= StageSize
  <1>1. CASE WordBytes = 2  BY <1>1, StageAssumption DEF WordBase
  <1>2. CASE WordBytes = 4  BY <1>2, StageAssumption DEF WordBase
  <1> QED BY <1>1, <1>2, WordAssumption

\* The time is kept within the timer's range.
LEMMA TickRange == ASSUME NEW t \in Nat PROVE t % TickMod \in Ticks
  BY TimerAssumption DEF Ticks

\* Programming a word and erasing pages keep flash a function of bytes.
LEMMA ProgramType ==
  ASSUME NEW f \in [Addr -> Byte], NEW w \in Caches
  PROVE  ProgramDone(f, w) \in [Addr -> Byte]
  BY WordFacts DEF ProgramDone, Addr, Caches, Lanes

\* The word cache keeps its type when a byte is put into it.
LEMMA FilledType ==
  ASSUME TypeOK, busy, idx < Len(chunk)
  PROVE  cache \in Caches /\ Word \in Caches /\ Filled \in Caches
  <1>1. Position \in Nat /\ chunk[idx + 1] \in Byte
    BY DEF TypeOK, Position
  <1>2. Position % WordBytes \in Lanes /\ WordBase(Position) \in Nat
    BY <1>1, WordOf
  <1>3. cache \in Caches
    BY DEF TypeOK
  <1>4. Word \in Caches
    BY <1>2, <1>3, WordFacts DEF Word, Caches
  <1>5. Filled \in Caches
    BY <1>1, <1>2, <1>4 DEF Filled, Caches
  <1> QED
    BY <1>3, <1>4, <1>5

LEMMA ProgramWordType ==
  ASSUME TypeOK, NEW w \in Caches, NEW done \in BOOLEAN, ProgramWord(w, done)
  PROVE  flash' \in [Addr -> Byte] /\ flashErr' \in BOOLEAN
  BY ProgramType DEF TypeOK, ProgramWord, flashVars

LEMMA EraseType ==
  ASSUME TypeOK, NEW n \in Nat, NEW done \in BOOLEAN, EraseStage(n, done)
  PROVE  flash' \in [Addr -> Byte] /\ flashErr' \in BOOLEAN
  <1>1. CASE ~UseFlash  BY <1>1 DEF TypeOK, EraseStage, flashVars
  <1>2. CASE UseFlash   BY <1>2, BlankAssumption DEF TypeOK, EraseStage, Addr
  <1> QED BY <1>1, <1>2

----------------------------------------------------------------------------
(* What the word cache and the flash hold together                         *)

\* Only the bytes already staged matter.
LEMMA CollectedSame ==
  ASSUME NEW f, NEW c, NEW n \in Nat, NEW img, NEW other,
         Collected(f, c, n, img), n <= Len(other),
         \A j \in 1 .. n : other[j] = img[j]
  PROVE  Collected(f, c, n, other)
  <1> DEFINE base == WordBase(n)
             lane == n % WordBytes
  <1>1. n = base + lane /\ base \in Nat /\ lane \in Lanes
    BY WordOf
  <1>2. /\ \A a \in 0 .. base - 1 : f[a] = img[a + 1]
        /\ lane # 0 => c.mask = 0 .. lane - 1
        /\ lane # 0 => \A l \in c.mask : c.data[l] = img[base + l + 1]
    BY DEF Collected
  <1> HIDE DEF base, lane
  <1>3. n = base + lane /\ base \in Nat /\ lane \in Nat
    BY <1>1, WordFacts DEF Lanes
  <1>4. \A a \in 0 .. base - 1 : f[a] = other[a + 1]
    BY <1>2, <1>3
  <1>5. lane # 0 => \A l \in c.mask : c.data[l] = other[base + l + 1]
    BY <1>2, <1>3
  <1> QED
    BY <1>4, <1>5 DEF Collected, base, lane

\* A byte that does not fill its word stays in the cache.
LEMMA CollectedPart ==
  ASSUME NEW f \in [Addr -> Byte], NEW c, NEW n \in Nat, NEW img \in Seq(Byte),
         Collected(f, c, n, img), n < Len(img), n < StageSize,
         (n % WordBytes) + 1 # WordBytes,
         NEW w, w.valid, w.addr = WordBase(n), w.mask = 0 .. n % WordBytes,
         \A l \in w.mask : w.data[l] = img[WordBase(n) + l + 1]
  PROVE  Collected(f, w, n + 1, img)
  <1>1. /\ n % WordBytes \in Nat /\ (n + 1) % WordBytes = (n % WordBytes) + 1
        /\ WordBase(n + 1) = WordBase(n) /\ Len(img) \in Nat
    BY NextByte, WordOf DEF Lanes
  <1>2. n + 1 <= Len(img) /\ n + 1 <= StageSize
    BY StageAssumption
  <1>3. (n + 1) % WordBytes # 0 /\ 0 .. ((n + 1) % WordBytes) - 1 = 0 .. n % WordBytes
    BY <1>1
  <1> QED
    BY <1>1, <1>2, <1>3 DEF Collected

\* A byte that fills its word sends the word to flash.
LEMMA CollectedFull ==
  ASSUME NEW f \in [Addr -> Byte], NEW c, NEW n \in Nat, NEW img \in Seq(Byte),
         Collected(f, c, n, img), n < Len(img), n < StageSize,
         (n % WordBytes) + 1 = WordBytes,
         NEW w, w.addr = WordBase(n),
         \A l \in Lanes : w.data[l] = img[WordBase(n) + l + 1]
  PROVE  Collected(ProgramDone(f, w), EmptyCache, n + 1, img)
  <1>0. WordBase(n) \in Nat /\ WordBytes \in Nat /\ Len(img) \in Nat
    <2>1. WordBase(n) \in Nat
      BY WordOf
    <2>2. Len(img) \in Nat
      OBVIOUS
    <2> QED
      BY <2>1, <2>2, WordFacts
  <1>1. /\ (n + 1) % WordBytes = 0 /\ WordBase(n + 1) = n + 1
        /\ WordBase(n) + WordBytes = n + 1 /\ Len(img) \in Nat
        /\ WordBase(n) \in Nat /\ WordBytes \in Nat
    BY <1>0, NextByte
  <1>2. n + 1 <= Len(img) /\ n + 1 <= StageSize
    BY StageAssumption
  <1> DEFINE base == WordBase(n)
  <1>3. /\ \A a \in 0 .. base - 1 : f[a] = img[a + 1]
        /\ w.addr = base /\ base \in Nat /\ base + WordBytes = n + 1
        /\ \A l \in Lanes : w.data[l] = img[base + l + 1]
    BY <1>1 DEF Collected
  <1> HIDE DEF base
  <1>4. ASSUME NEW a \in 0 .. n PROVE ProgramDone(f, w)[a] = img[a + 1]
    <2>1. a \in Addr
      BY <1>2, StageAssumption DEF Addr
    <2>2. CASE a < base
      <3>1. ~(a \in w.addr .. w.addr + WordBytes - 1) /\ a \in 0 .. base - 1
        BY <1>3, <2>2
      <3>2. ProgramDone(f, w)[a] = f[a]
        BY <2>1, <3>1 DEF ProgramDone
      <3> QED
        BY <1>3, <3>1, <3>2
    <2>3. CASE a >= base
      <3>1. /\ a - base \in Lanes /\ a \in w.addr .. w.addr + WordBytes - 1
            /\ base + (a - base) + 1 = a + 1
        BY <1>1, <1>3, <2>3 DEF Lanes
      <3>2. ProgramDone(f, w)[a] = w.data[a - base]
        BY <1>3, <2>1, <3>1 DEF ProgramDone
      <3>3. w.data[a - base] = img[base + (a - base) + 1]
        BY <1>3, <3>1
      <3> QED
        BY <3>1, <3>2, <3>3
    <2> QED
      BY <1>3, <2>2, <2>3
  <1> QED
    BY <1>1, <1>2, <1>4 DEF Collected, EmptyCache

\* Once the cache is flushed the whole image is in flash.
LEMMA CollectedFlush ==
  ASSUME NEW f \in [Addr -> Byte], NEW c, NEW img \in Seq(Byte),
         Collected(f, c, Len(img), img)
  PROVE  \A i \in 1 .. Len(img) :
           (IF c.valid THEN ProgramDone(f, c) ELSE f)[i - 1] = img[i]
  <1> DEFINE n    == Len(img)
             base == WordBase(n)
             lane == n % WordBytes
  <1>1. n \in Nat /\ n <= StageSize
    BY DEF Collected
  <1>2. base \in Nat /\ n = base + lane /\ lane \in Lanes
    BY <1>1, WordOf
  <1>3. /\ \A a \in 0 .. base - 1 : f[a] = img[a + 1]
        /\ lane = 0 => ~c.valid
        /\ lane # 0 => /\ c.valid /\ c.addr = base /\ c.mask = 0 .. lane - 1
                       /\ \A l \in c.mask : c.data[l] = img[base + l + 1]
    BY DEF Collected
  <1> HIDE DEF n, base, lane
  <1>4. lane \in 0 .. WordBytes - 1 /\ WordBytes \in Nat
    BY <1>2, WordFacts DEF Lanes
  <1>5. ASSUME NEW i \in 1 .. n
        PROVE  (IF c.valid THEN ProgramDone(f, c) ELSE f)[i - 1] = img[i]
    <2>1. i - 1 \in Addr
      BY <1>1, StageAssumption DEF Addr
    <2>2. CASE lane = 0
      <3>1. ~c.valid /\ i - 1 \in 0 .. base - 1
        BY <1>1, <1>2, <1>3, <2>2
      <3>2. i - 1 + 1 = i
        BY <1>1
      <3> QED
        BY <1>3, <3>1, <3>2
    <2>3. CASE lane # 0 /\ i - 1 < base
      <3>1. /\ i - 1 \in 0 .. base - 1 /\ i - 1 + 1 = i
            /\ ~(i - 1 \in c.addr .. c.addr + WordBytes - 1)
        BY <1>1, <1>2, <1>3, <1>4, <2>3
      <3>2. ProgramDone(f, c)[i - 1] = f[i - 1]
        BY <2>1, <3>1 DEF ProgramDone
      <3> QED
        BY <1>3, <2>3, <3>1, <3>2
    <2>4. CASE lane # 0 /\ i - 1 >= base
      <3>1. /\ i - 1 - base \in 0 .. lane - 1 /\ base + (i - 1 - base) + 1 = i
            /\ i - 1 \in c.addr .. c.addr + WordBytes - 1
        BY <1>1, <1>2, <1>3, <1>4, <2>4
      <3>2. ProgramDone(f, c)[i - 1] = c.data[i - 1 - base]
        BY <1>3, <2>1, <2>4, <3>1 DEF ProgramDone
      <3>3. c.data[i - 1 - base] = img[base + (i - 1 - base) + 1]
        BY <1>3, <2>4, <3>1
      <3> QED
        BY <1>3, <2>4, <3>1, <3>2, <3>3
    <2> QED
      BY <1>1, <1>2, <2>2, <2>3, <2>4
  <1> QED
    BY <1>5 DEF n

----------------------------------------------------------------------------
(* Type correctness: the flags and the other variables apart, because they *)
(* are proved by different provers.                                        *)

Flags ==
  /\ session \in BOOLEAN /\ prepared \in BOOLEAN
  /\ swapPending \in BOOLEAN
  /\ open \in BOOLEAN /\ busy \in BOOLEAN
  /\ flashErr \in BOOLEAN

Values ==
  /\ target \in Targets /\ imageType \in ImageTypes
  /\ expectedSize \in Nat /\ expectedCRC \in Seq(Byte)
  /\ state \in States /\ lastError \in Errors
  /\ bytesReceived \in Nat /\ bytesWritten \in Nat
  /\ imageCRC \in Seq(Byte) /\ crc \in Seq(Byte)
  /\ nextOffset \in Nat
  /\ cache \in Caches
  /\ deadline \in Ticks /\ waited \in 0 .. ApplyDelay
  /\ flash \in [Addr -> Byte]
  /\ dataOffset \in Nat
  /\ chunk \in Seq(Byte) /\ idx \in Nat
  /\ now \in Ticks
  /\ installed \in Seq(Byte) \cup {NoImage}

LEMMA TypeSplit == TypeOK <=> Flags /\ Values
  BY DEF TypeOK, Flags, Values

LEMMA TypeSplitNext == TypeOK' <=> Flags' /\ Values'
  BY DEF TypeOK, Flags, Values

LEMMA InitType == Init => TypeOK
  <1>1. Init => Flags
    BY Zenon DEF Init, Flags
  <1>2. Init => Values
    BY WordFacts, FlashAssumption, TimerAssumption, HostAssumption
    DEF Init, Values, States, Errors, Ticks, Addr
  <1> QED BY <1>1, <1>2, TypeSplit

LEMMA NextFlags == TypeOK /\ [Next]_vars => Flags'
  <1> SUFFICES ASSUME TypeOK, [Next]_vars PROVE Flags'
    OBVIOUS
  <1> Flags
    BY TypeSplit
  <1> USE DEF Flags, ctlVars, countVars, statusVars, stageVars, flashVars, swapVars,
              streamVars, jobVars, CloseStream
  <1>1. CASE WriteParameter
    BY <1>1 DEF WriteParameter
  <1>2. ASSUME NEW code, Refuse(code) PROVE Flags'
    BY <1>2 DEF Refuse
  <1>3. CASE StartRefused \/ EndRefused \/ ApplyRefused \/ InvalidCommand
    BY <1>3, <1>2 DEF StartRefused, EndRefused, ApplyRefused, InvalidCommand
  <1>4. CASE Start
    <2> PICK done \in BOOLEAN : PrepareStage(done) /\ prepared' = done
      BY <1>4 DEF Start
    <2>1. flashErr' \in BOOLEAN
      BY EraseType DEF PrepareStage, TypeOK
    <2>2. prepared' \in BOOLEAN
      OBVIOUS
    <2> QED
      BY <1>4, <2>1, <2>2 DEF Start, ResetStatus
  <1>5. CASE End
    <2>1. flashErr' \in BOOLEAN
      BY <1>5, ProgramWordType DEF End, FlushCache, TypeOK
    <2>2. session' \in BOOLEAN
      BY <1>5 DEF End, Verdict
    <2> QED
      BY <1>5, <2>1, <2>2 DEF End
  <1>6. CASE Abort
    BY <1>6 DEF Abort, ResetStatus
  <1>7. CASE Apply
    BY <1>7 DEF Apply
  <1>8. ASSUME NEW new \in BOOLEAN, NEW data \in Chunks, WriteData(new, data)
        PROVE  Flags'
    <2>1. open' \in BOOLEAN /\ busy' \in BOOLEAN
      BY <1>8 DEF WriteData
    <2> QED BY <1>8, <2>1 DEF WriteData
  <1>9. CASE DropTransfer
    BY <1>9 DEF DropTransfer
  <1>10. CASE StageByte
    <2> PICK done \in BOOLEAN :
          /\ IF Stale THEN ProgramWord(cache, done)
             ELSE IF Filled.mask = Lanes THEN ProgramWord(Filled, done)
             ELSE done /\ UNCHANGED flashVars
          /\ IF done
             THEN idx' = idx + 1 /\ UNCHANGED <<statusVars, streamVars, busy, chunk>>
             ELSE /\ SetError("STAGE_WRITE")
                  /\ CloseStream
                  /\ busy' = FALSE /\ chunk' = <<>> /\ idx' = 0
      BY <1>10, Zenon DEF StageByte
    <2>1. cache \in Caches /\ Filled \in Caches
      BY <1>10, FilledType DEF StageByte
    <2>2. flashErr' \in BOOLEAN
      BY <2>1, ProgramWordType
    <2>3. open' \in BOOLEAN /\ busy' \in BOOLEAN
      BY <1>10, Zenon DEF StageByte
    <2>4. UNCHANGED <<session, prepared, swapPending>>
      BY <1>10 DEF StageByte
    <2> QED
      BY <2>2, <2>3, <2>4
  <1>11. CASE FinishData
    BY <1>11 DEF FinishData
  <1>12. CASE ProcessPending
    BY <1>12 DEF ProcessPending
  <1>13. CASE Tick
    BY <1>13 DEF Tick
  <1>14. CASE Restart
    BY <1>14 DEF Restart, ResetStatus
  <1>15. CASE UNCHANGED vars
    BY <1>15 DEF vars
  <1> QED
    BY <1>1, <1>3, <1>4, <1>5, <1>6, <1>7, <1>8, <1>9, <1>10, <1>11, <1>12, <1>13,
       <1>14, <1>15 DEF Next, Host

\* What counts as received or written never exceeds the staging area.
InArea ==
  /\ bytesWritten <= StageSize
  /\ dataOffset <= StageSize
  /\ state = "RECV" \/ busy => bytesReceived <= StageSize
  /\ busy => bytesReceived = dataOffset + Len(chunk)

LEMMA StagePrefixType ==
  ASSUME TypeOK, InArea
  PROVE  StagePrefix(bytesWritten) \in Seq(Byte)
  <1>1. \A i \in 1 .. bytesWritten : flash[i - 1] \in Byte
    BY StageAssumption DEF TypeOK, InArea, Addr
  <1> QED
    BY <1>1 DEF StagePrefix, TypeOK

LEMMA NextValues == TypeOK /\ InArea /\ [Next]_vars => Values'
  <1> SUFFICES ASSUME TypeOK, InArea, [Next]_vars PROVE Values'
    OBVIOUS
  <1> Values
    BY TypeSplit
  <1> USE WordFacts, HostAssumption, TimerAssumption
      DEF Values, ctlVars, countVars, statusVars, stageVars, flashVars, swapVars,
          streamVars, jobVars, CloseStream, SetError, States, Errors
  <1>0. <<>> \in Seq(Byte) /\ 0 \in Nat /\ 0 \in Ticks /\ 0 \in 0 .. ApplyDelay
    BY DEF Ticks
  <1>1. CASE WriteParameter
    BY <1>1 DEF WriteParameter
  <1>2. ASSUME NEW code \in Errors, Refuse(code) PROVE Values'
    BY <1>2 DEF Refuse
  <1>3. CASE StartRefused \/ EndRefused \/ ApplyRefused \/ InvalidCommand
    BY <1>3, <1>2 DEF StartRefused, EndRefused, ApplyRefused, InvalidCommand
  <1>4. CASE Start
    <2> PICK done \in BOOLEAN : PrepareStage(done)
      BY <1>4 DEF Start
    <2>1. flash' \in [Addr -> Byte]
      BY EraseType DEF PrepareStage
    <2>2. state' \in States /\ lastError' \in Errors
      BY <1>4 DEF Start
    <2> QED
      BY <1>0, <1>4, <2>1, <2>2 DEF Start, ResetStatus
  <1>5. CASE End
    <2>1. flash' \in [Addr -> Byte] /\ cache' \in Caches
      BY <1>5, ProgramWordType DEF End, FlushCache
    <2>2. state' \in States /\ lastError' \in Errors
      BY <1>5 DEF End, Verdict
    <2>3. bytesWritten' \in Nat /\ imageCRC' \in Seq(Byte)
      BY <1>5 DEF End, Verdict
    <2> QED
      BY <1>0, <1>5, <2>1, <2>2, <2>3 DEF End
  <1>6. CASE Abort
    BY <1>0, <1>6 DEF Abort, ResetStatus
  <1>7. CASE Apply
    <2>1. deadline' \in Ticks
      <3>1. now + ApplyDelay \in Nat
        BY DEF Ticks
      <3> QED
        BY <3>1, <1>7, TickRange DEF Apply, DeadlineAfter
    <2> QED
      BY <1>0, <1>7, <2>1 DEF Apply
  <1>8. ASSUME NEW new \in BOOLEAN, NEW data \in Chunks, WriteData(new, data)
        PROVE  Values'
    <2>1. data \in Seq(Byte) /\ Len(data) \in Nat
      OBVIOUS
    <2>2. (IF new \/ session THEN 0 ELSE dataOffset) \in Nat
      OBVIOUS
    <2>3. bytesReceived' \in Nat /\ bytesWritten' \in Nat
      BY <1>8, <2>1, <2>2 DEF WriteData
    <2>4. crc' \in Seq(Byte) /\ imageCRC' \in Seq(Byte)
      <3> DEFINE off  == IF new \/ session THEN 0 ELSE dataOffset
                 kept == IF off = 0 THEN <<>> ELSE crc
      <3>1. kept \in Seq(Byte)
        BY <1>0
      <3>2. kept \o data \in Seq(Byte)
        BY <3>1, <2>1
      <3>3. \/ crc' = crc /\ imageCRC' = imageCRC
            \/ crc' = kept \o data /\ imageCRC' = kept \o data
        BY <1>8 DEF WriteData
      <3> QED
        BY <3>2, <3>3
    <2>5. state' \in States /\ lastError' \in Errors
      BY <1>8 DEF WriteData
    <2>6. dataOffset' \in Nat /\ chunk' \in Seq(Byte) /\ idx' \in Nat
      BY <1>8, <2>1, <2>2 DEF WriteData
    <2> QED
      BY <1>8, <2>3, <2>4, <2>5, <2>6 DEF WriteData
  <1>9. CASE DropTransfer
    BY <1>9 DEF DropTransfer
  <1>10. CASE StageByte
    <2> PICK done \in BOOLEAN :
          /\ IF Stale THEN ProgramWord(cache, done)
             ELSE IF Filled.mask = Lanes THEN ProgramWord(Filled, done)
             ELSE done /\ UNCHANGED flashVars
          /\ cache' = IF Stale THEN (IF done THEN Filled ELSE cache)
                      ELSE IF Filled.mask = Lanes /\ done THEN EmptyCache
                      ELSE Filled
          /\ IF done
             THEN idx' = idx + 1 /\ UNCHANGED <<statusVars, streamVars, busy, chunk>>
             ELSE /\ SetError("STAGE_WRITE")
                  /\ CloseStream
                  /\ busy' = FALSE /\ chunk' = <<>> /\ idx' = 0
      BY <1>10 DEF StageByte
    <2>1. cache \in Caches /\ Filled \in Caches
      BY <1>10, FilledType DEF StageByte
    <2>2. flash' \in [Addr -> Byte] /\ cache' \in Caches
      BY <2>1, ProgramWordType
    <2>3. /\ state' \in States /\ lastError' \in Errors
          /\ dataOffset' \in Nat /\ chunk' \in Seq(Byte) /\ idx' \in Nat
      <3>1. CASE done
        BY <3>1
      <3>2. CASE ~done
        BY <1>0, <3>2
      <3> QED
        BY <3>1, <3>2
    <2> QED
      BY <1>10, <2>2, <2>3 DEF StageByte
  <1>11. CASE FinishData
    BY <1>11 DEF FinishData
  <1>12. CASE ProcessPending
    <2>1. installed' \in Seq(Byte)
      BY <1>12, StagePrefixType DEF ProcessPending
    <2> QED
      BY <1>0, <1>12, <2>1 DEF ProcessPending
  <1>13. CASE Tick
    <2>1. now' \in Ticks
      <3>1. now + 1 \in Nat
        BY DEF Ticks
      <3> QED
        BY <3>1, <1>13, TickRange DEF Tick
    <2>2. waited' \in 0 .. ApplyDelay
      BY <1>13 DEF Tick
    <2> QED
      BY <1>13, <2>1, <2>2 DEF Tick
  <1>14. CASE Restart
    BY <1>0, <1>14 DEF Restart, ResetStatus
  <1>15. CASE UNCHANGED vars
    BY <1>15 DEF vars
  <1> QED
    BY <1>1, <1>3, <1>4, <1>5, <1>6, <1>7, <1>8, <1>9, <1>10, <1>11, <1>12, <1>13,
       <1>14, <1>15 DEF Next, Host

LEMMA NextInArea == TypeOK /\ InArea /\ [Next]_vars => InArea'
  <1> SUFFICES ASSUME TypeOK, InArea, [Next]_vars PROVE InArea'
    OBVIOUS
  <1> Values
    BY TypeSplit
  <1> USE StageAssumption, HostAssumption
      DEF Values, InArea, ctlVars, countVars, statusVars, stageVars, flashVars, swapVars,
          streamVars, jobVars, CloseStream, SetError
  <1>1. CASE WriteParameter
    BY <1>1 DEF WriteParameter
  <1>2. ASSUME NEW code \in Errors, ~busy, Refuse(code) PROVE InArea'
    BY <1>2 DEF Refuse
  <1>3. CASE StartRefused \/ EndRefused \/ ApplyRefused \/ InvalidCommand
    BY <1>3, <1>2 DEF StartRefused, EndRefused, ApplyRefused, InvalidCommand, Errors
  <1>4. CASE Start
    BY <1>4 DEF Start, ResetStatus
  <1>5. CASE End
    BY <1>5 DEF End, Verdict
  <1>6. CASE Abort
    BY <1>6 DEF Abort, ResetStatus
  <1>7. CASE Apply
    BY <1>7 DEF Apply
  <1>8. ASSUME NEW new \in BOOLEAN, NEW data \in Chunks, WriteData(new, data)
        PROVE  InArea'
    <2>1. Len(data) \in Nat
      OBVIOUS
    <2> DEFINE off == IF new \/ session THEN 0 ELSE dataOffset
    <2>2. off \in Nat /\ off <= StageSize
      OBVIOUS
    <2>3. CASE state = "RECV" /\ target = "AT32" /\ ChunkAccepted(off, Len(data))
      <3>1. /\ bytesReceived' = off + Len(data) /\ dataOffset' = off /\ chunk' = data
            /\ bytesWritten' = IF off = 0 THEN 0 ELSE bytesWritten
        BY <1>8, <2>3 DEF WriteData
      <3>2. off + Len(data) <= StageSize
        BY <2>1, <2>2, <2>3 DEF ChunkAccepted
      <3> QED
        BY <2>2, <3>1, <3>2
    <2>4. CASE ~(state = "RECV" /\ target = "AT32" /\ ChunkAccepted(off, Len(data)))
      <3>1. /\ state' = "ERROR" /\ dataOffset' = 0 /\ busy' = FALSE
            /\ bytesWritten' \in {0, bytesWritten}
        BY <1>8, <2>4 DEF WriteData
      <3> QED
        BY <3>1
    <2> QED
      BY <2>3, <2>4
  <1>9. CASE DropTransfer
    BY <1>9 DEF DropTransfer
  <1>10. CASE StageByte
    <2>1. /\ UNCHANGED <<bytesReceived, bytesWritten>>
          /\ \/ UNCHANGED <<state, dataOffset, busy, chunk>>
             \/ state' = "ERROR" /\ dataOffset' = 0 /\ busy' = FALSE
      BY <1>10 DEF StageByte
    <2> QED
      BY <2>1
  <1>11. CASE FinishData
    BY <1>11 DEF FinishData
  <1>12. CASE ProcessPending
    BY <1>12 DEF ProcessPending
  <1>13. CASE Tick
    BY <1>13 DEF Tick
  <1>14. CASE Restart
    BY <1>14 DEF Restart, ResetStatus
  <1>15. CASE UNCHANGED vars
    BY <1>15 DEF vars
  <1> QED
    BY <1>1, <1>3, <1>4, <1>5, <1>6, <1>7, <1>8, <1>9, <1>10, <1>11, <1>12, <1>13,
       <1>14, <1>15 DEF Next, Host

\* Every variable keeps its type in every build, and with it what the installer
\* is given is always a sequence of bytes of the staging area.
THEOREM TypeCorrect == Spec => []TypeOK
  <1>1. Init => TypeOK /\ InArea
    BY InitType, StageAssumption DEF Init, InArea
  <1>2. TypeOK /\ InArea /\ [Next]_vars => (TypeOK /\ InArea)'
    BY NextFlags, NextValues, NextInArea, TypeSplitNext
  <1> QED
    BY <1>1, <1>2, PTL DEF Spec

----------------------------------------------------------------------------
(* The accepted image                                                      *)

\* An image in flash stays there while nothing it consists of changes.
LEMMA ImageKept ==
  ASSUME UNCHANGED <<flash, bytesReceived, bytesWritten, imageCRC, crc>>
  PROVE  ImageInFlash' <=> ImageInFlash
  BY DEF ImageInFlash, StagePrefix

LEMMA InitIInv == Init => IInv
  <1> SUFFICES ASSUME Init PROVE IInv
    OBVIOUS
  <1>1. state = "IDLE" /\ busy = FALSE /\ swapPending = FALSE
    BY DEF Init
  <1> QED
    BY <1>1, Zenon DEF IInv, AtRest, InLoop, Receiving, StagedImage, SwapSource,
                       NoImageAfterFlashError

\* A step that leaves what was received and staged alone, outside the data
\* handler, preserves the invariant if it ends in a state it does not speak of.
LEMMA QuietStep ==
  ASSUME IInv, UNCHANGED <<flash, bytesReceived, bytesWritten, imageCRC, crc, swapPending>>,
         busy' = FALSE, state' = "ERROR"
  PROVE  IInv'
  <1>1. AtRest' /\ InLoop' /\ Receiving' /\ StagedImage' /\ NoImageAfterFlashError'
    BY Zenon DEF AtRest, InLoop, Receiving, StagedImage, NoImageAfterFlashError
  <1>2. SwapSource'
    <2>1. swapPending' = swapPending /\ crc' = crc
      OBVIOUS
    <2> QED
      BY <2>1, ImageKept DEF IInv, SwapSource
  <1> QED
    BY <1>1, <1>2 DEF IInv

\* What AtRest, InLoop and Receiving say depends on these variables alone.
LEMMA ReceptionKept ==
  ASSUME UNCHANGED <<state, bytesReceived, bytesWritten, imageCRC, crc, prepared,
                     nextOffset, cache, flash, busy, chunk, idx>>,
         swapPending' => swapPending,
         \/ UNCHANGED <<open, dataOffset>>
         \/ ~busy /\ open' = FALSE
  PROVE  (AtRest => AtRest') /\ (InLoop => InLoop') /\ (Receiving => Receiving')
  <1>1. Staged' <=> Staged
    BY DEF Staged, Collected
  <1>2. AtRest => AtRest'
    BY <1>1, Zenon DEF AtRest
  <1>3. InLoop => InLoop'
    BY <1>1, Zenon DEF InLoop, Collected
  <1>4. Receiving => Receiving'
    BY DEF Receiving
  <1> QED
    BY <1>2, <1>3, <1>4

\* A step that changes parameters, the stream, the timer or the history only.
LEMMA IdleStep ==
  ASSUME IInv,
         UNCHANGED <<state, bytesReceived, bytesWritten, imageCRC, crc, prepared,
                     nextOffset, cache, flash, flashErr, busy, chunk, idx>>,
         swapPending' => swapPending,
         \/ UNCHANGED <<open, dataOffset>>
         \/ ~busy /\ open' = FALSE
  PROVE  IInv'
  <1>1. AtRest' /\ InLoop' /\ Receiving'
    BY ReceptionKept DEF IInv
  <1>2. StagedImage' /\ SwapSource'
    BY ImageKept, Zenon DEF IInv, StagedImage, SwapSource
  <1>3. NoImageAfterFlashError'
    BY DEF IInv, NoImageAfterFlashError
  <1> QED
    BY <1>1, <1>2, <1>3 DEF IInv

\* START: an empty image, or an error.
LEMMA StartIInv ==
  ASSUME UseFlash, TypeOK, TypeOK', IInv, Start
  PROVE  IInv'
  <1> USE DEF ctlVars, countVars, statusVars, stageVars, flashVars, swapVars, streamVars,
              jobVars, CloseStream, SetError
  <1>1. /\ crc' = <<>> /\ imageCRC' = <<>> /\ bytesReceived' = 0 /\ bytesWritten' = 0
        /\ nextOffset' = 0 /\ cache' = EmptyCache /\ open' = FALSE
    BY DEF Start, ResetStatus
  <1>2. swapPending' = FALSE /\ busy' = FALSE
    BY Zenon DEF Start, ResetStatus, TypeOK
  <1>3. PICK done \in BOOLEAN :
          /\ PrepareStage(done)
          /\ prepared' = done
          /\ IF done THEN state' = "RECV" ELSE state' = "ERROR"
    BY DEF Start
  <1>4. CASE ~done
    <2>1. state' = "ERROR"
      BY <1>3, <1>4
    <2> QED
      BY <1>2, <2>1, Zenon DEF IInv, AtRest, InLoop, Receiving, StagedImage, SwapSource,
                               NoImageAfterFlashError
  <1>5. CASE done
    <2>1. Staged'
      <3>1. WordBase(0) = 0 /\ 0 % WordBytes = 0
        BY WordAssumption DEF WordBase
      <3> QED
        BY <1>1, <3>1, StageAssumption DEF Staged, Collected, EmptyCache
    <2>2. AtRest'
      BY <1>1, <2>1 DEF AtRest
    <2>3. flashErr' = FALSE
      BY <1>3, <1>5 DEF PrepareStage, EraseStage, TypeOK
    <2>4. state' = "RECV" /\ prepared'
      BY <1>3, <1>5
    <2> QED
      BY <1>1, <1>2, <2>2, <2>3, <2>4, Zenon
      DEF IInv, InLoop, Receiving, StagedImage, SwapSource, NoImageAfterFlashError
  <1> QED
    BY <1>4, <1>5

\* END: the last word goes to flash before the image is accepted.
LEMMA EndIInv ==
  ASSUME UseFlash, TypeOK, TypeOK', IInv, End
  PROVE  IInv'
  <1> USE DEF ctlVars, countVars, statusVars, stageVars, flashVars, swapVars, streamVars,
              jobVars, CloseStream, SetError
  <1>1. /\ state = "RECV" /\ ~busy /\ UNCHANGED <<bytesReceived, crc>>
    BY DEF End
  <1>2. /\ Staged /\ imageCRC = crc
        /\ bytesReceived = Len(crc) /\ bytesWritten = Len(crc)
    BY <1>1 DEF IInv, AtRest, Receiving
  <1>3. swapPending = FALSE /\ swapPending' = FALSE /\ busy' = FALSE /\ flashErr = FALSE
    BY <1>1, Zenon DEF End, IInv, Receiving, NoImageAfterFlashError, TypeOK
  <1>4. CASE state' = "REBOOT"
    <2>1. FlushCache(TRUE) /\ SizeMatches
      BY <1>4 DEF End, Verdict
    <2>2. bytesWritten' = bytesReceived /\ imageCRC' = crc
      BY <1>4, <2>1 DEF End, Verdict
    <2>3. flashErr' = FALSE
      BY <1>3, <2>1, Zenon DEF FlushCache, ProgramWord
    <2>4. crc \in Seq(Byte) /\ flash \in [Addr -> Byte] /\ Len(crc) \in Nat
      BY DEF TypeOK
    <2>5. Len(crc) <= StageSize /\ \A i \in 1 .. Len(crc) : flash'[i - 1] = crc[i]
      <3>1. CASE nextOffset = Len(crc) /\ Collected(flash, cache, Len(crc), crc)
        <4>1. \/ ~cache.valid /\ flash' = flash
              \/ cache.valid /\ flash' = ProgramDone(flash, cache)
          <5>1. cache.valid => cache.mask # {}
            <6>1. CASE Len(crc) % WordBytes = 0
              BY <3>1, <6>1 DEF Collected
            <6>2. CASE Len(crc) % WordBytes # 0
              <7>1. cache.mask = 0 .. (Len(crc) % WordBytes) - 1
                BY <3>1, <6>2 DEF Collected
              <7>2. Len(crc) % WordBytes \in Nat
                BY <2>4, WordOf DEF Lanes
              <7> QED
                BY <6>2, <7>1, <7>2
            <6> QED
              BY <6>1, <6>2
          <5> QED
            BY <2>1, <5>1 DEF FlushCache, ProgramWord
        <4>2. \A i \in 1 .. Len(crc) :
                (IF cache.valid THEN ProgramDone(flash, cache) ELSE flash)[i - 1] = crc[i]
          BY <2>4, <3>1, CollectedFlush
        <4>3. flash' = IF cache.valid THEN ProgramDone(flash, cache) ELSE flash
          BY <4>1
        <4> QED
          BY <3>1, <4>2, <4>3 DEF Collected
      <3>2. CASE crc = <<>>
        BY <3>2, StageAssumption
      <3> QED
        BY <1>2, <3>1, <3>2 DEF Staged
    <2>6. ImageInFlash'
      <3>1. StagePrefix(Len(crc))' = crc
        <4>1. crc = [i \in 1 .. Len(crc) |-> crc[i]]
          BY <2>4
        <4> QED
          BY <1>1, <2>5, <4>1 DEF StagePrefix
      <3> QED
        BY <1>1, <1>2, <2>2, <2>5, <3>1 DEF ImageInFlash
    <2> QED
      BY <1>3, <1>4, <2>3, <2>6, Zenon
      DEF IInv, AtRest, InLoop, Receiving, StagedImage, SwapSource, NoImageAfterFlashError
  <1>5. CASE state' # "REBOOT"
    <2>1. state' = "ERROR"
      BY <1>5 DEF End, Verdict
    <2> QED
      BY <1>3, <2>1, Zenon DEF IInv, AtRest, InLoop, Receiving, StagedImage, SwapSource,
                               NoImageAfterFlashError
  <1> QED
    BY <1>4, <1>5

\* ABORT and a restart of the device.
LEMMA ResetIInv ==
  ASSUME state' = "IDLE", busy' = FALSE, swapPending' = FALSE
  PROVE  IInv'
  BY Zenon DEF IInv, AtRest, InLoop, Receiving, StagedImage, SwapSource,
               NoImageAfterFlashError

\* APPLY: only the image that was accepted can be armed.
LEMMA ApplyIInv ==
  ASSUME TypeOK, TypeOK', IInv, Apply
  PROVE  IInv'
  <1> USE DEF ctlVars, countVars, statusVars, stageVars, flashVars, streamVars, jobVars,
              CloseStream
  <1>1. /\ state = "REBOOT" /\ state' = "REBOOT"
        /\ UNCHANGED <<flash, bytesReceived, bytesWritten, imageCRC, crc, flashErr>>
    BY DEF Apply, ApplyAllowed
  <1>2. busy = FALSE /\ busy' = FALSE
    BY Zenon DEF Apply, TypeOK
  <1>3. ImageInFlash'
    BY <1>1, ImageKept DEF IInv, StagedImage
  <1>4. crc' # <<>>
    BY <1>1 DEF Apply, ApplyAllowed, IInv, StagedImage, ImageInFlash
  <1>5. StagedImage' /\ SwapSource'
    BY <1>1, <1>3, <1>4 DEF StagedImage, SwapSource
  <1>6. AtRest' /\ InLoop' /\ Receiving'
    BY <1>1, <1>2, Zenon DEF AtRest, InLoop, Receiving
  <1>7. NoImageAfterFlashError'
    BY <1>1 DEF IInv, NoImageAfterFlashError
  <1> QED
    BY <1>5, <1>6, <1>7 DEF IInv

\* The data handler is called: the image it goes on with agrees with the stage.
LEMMA WriteDataIInv ==
  ASSUME UseFlash, TypeOK, TypeOK', InArea, IInv,
         NEW new \in BOOLEAN, NEW data \in Chunks, WriteData(new, data)
  PROVE  IInv'
  <1> DEFINE off  == IF new \/ session THEN 0 ELSE dataOffset
             kept == IF off = 0 THEN <<>> ELSE crc
  <1> USE DEF ctlVars, countVars, statusVars, stageVars, flashVars, swapVars, streamVars,
              jobVars, CloseStream, SetError
  <1>1. busy = FALSE /\ UNCHANGED <<flash, flashErr, prepared, nextOffset, cache, swapPending>>
    BY Zenon DEF WriteData, TypeOK
  <1>2. data \in Seq(Byte) /\ crc \in Seq(Byte) /\ off \in Nat /\ Len(data) \in Nat
    BY HostAssumption DEF TypeOK
  <1>3. CASE state # "RECV"
    <2>1. /\ state' = "ERROR" /\ UNCHANGED <<bytesReceived, bytesWritten, imageCRC, crc>>
      BY <1>3 DEF WriteData
    <2>2. busy' = FALSE
      BY <1>1, <1>3, Zenon DEF WriteData
    <2> QED
      BY <1>1, <2>1, <2>2, QuietStep
  <1>4. CASE state = "RECV" /\ ~(target = "AT32" /\ ChunkAccepted(off, Len(data)))
    <2>1. state' = "ERROR"
      BY <1>4 DEF WriteData
    <2>2. busy' = FALSE
      BY <1>1, <1>4, Zenon DEF WriteData
    <2>3. swapPending' = FALSE
      BY <1>1, <1>4, Zenon DEF IInv, Receiving, TypeOK
    <2> QED
      BY <2>1, <2>2, <2>3, Zenon
      DEF IInv, AtRest, InLoop, Receiving, StagedImage, SwapSource, NoImageAfterFlashError
  <1>5. CASE state = "RECV" /\ target = "AT32" /\ ChunkAccepted(off, Len(data))
    <2>1. /\ state' = "RECV" /\ bytesReceived' = off + Len(data)
          /\ crc' = kept \o data /\ imageCRC' = kept \o data
          /\ dataOffset' = off /\ chunk' = data /\ idx' = 0
      BY <1>5 DEF WriteData
    <2>2. open' = TRUE /\ busy' = TRUE
      BY <1>5, Zenon DEF WriteData
    <2>3. Staged /\ (off # 0 => off = Len(crc))
      BY <1>1, <1>5 DEF IInv, AtRest, WriteData
    <2>4. kept \in Seq(Byte) /\ Len(kept) = off
      BY <1>2, <2>3
    <2>5. /\ Len(crc') = off + Len(data)
          /\ \A j \in 1 .. off : crc'[j] = kept[j]
          /\ \A j \in 1 .. Len(data) : crc'[off + j] = data[j]
      BY <1>2, <2>1, <2>4
    <2>6. CASE data = <<>>
      <3>1. crc' = kept
        BY <2>1, <2>4, <2>6
      <3>2. Staged'
        <4>1. CASE off = 0 /\ nextOffset # 0
          BY <1>1, <3>1, <4>1 DEF Staged
        <4>2. CASE off = 0 /\ nextOffset = 0
          <5>1. Collected(flash, cache, 0, crc)
            BY <2>3, <4>2 DEF Staged
          <5>2. WordBase(0) = 0 /\ 0 % WordBytes = 0
            BY WordAssumption DEF WordBase
          <5>3. Collected(flash, cache, 0, <<>>)
            BY <5>1, <5>2 DEF Collected
          <5>4. crc' = <<>> /\ nextOffset' = 0 /\ flash' = flash /\ cache' = cache
            BY <1>1, <3>1, <4>2
          <5> QED
            BY <5>3, <5>4 DEF Staged
        <4>3. CASE off # 0
          <5>1. UNCHANGED <<crc, nextOffset, flash, cache>>
            BY <1>1, <3>1, <4>3
          <5> QED
            BY <2>3, <5>1 DEF Staged
        <4> QED
          BY <4>1, <4>2, <4>3
      <3>3. InLoop'
        BY <2>1, <2>2, <2>5, <2>6, <3>2, <1>2 DEF InLoop
      <3>4. AtRest' /\ Receiving' /\ StagedImage' /\ SwapSource' /\ NoImageAfterFlashError'
        BY <1>1, <1>5, <2>1, <2>2, Zenon
        DEF IInv, AtRest, Receiving, StagedImage, SwapSource, NoImageAfterFlashError
      <3> QED
        BY <3>3, <3>4 DEF IInv
    <2>7. CASE data # <<>>
      <3>1. off = nextOffset /\ off < StageSize /\ off + Len(data) <= StageSize
        BY <1>2, <1>5, <2>7, StageAssumption DEF ChunkAccepted
      <3>2. Collected(flash, cache, off, crc)
        BY <2>3, <3>1 DEF Staged
      <3>3. Collected(flash, cache, off, crc')
        <4>1. CASE off = 0
          <5>1. WordBase(0) = 0 /\ 0 % WordBytes = 0
            BY WordAssumption DEF WordBase
          <5> QED
            BY <1>2, <2>5, <3>2, <4>1, <5>1 DEF Collected
        <4>2. CASE off # 0
          <5>1. \A j \in 1 .. off : crc'[j] = crc[j]
            BY <2>5, <4>2
          <5>2. off <= Len(crc')
            BY <1>2, <2>5
          <5> QED
            BY <3>2, <5>1, <5>2, CollectedSame, <1>2
        <4> QED
          BY <4>1, <4>2
      <3>4. off + 0 = off /\ 0 <= Len(data)
        BY <1>2
      <3>5. Collected(flash', cache', dataOffset' + idx', crc')
        BY <1>1, <2>1, <3>3, <3>4
      <3>6. InLoop'
        BY <1>1, <2>1, <2>2, <2>5, <2>7, <3>1, <3>4, <3>5 DEF InLoop
      <3>7. AtRest' /\ Receiving' /\ StagedImage' /\ SwapSource' /\ NoImageAfterFlashError'
        BY <1>1, <1>5, <2>1, <2>2, Zenon
        DEF IInv, AtRest, Receiving, StagedImage, SwapSource, NoImageAfterFlashError
      <3> QED
        BY <3>6, <3>7 DEF IInv
    <2> QED
      BY <2>6, <2>7
  <1> QED
    BY <1>3, <1>4, <1>5

\* One byte of the loop: the stage agrees with one byte more, or the transfer
\* is over.  The word in the cache is never a stale one.
LEMMA StageByteIInv ==
  ASSUME UseFlash, TypeOK, TypeOK', InArea, IInv, StageByte
  PROVE  IInv'
  <1> USE DEF ctlVars, countVars, statusVars, stageVars, flashVars, swapVars, streamVars,
              jobVars, CloseStream, SetError
  <1>1. /\ busy /\ idx < Len(chunk)
        /\ UNCHANGED <<bytesReceived, bytesWritten, imageCRC, crc, prepared, nextOffset, swapPending>>
    BY DEF StageByte
  <1>2. /\ crc \in Seq(Byte) /\ chunk \in Seq(Byte) /\ idx \in Nat /\ dataOffset \in Nat
        /\ flash \in [Addr -> Byte] /\ cache \in Caches /\ Len(crc) \in Nat /\ Len(chunk) \in Nat
    BY DEF TypeOK
  <1>3. /\ state = "RECV" /\ open /\ chunk # <<>>
        /\ Len(crc) = dataOffset + Len(chunk) /\ bytesReceived = Len(crc)
        /\ dataOffset = nextOffset /\ Len(crc) <= StageSize
        /\ \A j \in 1 .. Len(chunk) : crc[dataOffset + j] = chunk[j]
        /\ Collected(flash, cache, Position, crc)
    BY <1>1, <1>2 DEF IInv, InLoop, Position
  <1>4. /\ Position \in Nat /\ Position < Len(crc) /\ Position < StageSize
        /\ crc[Position + 1] = chunk[idx + 1]
    <2>1. Position \in Nat /\ Position < Len(crc) /\ Position < StageSize
      BY <1>1, <1>2, <1>3, StageAssumption DEF Position
    <2>2. idx + 1 \in 1 .. Len(chunk) /\ Position + 1 = dataOffset + (idx + 1)
      BY <1>1, <1>2 DEF Position
    <2> QED
      BY <1>3, <2>1, <2>2
  <1> DEFINE lane == Position % WordBytes
             base == WordBase(Position)
  <1>5. lane \in Lanes /\ base \in Nat /\ Position = base + lane
    BY <1>4, WordOf
  <1>6. /\ lane = 0 => ~cache.valid
        /\ lane # 0 => /\ cache.valid /\ cache.addr = base /\ cache.mask = 0 .. lane - 1
                       /\ \A l \in cache.mask : cache.data[l] = crc[base + l + 1]
    BY <1>3 DEF Collected
  <1>7. ~Stale
    BY <1>6 DEF Stale
  <1> HIDE DEF lane, base
  <1>8. lane \in 0 .. WordBytes - 1 /\ WordBytes \in Nat /\ WordBytes > 1
    BY <1>5, WordFacts DEF Lanes
  <1>9. /\ Word.addr = base /\ Word.mask = 0 .. lane - 1 /\ Word.data \in [Lanes -> Byte]
        /\ \A l \in 0 .. lane - 1 : Word.data[l] = crc[base + l + 1]
    <2>1. CASE lane = 0
      BY <1>6, <1>8, <2>1, WordFacts DEF Word, base
    <2>2. CASE lane # 0
      <3>1. Word = cache
        BY <1>6, <1>7, <2>2 DEF Word
      <3> QED
        BY <1>2, <1>6, <2>2, <3>1 DEF Caches
    <2> QED
      BY <2>1, <2>2
  <1>10. /\ Filled.valid = TRUE
         /\ Filled.addr = base
         /\ Filled.mask = Word.mask \cup {lane}
         /\ Filled.data = [Word.data EXCEPT ![lane] = chunk[idx + 1]]
    BY <1>9 DEF Filled, lane
  <1>11. Filled.mask = 0 .. lane
    BY <1>8, <1>9, <1>10
  <1>12. \A l \in 0 .. lane : Filled.data[l] = crc[base + l + 1]
    <2>1. Filled.data[lane] = crc[base + lane + 1]
      BY <1>4, <1>5, <1>9, <1>10
    <2>2. \A l \in 0 .. lane - 1 : Filled.data[l] = Word.data[l]
      BY <1>8, <1>9, <1>10 DEF Lanes
    <2> QED
      BY <1>8, <1>9, <2>1, <2>2
  <1>13. Filled.mask = Lanes <=> lane + 1 = WordBytes
    BY <1>8, <1>11 DEF Lanes
  <1>14. PICK done \in BOOLEAN :
           /\ IF Filled.mask = Lanes THEN ProgramWord(Filled, done)
              ELSE done /\ UNCHANGED flashVars
           /\ cache' = IF Filled.mask = Lanes /\ done THEN EmptyCache ELSE Filled
           /\ IF done
              THEN idx' = idx + 1 /\ UNCHANGED <<statusVars, streamVars, busy, chunk>>
              ELSE /\ SetError("STAGE_WRITE")
                   /\ CloseStream
                   /\ busy' = FALSE /\ chunk' = <<>> /\ idx' = 0
    BY <1>7 DEF StageByte
  <1>15. swapPending = FALSE /\ flashErr = FALSE
    BY <1>3, Zenon DEF IInv, Receiving, NoImageAfterFlashError, TypeOK
  <1>16. CASE ~done
    <2>1. state' = "ERROR"
      BY <1>14, <1>16
    <2>2. busy' = FALSE /\ swapPending' = FALSE
      BY <1>1, <1>14, <1>15, <1>16, Zenon
    <2> QED
      BY <2>1, <2>2, Zenon
      DEF IInv, AtRest, InLoop, Receiving, StagedImage, SwapSource, NoImageAfterFlashError
  <1>17. CASE done
    <2>1. idx' = idx + 1 /\ UNCHANGED <<state, open, dataOffset, busy, chunk>>
      BY <1>14, <1>17
    <2>2. Collected(flash', cache', Position + 1, crc)
      <3>1. CASE lane + 1 = WordBytes
        <4>1. ProgramWord(Filled, TRUE) /\ cache' = EmptyCache
          BY <1>13, <1>14, <1>17, <3>1
        <4>2. flash' = ProgramDone(flash, Filled)
          BY <4>1 DEF ProgramWord
        <4>3. \A l \in Lanes : Filled.data[l] = crc[base + l + 1]
          BY <1>8, <1>11, <1>12, <1>13, <3>1
        <4> QED
          BY <1>2, <1>3, <1>4, <1>10, <3>1, <4>1, <4>2, <4>3, CollectedFull DEF lane, base
      <3>2. CASE lane + 1 # WordBytes
        <4>1. cache' = Filled /\ flash' = flash
          BY <1>13, <1>14, <1>17, <3>2
        <4> QED
          BY <1>2, <1>3, <1>4, <1>10, <1>11, <1>12, <3>2, <4>1, CollectedPart DEF lane, base
      <3> QED
        BY <3>1, <3>2
    <2>3. Position + 1 = dataOffset' + idx'
      BY <1>2, <2>1 DEF Position
    <2>4. InLoop'
      <3>1. idx' <= Len(chunk')
        BY <1>1, <1>2, <2>1
      <3> QED
        BY <1>1, <1>3, <2>1, <2>2, <2>3, <3>1 DEF InLoop
    <2>5. flashErr' = FALSE
      BY <1>14, <1>15, <1>17, Zenon DEF ProgramWord
    <2>6. state' = "RECV" /\ busy'
      BY <1>1, <1>3, <2>1
    <2>7. AtRest' /\ StagedImage' /\ SwapSource' /\ NoImageAfterFlashError'
      BY <1>1, <1>15, <2>5, <2>6, Zenon
      DEF AtRest, StagedImage, SwapSource, NoImageAfterFlashError
    <2>8. Receiving'
      BY <1>1, <1>3, <2>1 DEF IInv, Receiving
    <2> QED
      BY <2>4, <2>7, <2>8 DEF IInv
  <1> QED
    BY <1>16, <1>17

\* After the loop the whole segment is staged.
LEMMA FinishDataIInv ==
  ASSUME UseFlash, TypeOK, TypeOK', IInv, FinishData
  PROVE  IInv'
  <1> USE DEF ctlVars, countVars, statusVars, stageVars, flashVars, swapVars, streamVars,
              jobVars, CloseStream, SetError
  <1>1. /\ busy /\ idx = Len(chunk)
        /\ bytesWritten' = bytesReceived
        /\ UNCHANGED <<bytesReceived, imageCRC, crc, prepared, cache, flash, flashErr, swapPending>>
    BY DEF FinishData
  <1>2. /\ state = "RECV" /\ bytesReceived = Len(crc) /\ Len(crc) = dataOffset + Len(chunk)
        /\ swapPending = FALSE
    BY <1>1, Zenon DEF IInv, InLoop, Receiving, TypeOK
  <1>3. busy' = FALSE
    BY Zenon DEF FinishData
  <1>4. CASE state' = "RECV"
    <2>1. Staged'
      <3>1. CASE chunk = <<>>
        <4>1. UNCHANGED <<crc, nextOffset, flash, cache>>
          BY <1>1, <3>1 DEF FinishData
        <4>2. Staged
          BY <1>1, <3>1 DEF IInv, InLoop
        <4> QED
          BY <4>1, <4>2 DEF Staged
      <3>2. CASE chunk # <<>>
        <4>1. nextOffset' = Len(crc)
          BY <1>2, <3>2 DEF FinishData
        <4>2. Collected(flash, cache, Len(crc), crc)
          BY <1>1, <1>2, <3>2 DEF IInv, InLoop
        <4> QED
          BY <1>1, <4>1, <4>2 DEF Staged
      <3> QED
        BY <3>1, <3>2
    <2>2. open' => dataOffset' = Len(crc)
      BY <1>2, Zenon DEF FinishData
    <2>3. AtRest'
      BY <1>1, <1>2, <2>1, <2>2 DEF AtRest
    <2>4. Receiving'
      BY <1>1, <1>2, <1>4 DEF IInv, Receiving
    <2>5. NoImageAfterFlashError'
      BY <1>1, <1>2 DEF IInv, NoImageAfterFlashError
    <2> QED
      BY <1>1, <1>2, <1>3, <1>4, <2>3, <2>4, <2>5, Zenon
      DEF IInv, InLoop, StagedImage, SwapSource
  <1>5. CASE state' # "RECV"
    <2>1. state' = "ERROR"
      BY <1>2, <1>5 DEF FinishData
    <2> QED
      BY <1>1, <1>2, <1>3, <2>1, Zenon
      DEF IInv, AtRest, InLoop, Receiving, StagedImage, SwapSource, NoImageAfterFlashError
  <1> QED
    BY <1>4, <1>5

LEMMA NextIInv ==
  ASSUME UseFlash, TypeOK, TypeOK', InArea, IInv, [Next]_vars
  PROVE  IInv'
  <1> USE DEF ctlVars, countVars, statusVars, stageVars, flashVars, swapVars, streamVars,
              jobVars, CloseStream, SetError
  <1>1. CASE WriteParameter
    BY <1>1, IdleStep DEF WriteParameter
  <1>2. ASSUME NEW code, ~busy, Refuse(code) PROVE IInv'
    <2>1. busy' = FALSE
      BY <1>2, Zenon DEF Refuse, TypeOK
    <2> QED
      BY <1>2, <2>1, QuietStep DEF Refuse
  <1>3. CASE StartRefused \/ EndRefused \/ ApplyRefused \/ InvalidCommand
    BY <1>3, <1>2 DEF StartRefused, EndRefused, ApplyRefused, InvalidCommand
  <1>4. CASE Start
    BY <1>4, StartIInv
  <1>5. CASE End
    BY <1>5, EndIInv
  <1>6. CASE Abort \/ Restart
    <2>1. state' = "IDLE"
      BY <1>6 DEF Abort, Restart
    <2>2. busy' = FALSE /\ swapPending' = FALSE
      BY <1>6, Zenon DEF Abort, Restart, ResetStatus, TypeOK
    <2> QED
      BY <2>1, <2>2, ResetIInv
  <1>7. CASE Apply
    BY <1>7, ApplyIInv
  <1>8. CASE \E new \in BOOLEAN, data \in Chunks : WriteData(new, data)
    BY <1>8, WriteDataIInv
  <1>9. CASE DropTransfer
    BY <1>9, IdleStep DEF DropTransfer
  <1>10. CASE StageByte
    BY <1>10, StageByteIInv
  <1>11. CASE FinishData
    BY <1>11, FinishDataIInv
  <1>12. CASE ProcessPending
    BY <1>12, IdleStep DEF ProcessPending
  <1>13. CASE Tick
    BY <1>13, IdleStep DEF Tick
  <1>14. CASE UNCHANGED vars
    BY <1>14, IdleStep DEF vars
  <1> QED
    BY <1>1, <1>3, <1>4, <1>5, <1>6, <1>7, <1>8, <1>9, <1>10, <1>11, <1>12, <1>13,
       <1>14 DEF Next, Host

\* In a build that programs flash the invariant holds.
THEOREM Invariance == UseFlash => (Spec => []IInv)
  <1> SUFFICES ASSUME UseFlash PROVE Spec => []IInv
    OBVIOUS
  <1>1. Init => TypeOK /\ InArea /\ IInv
    BY InitType, InitIInv, StageAssumption DEF Init, InArea
  <1>2. TypeOK /\ InArea /\ IInv /\ [Next]_vars => (TypeOK /\ InArea /\ IInv)'
    BY NextFlags, NextValues, NextInArea, TypeSplitNext, NextIInv
  <1> QED
    BY <1>1, <1>2, PTL DEF Spec

\* An image that END accepted is in flash, to its last byte.
THEOREM AcceptedImageStaged == UseFlash => (Spec => []StagedImage)
  <1>1. IInv => StagedImage
    BY DEF IInv
  <1> QED
    BY <1>1, Invariance, PTL

\* An image that waits for its installation is the accepted one, whatever
\* commands and data came in the meantime.
THEOREM PendingImageStaged == UseFlash => (Spec => []SwapSource)
  <1>1. IInv => SwapSource
    BY DEF IInv
  <1> QED
    BY <1>1, Invariance, PTL

\* What Collected says of a single byte.
LEMMA CollectedByte ==
  ASSUME NEW f \in [Addr -> Byte], NEW c \in Caches, NEW n \in Nat,
         NEW img \in Seq(Byte), Collected(f, c, n, img),
         NEW a \in 0 .. n - 1
  PROVE  /\ c.valid /\ a >= c.addr =>
              a - c.addr \in c.mask /\ c.data[a - c.addr] = img[a + 1]
         /\ ~(c.valid /\ a >= c.addr) => f[a] = img[a + 1]
  <1> DEFINE base == WordBase(n)
             lane == n % WordBytes
  <1>1. n = base + lane /\ base \in Nat /\ lane \in Lanes
    BY WordOf
  <1>2. /\ \A b \in 0 .. base - 1 : f[b] = img[b + 1]
        /\ lane = 0 => ~c.valid
        /\ lane # 0 => /\ c.valid /\ c.addr = base /\ c.mask = 0 .. lane - 1
                       /\ \A l \in c.mask : c.data[l] = img[base + l + 1]
    BY DEF Collected
  <1> HIDE DEF base, lane
  <1>3. lane \in Nat
    BY <1>1, WordFacts DEF Lanes
  <1>4. CASE c.valid /\ a >= c.addr
    <2>1. a - base \in 0 .. lane - 1 /\ base + (a - base) + 1 = a + 1
      BY <1>1, <1>2, <1>3, <1>4
    <2> QED
      BY <1>2, <1>4, <2>1
  <1>5. CASE ~(c.valid /\ a >= c.addr)
    <2>1. a \in 0 .. base - 1
      BY <1>1, <1>2, <1>3, <1>5
    <2> QED
      BY <1>2, <1>5, <2>1
  <1> QED
    BY <1>4, <1>5

\* While data comes in, no byte that was counted as written is lost.
THEOREM NothingLost == UseFlash => (Spec => []NothingLostInCache)
  <1>1. TypeOK /\ IInv => NothingLostInCache
    <2> SUFFICES ASSUME TypeOK, IInv, state = "RECV", ~busy,
                        NEW a \in 0 .. bytesWritten - 1
                 PROVE  IF cache.valid /\ a >= cache.addr
                        THEN /\ a - cache.addr \in cache.mask
                             /\ cache.data[a - cache.addr] = crc[a + 1]
                        ELSE flash[a] = crc[a + 1]
      BY DEF NothingLostInCache
    <2>1. /\ Staged /\ bytesWritten = Len(crc) /\ bytesWritten \in Nat
          /\ flash \in [Addr -> Byte] /\ cache \in Caches /\ crc \in Seq(Byte)
      BY DEF IInv, AtRest, TypeOK
    <2>2. Collected(flash, cache, bytesWritten, crc)
      <3>1. crc # <<>>
        BY <2>1
      <3> QED
        BY <2>1, <3>1 DEF Staged
    <2>3. /\ cache.valid /\ a >= cache.addr =>
               a - cache.addr \in cache.mask /\ cache.data[a - cache.addr] = crc[a + 1]
          /\ ~(cache.valid /\ a >= cache.addr) => flash[a] = crc[a + 1]
      BY <2>1, <2>2, CollectedByte
    <2> QED
      BY <2>3
  <1> QED
    BY <1>1, TypeCorrect, Invariance, PTL

\* After an error of the flash controller no image is received or accepted.
THEOREM FlashErrorBars == UseFlash => (Spec => []NoImageAfterFlashError)
  <1>1. IInv => NoImageAfterFlashError
    BY DEF IInv
  <1> QED
    BY <1>1, Invariance, PTL

----------------------------------------------------------------------------
(* Between APPLY and the installation                                      *)

LEMMA FrozenStep ==
  ASSUME TypeOK, IInv, [Next]_vars, swapPending, swapPending'
  PROVE  UNCHANGED <<flash, bytesWritten, imageCRC>>
  <1> USE DEF ctlVars, countVars, statusVars, stageVars, flashVars, swapVars, streamVars,
              jobVars, CloseStream, SetError
  <1>1. state # "RECV" /\ ~busy
    BY DEF IInv, SwapSource, InLoop
  <1>2. ~Start /\ ~Abort /\ ~Restart
    BY Zenon DEF Start, Abort, Restart, ResetStatus
  <1>3. ~End /\ ~StageByte /\ ~FinishData
    BY <1>1 DEF End, StageByte, FinishData
  <1>4. CASE WriteParameter
    BY <1>4 DEF WriteParameter
  <1>5. ASSUME NEW code, Refuse(code) PROVE UNCHANGED <<flash, bytesWritten, imageCRC>>
    BY <1>5 DEF Refuse
  <1>6. CASE StartRefused \/ EndRefused \/ ApplyRefused \/ InvalidCommand
    BY <1>5, <1>6 DEF StartRefused, EndRefused, ApplyRefused, InvalidCommand
  <1>7. CASE Apply
    BY <1>7 DEF Apply
  <1>8. CASE \E new \in BOOLEAN, data \in Chunks : WriteData(new, data)
    BY <1>1, <1>8 DEF WriteData
  <1>9. CASE DropTransfer \/ ProcessPending \/ Tick
    BY <1>9 DEF DropTransfer, ProcessPending, Tick
  <1>10. CASE UNCHANGED vars
    BY <1>10 DEF vars
  <1> QED
    BY <1>2, <1>3, <1>4, <1>6, <1>7, <1>8, <1>9, <1>10 DEF Next, Host

\* While an installation is pending no step changes the stage or what the
\* installer is told about it.
THEOREM StageStaysFrozen == UseFlash => (Spec => StageFrozen)
  <1> SUFFICES ASSUME UseFlash PROVE Spec => StageFrozen
    OBVIOUS
  <1>1. TypeOK /\ IInv /\ [Next]_vars =>
          [swapPending /\ swapPending' => UNCHANGED <<flash, bytesWritten, imageCRC>>]_vars
    BY FrozenStep
  <1> QED
    BY <1>1, TypeCorrect, Invariance, PTL DEF Spec, StageFrozen

----------------------------------------------------------------------------
(* The delay of the installation                                           *)

\* The timer's arithmetic over one turn: what % does to a time that is in its
\* range, and to one that is out of it by less than a turn.
LEMMA WithinTurn == ASSUME NEW t \in Ticks PROVE t % TickMod = t
  BY TimerAssumption DEF Ticks

LEMMA TurnUp ==
  ASSUME NEW t \in Nat, TickMod <= t, t < 2 * TickMod
  PROVE  t % TickMod = t - TickMod
  BY TimerAssumption

LEMMA TurnDown ==
  ASSUME NEW t \in Int, -TickMod <= t, t < 0
  PROVE  t % TickMod = t + TickMod
  BY TimerAssumption

\* The time that lies d ticks after t, for d of at most one turn.
Later(t, d) == IF t + d < TickMod THEN t + d ELSE t + d - TickMod

\* What is left of the delay lies between now and the deadline.
Countdown ==
  swapPending /\ waited < ApplyDelay => deadline = Later(now, ApplyDelay - waited)

LEMMA DeadlineLater == ASSUME NEW t \in Ticks PROVE DeadlineAfter(t) = Later(t, ApplyDelay)
  <1>1. CASE t + ApplyDelay < TickMod
    BY <1>1, WithinTurn, TimerAssumption DEF Ticks, DeadlineAfter, Later
  <1>2. CASE t + ApplyDelay >= TickMod
    BY <1>2, TurnUp, TimerAssumption DEF Ticks, DeadlineAfter, Later
  <1> QED
    BY <1>1, <1>2, TimerAssumption DEF Ticks

\* One tick brings the deadline one tick nearer.
LEMMA TickNearer ==
  ASSUME NEW t \in Ticks, NEW d \in 1 .. ApplyDelay
  PROVE  Later((t + 1) % TickMod, d - 1) = Later(t, d)
  <1>1. CASE t + 1 < TickMod
    BY <1>1, WithinTurn, TimerAssumption DEF Ticks, Later
  <1>2. CASE t + 1 = TickMod
    <2>1. (t + 1) % TickMod = 0
      BY <1>2, TurnUp, TimerAssumption DEF Ticks
    <2> QED
      BY <1>2, <2>1, TimerAssumption DEF Ticks, Later
  <1> QED
    BY <1>1, <1>2, TimerAssumption DEF Ticks

\* A deadline that is still to come is not taken for one that has passed: the
\* delay is at most half a turn.
LEMMA NotDue ==
  ASSUME NEW t \in Ticks, NEW d \in 1 .. ApplyDelay
  PROVE  ~((t - Later(t, d)) % TickMod < TickMod \div 2)
  <1>1. (t - Later(t, d)) % TickMod = TickMod - d
    <2>1. CASE t + d < TickMod
      <3>1. t - Later(t, d) = -d
        BY <2>1, TimerAssumption DEF Ticks, Later
      <3> QED
        BY <3>1, TurnDown, TimerAssumption
    <2>2. CASE t + d >= TickMod
      <3>1. t - Later(t, d) = TickMod - d
        BY <2>2, TimerAssumption DEF Ticks, Later
      <3>2. TickMod - d \in Ticks
        BY TimerAssumption DEF Ticks
      <3> QED
        BY <3>1, <3>2, WithinTurn
    <2> QED
      BY <2>1, <2>2, TimerAssumption DEF Ticks
  <1>2. 2 * (TickMod \div 2) <= TickMod
    BY TimerAssumption
  <1> QED
    BY <1>1, <1>2, TimerAssumption

LEMMA InitCountdown == Init => Countdown
  BY DEF Init, Countdown

LEMMA NextCountdown == TypeOK /\ Countdown /\ [Next]_vars => Countdown'
  <1> SUFFICES ASSUME TypeOK, Countdown, [Next]_vars PROVE Countdown'
    OBVIOUS
  <1> now \in Ticks /\ waited \in 0 .. ApplyDelay
    BY DEF TypeOK
  <1>1. ASSUME UNCHANGED <<swapPending, deadline, waited, now>> PROVE Countdown'
    BY <1>1 DEF Countdown, Later
  <1>2. ASSUME swapPending' = FALSE PROVE Countdown'
    BY <1>2 DEF Countdown
  <1> USE DEF swapVars
  <1>3. CASE WriteParameter \/ End \/ DropTransfer \/ StageByte \/ FinishData
    BY <1>1, <1>3 DEF WriteParameter, End, DropTransfer, StageByte, FinishData
  <1>4. ASSUME NEW code, Refuse(code) PROVE Countdown'
    BY <1>1, <1>4 DEF Refuse
  <1>5. CASE StartRefused \/ EndRefused \/ ApplyRefused \/ InvalidCommand
    BY <1>4, <1>5 DEF StartRefused, EndRefused, ApplyRefused, InvalidCommand
  <1>6. CASE \E new \in BOOLEAN, data \in Chunks : WriteData(new, data)
    BY <1>1, <1>6 DEF WriteData
  <1>7. CASE Start \/ Abort \/ Restart \/ ProcessPending
    BY <1>2, <1>7, Zenon DEF Start, Abort, Restart, ResetStatus, ProcessPending
  <1>8. CASE Apply
    <2>1. deadline' = DeadlineAfter(now) /\ waited' = 0 /\ now' = now
      BY <1>8 DEF Apply
    <2> QED
      BY <2>1, DeadlineLater, TimerAssumption DEF Countdown, Later
  <1>9. CASE Tick
    <2>1. /\ now' = (now + 1) % TickMod
          /\ UNCHANGED <<swapPending, deadline>>
          /\ waited' = IF swapPending /\ waited < ApplyDelay THEN waited + 1 ELSE waited
      BY <1>9 DEF Tick
    <2> SUFFICES ASSUME swapPending, waited' < ApplyDelay
                 PROVE  deadline' = Later(now, ApplyDelay - waited)'
      BY <2>1 DEF Countdown, Later
    <2>2. waited < ApplyDelay /\ waited' = waited + 1
      BY <2>1, TimerAssumption
    <2>3. ApplyDelay - waited \in 1 .. ApplyDelay
      BY <2>2, TimerAssumption
    <2>4. Later((now + 1) % TickMod, (ApplyDelay - waited) - 1) = deadline
      BY <2>2, <2>3, TickNearer DEF Countdown
    <2>5. (ApplyDelay - waited) - 1 = ApplyDelay - waited'
      BY <2>2, TimerAssumption
    <2> QED
      BY <2>1, <2>4, <2>5 DEF Later
  <1>10. CASE UNCHANGED vars
    BY <1>1, <1>10 DEF vars
  <1> QED
    BY <1>3, <1>5, <1>6, <1>7, <1>8, <1>9, <1>10 DEF Next, Host

LEMMA DueWaited ==
  ASSUME TypeOK, Countdown, ProcessPending
  PROVE  waited = ApplyDelay
  <1> SUFFICES ASSUME waited # ApplyDelay PROVE FALSE
    OBVIOUS
  <1>1. now \in Ticks /\ ApplyDelay - waited \in 1 .. ApplyDelay /\ waited < ApplyDelay
    BY TimerAssumption DEF TypeOK
  <1>2. deadline = Later(now, ApplyDelay - waited)
    BY <1>1 DEF ProcessPending, Countdown
  <1> QED
    BY <1>1, <1>2, NotDue DEF ProcessPending, SwapDue

\* The installation never begins before the whole delay has passed since the
\* last APPLY, wherever the timer stands when it is given.
THEOREM NeverEarly == Spec => NoEarlySwap
  <1>1. TypeOK /\ Countdown /\ [Next]_vars => [ProcessPending => waited = ApplyDelay]_vars
    BY DueWaited
  <1> QED
    BY <1>1, InitCountdown, NextCountdown, TypeCorrect, PTL DEF Spec, NoEarlySwap

----------------------------------------------------------------------------
(* OtaApp implements FwUpdate                                              *)

LEMMA InitPromise == Init => Abstract!Init
  <1> SUFFICES ASSUME Init PROVE Abstract!Init
    OBVIOUS
  <1>1. Phase = "idle" /\ crc = <<>> /\ installed = NoImage
    BY DEF Init, Phase
  <1>2. swapPending = FALSE
    BY DEF Init
  <1> QED
    BY <1>1, <1>2 DEF Abstract!Init

LEMMA WriteDataPromise ==
  ASSUME TypeOK, IInv, NEW new \in BOOLEAN, NEW data \in Chunks, WriteData(new, data)
  PROVE  Abstract!Fail \/ Abstract!Receive \/ Abstract!Rewind
  <1> DEFINE off  == IF new \/ session THEN 0 ELSE dataOffset
             kept == IF off = 0 THEN <<>> ELSE crc
  <1> USE DEF ctlVars, countVars, statusVars, stageVars, flashVars, swapVars, SetError
  <1>1. ~busy /\ UNCHANGED <<swapPending, installed>> /\ (new \/ open)
    BY DEF WriteData
  <1>2. CASE state # "RECV"
    BY <1>1, <1>2 DEF WriteData, Abstract!Fail, Phase
  <1>3. CASE state = "RECV" /\ ~(target = "AT32" /\ ChunkAccepted(off, Len(data)))
    BY <1>1, <1>3 DEF WriteData, Abstract!Fail, Phase
  <1>4. CASE state = "RECV" /\ target = "AT32" /\ ChunkAccepted(off, Len(data))
    <2>1. crc' = kept \o data /\ Phase = "receiving" /\ Phase' = "receiving"
      BY <1>4 DEF WriteData, Phase
    <2>2. data \in Seq(Byte) /\ crc \in Seq(Byte)
      BY HostAssumption DEF TypeOK
    <2>3. Staged /\ (off # 0 => off = Len(crc))
      BY <1>1, <1>4 DEF IInv, AtRest
    <2>4. CASE kept = crc
      <3>1. Len(crc') >= Len(crc) /\ SubSeq(crc', 1, Len(crc)) = crc
        BY <2>1, <2>2, <2>4
      <3> QED
        BY <1>1, <2>1, <3>1 DEF Abstract!Receive
    <2>5. CASE kept # crc
      <3>1. off = 0 /\ crc # <<>>
        BY <2>5
      <3>2. data = <<>>
        <4>1. nextOffset = Len(crc) /\ Len(crc) # 0
          BY <2>2, <2>3, <3>1 DEF Staged
        <4>2. Len(data) = 0
          BY <1>4, <3>1, <4>1 DEF ChunkAccepted
        <4> QED
          BY <2>2, <4>2
      <3> QED
        BY <1>1, <2>1, <3>1, <3>2 DEF Abstract!Rewind
    <2> QED
      BY <2>4, <2>5
  <1> QED
    BY <1>2, <1>3, <1>4

LEMMA NextPromise ==
  ASSUME UseFlash, TypeOK, IInv, [Next]_vars
  PROVE  [Abstract!Next]_(Abstract!vars)
  <1> USE DEF ctlVars, countVars, statusVars, stageVars, flashVars, swapVars, streamVars,
              jobVars, CloseStream, SetError
  <1>0. ASSUME UNCHANGED <<state, crc, swapPending, installed>>
        PROVE  UNCHANGED Abstract!vars
    BY <1>0 DEF Abstract!vars, Phase
  <1>1. CASE WriteParameter
    BY <1>0, <1>1 DEF WriteParameter
  <1>2. ASSUME NEW code, Refuse(code) PROVE Abstract!Fail
    BY <1>2 DEF Refuse, Abstract!Fail, Phase
  <1>3. CASE StartRefused \/ EndRefused \/ ApplyRefused \/ InvalidCommand
    <2>1. Abstract!Fail
      BY <1>2, <1>3 DEF StartRefused, EndRefused, ApplyRefused, InvalidCommand
    <2> QED
      BY <2>1 DEF Abstract!Next
  <1>4. CASE Start
    <2>1. Phase' \in {"receiving", "failed"} /\ crc' = <<>> /\ installed' = NoImage
      BY <1>4 DEF Start, ResetStatus, Phase
    <2>2. swapPending' = FALSE
      BY <1>4 DEF Start, ResetStatus
    <2>3. Abstract!Begin \/ Abstract!Cancel
      BY <2>1, <2>2 DEF Abstract!Begin, Abstract!Cancel
    <2> QED
      BY <2>3 DEF Abstract!Next
  <1>5. CASE End
    <2>1. /\ Phase = "receiving" /\ Phase' \in {"ready", "failed"}
          /\ UNCHANGED <<crc, swapPending, installed>>
      BY <1>5 DEF End, Verdict, Phase
    <2>2. Abstract!Accept \/ Abstract!Fail
      BY <2>1 DEF Abstract!Accept, Abstract!Fail
    <2> QED
      BY <2>2 DEF Abstract!Next
  <1>6. CASE Abort \/ Restart
    <2>1. Phase' = "idle" /\ crc' = <<>> /\ installed' = NoImage
      BY <1>6 DEF Abort, Restart, ResetStatus, Phase
    <2>2. swapPending' = FALSE
      BY <1>6 DEF Abort, Restart, ResetStatus
    <2> QED
      BY <2>1, <2>2 DEF Abstract!Cancel, Abstract!Next
  <1>7. CASE Apply
    <2>1. crc # <<>>
      BY <1>7 DEF Apply, ApplyAllowed, IInv, StagedImage, ImageInFlash
    <2>2. Phase = "ready" /\ UNCHANGED <<Phase, crc, installed>>
      BY <1>7 DEF Apply, ApplyAllowed, Phase
    <2>3. swapPending' = TRUE
      BY <1>7 DEF Apply
    <2> QED
      BY <2>1, <2>2, <2>3 DEF Abstract!Arm, Abstract!Next
  <1>8. CASE \E new \in BOOLEAN, data \in Chunks : WriteData(new, data)
    BY <1>8, WriteDataPromise DEF Abstract!Next
  <1>9. CASE DropTransfer \/ Tick
    BY <1>0, <1>9 DEF DropTransfer, Tick
  <1>10. CASE StageByte
    <2>1. \/ UNCHANGED <<state, crc, swapPending, installed>>
          \/ state' = "ERROR" /\ UNCHANGED <<crc, swapPending, installed>>
      BY <1>10 DEF StageByte
    <2> QED
      BY <1>0, <2>1 DEF Abstract!Fail, Abstract!Next, Phase
  <1>11. CASE FinishData
    <2>1. \/ UNCHANGED <<state, crc, swapPending, installed>>
          \/ state' = "ERROR" /\ UNCHANGED <<crc, swapPending, installed>>
      BY <1>11 DEF FinishData
    <2> QED
      BY <1>0, <2>1 DEF Abstract!Fail, Abstract!Next, Phase
  <1>12. CASE ProcessPending
    <2>1. installed' = crc
      BY <1>12 DEF ProcessPending, IInv, SwapSource, ImageInFlash
    <2>2. UNCHANGED <<Phase, crc>>
      BY <1>12 DEF ProcessPending, Phase
    <2>3. swapPending /\ swapPending' = FALSE
      BY <1>12 DEF ProcessPending
    <2> QED
      BY <2>1, <2>2, <2>3 DEF Abstract!Install, Abstract!Next
  <1>13. CASE UNCHANGED vars
    BY <1>0, <1>13 DEF vars
  <1> QED
    BY <1>1, <1>3, <1>4, <1>5, <1>6, <1>7, <1>8, <1>9, <1>10, <1>11, <1>12, <1>13
    DEF Next, Host

\* The update object keeps the promises of FwUpdate: what is installed is what
\* the host sent, in order, and what was accepted.
THEOREM Implementation == UseFlash => (Spec => Promise)
  <1> SUFFICES ASSUME UseFlash PROVE Spec => Promise
    OBVIOUS
  <1>1. TypeOK /\ IInv /\ [Next]_vars => [Abstract!Next]_(Abstract!vars)
    BY NextPromise
  <1> QED
    BY <1>1, InitPromise, TypeCorrect, Invariance, PTL DEF Spec, Promise, Abstract!Spec

----------------------------------------------------------------------------
(* An image that is no longer than announced goes to words that are erased, *)
(* so that it can only be refused if the controller fails.                  *)

\* From the word of offset p on, all that START erased for n bytes is blank.
Fresh(p, n) ==
  \A a \in Addr : WordBase(p) <= a /\ a < EraseLen(n) => flash[a] = Blank

\* Pages are erased whole, and a page consists of whole words.
LEMMA WordErased ==
  ASSUME NEW n \in Nat, NEW p \in Nat, p < n
  PROVE  WordBase(p) + WordBytes <= EraseLen(n) /\ EraseLen(n) \in Nat
  <1> DEFINE k == (n + PageBytes - 1) \div PageBytes
  <1>1. PageBytes \in Nat /\ PageBytes > 0 /\ PageBytes % WordBytes = 0
    BY StageAssumption
  <1>2. k \in Nat /\ n <= k * PageBytes
    BY <1>1
  <1> HIDE DEF k
  <1>3. PICK m \in Nat : PageBytes = WordBytes * m
    <2>1. PageBytes = WordBytes * (PageBytes \div WordBytes) /\ PageBytes \div WordBytes \in Nat
      BY <1>1, WordAssumption
    <2> QED
      BY <2>1
  <1>4. k * PageBytes = WordBytes * (k * m) /\ k * m \in Nat
    BY <1>2, <1>3, WordAssumption
  <1> DEFINE q == k * m
  <1>5. q \in Nat /\ k * PageBytes = WordBytes * q
    BY <1>4
  <1> HIDE DEF q
  <1>6. WordBase(p) + WordBytes <= WordBytes * q
    <2>1. p < WordBytes * q
      <3> DEFINE end == WordBytes * q
      <3>1. n <= end /\ end \in Nat
        BY <1>2, <1>5, WordAssumption
      <3> HIDE DEF end
      <3> QED
        BY <3>1 DEF end
    <2>2. CASE WordBytes = 2  BY <1>5, <2>1, <2>2 DEF WordBase
    <2>3. CASE WordBytes = 4  BY <1>5, <2>1, <2>3 DEF WordBase
    <2> QED
      BY <2>2, <2>3, WordAssumption
  <1> QED
    BY <1>2, <1>5, <1>6, WordAssumption DEF EraseLen, k

\* The word of an offset below n and in the area is blank.
LEMMA FreshWord ==
  ASSUME NEW n \in Nat, NEW p \in Nat, p < n, p < StageSize, Fresh(p, n)
  PROVE  IsBlank(flash, WordBase(p))
  <1>1. WordBase(p) \in Nat /\ WordBase(p) + WordBytes <= EraseLen(n) /\ EraseLen(n) \in Nat
    BY WordErased, WordOf
  <1>2. WordBase(p) + WordBytes <= StageSize
    BY WordInArea
  <1>3. ASSUME NEW l \in Lanes PROVE flash[WordBase(p) + l] = Blank
    <2>1. WordBase(p) + l \in Addr /\ WordBase(p) <= WordBase(p) + l /\ WordBase(p) + l < EraseLen(n)
      BY <1>1, <1>2, StageAssumption, WordFacts DEF Addr, Lanes
    <2> QED
      BY <2>1 DEF Fresh
  <1> QED
    BY <1>3 DEF IsBlank

\* START erases the stage for the image it was told of, or ends in ERROR.
LEMMA CleanStart ==
  ASSUME UseFlash, TypeOK, Start
  PROVE  \/ state' = "ERROR"
         \/ /\ state' = "RECV" /\ prepared' /\ crc' = <<>> /\ nextOffset' = 0
            /\ SizeFits(expectedSize) /\ Fresh(0, expectedSize)'
  <1>1. PICK done \in BOOLEAN :
          /\ PrepareStage(done)
          /\ prepared' = done
          /\ IF done THEN state' = "RECV" ELSE state' = "ERROR"
    BY DEF Start, SetError
  <1>2. CASE ~done
    BY <1>1, <1>2
  <1>3. CASE done
    <2>1. SizeFits(expectedSize) /\ EraseStage(expectedSize, TRUE)
      BY <1>1, <1>3 DEF PrepareStage
    <2>2. flash' = [a \in Addr |-> IF a < (EraseLen(expectedSize) \div PageBytes) * PageBytes
                                   THEN Blank ELSE flash[a]]
      BY <2>1 DEF EraseStage
    <2>3. (EraseLen(expectedSize) \div PageBytes) * PageBytes = EraseLen(expectedSize)
      <3> DEFINE k == (expectedSize + PageBytes - 1) \div PageBytes
      <3>0. expectedSize \in Nat /\ PageBytes \in Nat /\ PageBytes > 0
        BY StageAssumption DEF TypeOK
      <3>1. k \in Nat /\ PageBytes \in Nat /\ PageBytes > 0
        BY <3>0
      <3> HIDE DEF k
      <3>2. (k * PageBytes) \div PageBytes = k
        BY <3>1
      <3> QED
        BY <3>1, <3>2 DEF EraseLen, k
    <2>4. expectedSize' = expectedSize /\ crc' = <<>> /\ nextOffset' = 0
      BY DEF Start, ResetStatus, ctlVars
    <2>5. Fresh(0, expectedSize)'
      BY <2>2, <2>3, <2>4 DEF Fresh
    <2> QED
      BY <1>1, <1>3, <2>1, <2>4, <2>5
  <1> QED
    BY <1>2, <1>3

\* END programs the last word, unless the controller fails on a blank word.
LEMMA CleanEnd ==
  ASSUME UseFlash, TypeOK, IInv, End, target = "AT32", SizeMatches, CrcMatches, crc # <<>>,
         NEW n \in Nat, Len(crc) <= n, Fresh(nextOffset, n)
  PROVE  \/ state' = "ERROR" /\ lastError' = "STAGE_WRITE" /\ IsBlank(flash, cache.addr)
         \/ /\ state' = "REBOOT" /\ lastError' = "NONE" /\ imageCRC' = crc
            /\ UNCHANGED bytesReceived /\ bytesWritten' = bytesReceived
  <1>1. PICK done \in BOOLEAN :
          /\ FlushCache(done)
          /\ IF done THEN Verdict ELSE SetError("STAGE_WRITE")
    BY DEF End
  <1>2. CASE done
    BY <1>1, <1>2 DEF Verdict, End
  <1>3. CASE ~done
    <2>1. Len(crc) \in Nat /\ nextOffset = Len(crc) /\ Collected(flash, cache, Len(crc), crc)
      BY DEF End, IInv, AtRest, Staged, TypeOK
    <2>2. cache.valid
      BY <1>1, <1>3 DEF FlushCache
    <2>3. Len(crc) % WordBytes # 0 /\ cache.addr = WordBase(Len(crc)) /\ Len(crc) <= StageSize
      BY <2>1, <2>2 DEF Collected
    <2>4. Len(crc) - 1 \in Nat /\ Len(crc) - 1 < n /\ Len(crc) - 1 < StageSize
          /\ WordBase(Len(crc) - 1) = WordBase(Len(crc))
      <3>1. Len(crc) # 0
        <4>1. 0 % WordBytes = 0
          BY WordAssumption
        <4> QED
          BY <2>3, <4>1
      <3>2. Len(crc) - 1 \in Nat /\ Len(crc) - 1 < n /\ Len(crc) - 1 < StageSize
        BY <2>1, <2>3, <3>1, StageAssumption
      <3>3. ((Len(crc) - 1) % WordBytes) + 1 # WordBytes
        <4>1. ((Len(crc) - 1) % WordBytes) + 1 = WordBytes => Len(crc) % WordBytes = 0
          <5>1. Len(crc) - 1 + 1 = Len(crc)
            BY <2>1
          <5> QED
            BY <3>2, <5>1, NextByte
        <4> QED
          BY <2>3, <4>1
      <3>4. Len(crc) - 1 + 1 = Len(crc)
        BY <2>1
      <3> QED
        BY <3>2, <3>3, <3>4, NextByte
    <2>5. Fresh(Len(crc) - 1, n)
      BY <2>1, <2>4 DEF Fresh
    <2>6. IsBlank(flash, cache.addr)
      BY <2>3, <2>4, <2>5, FreshWord
    <2> QED
      BY <1>1, <1>3, <2>6 DEF SetError
  <1> QED
    BY <1>2, <1>3

\* The data handler's loop programs blank words, and what it has not reached
\* stays blank.
LEMMA CleanByte ==
  ASSUME UseFlash, TypeOK, InArea, IInv, StageByte,
         NEW n \in Nat, Len(crc) <= n, Fresh(Position, n)
  PROVE  \/ state' = "ERROR" /\ lastError' = "STAGE_WRITE" /\ ~Stale /\ IsBlank(flash, Word.addr)
         \/ /\ UNCHANGED <<statusVars, streamVars, busy, chunk>>
            /\ Fresh(Position, n)'
  <1>1. /\ busy /\ idx < Len(chunk) /\ crc \in Seq(Byte) /\ chunk \in Seq(Byte)
        /\ idx \in Nat /\ dataOffset \in Nat /\ cache \in Caches /\ Len(crc) \in Nat /\ Len(chunk) \in Nat
        /\ flash \in [Addr -> Byte]
    BY DEF StageByte, TypeOK
  <1>2. /\ chunk # <<>> /\ Len(crc) = dataOffset + Len(chunk) /\ Len(crc) <= StageSize
        /\ Collected(flash, cache, Position, crc)
    BY <1>1 DEF IInv, InLoop, Position
  <1>3. Position \in Nat /\ Position < Len(crc) /\ Position < StageSize /\ Position < n
    BY <1>1, <1>2, StageAssumption DEF Position
  <1> DEFINE lane == Position % WordBytes
             base == WordBase(Position)
  <1>4. lane \in Lanes /\ base \in Nat /\ Position = base + lane
    BY <1>3, WordOf
  <1>5. /\ lane = 0 => ~cache.valid
        /\ lane # 0 => cache.valid /\ cache.addr = base /\ cache.mask = 0 .. lane - 1
    BY <1>2 DEF Collected
  <1>6. ~Stale
    BY <1>5 DEF Stale
  <1>7. lane \in 0 .. WordBytes - 1 /\ WordBytes \in Nat /\ WordBytes > 1
    BY <1>4, WordFacts DEF Lanes
  <1>8. Word.addr = base /\ Word.mask = 0 .. lane - 1
    <2>1. CASE lane = 0
      BY <1>5, <1>7, <2>1 DEF Word, base
    <2>2. CASE lane # 0
      BY <1>5, <1>6, <2>2 DEF Word
    <2> QED
      BY <2>1, <2>2
  <1>9. Filled.addr = base /\ Filled.mask = (0 .. lane - 1) \cup {lane}
    BY <1>8 DEF Filled, lane
  <1>10. Filled.mask = Lanes <=> lane + 1 = WordBytes
    <2> HIDE DEF lane, base
    <2>1. (0 .. lane - 1) \cup {lane} = 0 .. lane
      BY <1>7
    <2> QED
      <3>1. Filled.mask = 0 .. lane
        BY <1>9, <2>1
      <3> QED
        BY <1>7, <3>1 DEF Lanes
  <1>11. PICK done \in BOOLEAN :
           /\ IF Filled.mask = Lanes THEN ProgramWord(Filled, done)
              ELSE done /\ UNCHANGED flashVars
           /\ IF done
              THEN idx' = idx + 1 /\ UNCHANGED <<statusVars, streamVars, busy, chunk>>
              ELSE SetError("STAGE_WRITE")
    BY <1>6 DEF StageByte
  <1>12. IsBlank(flash, base)
    BY <1>3, FreshWord DEF base
  <1>13. CASE ~done
    BY <1>6, <1>8, <1>11, <1>12, <1>13 DEF SetError
  <1>14. CASE done
    <2>1. Position' = Position + 1
      BY <1>1, <1>11, <1>14 DEF Position, streamVars
    <2>2. \A a \in Addr : base <= a /\ a < EraseLen(n) => flash[a] = Blank
      BY DEF Fresh, base
    <2>3. CASE lane + 1 = WordBytes
      <3>1. ProgramWord(Filled, TRUE)
        BY <1>10, <1>11, <1>14, <2>3
      <3>2. flash' = ProgramDone(flash, Filled)
        BY <3>1 DEF ProgramWord
      <3>3. WordBase(Position + 1) = base + WordBytes
        BY <1>3, <2>3, NextByte DEF lane, base
      <3> HIDE DEF lane, base
      <3>4. ASSUME NEW a \in Addr, base + WordBytes <= a, a < EraseLen(n) PROVE flash'[a] = Blank
        <4>1. a \in Nat /\ base <= a /\ a \notin base .. base + WordBytes - 1
          BY <1>4, <1>7, <3>4, StageAssumption DEF Addr
        <4>2. flash'[a] = flash[a]
          BY <1>9, <3>2, <4>1 DEF ProgramDone
        <4> QED
          BY <2>2, <3>4, <4>1, <4>2
      <3>5. Fresh(Position, n)'
        BY <2>1, <3>3, <3>4 DEF Fresh, EraseLen
      <3> QED
        BY <1>11, <1>14, <3>5
    <2>4. CASE lane + 1 # WordBytes
      <3>1. flash' = flash
        BY <1>10, <1>11, <1>14, <2>4 DEF flashVars
      <3>2. WordBase(Position + 1) = base
        BY <1>3, <2>4, NextByte DEF lane, base
      <3>3. Fresh(Position, n)'
        BY <2>1, <2>2, <3>1, <3>2 DEF Fresh, EraseLen
      <3> QED
        BY <1>11, <1>14, <3>3
    <2> QED
      BY <2>3, <2>4
  <1> QED
    BY <1>13, <1>14
=============================================================================
