------------------------------- MODULE OtaApp -------------------------------
(***************************************************************************)
(* The over-the-air update object of the bootloader: the handlers of the   *)
(* object dictionary entries 5F00 (control), 5F01 (status) and 5F02 (data) *)
(* and the staging area in flash behind them (canopen_at32/CO_app_AT32.c), *)
(* as the SDO server and the main loop call them.                          *)
(*                                                                         *)
(* Every handler runs in the main loop, so handlers exclude each other.    *)
(* The handler of 5F02 programs flash byte by byte; its loop is unrolled,  *)
(* one iteration a step (busy, chunk, idx), because the millisecond timer  *)
(* and a reset of the device can come between any two iterations.          *)
(*                                                                         *)
(* CRC-32 values are modelled by the bytes they are computed over, so two  *)
(* images have the same CRC exactly when they are equal; <<>> stands for   *)
(* the value 0, which is both the CRC of nothing and, in expectedCRC, "do  *)
(* not check".  Sizes and offsets are bytes; the timer wraps at TickMod.   *)
(***************************************************************************)
EXTENDS Integers, Sequences

CONSTANTS
  Byte,          \* values of a byte of flash
  Blank,         \* the value of an erased byte (0xFF)
  WordBytes,     \* bytes flash_word_program writes at once
  PageBytes,     \* OTA_FLASH_PAGE_SIZE_BYTES
  StageSize,     \* OTA_STAGE_REGION_SIZE
  Chunks,        \* what one call of the data handler can carry
  Sizes,         \* values the host writes to expectedSize
  Crcs,          \* values the host writes to expectedCRC32
  Targets,       \* values it writes to target, "AT32" among them
  ImageTypes,    \* values it writes to imageType, "KERNEL" among them
  InitialFlash,  \* what the staging area holds at first power-up
  TickMod,       \* the timer counts milliseconds modulo this (2^32)
  ApplyDelay,    \* OTA_APPLY_DELAY_MS
  UseFlash,      \* the build defines USE_FLASH
  NoImage        \* no installation happened yet

ASSUME BlankAssumption == Blank \in Byte
ASSUME WordAssumption == WordBytes \in {2, 4}
ASSUME StageAssumption ==
  /\ StageSize \in Nat
  /\ StageSize % WordBytes = 0
  /\ PageBytes \in Nat \ {0}
  /\ PageBytes % WordBytes = 0
ASSUME HostAssumption ==
  /\ Chunks \subseteq Seq(Byte)
  /\ Sizes \subseteq Nat
  /\ Crcs \subseteq Seq(Byte)
  /\ "AT32" \in Targets /\ "KERNEL" \in ImageTypes
ASSUME FlashAssumption ==
  /\ InitialFlash \subseteq [0 .. StageSize - 1 -> Byte]
  /\ UseFlash \in BOOLEAN
ASSUME TimerAssumption ==
  /\ TickMod \in Nat /\ ApplyDelay \in Nat
  /\ 0 < ApplyDelay /\ 2 * ApplyDelay <= TickMod
ASSUME NoImageAssumption == NoImage \notin Seq(Byte)

VARIABLES
  target, imageType, expectedSize, expectedCRC,      \* 5F00
  state, lastError, bytesReceived, bytesWritten,
  imageCRC,                                          \* 5F01
  session, crc, prepared, nextOffset, cache,
  swapPending, deadline,                             \* OTA_Context
  flash, flashErr,     \* staging area; latched error flags of FLASH->sts
  open, dataOffset,    \* the SDO server's stream on 5F02
  busy, chunk, idx,    \* the data handler in the middle of its loop
  now,                 \* Timer1ms
  waited,              \* history: ticks since APPLY, up to ApplyDelay
  installed            \* history: what OtaBoot_ApplyFromStage was given since START

ctlVars    == <<target, imageType, expectedSize, expectedCRC>>
countVars  == <<bytesReceived, bytesWritten, imageCRC, crc>>
statusVars == <<state, lastError>>
stageVars  == <<prepared, nextOffset, cache>>
flashVars  == <<flash, flashErr>>
swapVars   == <<swapPending, deadline, waited>>
streamVars == <<open, dataOffset>>
jobVars    == <<busy, chunk, idx>>
vars == <<ctlVars, countVars, statusVars, session, stageVars, flashVars,
          swapVars, streamVars, jobVars, now, installed>>

----------------------------------------------------------------------------
(* Values and helpers *)

States == {"IDLE", "RECV", "REBOOT", "ERROR"}  \* VERIFY and FLASH last only inside END
Errors == {"NONE", "INVALID_COMMAND", "INVALID_SIZE", "APPLY_UNSUPP",
           "CRC_MISMATCH", "INVALID_TARGET", "BAD_STATE", "INVALID_IMAGE",
           "STAGE_WRITE"}

Lanes == 0 .. WordBytes - 1
Addr  == 0 .. StageSize - 1
Ticks == 0 .. TickMod - 1

WordBase(a) == a - (a % WordBytes)
BlankWord   == [l \in Lanes |-> Blank]
EmptyCache  == [valid |-> FALSE, addr |-> 0, data |-> BlankWord, mask |-> {}]
Caches      == [valid : BOOLEAN, addr : Nat, data : [Lanes -> Byte],
                mask : SUBSET Lanes]

\* The bytes of flash that eraseLen covers for an image of n bytes.
EraseLen(n) == ((n + PageBytes - 1) \div PageBytes) * PageBytes
SizeFits(n) == n # 0 /\ n <= StageSize

\* The first n staged bytes, what the installer reads.
StagePrefix(n) == [i \in 1 .. n |-> flash[i - 1]]

\* Fault: the bytes of a word are put together in the wrong order.
ProgramReversed(f, w) ==
  [a \in Addr |-> IF a \in w.addr .. w.addr + WordBytes - 1
                  THEN w.data[WordBytes - 1 - (a - w.addr)] ELSE f[a]]

ProgramDone(f, w) ==
  [a \in Addr |-> IF a \in w.addr .. w.addr + WordBytes - 1
                  THEN w.data[a - w.addr] ELSE f[a]]
IsBlank(f, base) == \A l \in Lanes : f[base + l] = Blank

\* set_error: it says nothing about an installation that is pending.
SetError(code) == state' = "ERROR" /\ lastError' = code

----------------------------------------------------------------------------
(* The flash controller (hardware, as the vendor's driver reports it).     *)
(* A program operation on a word that is not erased is refused and latches *)
(* PRGMERR; the driver reports a latched flag on every later operation,    *)
(* and nothing in the firmware clears it.  A word that is erased can still *)
(* fail, with the flag latched or by timeout.                              *)

ProgramWord(w, done) ==
  IF ~UseFlash
  THEN done /\ UNCHANGED flashVars
  ELSE \/ /\ done
          /\ ~flashErr /\ IsBlank(flash, w.addr)
          /\ flash' = ProgramDone(flash, w)
          /\ UNCHANGED flashErr
       \/ /\ ~done
          /\ flash' \in IF IsBlank(flash, w.addr)
                        THEN {flash, ProgramDone(flash, w)} ELSE {flash}
          /\ flashErr' \in IF flashErr \/ ~IsBlank(flash, w.addr)
                           THEN {TRUE} ELSE BOOLEAN

\* Erasing the first n bytes, page by page, until a page fails.  A latched
\* error flag is met before the first page.
EraseStage(n, done) ==
  IF ~UseFlash
  THEN done /\ UNCHANGED flashVars
  ELSE \E pages \in 0 .. EraseLen(n) \div PageBytes :
         /\ done => ~flashErr /\ pages = EraseLen(n) \div PageBytes
         /\ flashErr => pages = 0
         /\ flash' = [a \in Addr |-> IF a < pages * PageBytes THEN Blank ELSE flash[a]]
         /\ flashErr' \in IF flashErr THEN {TRUE} ELSE IF done THEN {FALSE} ELSE BOOLEAN

\* Fault: the last, partial word is not written.
ForgetCache(done) == done /\ UNCHANGED <<cache, flashVars>>

\* ota_stage_flush_pending_word.
FlushCache(done) ==
  IF ~cache.valid \/ cache.mask = {}
  THEN done /\ UNCHANGED <<cache, flashVars>>
  ELSE /\ ProgramWord(cache, done)
       /\ cache' = IF done THEN EmptyCache ELSE cache

----------------------------------------------------------------------------
(* Initial states *)

\* Power-up, with the values of OD.c and of OTA_Context.
Init ==
  /\ target = "AT32" /\ imageType = "KERNEL"
  /\ expectedSize = 0 /\ expectedCRC = <<>>
  /\ state = "IDLE" /\ lastError = "NONE"
  /\ bytesReceived = 0 /\ bytesWritten = 0 /\ imageCRC = <<>> /\ crc = <<>>
  /\ session = FALSE
  /\ prepared = FALSE /\ nextOffset = 0 /\ cache = EmptyCache
  /\ swapPending = FALSE /\ deadline = 0 /\ waited = 0
  /\ open = FALSE /\ dataOffset = 0
  /\ busy = FALSE /\ chunk = <<>> /\ idx = 0
  /\ now = 0
  /\ flash \in InitialFlash /\ flashErr = FALSE
  /\ installed = NoImage

----------------------------------------------------------------------------
(* 5F00: the control record.  The SDO server serves one transfer at a time, *)
(* so a write to 5F00 means that no transfer on 5F02 is open any more.      *)

CloseStream == open' = FALSE /\ dataOffset' = 0

\* Sub-indices 2 to 8 are plain variables, writable at any time.
WriteParameter ==
  /\ ~busy
  /\ \/ target' \in Targets /\ UNCHANGED <<imageType, expectedSize, expectedCRC>>
     \/ imageType' \in ImageTypes /\ UNCHANGED <<target, expectedSize, expectedCRC>>
     \/ expectedSize' \in Sizes /\ UNCHANGED <<target, imageType, expectedCRC>>
     \/ expectedCRC' \in Crcs /\ UNCHANGED <<target, imageType, expectedSize>>
  /\ CloseStream
  /\ UNCHANGED <<countVars, statusVars, session, stageVars, flashVars, swapVars,
                 jobVars, now, installed>>

\* A command that is refused: only the error is recorded.
Refuse(code) ==
  /\ SetError(code)
  /\ CloseStream
  /\ UNCHANGED <<ctlVars, countVars, session, stageVars, flashVars, swapVars,
                 jobVars, now, installed>>

\* Fault: START and ABORT leave an installation pending.
ResetKeepsPending ==
  /\ bytesReceived' = 0 /\ bytesWritten' = 0 /\ imageCRC' = <<>> /\ crc' = <<>>
  /\ nextOffset' = 0 /\ cache' = EmptyCache
  /\ installed' = NoImage
  /\ UNCHANGED swapVars

\* ota_reset_status, except for state, lastError, session and prepared.
ResetStatus ==
  /\ bytesReceived' = 0 /\ bytesWritten' = 0 /\ imageCRC' = <<>> /\ crc' = <<>>
  /\ nextOffset' = 0 /\ cache' = EmptyCache
  /\ swapPending' = FALSE /\ deadline' = 0 /\ waited' = 0
  /\ installed' = NoImage

StartRefused ==
  /\ ~busy
  /\ \/ target # "AT32" /\ Refuse("INVALID_TARGET")
     \/ target = "AT32" /\ imageType # "KERNEL" /\ Refuse("INVALID_IMAGE")

\* Fault: the status of the erase is not looked at.
PrepareUnchecked(done) ==
  IF SizeFits(expectedSize)
  THEN done /\ \E ok \in BOOLEAN : EraseStage(expectedSize, ok)
  ELSE ~done /\ UNCHANGED flashVars

\* ota_stage_prepare with its erase, after everything was reset.
PrepareStage(done) ==
  IF SizeFits(expectedSize)
  THEN EraseStage(expectedSize, done)
  ELSE ~done /\ UNCHANGED flashVars

Start ==
  /\ ~busy
  /\ target = "AT32" /\ imageType = "KERNEL"
  /\ ResetStatus
  /\ session' = TRUE
  /\ \E done \in BOOLEAN :
       /\ PrepareStage(done)
       /\ prepared' = done
       /\ IF done THEN state' = "RECV" /\ lastError' = "NONE"
                  ELSE SetError("INVALID_SIZE")
  /\ CloseStream
  /\ UNCHANGED <<ctlVars, jobVars, now>>

\* ota_verify_received_image.
SizeMatches == expectedSize = 0 \/ bytesReceived = expectedSize
CrcMatches  == expectedCRC = <<>> \/ crc = expectedCRC

\* What END does once the last word is in flash.
Verdict ==
  /\ imageCRC' = IF SizeMatches THEN crc ELSE imageCRC
  /\ IF ~SizeMatches THEN SetError("INVALID_SIZE") /\ UNCHANGED <<bytesWritten, session>>
     ELSE IF ~CrcMatches THEN SetError("CRC_MISMATCH") /\ UNCHANGED <<bytesWritten, session>>
     ELSE IF target # "AT32" THEN SetError("INVALID_TARGET") /\ UNCHANGED <<bytesWritten, session>>
     ELSE /\ state' = "REBOOT" /\ lastError' = "NONE"
          /\ bytesWritten' = bytesReceived
          /\ session' = FALSE

EndRefused == ~busy /\ state # "RECV" /\ Refuse("BAD_STATE")

End ==
  /\ ~busy
  /\ state = "RECV"
  /\ IF target = "AT32"
     THEN \E done \in BOOLEAN :
            /\ FlushCache(done)
            /\ IF done THEN Verdict
                       ELSE SetError("STAGE_WRITE") /\ UNCHANGED <<bytesWritten, imageCRC, session>>
     ELSE Verdict /\ UNCHANGED <<cache, flashVars>>
  /\ CloseStream
  /\ UNCHANGED <<ctlVars, bytesReceived, crc, prepared, nextOffset, swapVars, jobVars,
                 now, installed>>

Abort ==
  /\ ~busy
  /\ ResetStatus
  /\ state' = "IDLE" /\ lastError' = "NONE"
  /\ session' = FALSE
  /\ prepared' = FALSE
  /\ CloseStream
  /\ UNCHANGED <<ctlVars, flashVars, jobVars, now>>

\* Fault: APPLY looks at the counters only.
ApplyOnCounters == bytesReceived # 0 /\ bytesReceived = bytesWritten

ApplyAllowed ==
  /\ state = "REBOOT" /\ lastError = "NONE"
  /\ bytesReceived # 0
  /\ bytesReceived = bytesWritten

ApplyRefused ==
  /\ ~busy
  /\ \/ target # "AT32" /\ Refuse("APPLY_UNSUPP")
     \/ target = "AT32" /\ imageType # "KERNEL" /\ Refuse("INVALID_IMAGE")
     \/ target = "AT32" /\ imageType = "KERNEL" /\ ~ApplyAllowed /\ Refuse("BAD_STATE")

\* Fault: the deadline does not wrap with the timer.
UnwrappedDeadline(t) == t + ApplyDelay

DeadlineAfter(t) == (t + ApplyDelay) % TickMod

\* A repeated APPLY moves the deadline.
Apply ==
  /\ ~busy
  /\ target = "AT32" /\ imageType = "KERNEL" /\ ApplyAllowed
  /\ swapPending' = TRUE
  /\ deadline' = DeadlineAfter(now)
  /\ waited' = 0
  /\ CloseStream
  /\ UNCHANGED <<ctlVars, countVars, statusVars, session, stageVars, flashVars,
                 jobVars, now, installed>>

InvalidCommand == ~busy /\ Refuse("INVALID_COMMAND")

----------------------------------------------------------------------------
(* 5F02: the image data.                                                   *)

\* The checks of ota_stage_write_chunk.  An empty chunk passes them at any offset.
ChunkAccepted(off, len) ==
  /\ prepared
  /\ len # 0 => /\ off < StageSize /\ len <= StageSize - off
                /\ off = nextOffset

\* The handler up to the loop of ota_stage_write_chunk.  A new transfer
\* starts at offset 0; within one, dataOffset carries on.
WriteData(new, data) ==
  LET off   == IF new \/ session THEN 0 ELSE dataOffset
      image == (IF off = 0 THEN <<>> ELSE crc) \o data
      total == off + Len(data)
  IN /\ ~busy
     /\ new \/ open
     /\ session' = FALSE
     /\ IF state # "RECV"
        THEN /\ SetError("BAD_STATE")
             /\ CloseStream
             /\ UNCHANGED <<countVars, jobVars>>
        ELSE /\ bytesReceived' = total
             /\ bytesWritten' = IF off = 0 THEN 0 ELSE bytesWritten
             /\ crc' = image /\ imageCRC' = image
             /\ IF target # "AT32"
                THEN SetError("INVALID_TARGET") /\ CloseStream /\ UNCHANGED jobVars
                ELSE IF ChunkAccepted(off, Len(data))
                THEN /\ open' = TRUE /\ dataOffset' = off
                     /\ busy' = TRUE /\ chunk' = data /\ idx' = 0
                     /\ UNCHANGED statusVars
                ELSE SetError("STAGE_WRITE") /\ CloseStream /\ UNCHANGED jobVars
     /\ UNCHANGED <<ctlVars, stageVars, flashVars, swapVars, now, installed>>

\* The byte in hand, and the word it completes: the cached one, unless that
\* is stale and has to be flushed first.
Position == dataOffset + idx
Stale    == cache.valid /\ cache.addr # WordBase(Position)
Word     == IF cache.valid /\ ~Stale THEN cache
            ELSE [valid |-> TRUE, addr |-> WordBase(Position), data |-> BlankWord, mask |-> {}]
Filled   == [valid |-> TRUE,
             addr  |-> Word.addr,
             data  |-> [Word.data EXCEPT ![Position % WordBytes] = chunk[idx + 1]],
             mask  |-> Word.mask \cup {Position % WordBytes}]

\* One iteration of the loop: a byte goes into the word cache, and a full word,
\* or one the byte does not belong to, goes to flash.
StageByte ==
  /\ busy /\ idx < Len(chunk)
  /\ \E done \in BOOLEAN :
       /\ IF Stale THEN ProgramWord(cache, done)
          ELSE IF Filled.mask = Lanes THEN ProgramWord(Filled, done)
          ELSE done /\ UNCHANGED flashVars
       /\ cache' = IF Stale THEN (IF done THEN Filled ELSE cache)
                   ELSE IF Filled.mask = Lanes /\ done THEN EmptyCache
                   ELSE Filled
       /\ IF done
          THEN idx' = idx + 1 /\ UNCHANGED <<statusVars, streamVars, busy, chunk>>
          ELSE /\ SetError("STAGE_WRITE")
               /\ CloseStream
               /\ busy' = FALSE /\ chunk' = <<>> /\ idx' = 0
  /\ UNCHANGED <<ctlVars, countVars, session, prepared, nextOffset, swapVars,
                 now, installed>>

\* The handler after the loop.  It reports PARTIAL, and the stream stays open,
\* while fewer bytes than expected have come.
FinishData ==
  LET offset == dataOffset + Len(chunk)
  IN /\ busy /\ idx = Len(chunk)
     /\ busy' = FALSE /\ chunk' = <<>> /\ idx' = 0
     /\ nextOffset' = IF chunk = <<>> THEN nextOffset ELSE offset
     /\ bytesWritten' = bytesReceived
     /\ IF expectedSize # 0 /\ offset > expectedSize
        THEN SetError("INVALID_SIZE") /\ CloseStream
        ELSE /\ UNCHANGED statusVars
             /\ IF offset = expectedSize /\ expectedSize # 0
                THEN CloseStream
                ELSE open' = TRUE /\ dataOffset' = offset
     /\ UNCHANGED <<ctlVars, bytesReceived, imageCRC, crc, session, prepared, cache,
                    flashVars, swapVars, now, installed>>

\* The SDO server ends the transfer: an abort, a timeout, a new communication.
DropTransfer ==
  /\ ~busy /\ open
  /\ CloseStream
  /\ UNCHANGED <<ctlVars, countVars, statusVars, session, stageVars, flashVars,
                 swapVars, jobVars, now, installed>>

----------------------------------------------------------------------------
(* The main loop, the timer and the reset.                                 *)

\* Fault: the two times are compared as they are.
DueByOrder == now >= deadline

\* (int32_t)(now - deadline) >= 0
SwapDue == (now - deadline) % TickMod < TickMod \div 2

\* Fault: the installation waits for a state that may never come back.
ProcessInReboot ==
  /\ ~busy /\ state = "REBOOT"
  /\ swapPending /\ SwapDue
  /\ swapPending' = FALSE /\ deadline' = 0 /\ waited' = 0
  /\ installed' = StagePrefix(bytesWritten)
  /\ UNCHANGED <<ctlVars, countVars, statusVars, session, stageVars, flashVars,
                 streamVars, jobVars, now>>

\* ota_apply_process_pending, called by the main loop.
ProcessPending ==
  /\ ~busy
  /\ swapPending /\ SwapDue
  /\ swapPending' = FALSE /\ deadline' = 0 /\ waited' = 0
  /\ installed' = StagePrefix(bytesWritten)
  /\ UNCHANGED <<ctlVars, countVars, statusVars, session, stageVars, flashVars,
                 streamVars, jobVars, now>>

\* The timer interrupt.
Tick ==
  /\ now' = (now + 1) % TickMod
  /\ waited' = IF swapPending /\ waited < ApplyDelay THEN waited + 1 ELSE waited
  /\ UNCHANGED <<ctlVars, countVars, statusVars, session, stageVars, flashVars,
                 swapPending, deadline, streamVars, jobVars, installed>>

\* A reset of the device, at any moment: RAM and the flags of the controller
\* start over, the staging area keeps what it holds.
Restart ==
  /\ target' = "AT32" /\ imageType' = "KERNEL"
  /\ expectedSize' = 0 /\ expectedCRC' = <<>>
  /\ ResetStatus
  /\ state' = "IDLE" /\ lastError' = "NONE"
  /\ session' = FALSE /\ prepared' = FALSE
  /\ CloseStream
  /\ busy' = FALSE /\ chunk' = <<>> /\ idx' = 0
  /\ now' = 0
  /\ flashErr' = FALSE
  /\ UNCHANGED flash

Host ==
  \/ WriteParameter
  \/ StartRefused \/ Start
  \/ EndRefused \/ End
  \/ Abort
  \/ ApplyRefused \/ Apply
  \/ InvalidCommand
  \/ \E new \in BOOLEAN, data \in Chunks : WriteData(new, data)
  \/ DropTransfer

Next == Host \/ StageByte \/ FinishData \/ ProcessPending \/ Tick \/ Restart

Spec == Init /\ [][Next]_vars

\* The main loop polls for ever and the timer keeps running.  The loop polls
\* far more often than the timer wraps, so that a deadline that is due again
\* and again is noticed: strong fairness of ProcessPending.
Fairness ==
  /\ WF_vars(StageByte) /\ WF_vars(FinishData)
  /\ WF_vars(Tick)
  /\ SF_vars(ProcessPending)

FairSpec == Spec /\ Fairness

----------------------------------------------------------------------------
(* Properties                                                              *)

\* Every variable has its type.
TypeOK ==
  /\ target \in Targets /\ imageType \in ImageTypes
  /\ expectedSize \in Nat /\ expectedCRC \in Seq(Byte)
  /\ state \in States /\ lastError \in Errors
  /\ bytesReceived \in Nat /\ bytesWritten \in Nat
  /\ imageCRC \in Seq(Byte) /\ crc \in Seq(Byte)
  /\ session \in BOOLEAN /\ prepared \in BOOLEAN
  /\ nextOffset \in Nat
  /\ cache \in Caches
  /\ swapPending \in BOOLEAN /\ deadline \in Ticks /\ waited \in 0 .. ApplyDelay
  /\ flash \in [Addr -> Byte] /\ flashErr \in BOOLEAN
  /\ open \in BOOLEAN /\ dataOffset \in Nat
  /\ busy \in BOOLEAN /\ chunk \in Seq(Byte) /\ idx \in Nat
  /\ now \in Ticks
  /\ installed \in Seq(Byte) \cup {NoImage}

\* The staging area holds the image the status reports, byte for byte: what
\* was received is what was written, and its CRC is the CRC shown.
ImageInFlash ==
  /\ bytesWritten = bytesReceived
  /\ bytesWritten = Len(crc)
  /\ bytesWritten <= StageSize
  /\ imageCRC = crc
  /\ StagePrefix(bytesWritten) = crc

\* When END has accepted an image (state REBOOT) the image is in flash to its
\* last byte: no byte is left in the word cache, none was programmed at another
\* address, and nothing that came later disturbed it.
StagedImage == state = "REBOOT" => ImageInFlash

\* As long as an installation is pending, the staging area holds the accepted
\* image, even after later commands and stray data have put the object into
\* the error state.
SwapSource ==
  swapPending => state \in {"REBOOT", "ERROR"} /\ ImageInFlash /\ crc # <<>>

\* While data comes in, every byte counted in bytesWritten is in flash or in
\* the word that is still being collected.
NothingLostInCache ==
  state = "RECV" /\ ~busy =>
    \A a \in 0 .. bytesWritten - 1 :
      IF cache.valid /\ a >= cache.addr
      THEN /\ a - cache.addr \in cache.mask
           /\ cache.data[a - cache.addr] = crc[a + 1]
      ELSE flash[a] = crc[a + 1]

\* A latched error of the flash controller keeps every image out: none is
\* received, and none accepted, until the device restarts.
NoImageAfterFlashError == flashErr => state \notin {"RECV", "REBOOT"}

\* Between APPLY and the installation nothing writes the staging area or the
\* two values the installer is given.
StageFrozen ==
  [][swapPending /\ swapPending' => UNCHANGED <<flash, bytesWritten, imageCRC>>]_vars

\* The feature list's "Sector/Page erase before write" (README.md:14): a word
\* that is being put together for programming lies in erased flash.
EraseBeforeWrite == state = "RECV" /\ cache.valid => IsBlank(flash, cache.addr)

\* The host gets its answer to APPLY and ApplyDelay ticks before the
\* installation begins, also when the timer wraps in between.
NoEarlySwap == [][ProcessPending => waited = ApplyDelay]_vars

\* The object keeps the promises of FwUpdate.
Phase == CASE state = "RECV"   -> "receiving"
           [] state = "REBOOT" -> "ready"
           [] state = "ERROR"  -> "failed"
           [] OTHER            -> "idle"

Abstract == INSTANCE FwUpdate WITH phase <- Phase, image <- crc, armed <- swapPending

Promise == Abstract!Spec

\* An installation that was requested takes place, unless the host keeps
\* moving the deadline with further APPLYs, calls it off, or power is lost.
SwapHappens == <>[][~Apply]_vars => (swapPending ~> ~swapPending)
=============================================================================
