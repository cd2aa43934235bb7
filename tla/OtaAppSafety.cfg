\* Staging, acceptance and APPLY: two byte values, an area of 3 pages, a timer
\* that wraps every 4 ticks.
CONSTANTS
  Sent = {0, 1}
  Byte <- ByteSet
  Blank = 255
  WordBytes = 2
  PageBytes = 2
  StageSize = 6
  Chunks <- ChunkSet
  Sizes <- SizeSet
  Crcs <- CrcSet
  Targets = {"AT32", "OTHER"}
  ImageTypes = {"KERNEL"}
  InitialFlash <- OldFlash
  TickMod = 4
  ApplyDelay = 1
  UseFlash = TRUE
  NoImage = NoImage
SPECIFICATION FairSpec
INVARIANTS
  TypeOK
  StagedImage
  SwapSource
  NothingLostInCache
  NoImageAfterFlashError
PROPERTIES
  Promise
  StageFrozen
  NoEarlySwap
  SwapHappens
