\* Over-long transfers program flash that START did not erase.
CONSTANTS
  Sent = {0, 1}
  Byte <- ByteSet
  Blank = 255
  WordBytes = 2
  PageBytes = 2
  StageSize = 6
  Chunks <- ChunkSet
  Sizes <- SizeSet
  Crcs <- CrcSet
  Targets = {"AT32", "OTHER"}
  ImageTypes = {"KERNEL"}
  InitialFlash <- OldFlash
  TickMod = 2
  ApplyDelay = 1
  UseFlash = TRUE
  NoImage = NoImage
SPECIFICATION Spec
INVARIANT EraseBeforeWrite
