\* Block downloads: sub-blocks of 2 segments, a DOMAIN of 8 bytes, a queue of 1,
\* timeouts of 2 and 1 ticks.
CONSTANTS
  Byte = {0, 1}
  Object = {"word", "image"}
  Missing = "none"
  Readable = {"word"}
  Writable = {"word", "image"}
  Size <- SizeOf
  Initial <- InitialOf
  Limit = 8
  Frames <- BlockFrames
  SegBytes = 2
  ExpBytes = 1
  BufferSize = 8
  MaxBlock = 2
  Timeout = 2
  BlockTimeout = 1
  TxSize = 1
SPECIFICATION FairSpec
INVARIANTS
  TypeOK
  BufferFits
  Accounted
PROPERTIES
  ConfirmedIsStored
  BackToIdle
