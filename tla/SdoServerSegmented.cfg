\* Expedited and segmented downloads, uploads: a DOMAIN of 8 bytes, a queue of 1.
CONSTANTS
  Byte = {0, 1}
  Object = {"word", "image"}
  Missing = "none"
  Readable = {"word"}
  Writable = {"word", "image"}
  Size <- SizeOf
  Initial <- InitialOf
  Limit = 8
  Frames <- SegmentedFrames
  SegBytes = 2
  ExpBytes = 1
  BufferSize = 8
  MaxBlock = 2
  Timeout = 2
  BlockTimeout = 1
  TxSize = 1
SPECIFICATION Spec
INVARIANTS
  BufferFits
  Accounted
PROPERTY ConfirmedIsStored
