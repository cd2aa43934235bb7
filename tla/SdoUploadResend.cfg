\* One request comes twice.  Segments of 2 bytes, sub-blocks of 2 segments, a buffer of 5 bytes.
SPECIFICATION Spec
CONSTANTS
  Byte = {0, 1, 2, 3, 4, 5, 6, 7, 8}
  Objects <- ObjectsOf
  Pad = 0
  SegBytes = 2
  ExpBytes = 1
  BufferSize = 5
  ClientBlock = 2
  Threshold = 2
  MaxTransit = 3
  MaxFaults = 1
PROPERTY LastResponseResent
