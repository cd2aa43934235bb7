\* Segments of 2 bytes, four for a run; the buffer holds two.
SPECIFICATION FairSpec
CONSTANTS
  Byte = {0, 1}
  DataOf <- MCDataOf
  Retries = 2
  MaxTransit = 3
  SegBytes = 2
  BufferSize = 6
  MaxBlock = 2
  Limit = 7
  Timeout = 2
  BlockTimeout = 1
  TxSize = 3
INVARIANTS TypeOK SuccessStored NoMixture
PROPERTY TransferEnds
