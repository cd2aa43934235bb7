SPECIFICATION FairSpec
CONSTANTS
  RxSize = 2
  TxSize = 2
  FifoDepth = 1
  Mailboxes = 1
  Message <- MCMessage
  Answers <- MCAnswers
  NoFrame = NoFrame
INVARIANT TypeOK
PROPERTIES RxFifo TxFifo ReceptionGoesOn
