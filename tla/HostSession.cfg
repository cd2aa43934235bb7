\* Images of two pieces and of one; a staging area of 2 pages.
SPECIFICATION FairSpec
CONSTANTS
  Byte = {0, 1, 255}
  Blank = 255
  WordBytes = 2
  PageBytes = 2
  StageSize = 4
  InitialFlash <- OldFlash
  TickMod = 4
  ApplyDelay = 2
  UseFlash = TRUE
  NoImage = NoImage
  Sessions <- MCSessions
  SkipIdentity = FALSE
  PieceBytes = 2
  MaxAnswers = 2
INVARIANTS TypeOK SuccessStaged InstalledWhole SuccessApplied NoFalseAlarm
PROPERTY SessionEnds
