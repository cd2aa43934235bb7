\* The storing of the configuration.
CONSTANTS
  Frames <- LssFrames
  Address <- AddressOf
  Value = {0, 1}
  Supported = {250, 125}
  DefaultId = 127
  DefaultRate = 250
  HbTimes = {0, 2, 3}
  DefaultHbTime = 3
  FirstHb = 1
  MaxElapsed = 2
SPECIFICATION Spec
PROPERTIES
  StoredSurvives
