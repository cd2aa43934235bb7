\* Every frame, heartbeats every 3 ticks or not at all, rounds of up to 2 ticks.
CONSTANTS
  Frames <- AllFrames
  Address <- AddressOf
  Value = {0, 1}
  Supported = {250, 125}
  DefaultId = 127
  DefaultRate = 250
  HbTimes = {0, 3}
  DefaultHbTime = 3
  FirstHb = 1
  MaxElapsed = 2
SPECIFICATION FairSpec
INVARIANTS
  TypeOK
  StartAccepted
  StateAnnounced
PROPERTIES
  HeartbeatInTime
  IdChanges
  BootUpFirst
  AssignedStarts
