--------------------------- MODULE NodeControlMC ---------------------------
(***************************************************************************)
(* Small instances of NodeControl for TLC.                                 *)
(***************************************************************************)
EXTENDS NodeControl

\* The serial number tells nodes apart here, the other parts are zero.
AddressOf == [p \in Parts |-> IF p = "serial" THEN 1 ELSE 0]

LssFrames ==
       [cs : {"switchGlobal"}, mode : {"WAITING", "CONFIGURATION"}]
  \cup [cs : {"select"}, part : {"serial"}, value : Value]
  \cup [cs : {"fastscan"}, bit : {Confirm}, sub : {"vendor"}, next : {"vendor"}, value : {0}]
  \cup [cs : {"fastscan"}, bit : {1}, sub : {"vendor"}, next : {"serial"}, value : {1}]
  \cup [cs : {"fastscan"}, bit : {0}, sub : {"serial"}, next : {"vendor"}, value : Value]
  \cup [cs : {"cfgNodeId"}, nid : {0, 1, 255}]
  \cup [cs : {"cfgBitTiming"}, rate : {125, 1000}]
  \cup [cs : {"store"}]

\* Commands to all nodes, and one to another node.
NmtFrames ==
       [cs : {"nmt"}, node : {0},
        command : {"operational", "stopped", "preOperational", "resetNode", "resetCommunication"}]
  \cup [cs : {"nmt"}, node : {2}, command : {"resetNode"}]

AllFrames == LssFrames \cup NmtFrames
=============================================================================
