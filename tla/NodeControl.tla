---------------------------- MODULE NodeControl ----------------------------
(***************************************************************************)
(* The life of the node on the bus: the NMT slave with its heartbeat       *)
(* (canopennode/301/CO_NMT_Heartbeat.c), the LSS slave that assigns the    *)
(* node id and the bit rate (canopennode/305/CO_LSSslave.c), the order in  *)
(* which CO_process calls them, and what main() does when they ask for a   *)
(* reset.  A node without an id runs the LSS slave and nothing else.       *)
(*                                                                         *)
(* A round of the main loop first dispatches the received frames           *)
(* (ReceiveNmt, ReceiveLss, any number of each) and then calls CO_process  *)
(* once (Round, ResetCommunication, ResetNode).  `sent' holds the frames   *)
(* the last step handed to CO_CANsend.                                     *)
(***************************************************************************)
EXTENDS Integers, Sequences

CONSTANTS
  Frames,         \* what the masters on the bus send
  Address,        \* the node's LSS address, a value for each part
  Value,          \* values of the parts of LSS addresses
  Supported,      \* bit rates of CO_CANbitRateData
  DefaultId, DefaultRate,  \* what main() starts with (0x7F, 250)
  HbTimes,        \* producer heartbeat times a client writes to 1017, in ticks
  DefaultHbTime,  \* the one the dictionary starts with (0x1388)
  FirstHb,        \* FIRST_HB_TIME
  MaxElapsed      \* longest round of the main loop

Unassigned == 255                        \* CO_LSS_NODE_ID_ASSIGNMENT
Order      == [vendor |-> 0, product |-> 1, revision |-> 2, serial |-> 3]
Parts      == {"vendor", "product", "revision", "serial"}
NoneSelected == [p \in Parts |-> 0]
NodeIds    == 1 .. 127
Confirm    == 128                        \* CO_LSS_FASTSCAN_CONFIRM

Requests ==
       [cs : {"nmt"}, node : 0 .. 127,
        command : {"operational", "stopped", "preOperational", "resetNode", "resetCommunication", "other"}]
  \cup [cs : {"switchGlobal"}, mode : {"WAITING", "CONFIGURATION", "other"}]
  \cup [cs : {"select"}, part : Parts, value : Value]
  \cup [cs : {"fastscan"}, bit : 0 .. 31 \cup {Confirm}, sub : Parts, next : Parts, value : Value]
  \cup [cs : {"cfgNodeId"}, nid : 0 .. 255]
  \cup [cs : {"cfgBitTiming"}, rate : Nat \cup {-1}]     \* -1: not in the table
  \cup [cs : {"activate", "store", "inquire", "other"}]

ASSUME AddressAssumption == Address \in [Parts -> Value] /\ 0 \in Value /\ Value \subseteq Nat
ASSUME FrameAssumption == Frames \subseteq Requests
ASSUME RateAssumption == Supported \subseteq Nat /\ DefaultRate \in Supported
ASSUME IdAssumption == DefaultId \in NodeIds
ASSUME TimeAssumption ==
  /\ HbTimes \subseteq Nat /\ DefaultHbTime \in HbTimes
  /\ FirstHb \in Nat /\ MaxElapsed \in Nat

VARIABLES
  lssState, select, fastscanPos,   \* lssSelect is select
  request,                    \* CANdata while sendResponse is set, else None
  pendingNodeID, pendingBitRate, baudrate,
  nodeId,                     \* activeNodeID of the LSS slave, nodeId of the NMT slave
  operatingState, operatingStatePrev, internalCommand,
  hbTime, hbTimer,            \* HBproducerTime_us, HBproducerTimer
  interval,                   \* time_interval_us of main()
  sent,
  since,                      \* history: time since the last heartbeat or start
  announced                   \* history: state of the last heartbeat since the start

None == [cs |-> "none"]

lssVars  == <<lssState, select, fastscanPos, request>>
cfgVars  == <<pendingNodeID, pendingBitRate, baudrate>>
nmtVars  == <<operatingState, operatingStatePrev, internalCommand>>
timeVars == <<hbTimer, interval, since, announced>>
vars == <<lssVars, cfgVars, nodeId, nmtVars, hbTime, timeVars, sent>>

States == {"INITIALIZING", "PRE_OPERATIONAL", "OPERATIONAL", "STOPPED"}

Configured == nodeId # Unassigned        \* ~nodeIdUnconfigured

Least(a, b) == IF a < b THEN a ELSE b

----------------------------------------------------------------------------
(* Start and communication reset                                           *)

\* Fault: CO_NMT_init leaves the state of the life before.
KeepState ==
  /\ UNCHANGED <<operatingState, operatingStatePrev>>
  /\ internalCommand' = "none"
  /\ hbTimer' = Least(FirstHb, hbTime)
  /\ since' = 0 /\ announced' = "none"

\* CO_NMT_init.  The heartbeat time is read from the dictionary again.
NmtInit ==
  /\ operatingState' = "INITIALIZING" /\ operatingStatePrev' = "INITIALIZING"
  /\ internalCommand' = "none"
  /\ hbTimer' = Least(FirstHb, hbTime)
  /\ since' = 0 /\ announced' = "none"

\* CO_LSSslave_init; the id that was pending becomes the node's.
LssInit ==
  /\ lssState' = "WAITING" /\ select' = NoneSelected /\ fastscanPos' = "vendor"
  /\ request' = None
  /\ nodeId' = pendingNodeID'

\* What main() and app_canopen_init set after a device reset.
Init ==
  /\ lssState = "WAITING" /\ select = NoneSelected /\ fastscanPos = "vendor" /\ request = None
  /\ pendingNodeID = DefaultId /\ pendingBitRate = DefaultRate /\ baudrate = DefaultRate
  /\ nodeId = DefaultId
  /\ operatingState = "INITIALIZING" /\ operatingStatePrev = "INITIALIZING"
  /\ internalCommand = "none"
  /\ hbTime = DefaultHbTime /\ hbTimer = Least(FirstHb, DefaultHbTime)
  /\ interval = 0
  /\ sent = <<>> /\ since = 0 /\ announced = "none"

----------------------------------------------------------------------------
(* Received frames                                                         *)

\* CO_NMT_receive: one command is kept, the latest.  A node without an id has
\* no receive buffer for it.
ReceiveNmt(m) ==
  /\ m.cs = "nmt" /\ Configured
  /\ m.node \in {0, nodeId}
  /\ internalCommand' = m.command
  /\ sent' = <<>>
  /\ UNCHANGED <<lssVars, cfgVars, nodeId, operatingState, operatingStatePrev, hbTime, timeVars>>

\* Leaving the configuration state asks for a reset if the id is another one.
SwitchGlobal(m) ==
  /\ m.cs = "switchGlobal" /\ m.mode # "other"
  /\ lssState' = m.mode
  /\ select' = IF m.mode = "WAITING" THEN NoneSelected ELSE select
  /\ request' = IF m.mode = "WAITING" /\ lssState = "CONFIGURATION" /\ pendingNodeID # nodeId
                THEN m ELSE request
  /\ UNCHANGED fastscanPos

\* The serial number is the last part and completes the selection.
Select(m) ==
  /\ m.cs = "select" /\ lssState = "WAITING"
  /\ select' = [select EXCEPT ![m.part] = m.value]
  /\ IF m.part = "serial" /\ select' = Address
     THEN lssState' = "CONFIGURATION" /\ request' = m
     ELSE UNCHANGED <<lssState, request>>
  /\ UNCHANGED fastscanPos

\* The part of the address from the bit on.
BitsMatch(m) == Address[m.sub] \div 2^m.bit = m.value \div 2^m.bit

\* Every slave that matches so far confirms; a full match that leads back to an
\* earlier part ends the scan.
Fastscan(m) ==
  /\ m.cs = "fastscan" /\ lssState = "WAITING"
  /\ IF m.bit = Confirm
     THEN fastscanPos' = "vendor" /\ request' = m /\ UNCHANGED lssState
     ELSE IF fastscanPos = m.sub /\ BitsMatch(m)
     THEN /\ fastscanPos' = m.next /\ request' = m
          /\ lssState' = IF m.bit = 0 /\ Order[m.next] < Order[m.sub] THEN "CONFIGURATION" ELSE lssState
     ELSE UNCHANGED <<fastscanPos, request, lssState>>
  /\ UNCHANGED select

Configure(m) ==
  /\ m.cs \notin {"nmt", "switchGlobal", "fastscan"} /\ lssState = "CONFIGURATION"
  /\ request' = m
  /\ UNCHANGED <<lssState, select, fastscanPos>>

\* Fault: a request replaces the one that was not processed yet.
AcceptAlways == TRUE

Accepting == request = None              \* ~CO_FLAG_READ(sendResponse)

\* CO_LSSslave_receive
ReceiveLss(m) ==
  /\ Accepting
  /\ SwitchGlobal(m) \/ Select(m) \/ Fastscan(m) \/ Configure(m)
  /\ sent' = <<>>
  /\ UNCHANGED <<cfgVars, nodeId, nmtVars, hbTime, timeVars>>

----------------------------------------------------------------------------
(* CO_LSSslave_process                                                     *)

\* Fault: the range of the node id is not checked.
AnyId(nid) == TRUE

NodeIdValid(nid) == nid \in NodeIds \cup {Unassigned}

CfgNodeId ==
  /\ request.cs = "cfgNodeId"
  /\ pendingNodeID' = IF NodeIdValid(request.nid) THEN request.nid ELSE pendingNodeID
  /\ UNCHANGED <<pendingBitRate, baudrate>>

CfgBitTiming ==
  /\ request.cs = "cfgBitTiming"
  /\ pendingBitRate' = IF request.rate \in Supported THEN request.rate ELSE pendingBitRate
  /\ UNCHANGED <<pendingNodeID, baudrate>>

\* LSScfgStoreCallback: the values go to RAM.
Store ==
  /\ request.cs = "store"
  /\ baudrate' = pendingBitRate
  /\ UNCHANGED <<pendingNodeID, pendingBitRate>>

\* The rest changes nothing: inquiries, switches, parts of a selection, the
\* activation of the bit timing (no callback is installed), unknown services.
OtherService ==
  /\ request.cs \notin {"cfgNodeId", "cfgBitTiming", "store"}
  /\ UNCHANGED cfgVars

LssProcess == CfgNodeId \/ CfgBitTiming \/ Store \/ OtherService

\* A selection is answered at its last part, also when that came in the
\* configuration state and was not compared with the address.
LssAnswer ==
  CASE request.cs = "cfgNodeId"    -> <<[cs |-> "cfgNodeId", ok |-> NodeIdValid(request.nid)]>>
    [] request.cs = "cfgBitTiming" -> <<[cs |-> "cfgBitTiming", ok |-> request.rate \in Supported]>>
    [] request.cs \in {"store", "inquire"} -> <<[cs |-> request.cs, ok |-> TRUE]>>
    [] request.cs = "select" /\ request.part = "serial" -> <<[cs |-> "select", ok |-> TRUE]>>
    [] request.cs = "fastscan" -> <<[cs |-> "identSlave", ok |-> TRUE]>>
    [] OTHER -> <<>>

LssWantsReset == request.cs = "switchGlobal"

----------------------------------------------------------------------------
(* CO_NMT_process                                                          *)

\* Fault: the state after the command is taken for the announced one.
PrevAfterCommand(new) == new

Booting == operatingState = "INITIALIZING"

\* Fault: the subtraction is not guarded.
TimerWraps(dt) == hbTimer - dt

TimerAfter(dt) == IF hbTimer > dt THEN hbTimer - dt ELSE 0

\* Fault: a heartbeat is due only if its timer was at zero before this call.
DueByOldTimer(dt) == Booting \/ (hbTime # 0 /\ (hbTimer = 0 \/ operatingState # operatingStatePrev))

HeartbeatDue(dt) ==
  Booting \/ (hbTime # 0 /\ (TimerAfter(dt) = 0 \/ operatingState # operatingStatePrev))

\* The bootup is over at once: NMTcontrol has CO_NMT_STARTUP_TO_OPERATIONAL.
Started == IF Booting THEN "OPERATIONAL" ELSE operatingState

\* The commands that change the state.  NMTcontrol has none of the flags that
\* let errors change it.
StateOf(state) ==
  CASE internalCommand = "operational"    -> "OPERATIONAL"
    [] internalCommand = "stopped"        -> "STOPPED"
    [] internalCommand = "preOperational" -> "PRE_OPERATIONAL"
    [] OTHER                              -> state

\* What the next call compares the state with.
PrevOf(new) == Started

Heartbeat == [cs |-> "heartbeat", node |-> nodeId, state |-> operatingState]

NmtProcess(dt, elapsed) ==
  /\ hbTimer' = IF HeartbeatDue(dt) /\ ~Booting THEN hbTime ELSE TimerAfter(dt)
  /\ since' = IF HeartbeatDue(dt) \/ hbTime = 0 THEN 0 ELSE since + elapsed
  /\ announced' = IF HeartbeatDue(dt) THEN operatingState ELSE announced
  /\ operatingState' = StateOf(Started)
  /\ operatingStatePrev' = PrevOf(StateOf(Started))
  /\ internalCommand' = "none"

----------------------------------------------------------------------------
(* A round of the main loop                                                *)

\* The time main() passes on: a round that ends in a reset leaves it behind
\* for the first round after it.
TimeDifference(elapsed) == IF elapsed # 0 THEN elapsed ELSE interval

\* Fault: CO_process returns what the LSS slave asked for.
CommandOrLss(command) ==
  internalCommand = command \/ (command = "resetCommunication" /\ LssWantsReset)

\* What CO_process returns if the node has an id: the result of CO_NMT_process
\* replaces the request of the LSS slave.
Commanded(command) == internalCommand = command

SendAll(dt) == sent' = LssAnswer \o (IF HeartbeatDue(dt) THEN <<Heartbeat>> ELSE <<>>)

\* CO_process without a reset, of a node with an id and of one without.
Round(elapsed) ==
  /\ Configured
  /\ ~Commanded("resetCommunication") /\ ~Commanded("resetNode")
  /\ LssProcess
  /\ NmtProcess(TimeDifference(elapsed), elapsed)
  /\ SendAll(TimeDifference(elapsed))
  /\ request' = None /\ interval' = 0
  /\ UNCHANGED <<lssState, select, fastscanPos, nodeId, hbTime>>

RoundUnassigned ==
  /\ ~Configured /\ ~LssWantsReset
  /\ LssProcess
  /\ sent' = LssAnswer
  /\ request' = None /\ interval' = 0
  /\ UNCHANGED <<lssState, select, fastscanPos, nodeId, nmtVars, hbTime, hbTimer, since, announced>>

\* The master's reset: the pending id is used from now on, and if it is
\* CO_LSS_NODE_ID_ASSIGNMENT the NMT slave is left as it is.
ResetCommunication(elapsed) ==
  /\ Configured /\ Commanded("resetCommunication")
  /\ LssProcess
  /\ LssInit
  /\ IF pendingNodeID' # Unassigned THEN NmtInit ELSE NmtProcess(TimeDifference(elapsed), elapsed)
  /\ SendAll(TimeDifference(elapsed))
  /\ interval' = TimeDifference(elapsed)
  /\ UNCHANGED hbTime

\* The LSS slave's reset, of a node that was given an id.
StartAssigned(elapsed) ==
  /\ ~Configured /\ LssWantsReset
  /\ LssProcess
  /\ LssInit /\ NmtInit
  /\ sent' = LssAnswer
  /\ interval' = TimeDifference(elapsed)
  /\ UNCHANGED hbTime

\* NVIC_SystemReset, or the power fails: everything is RAM.
Restart ==
  /\ pendingNodeID' = DefaultId /\ pendingBitRate' = DefaultRate /\ baudrate' = DefaultRate
  /\ hbTime' = DefaultHbTime /\ hbTimer' = Least(FirstHb, DefaultHbTime)
  /\ LssInit
  /\ operatingState' = "INITIALIZING" /\ operatingStatePrev' = "INITIALIZING"
  /\ internalCommand' = "none"
  /\ interval' = 0 /\ sent' = <<>> /\ since' = 0 /\ announced' = "none"

ResetNode == Configured /\ Commanded("resetNode") /\ Restart

\* OD_write_1017: a client writes the heartbeat time, at the end of CO_process.
WriteHeartbeatTime(ms) ==
  /\ Configured /\ operatingState \in {"PRE_OPERATIONAL", "OPERATIONAL"}
  /\ hbTime' = ms /\ hbTimer' = 0
  /\ sent' = <<>>
  /\ UNCHANGED <<lssVars, cfgVars, nodeId, nmtVars, interval, since, announced>>

MainLoop ==
  \/ RoundUnassigned
  \/ ResetNode
  \/ \E elapsed \in 0 .. MaxElapsed :
       Round(elapsed) \/ ResetCommunication(elapsed) \/ StartAssigned(elapsed)

Next ==
  \/ \E m \in Frames : ReceiveNmt(m) \/ ReceiveLss(m)
  \/ MainLoop
  \/ \E ms \in HbTimes : WriteHeartbeatTime(ms)
  \/ Restart

Spec == Init /\ [][Next]_vars

\* The main loop goes round and round.
FairSpec == Spec /\ WF_vars(MainLoop)

----------------------------------------------------------------------------
(* Properties                                                              *)

\* Every variable keeps its type: the heartbeat timer never wraps below zero
\* and the states are those of CiA 301.
TypeOK ==
  /\ lssState \in {"WAITING", "CONFIGURATION"}
  /\ select \in [Parts -> Value] /\ fastscanPos \in Parts
  /\ request \in Requests \cup {None}
  /\ pendingNodeID \in 0 .. 255 /\ nodeId \in 0 .. 255
  /\ pendingBitRate \in Nat /\ baudrate \in Nat
  /\ operatingState \in States /\ operatingStatePrev \in States
  /\ internalCommand \in {"none", "operational", "stopped", "preOperational",
                          "resetNode", "resetCommunication", "other"}
  /\ hbTime \in Nat /\ hbTimer \in Nat /\ interval \in Nat /\ since \in Nat
  /\ announced \in States \cup {"none"}

\* Whatever the masters sent, the next call of app_canopen_init accepts the
\* values it finds: an id or "no id", and a bit rate of the table.  Otherwise
\* main() would go to ErrorHandler, or the node to a rate nobody asked for.
StartAccepted ==
  /\ pendingNodeID \in 1 .. 127 \cup {255}
  /\ baudrate \in Supported

\* At the end of every round with a heartbeat time, the last heartbeat is no
\* older than that time, although writes of 1017, resets that leave a time
\* difference behind, and changes of state move the timer.
HeartbeatInTime ==
  [][(\E elapsed \in 0 .. MaxElapsed : Round(elapsed)) => hbTime' = 0 \/ since' <= hbTime']_vars

\* The state a command brought is the one last told to the bus, or the next
\* call of CO_NMT_process tells it; only the start into OPERATIONAL waits for
\* the timer.
StateAnnounced ==
  Configured /\ hbTime # 0 /\ ~Booting =>
    \/ announced = operatingState
    \/ operatingState # operatingStatePrev \/ hbTimer = 0
    \/ announced = "INITIALIZING" /\ operatingState = "OPERATIONAL"

\* A node with an id takes another one only when the NMT master resets it: LSS
\* commands change what is pending and no more (CANopen.c:1368).
IdChanges ==
  [][nodeId' # nodeId /\ Configured => internalCommand = "resetCommunication" \/ Restart]_vars

\* The first heartbeat after every start is the boot-up message, and no later
\* one is.
BootUpFirst ==
  [][\A i \in DOMAIN sent' :
       sent'[i].cs = "heartbeat" => (announced = "none" <=> sent'[i].state = "INITIALIZING")]_vars

\* A node that was assigned an id and sent back to the waiting state starts
\* with it, whatever else the masters send meanwhile.
AssignedStarts == (request.cs = "switchGlobal" /\ ~Configured) ~> Configured

\* What CO_LSSslave.h says of the storing of the configuration: the application
\* has the stored values after a reset.  baudrate is what STORE stored last.
StoredSurvives == [][Restart => baudrate' = baudrate]_vars
=============================================================================
