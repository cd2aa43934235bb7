------------------------- MODULE NodeControlProofs -------------------------
(***************************************************************************)
(* Proofs about NodeControl, for every address, set of frames, heartbeat   *)
(* time and length of a round.                                             *)
(*                                                                         *)
(* HeartbeatInTime and BootUpFirst are about steps; each needs a fact of   *)
(* the states before: the heartbeat timer never holds more than what is    *)
(* left of the period (TimerBound), and nothing was announced since the    *)
(* start exactly while the node boots (Unannounced).                       *)
(***************************************************************************)
EXTENDS NodeControl, TLAPS

\* What is left on the timer and the age of the last heartbeat do not exceed
\* the period.  A timer at zero lets the next call send.
TimerBound == hbTimer # 0 => since + hbTimer <= hbTime

Unannounced == Configured => (announced = "none" <=> Booting)

\* The rate the next STORE would take over.
PendingSupported == pendingBitRate \in Supported

IInv == TypeOK /\ StartAccepted /\ PendingSupported /\ TimerBound /\ StateAnnounced /\ Unannounced

----------------------------------------------------------------------------
(* The parts of a round                                                    *)

\* CO_LSSslave_process leaves an id and a rate the next start accepts.
LEMMA LssProcessSafe ==
  ASSUME TypeOK, StartAccepted, PendingSupported, LssProcess
  PROVE  /\ StartAccepted' /\ PendingSupported'
         /\ pendingNodeID' \in 0 .. 255
         /\ pendingBitRate' \in Nat /\ baudrate' \in Nat
<1> USE RateAssumption DEF TypeOK, StartAccepted, PendingSupported
<1>1. CASE CfgNodeId
  BY <1>1 DEF CfgNodeId, NodeIdValid, NodeIds, Unassigned
<1>2. CASE CfgBitTiming
  BY <1>2 DEF CfgBitTiming
<1>3. CASE Store
  BY <1>3 DEF Store
<1>4. CASE OtherService
  BY <1>4 DEF OtherService, cfgVars
<1> QED BY <1>1, <1>2, <1>3, <1>4 DEF LssProcess

\* CO_NMT_process keeps the types of what it changes.
LEMMA NmtProcessTypes ==
  ASSUME TypeOK, NEW dt \in Nat, NEW elapsed \in Nat, NmtProcess(dt, elapsed)
  PROVE  /\ hbTimer' \in Nat /\ since' \in Nat
         /\ announced' \in States \cup {"none"}
         /\ operatingState' \in States /\ operatingStatePrev' \in States
         /\ internalCommand' = "none"
         /\ operatingState' # "INITIALIZING"
<1>1. Started \in States \ {"INITIALIZING"}
  BY DEF TypeOK, Started, Booting, States
<1>2. StateOf(Started) \in States \ {"INITIALIZING"}
  BY <1>1 DEF StateOf, States
<1>3. TimerAfter(dt) \in Nat
  BY DEF TimerAfter, TypeOK
<1> QED BY <1>1, <1>2, <1>3 DEF NmtProcess, PrevOf, TypeOK

\* The timer and the age of the last heartbeat after CO_NMT_process.
LEMMA NmtProcessTimer ==
  ASSUME TypeOK, TimerBound, NEW dt \in Nat, NEW elapsed \in Nat,
         elapsed <= dt, NmtProcess(dt, elapsed), hbTime' = hbTime
  PROVE  TimerBound' /\ (hbTime' = 0 \/ since' <= hbTime')
<1> USE DEF TypeOK, TimerBound, TimerAfter
<1>1. CASE hbTime = 0
  BY <1>1 DEF NmtProcess
<1>2. CASE hbTime # 0 /\ HeartbeatDue(dt)
  BY <1>2 DEF NmtProcess
<1>3. CASE hbTime # 0 /\ ~HeartbeatDue(dt)
  <2>1. hbTimer > dt /\ hbTimer' = hbTimer - dt /\ since' = since + elapsed
    BY <1>3 DEF NmtProcess, HeartbeatDue
  <2> QED BY <2>1, <1>3
<1> QED BY <1>1, <1>2, <1>3

\* What CO_NMT_process announced, or is going to.
LEMMA NmtProcessAnnounces ==
  ASSUME TypeOK, StateAnnounced, Configured, NEW dt \in Nat, NEW elapsed \in Nat,
         NmtProcess(dt, elapsed), hbTime' = hbTime
  PROVE  StateAnnounced'
<1> SUFFICES ASSUME hbTime # 0
             PROVE  \/ announced' = operatingState'
                    \/ operatingState' # operatingStatePrev'
                    \/ announced' = "INITIALIZING" /\ operatingState' = "OPERATIONAL"
  BY DEF StateAnnounced
<1>1. operatingStatePrev' = Started
  BY DEF NmtProcess, PrevOf
<1>2. CASE HeartbeatDue(dt)
  BY <1>1, <1>2 DEF NmtProcess, Started, Booting
<1>3. CASE ~HeartbeatDue(dt)
  <2>1. ~Booting /\ operatingState = operatingStatePrev /\ hbTimer # 0 /\ announced' = announced
    BY <1>3 DEF HeartbeatDue, TimerAfter, TypeOK, NmtProcess
  <2>2. announced = operatingState \/ (announced = "INITIALIZING" /\ operatingState = "OPERATIONAL")
    BY <2>1 DEF StateAnnounced
  <2> QED BY <1>1, <2>1, <2>2 DEF Started
<1> QED BY <1>2, <1>3

\* The boot is over after CO_NMT_process and something was announced.
LEMMA NmtProcessBoots ==
  ASSUME TypeOK, Unannounced, Configured, NEW dt \in Nat, NEW elapsed \in Nat,
         NmtProcess(dt, elapsed)
  PROVE  announced' # "none" /\ ~Booting'
<1>1. operatingState' # "INITIALIZING"
  BY NmtProcessTypes
<1>2. announced' # "none"
  BY DEF NmtProcess, Unannounced, HeartbeatDue, TypeOK, States
<1> QED BY <1>1, <1>2 DEF Booting

\* A node that starts: nothing announced, the timer within the period.
LEMMA NmtInitSafe ==
  ASSUME TypeOK, NmtInit, hbTime' = hbTime
  PROVE  /\ hbTimer' \in Nat /\ since' \in Nat
         /\ announced' \in States \cup {"none"}
         /\ operatingState' \in States /\ operatingStatePrev' \in States
         /\ internalCommand' = "none"
         /\ TimerBound' /\ StateAnnounced' /\ Unannounced'
<1>1. Least(FirstHb, hbTime) \in Nat /\ Least(FirstHb, hbTime) <= hbTime
  BY TimeAssumption DEF Least, TypeOK
<1> QED BY <1>1 DEF NmtInit, TypeOK, TimerBound, StateAnnounced, Unannounced, Booting, States

\* The time difference is at least the time that passed.
LEMMA TimeDifferenceCovers ==
  ASSUME TypeOK, NEW elapsed \in 0 .. MaxElapsed
  PROVE  /\ elapsed \in Nat /\ TimeDifference(elapsed) \in Nat
         /\ elapsed <= TimeDifference(elapsed)
  BY TimeAssumption DEF TypeOK, TimeDifference

\* CO_LSSslave_init
LEMMA LssInitTypes ==
  ASSUME LssInit, pendingNodeID' \in 0 .. 255
  PROVE  /\ lssState' \in {"WAITING", "CONFIGURATION"}
         /\ select' \in [Parts -> Value] /\ fastscanPos' \in Parts
         /\ request' \in Requests \cup {None}
         /\ nodeId' \in 0 .. 255
  BY AddressAssumption DEF LssInit, NoneSelected, Parts

----------------------------------------------------------------------------
(* The inductive invariant                                                 *)

LEMMA InitIInv == Init => IInv
<1> SUFFICES ASSUME Init PROVE IInv OBVIOUS
<1>1. Least(FirstHb, DefaultHbTime) \in Nat /\ Least(FirstHb, DefaultHbTime) <= DefaultHbTime
  BY TimeAssumption DEF Least
<1>2. TypeOK
  BY <1>1, AddressAssumption, RateAssumption, IdAssumption, TimeAssumption
     DEF Init, TypeOK, NoneSelected, Parts, States, NodeIds
<1>3. StartAccepted /\ PendingSupported
  BY IdAssumption, RateAssumption DEF Init, StartAccepted, PendingSupported, NodeIds
<1>4. TimerBound
  BY <1>1, TimeAssumption DEF Init, TimerBound
<1>5. StateAnnounced /\ Unannounced
  BY DEF Init, StateAnnounced, Unannounced, Booting
<1> QED BY <1>2, <1>3, <1>4, <1>5 DEF IInv

LEMMA ReceiveNmtIInv ==
  ASSUME IInv, NEW m \in Frames, ReceiveNmt(m) PROVE IInv'
<1>1. m.command \in {"operational", "stopped", "preOperational",
                     "resetNode", "resetCommunication", "other"}
  BY FrameAssumption DEF Requests, ReceiveNmt
<1>2. TypeOK'
  BY <1>1 DEF IInv, ReceiveNmt, TypeOK, lssVars, cfgVars, timeVars
<1> QED BY <1>2 DEF IInv, ReceiveNmt, StartAccepted, PendingSupported, TimerBound,
       StateAnnounced, Unannounced, Booting, Configured, lssVars, cfgVars, timeVars

LEMMA ReceiveLssIInv ==
  ASSUME IInv, NEW m \in Frames, ReceiveLss(m) PROVE IInv'
<1>1. m \in Requests
  BY FrameAssumption
<1>2. /\ lssState' \in {"WAITING", "CONFIGURATION"}
      /\ select' \in [Parts -> Value] /\ fastscanPos' \in Parts
      /\ request' \in Requests \cup {None}
  <2> USE <1>1 DEF IInv, TypeOK
  <2>1. CASE SwitchGlobal(m)
    BY <2>1, AddressAssumption DEF SwitchGlobal, NoneSelected, Requests
  <2>2. CASE Select(m)
    <3>1. m.part \in Parts /\ m.value \in Value
      BY <2>2 DEF Select, Requests
    <3> QED BY <2>2, <3>1 DEF Select
  <2>3. CASE Fastscan(m)
    <3>1. m.next \in Parts
      BY <2>3 DEF Fastscan, Requests
    <3> QED BY <2>3, <3>1 DEF Fastscan, Parts
  <2>4. CASE Configure(m)
    BY <2>4 DEF Configure
  <2> QED BY <2>1, <2>2, <2>3, <2>4 DEF ReceiveLss
<1>3. TypeOK'
  BY <1>2 DEF IInv, ReceiveLss, TypeOK, cfgVars, nmtVars, timeVars
<1> QED BY <1>3 DEF IInv, ReceiveLss, StartAccepted, PendingSupported, TimerBound,
       StateAnnounced, Unannounced, Booting, Configured, cfgVars, nmtVars, timeVars

LEMMA RoundIInv ==
  ASSUME IInv, NEW elapsed \in 0 .. MaxElapsed, Round(elapsed)
  PROVE  IInv' /\ (hbTime' = 0 \/ since' <= hbTime')
<1> DEFINE dt == TimeDifference(elapsed)
<1>1. elapsed \in Nat /\ dt \in Nat /\ elapsed <= dt
  BY TimeDifferenceCovers DEF IInv
<1> HIDE DEF dt
<1>2. Configured /\ LssProcess /\ NmtProcess(dt, elapsed) /\ hbTime' = hbTime
  BY DEF Round, dt
<1>3. StartAccepted' /\ PendingSupported'
      /\ pendingNodeID' \in 0 .. 255 /\ pendingBitRate' \in Nat /\ baudrate' \in Nat
  BY <1>2, LssProcessSafe DEF IInv
<1>4. TypeOK'
  BY <1>1, <1>2, <1>3, NmtProcessTypes DEF IInv, TypeOK, Round
<1>5. TimerBound' /\ (hbTime' = 0 \/ since' <= hbTime')
  BY <1>1, <1>2, NmtProcessTimer DEF IInv
<1>6. StateAnnounced'
  BY <1>1, <1>2, NmtProcessAnnounces DEF IInv
<1>7. Unannounced'
  BY <1>1, <1>2, NmtProcessBoots DEF IInv, Unannounced
<1> QED BY <1>3, <1>4, <1>5, <1>6, <1>7 DEF IInv

LEMMA RoundUnassignedIInv ==
  ASSUME IInv, RoundUnassigned PROVE IInv'
<1>1. StartAccepted' /\ PendingSupported'
      /\ pendingNodeID' \in 0 .. 255 /\ pendingBitRate' \in Nat /\ baudrate' \in Nat
  BY LssProcessSafe DEF IInv, RoundUnassigned
<1>2. TypeOK'
  BY <1>1 DEF IInv, TypeOK, RoundUnassigned, nmtVars
<1> QED BY <1>1, <1>2 DEF IInv, RoundUnassigned, TimerBound, StateAnnounced, Unannounced,
       Booting, Configured, nmtVars

LEMMA ResetCommunicationIInv ==
  ASSUME IInv, NEW elapsed \in 0 .. MaxElapsed, ResetCommunication(elapsed) PROVE IInv'
<1> DEFINE dt == TimeDifference(elapsed)
<1>1. elapsed \in Nat /\ dt \in Nat /\ elapsed <= dt
  BY TimeDifferenceCovers DEF IInv
<1> HIDE DEF dt
<1>2. Configured /\ LssProcess /\ LssInit /\ hbTime' = hbTime /\ interval' = dt
  BY DEF ResetCommunication, dt
<1>3. StartAccepted' /\ PendingSupported'
      /\ pendingNodeID' \in 0 .. 255 /\ pendingBitRate' \in Nat /\ baudrate' \in Nat
  BY <1>2, LssProcessSafe DEF IInv
<1>4. /\ lssState' \in {"WAITING", "CONFIGURATION"} /\ select' \in [Parts -> Value]
      /\ fastscanPos' \in Parts /\ request' \in Requests \cup {None} /\ nodeId' \in 0 .. 255
  BY <1>2, <1>3, LssInitTypes
<1>5. CASE pendingNodeID' # Unassigned
  <2>1. NmtInit
    BY <1>5 DEF ResetCommunication
  <2>2. TypeOK' /\ TimerBound' /\ StateAnnounced' /\ Unannounced'
    BY <1>1, <1>2, <1>3, <1>4, <2>1, NmtInitSafe DEF IInv, TypeOK
  <2> QED BY <1>3, <2>2 DEF IInv
<1>6. CASE pendingNodeID' = Unassigned
  <2>1. NmtProcess(dt, elapsed)
    BY <1>6 DEF ResetCommunication, dt
  <2>2. TypeOK'
    BY <1>1, <1>2, <1>3, <1>4, <2>1, NmtProcessTypes DEF IInv, TypeOK
  <2>3. TimerBound'
    BY <1>1, <1>2, <2>1, NmtProcessTimer DEF IInv
  <2>4. ~Configured'
    BY <1>2, <1>6 DEF LssInit, Configured
  <2> QED BY <1>3, <2>2, <2>3, <2>4 DEF IInv, StateAnnounced, Unannounced
<1> QED BY <1>5, <1>6

LEMMA StartAssignedIInv ==
  ASSUME IInv, NEW elapsed \in 0 .. MaxElapsed, StartAssigned(elapsed) PROVE IInv'
<1>1. TimeDifference(elapsed) \in Nat
  BY TimeDifferenceCovers DEF IInv
<1>2. LssProcess /\ LssInit /\ NmtInit /\ hbTime' = hbTime /\ interval' = TimeDifference(elapsed)
  BY DEF StartAssigned
<1>3. StartAccepted' /\ PendingSupported'
      /\ pendingNodeID' \in 0 .. 255 /\ pendingBitRate' \in Nat /\ baudrate' \in Nat
  BY <1>2, LssProcessSafe DEF IInv
<1>4. /\ lssState' \in {"WAITING", "CONFIGURATION"} /\ select' \in [Parts -> Value]
      /\ fastscanPos' \in Parts /\ request' \in Requests \cup {None} /\ nodeId' \in 0 .. 255
  BY <1>2, <1>3, LssInitTypes
<1>5. TypeOK' /\ TimerBound' /\ StateAnnounced' /\ Unannounced'
  BY <1>1, <1>2, <1>3, <1>4, NmtInitSafe DEF IInv, TypeOK
<1> QED BY <1>3, <1>5 DEF IInv

LEMMA RestartIInv ==
  ASSUME Restart PROVE IInv'
<1>1. Least(FirstHb, DefaultHbTime) \in Nat /\ Least(FirstHb, DefaultHbTime) <= DefaultHbTime
  BY TimeAssumption DEF Least
<1>2. StartAccepted' /\ PendingSupported' /\ pendingNodeID' \in 0 .. 255
  BY IdAssumption, RateAssumption DEF Restart, StartAccepted, PendingSupported, NodeIds
<1>3. /\ lssState' \in {"WAITING", "CONFIGURATION"} /\ select' \in [Parts -> Value]
      /\ fastscanPos' \in Parts /\ request' \in Requests \cup {None} /\ nodeId' \in 0 .. 255
  BY <1>2, LssInitTypes DEF Restart
<1>4. TypeOK'
  BY <1>1, <1>2, <1>3, RateAssumption, TimeAssumption DEF Restart, TypeOK, States
<1>5. TimerBound' /\ StateAnnounced' /\ Unannounced'
  BY <1>1, TimeAssumption DEF Restart, TimerBound, StateAnnounced, Unannounced, Booting
<1> QED BY <1>2, <1>4, <1>5 DEF IInv

LEMMA WriteHeartbeatTimeIInv ==
  ASSUME IInv, NEW ms \in HbTimes, WriteHeartbeatTime(ms) PROVE IInv'
<1>1. TypeOK'
  BY TimeAssumption DEF IInv, TypeOK, WriteHeartbeatTime, lssVars, cfgVars, nmtVars
<1> QED BY <1>1 DEF IInv, WriteHeartbeatTime, StartAccepted, PendingSupported, TimerBound,
       StateAnnounced, Unannounced, Booting, Configured, cfgVars, nmtVars

LEMMA StutterIInv ==
  ASSUME IInv, UNCHANGED vars PROVE IInv'
  BY DEF IInv, TypeOK, StartAccepted, PendingSupported, TimerBound, StateAnnounced,
     Unannounced, Booting, Configured, vars, lssVars, cfgVars, nmtVars, timeVars

LEMMA NextIInv == IInv /\ [Next]_vars => IInv'
<1> SUFFICES ASSUME IInv, [Next]_vars PROVE IInv' OBVIOUS
<1>1. CASE \E m \in Frames : ReceiveNmt(m) \/ ReceiveLss(m)
  BY <1>1, ReceiveNmtIInv, ReceiveLssIInv
<1>2. CASE MainLoop
  BY <1>2, RoundIInv, RoundUnassignedIInv, ResetCommunicationIInv, StartAssignedIInv,
     RestartIInv DEF MainLoop, ResetNode
<1>3. CASE \E ms \in HbTimes : WriteHeartbeatTime(ms)
  BY <1>3, WriteHeartbeatTimeIInv
<1>4. CASE Restart
  BY <1>4, RestartIInv
<1>5. CASE UNCHANGED vars
  BY <1>5, StutterIInv
<1> QED BY <1>1, <1>2, <1>3, <1>4, <1>5 DEF Next

\* The inductive invariant holds in every reachable state.
THEOREM Invariance == Spec => []IInv
  BY InitIInv, NextIInv, PTL DEF Spec

\* The variables keep their types; in particular the timer never wraps.
THEOREM TypeCorrect == Spec => []TypeOK
<1>1. IInv => TypeOK
  BY DEF IInv
<1> QED BY <1>1, Invariance, PTL

\* app_canopen_init never finds a node id or a bit rate it refuses, whatever
\* the masters sent before.
THEOREM NextStartAccepted == Spec => []StartAccepted
<1>1. IInv => StartAccepted
  BY DEF IInv
<1> QED BY <1>1, Invariance, PTL

\* A state the NMT master commanded has been announced or is announced by the
\* next call of CO_NMT_process.
THEOREM EveryStateAnnounced == Spec => []StateAnnounced
<1>1. IInv => StateAnnounced
  BY DEF IInv
<1> QED BY <1>1, Invariance, PTL

----------------------------------------------------------------------------
(* Steps                                                                   *)

\* No round ends with a last heartbeat older than the heartbeat time.
THEOREM HeartbeatAlwaysInTime == Spec => HeartbeatInTime
<1>1. IInv /\ [Next]_vars =>
        [(\E elapsed \in 0 .. MaxElapsed : Round(elapsed)) => hbTime' = 0 \/ since' <= hbTime']_vars
  BY RoundIInv
<1> QED BY <1>1, Invariance, PTL DEF Spec, HeartbeatInTime

\* Only the NMT master's reset, or a restart, gives a node with an id another:
\* a request of the LSS master alone does not.
THEOREM IdKept == Spec => IdChanges
<1>1. [Next]_vars =>
        [nodeId' # nodeId /\ Configured => internalCommand = "resetCommunication" \/ Restart]_vars
  <2> SUFFICES ASSUME [Next]_vars, nodeId' # nodeId, Configured
               PROVE  internalCommand = "resetCommunication" \/ Restart
    OBVIOUS
  <2>1. nodeId' = nodeId \/ MainLoop \/ Restart
    BY DEF Next, ReceiveNmt, ReceiveLss, WriteHeartbeatTime, vars
  <2>2. CASE MainLoop
    BY <2>2 DEF MainLoop, RoundUnassigned, ResetNode, Round, ResetCommunication,
       StartAssigned, Commanded
  <2> QED BY <2>1, <2>2
<1> QED BY <1>1, PTL DEF Spec, IdChanges

\* The LSS slave sends at most one answer, which is no heartbeat.
LEMMA AnswerForm ==
  \/ LssAnswer = <<>>
  \/ \E a : LssAnswer = <<a>> /\ a.cs # "heartbeat"
<1>1. CASE request.cs = "cfgNodeId"
  BY <1>1 DEF LssAnswer
<1>2. CASE request.cs = "cfgBitTiming"
  BY <1>2 DEF LssAnswer
<1>3. CASE request.cs \in {"store", "inquire"}
  BY <1>3 DEF LssAnswer
<1>4. CASE request.cs = "select"
  BY <1>4 DEF LssAnswer
<1>5. CASE request.cs = "fastscan"
  BY <1>5 DEF LssAnswer
<1>6. CASE request.cs \notin {"cfgNodeId", "cfgBitTiming", "store", "inquire", "select", "fastscan"}
  BY <1>6 DEF LssAnswer
<1> QED BY <1>1, <1>2, <1>3, <1>4, <1>5, <1>6

\* A heartbeat among the frames of a call is that of CO_NMT_process.
LEMMA SentHeartbeat ==
  ASSUME NEW dt, SendAll(dt), NEW i \in DOMAIN sent', sent'[i].cs = "heartbeat"
  PROVE  HeartbeatDue(dt) /\ sent'[i] = Heartbeat
<1>1. CASE LssAnswer = <<>>
  BY <1>1 DEF SendAll
<1>2. CASE \E a : LssAnswer = <<a>> /\ a.cs # "heartbeat"
  BY <1>2 DEF SendAll
<1> QED BY <1>1, <1>2, AnswerForm

\* After a start the boot-up message comes before every other heartbeat, once.
THEOREM BootUpIsFirst == Spec => BootUpFirst
<1> DEFINE Shown == \A i \in DOMAIN sent' :
              sent'[i].cs = "heartbeat" => (announced = "none" <=> sent'[i].state = "INITIALIZING")
<1>1. IInv /\ [Next]_vars => [Shown]_vars
  <2> SUFFICES ASSUME IInv, Next PROVE Shown
    OBVIOUS
  <2>1. CASE sent' = <<>>
    BY <2>1
  <2>2. ASSUME NEW dt, Configured, SendAll(dt) PROVE Shown
    <3> SUFFICES ASSUME NEW i \in DOMAIN sent', sent'[i].cs = "heartbeat"
                 PROVE  announced = "none" <=> sent'[i].state = "INITIALIZING"
      OBVIOUS
    <3>1. sent'[i].state = operatingState
      BY <2>2, SentHeartbeat DEF Heartbeat
    <3> QED BY <3>1, <2>2 DEF IInv, Unannounced, Booting
  <2>3. CASE sent' = LssAnswer
    BY <2>3, AnswerForm
  <2>4. CASE MainLoop
    BY <2>4, <2>1, <2>2, <2>3 DEF MainLoop, Round, RoundUnassigned, ResetCommunication,
       StartAssigned, ResetNode, Restart
  <2> QED BY <2>1, <2>4 DEF Next, ReceiveNmt, ReceiveLss, WriteHeartbeatTime, Restart
<1> QED BY <1>1, Invariance, PTL DEF Spec, BootUpFirst
=============================================================================
