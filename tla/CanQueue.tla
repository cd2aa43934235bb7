------------------------------ MODULE CanQueue ------------------------------
(***************************************************************************)
(* The way of a frame through the node: controller FIFO, receive interrupt *)
(* (app/boards/boards.c), ring buffer, receive function; and back: the     *)
(* senders in CO_process, ring buffer, mailboxes (CO_driver_AT32.c).       *)
(*                                                                         *)
(* The interrupt runs between any two steps of the main loop unless        *)
(* interrupts are masked.  A step of the main loop is what it reads or     *)
(* writes of the receive queue at once.  The transmit queue belongs to the *)
(* main loop alone: the transmit interrupt is not compiled.                *)
(***************************************************************************)
EXTENDS Integers, Sequences

CONSTANTS
  RxSize, TxSize,         \* CAN_RX_QUEUE_SIZE, CAN_TX_QUEUE_SIZE
  FifoDepth, Mailboxes,   \* of the controller
  Message,                \* what can_message_receive makes of received frames
  Answers,                \* frames this node sends
  NoFrame                 \* what a slot holds before its first frame

ASSUME SizeAssumption ==
  /\ RxSize \in Nat \ {0} /\ TxSize \in Nat \ {0}
  /\ FifoDepth \in Nat \ {0} /\ Mailboxes \in Nat \ {0}

ASSUME FrameAssumption == NoFrame \notin Message \cup Answers

VARIABLES
  fifo,       \* receive FIFO of the controller
  msg,        \* static msg of the interrupt handler
  rx, tx,     \* canRxQueue, canTxQueue
  item,       \* index of the slot rxQueueItem points to
  count,      \* canRxQueue.size in a register
  masked,     \* PRIMASK
  pc,         \* where the main loop is
  offer,      \* packet of the last CANTxQueuePut
  txPacket,   \* the frame last given to a mailbox
  mailbox,    \* frames in the controller, in the order of their requests
  rxLost, txLost          \* history: a queue refused a frame

rxVars  == <<fifo, msg, rx, rxLost>>
txVars  == <<tx, offer, txPacket, mailbox, txLost>>
vars == <<rxVars, txVars, item, count, masked, pc>>

----------------------------------------------------------------------------
(* The ring buffers                                                        *)

Ring(n, frames) ==
  [size : 0 .. n, head : 0 .. n - 1, queue : [0 .. n - 1 -> frames \cup {NoFrame}]]

EmptyRing(n) == [size |-> 0, head |-> 0, queue |-> [i \in 0 .. n - 1 |-> NoFrame]]

\* i & (n - 1), for a sum of two positions.
Wrap(i, n) == IF i >= n THEN i - n ELSE i

\* Fault: one frame more is taken.
RoomForOneMore(r, n) == r.size <= n

HasRoom(r, n) == r.size < n

\* CANRxQueuePut, CANTxQueuePut
Put(r, n, f) ==
  IF HasRoom(r, n)
  THEN [r EXCEPT !.queue = [@ EXCEPT ![Wrap(r.head + r.size, n)] = f], !.size = @ + 1]
  ELSE r

\* The frames of a ring from position `first' on.
Content(r, first, n) == [i \in 1 .. r.size |-> r.queue[Wrap(first + i - 1, n)]]

----------------------------------------------------------------------------
(* Controller and interrupt                                                *)

\* A frame comes; a full FIFO discards one of those it holds.
Arrive(f) ==
  /\ \/ Len(fifo) < FifoDepth /\ fifo' = Append(fifo, f)
     \/ Len(fifo) = FifoDepth /\ fifo' = Append(Tail(fifo), f)
  /\ UNCHANGED <<msg, rx, rxLost, txVars, item, count, masked, pc>>

\* Fault: the interrupt comes although the main loop holds the lock.
LockIgnored == TRUE

InterruptEnabled == ~masked

\* CAN_RX1_IRQHandler
Interrupt ==
  /\ fifo # <<>> /\ InterruptEnabled
  /\ msg' = Head(fifo) /\ fifo' = Tail(fifo)
  /\ rx' = Put(rx, RxSize, msg')
  /\ rxLost' = (rxLost \/ ~HasRoom(rx, RxSize))
  /\ UNCHANGED <<txVars, item, count, masked, pc>>

\* The controller sends, or gives up: it repeats no frame (prsf_enable).
Transmit ==
  /\ mailbox # <<>> /\ mailbox' = Tail(mailbox)
  /\ UNCHANGED <<rxVars, tx, offer, txPacket, txLost, item, count, masked, pc>>

----------------------------------------------------------------------------
(* CANSendReceive                                                          *)

MailboxFree == Len(mailbox) < Mailboxes

\* CAN_Send of the first frame
SendFrame ==
  /\ pc = "send" /\ tx.size # 0 /\ MailboxFree
  /\ txPacket' = tx.queue[tx.head]
  /\ mailbox' = Append(mailbox, txPacket')
  /\ pc' = "shiftTx"
  /\ UNCHANGED <<rxVars, tx, offer, txLost, item, count, masked>>

\* Fault: the frame that found no mailbox is removed too.
ShiftRefused ==
  /\ pc \in {"send", "shiftTx"} /\ tx.size # 0 /\ (pc = "send" => ~MailboxFree)
  /\ tx' = [tx EXCEPT !.head = Wrap(@ + 1, TxSize), !.size = @ - 1]
  /\ pc' = "send"
  /\ UNCHANGED <<rxVars, offer, txPacket, mailbox, txLost, item, count, masked>>

\* CANTxQueueShift
ShiftTx ==
  /\ pc = "shiftTx" /\ tx.size # 0
  /\ tx' = [tx EXCEPT !.head = Wrap(@ + 1, TxSize), !.size = @ - 1]
  /\ pc' = "send"
  /\ UNCHANGED <<rxVars, offer, txPacket, mailbox, txLost, item, count, masked>>

\* Fault: the loop waits for a mailbox.
SendUntilEmpty ==
  /\ pc = "send" /\ tx.size = 0
  /\ pc' = "receive"
  /\ UNCHANGED <<rxVars, txVars, item, count, masked>>

\* The queue is empty or the mailboxes are full: a frame stays for later.
SendDone ==
  /\ pc = "send" /\ (tx.size = 0 \/ ~MailboxFree)
  /\ pc' = "receive"
  /\ UNCHANGED <<rxVars, txVars, item, count, masked>>

\* CANRxQueueGet: a pointer into the queue, not a copy.
Get ==
  /\ pc = "receive" /\ rx.size # 0
  /\ item' = rx.head /\ pc' = "handle"
  /\ UNCHANGED <<rxVars, txVars, count, masked>>

ReceiveDone ==
  /\ pc = "receive" /\ rx.size = 0
  /\ pc' = "lss"
  /\ UNCHANGED <<rxVars, txVars, item, count, masked>>

\* CO_CANinterrupt_RX: the receive function reads the slot.  Its effect is the
\* subject of NodeControl and SdoServer.
Handle ==
  /\ pc = "handle" /\ pc' = "lock"
  /\ UNCHANGED <<rxVars, txVars, item, count, masked>>

\* CANRxQueueShift: its test of the size always holds, for Get saw a frame and
\* the interrupt only adds frames (QuietSteps of CanQueueProofs).
Lock ==
  /\ pc = "lock" /\ rx.size # 0
  /\ masked' = TRUE /\ pc' = "head"
  /\ UNCHANGED <<rxVars, txVars, item, count>>

ShiftHead ==
  /\ pc = "head"
  /\ rx' = [rx EXCEPT !.head = Wrap(@ + 1, RxSize)]
  /\ pc' = "load"
  /\ UNCHANGED <<fifo, msg, rxLost, txVars, item, count, masked>>

LoadSize ==
  /\ pc = "load"
  /\ count' = rx.size /\ pc' = "store"
  /\ UNCHANGED <<rxVars, txVars, item, masked>>

StoreSize ==
  /\ pc = "store"
  /\ rx' = [rx EXCEPT !.size = count - 1]
  /\ masked' = FALSE /\ pc' = "receive"
  /\ UNCHANGED <<fifo, msg, rxLost, txVars, item, count>>

----------------------------------------------------------------------------
(* CO_process, as far as it uses the queues                                *)

After == [lss |-> "nmt", nmt |-> "sdo", answer |-> "round"]

\* CO_CANsend: bufferFull is never set, so the queue alone decides.
Send(a) ==
  /\ pc \in {"lss", "nmt", "answer"} /\ pc' = After[pc]
  /\ offer' = a
  /\ tx' = Put(tx, TxSize, a)
  /\ txLost' = (txLost \/ ~HasRoom(tx, TxSize))
  /\ UNCHANGED <<rxVars, txPacket, mailbox, item, count, masked>>

\* CO_LSSslave_process, CO_NMT_process or CO_SDOserver_process has nothing to say.
Silent ==
  /\ pc \in {"lss", "nmt", "answer"} /\ pc' = After[pc]
  /\ UNCHANGED <<rxVars, txVars, item, count, masked>>

\* CO_LOCK_OD and CO_UNLOCK_OD around a read or a write of the dictionary
AccessObject ==
  /\ pc = "sdo" /\ pc' = "object" /\ masked' = TRUE
  /\ UNCHANGED <<rxVars, txVars, item, count>>

ObjectAccessed ==
  /\ pc = "object" /\ pc' = "answer" /\ masked' = FALSE
  /\ UNCHANGED <<rxVars, txVars, item, count>>

NoAccess ==
  /\ pc = "sdo" /\ pc' = "answer"
  /\ UNCHANGED <<rxVars, txVars, item, count, masked>>

NextRound ==
  /\ pc = "round" /\ pc' = "send"
  /\ UNCHANGED <<rxVars, txVars, item, count, masked>>

\* CO_CANmodule_init after a communication reset: the controller is reset, the
\* ring buffers keep what they hold.
ResetCommunication ==
  /\ pc = "round" /\ pc' = "send"
  /\ fifo' = <<>> /\ mailbox' = <<>>
  /\ UNCHANGED <<msg, rx, rxLost, tx, offer, txPacket, txLost, item, count, masked>>

----------------------------------------------------------------------------

Init ==
  /\ fifo = <<>> /\ mailbox = <<>>
  /\ msg = NoFrame /\ offer = NoFrame /\ txPacket = NoFrame
  /\ rx = EmptyRing(RxSize) /\ tx = EmptyRing(TxSize)
  /\ item = 0 /\ count = 0 /\ masked = FALSE /\ pc = "send"
  /\ rxLost = FALSE /\ txLost = FALSE

MainLoop ==
  \/ SendFrame \/ ShiftTx \/ SendDone
  \/ Get \/ ReceiveDone \/ Handle \/ Lock
  \/ ShiftHead \/ LoadSize \/ StoreSize
  \/ (\E a \in Answers : Send(a)) \/ Silent
  \/ AccessObject \/ ObjectAccessed \/ NoAccess
  \/ NextRound \/ ResetCommunication

Next == MainLoop \/ Interrupt \/ Transmit \/ \E f \in Message : Arrive(f)

Spec == Init /\ [][Next]_vars

\* The main loop goes on; nothing is assumed of the bus.
FairSpec == Spec /\ WF_vars(MainLoop)

----------------------------------------------------------------------------
(* Properties                                                              *)

\* Every variable keeps its type: no size beyond the ring, no position outside
\* it, and a FIFO and mailboxes no longer than the controller's.
TypeOK ==
  /\ fifo \in Seq(Message) /\ Len(fifo) <= FifoDepth
  /\ mailbox \in Seq(Answers) /\ Len(mailbox) <= Mailboxes
  /\ msg \in Message \cup {NoFrame}
  /\ rx \in Ring(RxSize, Message) /\ tx \in Ring(TxSize, Answers)
  /\ item \in 0 .. RxSize - 1 /\ count \in 0 .. RxSize
  /\ masked \in BOOLEAN
  /\ pc \in {"send", "shiftTx", "receive", "handle", "lock", "head", "load", "store",
             "lss", "nmt", "sdo", "object", "answer", "round"}
  /\ offer \in Answers \cup {NoFrame} /\ txPacket \in Answers \cup {NoFrame}
  /\ rxLost \in BOOLEAN /\ txLost \in BOOLEAN

\* From CANRxQueueGet to the end of CANRxQueueShift a frame is in hand.
InHand == pc \in {"handle", "lock", "head", "load", "store"}

Rx == INSTANCE LossyFifo WITH
  Frame <- Message, Capacity <- RxSize, input <- msg,
  queue <- Content(rx, IF InHand THEN item ELSE rx.head, RxSize),
  handed <- IF InHand THEN rx.queue[item] ELSE NoFrame,
  refused <- rxLost

Tx == INSTANCE LossyFifo WITH
  Frame <- Answers, Capacity <- TxSize, input <- offer,
  queue <- Content(tx, tx.head, TxSize),
  handed <- IF pc = "shiftTx" THEN txPacket ELSE NoFrame,
  refused <- txLost

\* The receive functions get the frames the interrupt read, in that order, each
\* once, and no frame changes while a receive function reads it in its slot,
\* whenever the interrupt comes; a frame is dropped only if RxSize wait.
RxFifo == Rx!Spec

\* The mailboxes get the frames CO_CANsend was given, in that order, each once,
\* however often the mailboxes are full; a frame is refused only if TxSize wait.
TxFifo == Tx!Spec

\* A frame that waits is handed to its receive function, though nothing this
\* node sends may ever leave the mailboxes (bus off, no other node).
ReceptionGoesOn == rx.size > 0 ~> InHand
=============================================================================
