--------------------------- MODULE CanQueueProofs ---------------------------
(***************************************************************************)
(* Proofs about CanQueue, for rings of any size: both queues implement     *)
(* LossyFifo.  That a frame in hand is not disturbed rests on two facts:   *)
(* the interrupt writes behind the frames that wait, never on them, and it *)
(* does not come between the steps of CANRxQueueShift.                     *)
(***************************************************************************)
EXTENDS CanQueue, SequenceTheorems, TLAPS

\* The slots that count hold frames.
Filled(r, first, n, frames) == \A i \in 1 .. r.size : r.queue[Wrap(first + i - 1, n)] \in frames

First == IF InHand THEN item ELSE rx.head

\* While a frame is in hand the queue is not empty and begins with it.
RxInv ==
  /\ Filled(rx, First, RxSize, Message)
  /\ InHand => rx.size > 0
  /\ pc \in {"handle", "lock", "head"} => item = rx.head
  /\ pc \in {"load", "store"} => rx.head = Wrap(item + 1, RxSize)
  /\ pc \in {"head", "load", "store"} => masked
  /\ pc = "store" => count = rx.size

TxInv ==
  /\ Filled(tx, tx.head, TxSize, Answers)
  /\ pc = "shiftTx" => tx.size > 0 /\ txPacket = tx.queue[tx.head]

IInv == TypeOK /\ RxInv /\ TxInv

----------------------------------------------------------------------------
(* Ring buffers and the sequences they hold                                *)

\* The wrap leads from every position of the ring and every distance up to
\* its size back into it.
LEMMA WrapInRing ==
  ASSUME NEW n \in Nat \ {0}, NEW i \in 0 .. n - 1, NEW k \in 0 .. n
  PROVE  Wrap(i + k, n) \in 0 .. n - 1
BY DEF Wrap

\* What Content returns.
LEMMA ContentProperties ==
  ASSUME NEW n \in Nat \ {0}, NEW frames, NEW r \in Ring(n, frames), NEW first \in 0 .. n - 1,
         Filled(r, first, n, frames)
  PROVE  /\ Content(r, first, n) \in Seq(frames)
         /\ Len(Content(r, first, n)) = r.size
         /\ \A i \in 1 .. r.size : Content(r, first, n)[i] = r.queue[Wrap(first + i - 1, n)]
         /\ r.size > 0 => /\ Content(r, first, n) # <<>>
                          /\ Head(Content(r, first, n)) = r.queue[first]
<1> DEFINE c == Content(r, first, n)
<1>1. r.size \in Nat
  BY DEF Ring
<1>2. c \in [1 .. r.size -> frames]
  BY DEF Content, Filled
<1>3. c \in Seq(frames) /\ Len(c) = r.size
  BY <1>1, <1>2, SeqDef
<1>4. \A i \in 1 .. r.size : c[i] = r.queue[Wrap(first + i - 1, n)]
  BY DEF Content
<1>5. ASSUME r.size > 0 PROVE c # <<>> /\ Head(c) = r.queue[first]
  <2>1. c[1] = r.queue[first]
    BY <1>1, <1>4, <1>5 DEF Wrap
  <2>2. c # <<>>
    BY <1>3, <1>5, EmptySeq
  <2> QED BY <1>3, <2>1, <2>2, HeadTailProperties
<1> QED BY <1>3, <1>4, <1>5

\* A put appends, and leaves what is there alone.
LEMMA PutAppends ==
  ASSUME NEW n \in Nat \ {0}, NEW frames, NEW r \in Ring(n, frames), NEW f \in frames,
         Filled(r, r.head, n, frames), HasRoom(r, n)
  PROVE  /\ Put(r, n, f) \in Ring(n, frames)
         /\ Put(r, n, f).head = r.head /\ Put(r, n, f).size = r.size + 1
         /\ Filled(Put(r, n, f), r.head, n, frames)
         /\ Content(Put(r, n, f), r.head, n) = Append(Content(r, r.head, n), f)
         /\ r.size > 0 => Put(r, n, f).queue[r.head] = r.queue[r.head]
<1> DEFINE s == Put(r, n, f)
           at == Wrap(r.head + r.size, n)
<1>1. r.size \in 0 .. n - 1 /\ r.head \in 0 .. n - 1
  BY DEF Ring, HasRoom
<1>2. r.queue \in [0 .. n - 1 -> frames \cup {NoFrame}]
  BY DEF Ring
<1>3. at \in 0 .. n - 1
  BY <1>1, WrapInRing
<1>4. s = [size |-> r.size + 1, head |-> r.head, queue |-> [r.queue EXCEPT ![at] = f]]
  BY DEF Put, Ring
<1>5. s.queue \in [0 .. n - 1 -> frames \cup {NoFrame}]
  BY <1>2, <1>3, <1>4
<1>6. s \in Ring(n, frames) /\ s.head = r.head /\ s.size = r.size + 1
  BY <1>1, <1>4, <1>5 DEF Ring
<1>7. \A i \in 1 .. r.size : /\ Wrap(r.head + i - 1, n) \in 0 .. n - 1
                             /\ Wrap(r.head + i - 1, n) # at
  BY <1>1 DEF Wrap
<1>8. \A i \in 1 .. r.size : s.queue[Wrap(r.head + i - 1, n)] = r.queue[Wrap(r.head + i - 1, n)]
  BY <1>2, <1>3, <1>4, <1>7
<1>9. s.queue[Wrap(r.head + (r.size + 1) - 1, n)] = f
  <2>1. r.head + (r.size + 1) - 1 = r.head + r.size
    BY <1>1
  <2> QED BY <1>2, <1>3, <1>4, <2>1
<1>10. Filled(s, r.head, n, frames)
  BY <1>1, <1>6, <1>8, <1>9 DEF Filled
<1>11. Content(s, r.head, n) = Append(Content(r, r.head, n), f)
  <2> DEFINE c == Content(r, r.head, n)
             d == Content(s, r.head, n)
  <2>1. c \in Seq(frames) /\ Len(c) = r.size
        /\ \A i \in 1 .. r.size : c[i] = r.queue[Wrap(r.head + i - 1, n)]
    <3> HIDE DEF s, at
    <3>1. r \in Ring(n, frames) /\ r.head \in 0 .. n - 1 /\ Filled(r, r.head, n, frames)
      BY <1>1
    <3> QED BY ONLY <3>1, n \in Nat \ {0}, ContentProperties
  <2>2. d \in Seq(frames) /\ Len(d) = r.size + 1
        /\ \A i \in 1 .. r.size + 1 : d[i] = s.queue[Wrap(r.head + i - 1, n)]
    <3> HIDE DEF s
    <3> QED BY <1>1, <1>6, <1>10, ContentProperties
  <2>3. Append(c, f) \in Seq(frames) /\ Len(Append(c, f)) = r.size + 1
        /\ (\A i \in 1 .. r.size : Append(c, f)[i] = c[i]) /\ Append(c, f)[r.size + 1] = f
    BY <2>1, AppendProperties
  <2>4. \A i \in 1 .. r.size + 1 : d[i] = Append(c, f)[i]
    <3> SUFFICES ASSUME NEW i \in 1 .. r.size + 1 PROVE d[i] = Append(c, f)[i]
      OBVIOUS
    <3>1. CASE i \in 1 .. r.size
      BY <1>8, <2>1, <2>2, <2>3, <3>1
    <3>2. CASE i = r.size + 1
      BY <1>9, <2>2, <2>3, <3>2
    <3>3. i \in 1 .. r.size \/ i = r.size + 1
      BY <1>1
    <3> QED BY <3>1, <3>2, <3>3
  <2>5. d = Append(c, f)
    <3>1. Len(d) = Len(Append(c, f)) /\ \A i \in 1 .. Len(d) : d[i] = Append(c, f)[i]
      BY <2>2, <2>3, <2>4
    <3> HIDE DEF c, d
    <3> QED BY <2>2, <2>3, <3>1, SeqEqual
  <2> QED BY <2>5
<1>12. ASSUME r.size > 0 PROVE s.queue[r.head] = r.queue[r.head]
  <2>1. Wrap(r.head + 1 - 1, n) = r.head
    BY <1>1 DEF Wrap
  <2> QED BY <1>1, <1>8, <1>12, <2>1
<1> QED BY <1>6, <1>10, <1>11, <1>12

\* A ring whose first frame is shifted out holds the rest.
LEMMA ShiftIsTail ==
  ASSUME NEW n \in Nat \ {0}, NEW frames, NEW r \in Ring(n, frames), NEW s \in Ring(n, frames),
         NEW first \in 0 .. n - 1, Filled(r, first, n, frames),
         r.size > 0, s.size = r.size - 1, s.queue = r.queue
  PROVE  /\ Filled(s, Wrap(first + 1, n), n, frames)
         /\ Content(s, Wrap(first + 1, n), n) = Tail(Content(r, first, n))
<1> DEFINE next == Wrap(first + 1, n)
<1>1. r.size \in 1 .. n /\ s.size \in 0 .. n
  BY DEF Ring
<1>2. next \in 0 .. n - 1
  BY WrapInRing
<1>3. \A i \in 1 .. s.size : Wrap(next + i - 1, n) = Wrap(first + (i + 1) - 1, n)
  BY <1>1 DEF Wrap
<1>4. Filled(s, next, n, frames)
  <2> SUFFICES ASSUME NEW i \in 1 .. s.size PROVE s.queue[Wrap(next + i - 1, n)] \in frames
    BY DEF Filled
  <2>1. i + 1 \in 1 .. r.size
    BY <1>1
  <2> QED BY <1>3, <2>1 DEF Filled
<1>5. Content(s, next, n) = Tail(Content(r, first, n))
  <2> DEFINE c == Content(r, first, n)
             d == Content(s, next, n)
  <2>1. c \in Seq(frames) /\ Len(c) = r.size /\ c # <<>>
        /\ \A i \in 1 .. r.size : c[i] = r.queue[Wrap(first + i - 1, n)]
    BY <1>1, ContentProperties
  <2>2. d \in Seq(frames) /\ Len(d) = s.size
        /\ \A i \in 1 .. s.size : d[i] = s.queue[Wrap(next + i - 1, n)]
    <3> HIDE DEF next
    <3> QED BY <1>2, <1>4, ContentProperties
  <2>3. Tail(c) \in Seq(frames) /\ Len(Tail(c)) = s.size
        /\ \A i \in 1 .. s.size : Tail(c)[i] = c[i + 1]
    <3> HIDE DEF c
    <3> QED BY <1>1, <2>1, HeadTailProperties
  <2>4. \A i \in 1 .. s.size : d[i] = Tail(c)[i]
    <3> SUFFICES ASSUME NEW i \in 1 .. s.size PROVE d[i] = Tail(c)[i]
      OBVIOUS
    <3>1. i + 1 \in 1 .. r.size
      BY <1>1
    <3> HIDE DEF c, d
    <3> QED BY <1>3, <2>1, <2>2, <2>3, <3>1
  <2>5. d = Tail(c)
    <3>1. Len(d) = Len(Tail(c)) /\ \A i \in 1 .. Len(d) : d[i] = Tail(c)[i]
      BY <2>2, <2>3, <2>4
    <3> HIDE DEF c, d
    <3> QED BY <2>2, <2>3, <3>1, SeqEqual
  <2> QED BY <2>5
<1> QED BY <1>4, <1>5
----------------------------------------------------------------------------
(* The invariant                                                           *)

LEMMA InitIInv == Init => IInv
<1> SUFFICES ASSUME Init PROVE IInv
  OBVIOUS
<1>1. EmptyRing(RxSize) \in Ring(RxSize, Message) /\ EmptyRing(TxSize) \in Ring(TxSize, Answers)
  BY SizeAssumption DEF EmptyRing, Ring
<1>2. TypeOK
  <2>1. fifo \in Seq(Message) /\ mailbox \in Seq(Answers) /\ Len(fifo) = 0 /\ Len(mailbox) = 0
    BY EmptySeq DEF Init
  <2>2. 0 <= FifoDepth /\ 0 <= Mailboxes /\ 0 \in 0 .. RxSize - 1 /\ 0 \in 0 .. RxSize
    BY SizeAssumption
  <2> QED BY <1>1, <2>1, <2>2 DEF Init, TypeOK
<1>3. RxInv /\ TxInv
  BY DEF Init, RxInv, TxInv, Filled, EmptyRing, InHand
<1> QED BY <1>2, <1>3 DEF IInv

\* Steps that leave a queue alone are none of LossyFifo.
LEMMA RxStutters ==
  ASSUME UNCHANGED <<msg, rx, rxLost, item>>, InHand' = InHand
  PROVE  UNCHANGED Rx!vars
BY DEF Rx!vars, Content, InHand

LEMMA TxStutters ==
  ASSUME UNCHANGED <<tx, offer, txLost>>, pc # "shiftTx", pc' # "shiftTx"
  PROVE  UNCHANGED Tx!vars
BY DEF Tx!vars, Content

\* What a step shows to the two abstract queues.
Refines == [Rx!Next]_(Rx!vars) /\ [Tx!Next]_(Tx!vars)

\* The interrupt cannot come between the steps of CANRxQueueShift, and what it
\* puts in leaves the frame in hand where it is.
LEMMA InterruptPuts ==
  ASSUME IInv, Interrupt
  PROVE  IInv' /\ Refines
<1> USE DEF IInv
<1>1. /\ First = rx.head /\ InHand' = InHand /\ pc' = pc /\ item' = item
      /\ ~(pc \in {"head", "load", "store"})
  BY DEF Interrupt, InterruptEnabled, RxInv, First, InHand
<1>2. /\ Head(fifo) \in Message /\ Tail(fifo) \in Seq(Message) /\ Len(Tail(fifo)) <= FifoDepth
      /\ msg' \in Message
  BY HeadTailProperties, SizeAssumption DEF TypeOK, Interrupt
<1>3. rx \in Ring(RxSize, Message) /\ RxSize \in Nat \ {0}
      /\ Filled(rx, rx.head, RxSize, Message) /\ rx.head \in 0 .. RxSize - 1 /\ rx.size \in 0 .. RxSize
  BY <1>1, SizeAssumption DEF TypeOK, RxInv, Ring
<1>4. UNCHANGED <<tx, offer, txPacket, txLost, pc>>
  BY DEF Interrupt, txVars
<1>5. UNCHANGED Tx!vars
  BY <1>4 DEF Tx!vars, Content
<1>6. CASE HasRoom(rx, RxSize)
  <2>1. rx' = Put(rx, RxSize, msg') /\ rxLost' = rxLost
    BY <1>6 DEF Interrupt, TypeOK
  <2>2. /\ rx' \in Ring(RxSize, Message)
        /\ rx'.head = rx.head /\ rx'.size = rx.size + 1
        /\ Filled(rx', rx.head, RxSize, Message)
        /\ Content(rx', rx.head, RxSize) = Append(Content(rx, rx.head, RxSize), msg')
        /\ rx.size > 0 => rx'.queue[rx.head] = rx.queue[rx.head]
    BY <1>2, <1>3, <1>6, <2>1, PutAppends
  <2>3. TypeOK'
    BY <1>1, <1>2, <2>1, <2>2 DEF TypeOK, Interrupt, txVars
  <2>4. First' = rx.head
    BY <1>1, <2>2 DEF First, RxInv, InHand
  <2>5. RxInv'
    BY <1>1, <1>3, <2>2, <2>4 DEF RxInv, InHand, Interrupt
  <2>6. TxInv'
    BY <1>4 DEF TxInv, Filled
  <2>7. Len(Content(rx, rx.head, RxSize)) = rx.size /\ rx.size < RxSize
    BY <1>3, <1>6, ContentProperties DEF HasRoom
  <2>8. Rx!Put
    BY <1>1, <1>2, <2>1, <2>2, <2>4, <2>7 DEF Rx!Put, First, InHand, RxInv
  <2> QED BY <1>5, <2>3, <2>5, <2>6, <2>8 DEF Refines, Rx!Next
<1>7. CASE ~HasRoom(rx, RxSize)
  <2>1. rx' = rx /\ rxLost' = TRUE
    BY <1>7 DEF Interrupt, Put
  <2>2. TypeOK'
    BY <1>1, <1>2, <2>1 DEF TypeOK, Interrupt, txVars
  <2>3. RxInv' /\ TxInv'
    BY <1>1, <1>4, <2>1 DEF RxInv, TxInv, InHand, First, Filled, Interrupt
  <2>4. Len(Content(rx, rx.head, RxSize)) = RxSize
    BY <1>3, <1>7, ContentProperties DEF HasRoom
  <2>5. Rx!Put
    BY <1>1, <1>2, <2>1, <2>4 DEF Rx!Put, First, InHand, RxInv, Content
  <2> QED BY <1>5, <2>2, <2>3, <2>5 DEF Refines, Rx!Next
<1> QED BY <1>6, <1>7

\* A frame is in hand from CANRxQueueGet on.
LEMMA GetHandsOver ==
  ASSUME IInv, Get
  PROVE  IInv' /\ Refines
<1> USE DEF IInv
<1>1. rx \in Ring(RxSize, Message) /\ RxSize \in Nat \ {0} /\ First = rx.head
      /\ Filled(rx, rx.head, RxSize, Message) /\ rx.head \in 0 .. RxSize - 1 /\ rx.size \in 0 .. RxSize
      /\ rx.size > 0
  BY SizeAssumption DEF TypeOK, RxInv, Ring, First, InHand, Get
<1>2. UNCHANGED <<msg, rx, rxLost, tx, offer, txPacket, txLost, masked, fifo, mailbox, count>>
      /\ item' = rx.head /\ pc = "receive" /\ pc' = "handle" /\ ~InHand /\ InHand'
  BY DEF Get, rxVars, txVars, InHand
<1>3. TypeOK'
  BY <1>1, <1>2 DEF TypeOK
<1>4. First' = rx.head
  BY <1>2 DEF First
<1>5. RxInv' /\ TxInv'
  BY <1>1, <1>2, <1>4 DEF RxInv, TxInv, Filled
<1>6. /\ Content(rx, rx.head, RxSize) # <<>>
      /\ Head(Content(rx, rx.head, RxSize)) = rx.queue[rx.head]
  <2>1. rx.size > 0 => /\ Content(rx, rx.head, RxSize) # <<>>
                       /\ Head(Content(rx, rx.head, RxSize)) = rx.queue[rx.head]
    BY <1>1, ContentProperties
  <2> QED BY <1>1, <2>1
<1>7. Rx!HandOver
  BY <1>2, <1>6 DEF Rx!HandOver, Content
<1>8. UNCHANGED Tx!vars
  BY <1>2, TxStutters
<1> QED BY <1>3, <1>5, <1>7, <1>8 DEF Refines, Rx!Next

\* The frame is finished when the size is stored.
LEMMA StoreFinishes ==
  ASSUME IInv, StoreSize
  PROVE  IInv' /\ Refines
<1> USE DEF IInv
<1>1. rx \in Ring(RxSize, Message) /\ RxSize \in Nat \ {0} /\ First = item
      /\ Filled(rx, item, RxSize, Message) /\ item \in 0 .. RxSize - 1 /\ rx.size \in 1 .. RxSize
      /\ rx.head = Wrap(item + 1, RxSize) /\ count = rx.size /\ InHand
  BY SizeAssumption DEF TypeOK, RxInv, Ring, First, InHand, StoreSize
<1>2. UNCHANGED <<msg, rxLost, tx, offer, txPacket, txLost, item, fifo, mailbox, count>>
      /\ pc = "store" /\ pc' = "receive" /\ ~InHand' /\ masked' = FALSE
  BY DEF StoreSize, txVars, InHand
<1>3. rx' = [rx EXCEPT !.size = rx.size - 1]
  BY <1>1 DEF StoreSize
<1>4. rx' \in Ring(RxSize, Message) /\ rx'.size = rx.size - 1 /\ rx'.queue = rx.queue /\ rx'.head = rx.head
  BY <1>1, <1>3 DEF Ring
<1>5. TypeOK'
  BY <1>2, <1>4 DEF TypeOK
<1>6. /\ Filled(rx', rx.head, RxSize, Message)
      /\ Content(rx', rx.head, RxSize) = Tail(Content(rx, item, RxSize))
  BY <1>1, <1>4, ShiftIsTail
<1>7. First' = rx.head
  BY <1>2, <1>4 DEF First
<1>8. RxInv' /\ TxInv'
  BY <1>2, <1>6, <1>7 DEF RxInv, TxInv, Filled
<1>9. rx.queue[item] # NoFrame
  <2>1. Wrap(item + 1 - 1, RxSize) = item
    BY <1>1 DEF Wrap
  <2>2. rx.queue[item] \in Message
    BY <1>1, <2>1 DEF Filled
  <2> QED BY <2>2, FrameAssumption
<1>10. Rx!Finish
  BY <1>1, <1>2, <1>4, <1>6, <1>9 DEF Rx!Finish
<1>11. UNCHANGED Tx!vars
  BY <1>2, TxStutters
<1> QED BY <1>5, <1>8, <1>10, <1>11 DEF Refines, Rx!Next

\* The steps that move the main loop on, or mask interrupts, show nothing.
LEMMA QuietSteps ==
  ASSUME IInv,
         SendDone \/ ReceiveDone \/ Handle \/ Lock \/ LoadSize \/ Silent
         \/ AccessObject \/ ObjectAccessed \/ NoAccess \/ NextRound
  PROVE  IInv' /\ Refines
<1> USE DEF IInv
<1>1. UNCHANGED <<fifo, msg, rx, rxLost, tx, offer, txPacket, mailbox, txLost, item>>
  BY DEF SendDone, ReceiveDone, Handle, Lock, LoadSize, Silent,
         AccessObject, ObjectAccessed, NoAccess, NextRound, rxVars, txVars
<1>2. pc = "lock" => rx.size # 0
  BY DEF RxInv, InHand
<1>3. InHand' = InHand /\ pc # "shiftTx" /\ pc' # "shiftTx"
  BY <1>2 DEF SendDone, ReceiveDone, Handle, Lock, LoadSize, Silent,
              AccessObject, ObjectAccessed, NoAccess, NextRound, InHand, After
<1>4. rx.size \in 0 .. RxSize
  BY DEF TypeOK, Ring
<1>5. TypeOK'
  <2>1. count' \in 0 .. RxSize /\ masked' \in BOOLEAN
    BY <1>4 DEF TypeOK, SendDone, ReceiveDone, Handle, Lock, LoadSize, Silent,
         AccessObject, ObjectAccessed, NoAccess, NextRound
  <2>2. pc' \in {"send", "shiftTx", "receive", "handle", "lock", "head", "load", "store",
                 "lss", "nmt", "sdo", "object", "answer", "round"}
    BY DEF SendDone, ReceiveDone, Handle, Lock, LoadSize, Silent,
         AccessObject, ObjectAccessed, NoAccess, NextRound, After
  <2> QED BY <1>1, <2>1, <2>2 DEF TypeOK
<1>6. First' = First
  BY <1>1, <1>3 DEF First
<1>7. RxInv'
  <2>1. Filled(rx, First, RxSize, Message)'
    BY <1>1, <1>6 DEF RxInv, Filled
  <2>2. InHand' => rx'.size > 0
    BY <1>1, <1>3 DEF RxInv
  <2>3. /\ pc' \in {"handle", "lock", "head"} => item' = rx'.head
        /\ pc' \in {"load", "store"} => rx'.head = Wrap(item' + 1, RxSize)
        /\ pc' \in {"head", "load", "store"} => masked'
        /\ pc' = "store" => count' = rx'.size
    BY <1>1, <1>2 DEF RxInv, SendDone, ReceiveDone, Handle, Lock, LoadSize, Silent,
         AccessObject, ObjectAccessed, NoAccess, NextRound, After
  <2> QED BY <2>1, <2>2, <2>3 DEF RxInv
<1>8. TxInv'
  BY <1>1, <1>3 DEF TxInv, Filled
<1>9. UNCHANGED Rx!vars /\ UNCHANGED Tx!vars
  BY <1>1, <1>3, RxStutters, TxStutters
<1> QED BY <1>5, <1>7, <1>8, <1>9 DEF Refines

\* Between head and size the queue is out of step; with the frame in hand as the
\* first it is not.
LEMMA ShiftHeadHidden ==
  ASSUME IInv, ShiftHead
  PROVE  IInv' /\ Refines
<1> USE DEF IInv
<1>1. UNCHANGED <<fifo, msg, rxLost, tx, offer, txPacket, mailbox, txLost, item, count, masked>>
      /\ pc = "head" /\ pc' = "load" /\ InHand /\ InHand'
  BY DEF ShiftHead, txVars, InHand
<1>2. rx \in Ring(RxSize, Message) /\ RxSize \in Nat \ {0} /\ item = rx.head /\ masked
      /\ rx.size > 0 /\ Filled(rx, item, RxSize, Message)
  BY <1>1, SizeAssumption DEF TypeOK, RxInv, First
<1>3. rx' = [rx EXCEPT !.head = Wrap(rx.head + 1, RxSize)] /\ rx.head \in 0 .. RxSize - 1
  BY <1>2 DEF ShiftHead, Ring
<1>4. Wrap(rx.head + 1, RxSize) \in 0 .. RxSize - 1
  BY <1>2, <1>3, WrapInRing
<1>5. rx' \in Ring(RxSize, Message) /\ rx'.size = rx.size /\ rx'.queue = rx.queue
      /\ rx'.head = Wrap(item + 1, RxSize)
  BY <1>2, <1>3, <1>4 DEF Ring
<1>6. TypeOK'
  BY <1>1, <1>5 DEF TypeOK
<1>7. RxInv'
  BY <1>1, <1>2, <1>5 DEF RxInv, First, Filled
<1>8. TxInv'
  BY <1>1 DEF TxInv, Filled
<1>9. UNCHANGED Rx!vars
  BY <1>1, <1>5 DEF Rx!vars, Content
<1>10. UNCHANGED Tx!vars
  BY <1>1, TxStutters
<1> QED BY <1>6, <1>7, <1>8, <1>9, <1>10 DEF Refines

\* The controller's own steps and its reset do not touch the rings.
LEMMA ControllerSteps ==
  ASSUME IInv, (\E f \in Message : Arrive(f)) \/ Transmit \/ ResetCommunication
  PROVE  IInv' /\ Refines
<1> USE DEF IInv
<1>1. UNCHANGED <<msg, rx, rxLost, tx, offer, txPacket, txLost, item, count, masked>>
      /\ InHand' = InHand /\ (pc' = pc \/ (pc # "shiftTx" /\ pc' = "send" /\ ~InHand /\ ~InHand'))
  <2>1. CASE \E f \in Message : Arrive(f)
    <3>1. UNCHANGED <<msg, rx, rxLost, tx, offer, txPacket, txLost, item, count, masked, pc>>
      BY <2>1 DEF Arrive, txVars
    <3> QED BY <3>1 DEF InHand
  <2>3. CASE Transmit
    <3>1. UNCHANGED <<msg, rx, rxLost, tx, offer, txPacket, txLost, item, count, masked, pc>>
      BY <2>3 DEF Transmit, rxVars
    <3> QED BY <3>1 DEF InHand
  <2>2. CASE ResetCommunication
    BY <2>2 DEF ResetCommunication, InHand
  <2> QED BY <2>1, <2>2, <2>3
<1>2. fifo' \in Seq(Message) /\ Len(fifo') <= FifoDepth
  <2>1. CASE \E f \in Message : Arrive(f)
    <3>1. PICK f \in Message : Arrive(f)
      BY <2>1
    <3>2. CASE Len(fifo) < FifoDepth /\ fifo' = Append(fifo, f)
      BY <3>2, AppendProperties, SizeAssumption DEF TypeOK
    <3>3. CASE Len(fifo) = FifoDepth /\ fifo' = Append(Tail(fifo), f)
      <4>1. fifo # <<>>
        BY <3>3, SizeAssumption, EmptySeq
      <4>2. Tail(fifo) \in Seq(Message) /\ Len(Tail(fifo)) = Len(fifo) - 1
        BY <4>1, HeadTailProperties DEF TypeOK
      <4> QED BY <3>3, <4>2, AppendProperties, SizeAssumption
    <3> QED BY <3>1, <3>2, <3>3 DEF Arrive
  <2>2. CASE Transmit
    BY <2>2 DEF TypeOK, Transmit, rxVars
  <2>3. CASE ResetCommunication
    BY <2>3, EmptySeq, SizeAssumption DEF ResetCommunication
  <2> QED BY <2>1, <2>2, <2>3
<1>3. mailbox' \in Seq(Answers) /\ Len(mailbox') <= Mailboxes
  <2>1. CASE \E f \in Message : Arrive(f)
    BY <2>1 DEF TypeOK, Arrive, txVars
  <2>2. CASE Transmit
    BY <2>2, HeadTailProperties, SizeAssumption DEF TypeOK, Transmit
  <2>3. CASE ResetCommunication
    BY <2>3, EmptySeq, SizeAssumption DEF ResetCommunication
  <2> QED BY <2>1, <2>2, <2>3
<1>4. TypeOK'
  BY <1>1, <1>2, <1>3 DEF TypeOK
<1>5. First' = First
  BY <1>1 DEF First
<1>6. RxInv' /\ TxInv'
  BY <1>1, <1>5 DEF RxInv, TxInv, Filled, InHand
<1>7. UNCHANGED Rx!vars
  BY <1>1, RxStutters
<1>8. UNCHANGED Tx!vars
  BY <1>1 DEF Tx!vars, Content
<1> QED BY <1>4, <1>6, <1>7, <1>8 DEF Refines

\* A frame is in the hand of CAN_Send from the mailbox to CANTxQueueShift.
LEMMA SendHandsOver ==
  ASSUME IInv, SendFrame
  PROVE  IInv' /\ Refines
<1> USE DEF IInv
<1>1. UNCHANGED <<fifo, msg, rx, rxLost, tx, offer, txLost, item, count, masked>>
      /\ pc = "send" /\ pc' = "shiftTx" /\ InHand' = InHand /\ ~InHand /\ ~InHand'
      /\ txPacket' = tx.queue[tx.head] /\ mailbox' = Append(mailbox, txPacket')
      /\ tx.size # 0 /\ Len(mailbox) < Mailboxes
  BY DEF SendFrame, rxVars, InHand, MailboxFree
<1>2. tx \in Ring(TxSize, Answers) /\ TxSize \in Nat \ {0} /\ tx.head \in 0 .. TxSize - 1
      /\ Filled(tx, tx.head, TxSize, Answers) /\ tx.size \in 0 .. TxSize /\ tx.size > 0
  BY <1>1, SizeAssumption DEF TypeOK, TxInv, Ring
<1>3. tx.queue[tx.head] \in Answers
  <2>1. Wrap(tx.head + 1 - 1, TxSize) = tx.head
    BY <1>2 DEF Wrap
  <2> QED BY <1>2, <2>1 DEF Filled
<1>4. mailbox' \in Seq(Answers) /\ Len(mailbox') <= Mailboxes
  BY <1>1, <1>3, AppendProperties, SizeAssumption DEF TypeOK
<1>5. TypeOK'
  BY <1>1, <1>3, <1>4 DEF TypeOK
<1>6. RxInv'
  BY <1>1 DEF RxInv, First, Filled
<1>7. TxInv'
  BY <1>1, <1>2 DEF TxInv, Filled
<1>8. /\ Content(tx, tx.head, TxSize) # <<>>
      /\ Head(Content(tx, tx.head, TxSize)) = tx.queue[tx.head]
  <2>1. tx.size > 0 => /\ Content(tx, tx.head, TxSize) # <<>>
                       /\ Head(Content(tx, tx.head, TxSize)) = tx.queue[tx.head]
    BY <1>2, ContentProperties
  <2> QED BY <1>2, <2>1
<1>9. Tx!HandOver
  BY <1>1, <1>8 DEF Tx!HandOver, Content
<1>10. UNCHANGED Rx!vars
  BY <1>1, RxStutters
<1> QED BY <1>5, <1>6, <1>7, <1>9, <1>10 DEF Refines, Tx!Next

LEMMA ShiftTxFinishes ==
  ASSUME IInv, ShiftTx
  PROVE  IInv' /\ Refines
<1> USE DEF IInv
<1>1. UNCHANGED <<fifo, msg, rx, rxLost, offer, txPacket, mailbox, txLost, item, count, masked>>
      /\ pc = "shiftTx" /\ pc' = "send" /\ InHand' = InHand /\ ~InHand /\ ~InHand'
  BY DEF ShiftTx, rxVars, InHand
<1>2. tx \in Ring(TxSize, Answers) /\ TxSize \in Nat \ {0} /\ tx.head \in 0 .. TxSize - 1
      /\ Filled(tx, tx.head, TxSize, Answers) /\ tx.size \in 0 .. TxSize /\ tx.size > 0
      /\ txPacket = tx.queue[tx.head]
  BY <1>1, SizeAssumption DEF TypeOK, TxInv, Ring
<1>3. tx' = [tx EXCEPT !.head = Wrap(tx.head + 1, TxSize), !.size = tx.size - 1]
  BY <1>2 DEF ShiftTx, Ring
<1>4. Wrap(tx.head + 1, TxSize) \in 0 .. TxSize - 1
  BY <1>2, WrapInRing
<1>5. tx' \in Ring(TxSize, Answers) /\ tx'.size = tx.size - 1 /\ tx'.queue = tx.queue
      /\ tx'.head = Wrap(tx.head + 1, TxSize)
  <2>1. tx' = [size |-> tx.size - 1, head |-> Wrap(tx.head + 1, TxSize), queue |-> tx.queue]
    BY <1>2, <1>3 DEF Ring
  <2>2. tx.size - 1 \in 0 .. TxSize /\ tx.queue \in [0 .. TxSize - 1 -> Answers \cup {NoFrame}]
    BY <1>2 DEF Ring
  <2> QED BY <1>4, <2>1, <2>2 DEF Ring
<1>6. /\ Filled(tx', tx'.head, TxSize, Answers)
      /\ Content(tx', tx'.head, TxSize) = Tail(Content(tx, tx.head, TxSize))
  BY <1>2, <1>5, ShiftIsTail
<1>7. TypeOK'
  BY <1>1, <1>5 DEF TypeOK
<1>8. RxInv'
  BY <1>1 DEF RxInv, First, Filled
<1>9. TxInv'
  BY <1>1, <1>6 DEF TxInv
<1>10. txPacket # NoFrame
  <2>1. Wrap(tx.head + 1 - 1, TxSize) = tx.head
    BY <1>2 DEF Wrap
  <2>2. tx.queue[tx.head] \in Answers
    BY <1>2, <2>1 DEF Filled
  <2> QED BY <1>2, <2>2, FrameAssumption
<1>11. Tx!Finish
  BY <1>1, <1>6, <1>10 DEF Tx!Finish
<1>12. UNCHANGED Rx!vars
  BY <1>1, RxStutters
<1> QED BY <1>7, <1>8, <1>9, <1>11, <1>12 DEF Refines, Tx!Next

LEMMA SendPuts ==
  ASSUME IInv, NEW a \in Answers, Send(a)
  PROVE  IInv' /\ Refines
<1> USE DEF IInv
<1>1. UNCHANGED <<fifo, msg, rx, rxLost, txPacket, mailbox, item, count, masked>>
      /\ InHand' = InHand /\ ~InHand /\ ~InHand' /\ pc # "shiftTx" /\ pc' # "shiftTx" /\ offer' = a
  BY DEF Send, rxVars, InHand, After
<1>2. tx \in Ring(TxSize, Answers) /\ TxSize \in Nat \ {0} /\ tx.head \in 0 .. TxSize - 1
      /\ Filled(tx, tx.head, TxSize, Answers) /\ tx.size \in 0 .. TxSize
  BY SizeAssumption DEF TypeOK, TxInv, Ring
<1>3. pc' \in {"nmt", "sdo", "round"}
  BY DEF Send, After
<1>4. RxInv'
  BY <1>1, <1>3 DEF RxInv, First, Filled
<1>5. UNCHANGED Rx!vars
  BY <1>1, RxStutters
<1>6. CASE HasRoom(tx, TxSize)
  <2>1. tx' = Put(tx, TxSize, a) /\ txLost' = txLost
    BY <1>6 DEF Send, TypeOK
  <2>2. /\ tx' \in Ring(TxSize, Answers)
        /\ tx'.head = tx.head
        /\ Filled(tx', tx.head, TxSize, Answers)
        /\ Content(tx', tx.head, TxSize) = Append(Content(tx, tx.head, TxSize), a)
    BY <1>2, <1>6, <2>1, PutAppends
  <2>3. TypeOK'
    BY <1>1, <1>3, <2>1, <2>2 DEF TypeOK
  <2>4. TxInv'
    BY <1>1, <2>2 DEF TxInv
  <2>5. Len(Content(tx, tx.head, TxSize)) = tx.size /\ tx.size < TxSize
    BY <1>2, <1>6, ContentProperties DEF HasRoom
  <2>6. Tx!Put
    BY <1>1, <2>1, <2>2, <2>5 DEF Tx!Put
  <2> QED BY <1>4, <1>5, <2>3, <2>4, <2>6 DEF Refines, Tx!Next
<1>7. CASE ~HasRoom(tx, TxSize)
  <2>1. tx' = tx /\ txLost' = TRUE
    BY <1>7 DEF Send, Put
  <2>2. TypeOK'
    BY <1>1, <1>3, <2>1 DEF TypeOK
  <2>3. TxInv'
    BY <1>1, <2>1 DEF TxInv, Filled
  <2>4. Len(Content(tx, tx.head, TxSize)) = TxSize
    BY <1>2, <1>7, ContentProperties DEF HasRoom
  <2>5. Tx!Put
    BY <1>1, <2>1, <2>4 DEF Tx!Put, Content
  <2> QED BY <1>4, <1>5, <2>2, <2>3, <2>5 DEF Refines, Tx!Next
<1> QED BY <1>6, <1>7

\* Every step keeps the invariant and is a step or a stutter of both queues.
LEMMA StepRefines == IInv /\ [Next]_vars => IInv' /\ Refines
<1> SUFFICES ASSUME IInv, [Next]_vars PROVE IInv' /\ Refines
  OBVIOUS
<1>1. CASE MainLoop
  BY <1>1, SendHandsOver, ShiftTxFinishes, QuietSteps, GetHandsOver, ShiftHeadHidden,
     StoreFinishes, SendPuts, ControllerSteps DEF MainLoop
<1>2. CASE UNCHANGED vars
  <2>1. UNCHANGED <<fifo, msg, rx, rxLost, tx, offer, txPacket, mailbox, txLost, item, count, masked, pc>>
    BY <1>2 DEF vars, rxVars, txVars
  <2>2. IInv'
    BY <2>1 DEF IInv, TypeOK, RxInv, TxInv, First, InHand, Filled
  <2>3. UNCHANGED Rx!vars /\ UNCHANGED Tx!vars
    BY <2>1 DEF Rx!vars, Tx!vars, InHand, Content
  <2> QED BY <2>2, <2>3 DEF Refines
<1> QED BY <1>1, <1>2, InterruptPuts, ControllerSteps DEF Next

----------------------------------------------------------------------------
(* Theorems                                                                *)

\* In every reachable state the rings are well formed and, while a receive
\* function reads a slot, the slot is the first of the queue.
THEOREM Invariance == Spec => []IInv
BY InitIInv, StepRefines, PTL DEF Spec

\* TypeOK for rings, controllers and frames of any size.
THEOREM TypeCorrect == Spec => []TypeOK
<1>1. IInv => TypeOK
  BY DEF IInv
<1> QED BY <1>1, Invariance, PTL

\* RxFifo: interrupt and main loop together are a lossy FIFO.
THEOREM RxImplementsFifo == Spec => RxFifo
<1>1. Init => Rx!Init
  BY DEF Init, Rx!Init, EmptyRing, Content, InHand
<1>2. IInv /\ [Next]_vars => [Rx!Next]_(Rx!vars)
  BY StepRefines DEF Refines
<1> QED BY <1>1, <1>2, Invariance, PTL DEF Spec, RxFifo, Rx!Spec

\* TxFifo: the way from CO_CANsend to the mailboxes is a lossy FIFO.
THEOREM TxImplementsFifo == Spec => TxFifo
<1>1. Init => Tx!Init
  BY DEF Init, Tx!Init, EmptyRing, Content
<1>2. IInv /\ [Next]_vars => [Tx!Next]_(Tx!vars)
  BY StepRefines DEF Refines
<1> QED BY <1>1, <1>2, Invariance, PTL DEF Spec, TxFifo, Tx!Spec
=============================================================================
