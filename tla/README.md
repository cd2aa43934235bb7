# CANopenSDO-Boot: formal models

TLA+ models, model-checking configurations and machine-checked proofs for the CANopen SDO boot
loader for the AT32F415. The program receives a firmware image over CAN, through the SDO server of
CANopenNode, stages it in flash and hands it to an installer.

Contents: [the system](#1-the-system), [the modules](#2-the-modules), [the runs](#3-the-runs),
[the proofs](#4-the-proofs), [findings](#5-what-the-code-does-and-the-documentation-does-not-say),
[what is not modelled](#6-what-is-not-modelled), [the plan](#7-plan).

## 1. The system

One main loop (`app/core/main.c`) runs everything; two interrupts work beside it, the receive
interrupt of the CAN controller, which appends frames to a ring buffer, and the 1 ms timer
(`app/boards/boards.c`). A round of the loop is `CANSendReceive` (send what waits, hand every
received frame to the receive function of its object), `CO_process` (LSS slave, NMT slave, SDO
server), `app_program1ms` (poll the pending installation).

| Component | State | Operations | Acts on |
|---|---|---|---|
| Host program `write-firmware.py` | session, offset, toggle, attempts | read of the identity, START, segments of the image with retries, END, APPLY, status polling, a look at 5F03 after a failure | SDO server, over a bus that loses frames |
| SDO client `301/CO_SDOclient.c` (not compiled in the firmware) | protocol state, buffer, sequence number, two timers | upload, segmented or by blocks | SDO server |
| CAN driver `canopen_at32/CO_driver_AT32.c` | two ring buffers of 64 frames, error status | `CO_CANsend`, `CANSendReceive`, `CANRxQueuePut` (interrupt) | receive functions of the stack |
| SDO server `301/CO_SDOserver.c` | protocol state, request slot, buffer of 1032 bytes, counts, toggle, sub-block, CRC, two timers | `CO_SDO_receive`, `CO_SDOserver_process` | object dictionary, transmit queue |
| Object dictionary `301/CO_ODinterface.c`, `od/OD.c` | the values, one stream per transfer | `OD_writeOriginal`, extensions | OTA object, NMT (1017) |
| OTA update object `canopen_at32/CO_app_AT32.c` | 5F00 parameters, 5F01 status, CRC, word cache, pending installation | START, END, ABORT, APPLY, data handler, `ota_apply_process_pending` | flash, installer |
| Flash controller `at32f415_flash.c` | words, latched error flags | erase a page, program a word | |
| NMT slave `301/CO_NMT_Heartbeat.c` | state, one command slot, heartbeat timer | receive, process, write of 1017 | main loop (resets), SDO server (enabled or not) |
| LSS slave `305/CO_LSSslave.c` | selection, one request slot, pending and active node id | receive, process, store callback | main loop (reset), node id |
| Main loop `app/core/main.c` | reset status, node id, bit rate | communication reset, device reset | all |

What makes it hard:

- **Two protocols nested.** Bytes of an image pass the 7-byte segments of SDO, the server's buffer
  and the 4-byte words of flash; none of the sizes divides another. The buffer is emptied when the
  next segment would not fit, so where the data handler's calls cut the image depends on its length.
- **Retries and duplicates.** Answers get lost; the host repeats segments and the server has to tell
  a repeated segment from a new one by one toggle bit, a repeated segment of a block by its number.
- **The host is not trusted to follow the order.** Every command can come in every state: START in
  the middle of a transfer, a new transfer without START, END twice, parameters changed on the way.
- **Flash fails.** An erase or a program operation can fail at any word; the flags stay latched.
- **Power is lost or the node is reset** between any two words that are programmed.
- **Time.** The transfer timeout (15 s) races the sub-block timeout (10.5 s) and late frames; the
  200 ms delay of the installation runs on a timer that wraps.

What makes each part correct:

- OTA object: an image that END accepted is in flash byte for byte, stays there until it is
  installed, and nothing else is ever installed; an installation that was announced takes place, not
  early; nothing is accepted after the flash controller has reported an error.
- SDO server: its buffer never overflows, whatever clients send; every byte is stored once; what it
  confirms is stored; it does not wait for ever for a client that is gone.
- NMT and LSS: the node id in use changes only through a master's reset or, for a node without one,
  when LSS has assigned one; what LSS configures can be started with; every state is told to the bus and
  heartbeats are in time.
- CAN driver: no frame is changed, doubled or overtaken between interrupt and receive function, or
  between `CO_CANsend` and mailbox; a bus that takes no frames does not stop reception.
- Host program: a success it reports is true (the image is stored once, byte for byte, and will be
  installed if that was asked for); a session in which nothing goes wrong does not fail; all sessions end.
- Uploads: what a client takes for the object is the object, and lost segments of a block are repaired.

## 2. The modules

| Module | Models |
|---|---|
| `FwUpdate` | what the OTA object promises its host, without flash, stream or timer |
| `OtaApp` | the OTA object, its staging area, the flash controller as seen from the firmware |
| `OtaAppMC` | values of the constants for the runs of `OtaApp` |
| `OtaAppProofs` | proofs about `OtaApp` |
| `SdoServer` | the SDO server with one client, the dictionary's write access, the transmit queue |
| `SdoServerMC` | values of the constants for the runs of `SdoServer` |
| `SdoServerProofs` | proofs about `SdoServer` |
| `NodeControl` | NMT slave, heartbeat, LSS slave, `CO_process`, communication and device reset |
| `NodeControlMC` | values of the constants for the runs of `NodeControl` |
| `NodeControlProofs` | proofs about `NodeControl` |
| `LossyFifo` | what a queue of the CAN driver promises |
| `CanQueue` | receive interrupt, main loop and controller around the two ring buffers |
| `CanQueueMC` | values of the constants for the run of `CanQueue` |
| `CanQueueProofs` | proofs that `CanQueue` implements two `LossyFifo` |
| `SdoDownload` | the host's segmented download with its retries and `SdoServer`, over a bus that loses frames |
| `SdoDownloadMC` | values of the constants for the run of `SdoDownload` |
| `SdoDownloadProofs` | proofs about `SdoDownload`, on top of those about `SdoServer` |
| `HostSession` | sessions of the host program, from the parameters to the reboot, and `OtaApp` |
| `HostSessionMC` | values of the constants for the run of `HostSession` |
| `HostSessionProofs` | proofs about `HostSession`, on top of those about `OtaApp` |
| `HostAlarmProofs` | the proof that a session fails only with a cause |
| `SdoUpload` | the upload half of the server and the stack's client |
| `SdoUploadMC` | values of the constants for the runs of `SdoUpload` |
| `SdoUploadProofs` | proofs about `SdoUpload` |

`SdoDownload` and `HostSession` compose: each has the variables of a component next to its own, takes
the component as an instance (`Server`, `Device`) and builds its steps from the component's actions.

A module holds, next to the operators that model the code, operators marked *Fault*: plausible
mistakes in that code. They are in no specification; each takes the place of the operator after it
in one check, which must then fail.

### OtaApp

Variables bear the names of the fields they stand for: `target` to `expectedCRC` are 5F00, `state`
to `imageCRC` are 5F01, `session` to `deadline` are `OTA_Context`; `cache` is the word in collection
(`ota_stage_pending_word_*`), `flash` the staging area, `flashErr` the latched flags of `FLASH->sts`,
`open` and `dataOffset` the server's stream on 5F02. `busy`, `chunk` and `idx` are the data handler
in the middle of its loop. `waited` and `installed` are history variables that only properties read.

| Action | Code |
|---|---|
| `WriteParameter` | a write of 5F00 other than `command` |
| `StartRefused`, `Start` | `OTA_CMD_START`, with `ota_stage_prepare` |
| `EndRefused`, `End` | `OTA_CMD_END`, with `ota_verify_received_image` |
| `Abort`, `ApplyRefused`, `Apply`, `InvalidCommand` | the other commands |
| `WriteData`, `StageByte`, `FinishData` | `OD_write_fwUpdateData`: the checks before the loop of `ota_stage_write_chunk`, one iteration, the end |
| `DropTransfer` | the server ends the transfer (abort, timeout) |
| `ProcessPending` | `ota_apply_process_pending` when the time has come, with the call of the installer |
| `Tick` | the timer interrupt |
| `Restart` | reset of the device; flash keeps its content |

The handlers run in the main loop and exclude each other. Only the data handler is cut into steps,
because a reset can come between two words and the timer goes on. CRC-32 is modelled by the bytes it
is computed over, `<<>>` being 0, so two CRCs are equal exactly if the data is: chance collisions are
left out.

`FinishData` leaves open whether the stream is finished: with `expectedSize = 0` the length the
server knows decides, and `DropTransfer` stands for the end of the transfer. That allows more than
the code does.

`FwUpdate` has a phase, the image, whether it is armed, and what was installed. `OtaApp!Promise` is
its specification under the mapping `phase <- Phase`, `image <- crc`, `armed <- swapPending`: no order
of calls installs anything but the image that was accepted.

### SdoServer

`Receive(m)` is `CO_SDO_receive` for one frame, run when the main loop drains the receive queue.
`Serve` and `Poll(dt)` are a call of `CO_SDOserver_process` with and without a request; a call with a
request sends its answer too, so the states `..._RSP` last no longer than the call, but for
`DOWNLOAD_BLK_SUBBLOCK_RSP`, which the receive function enters. `request` is `CANrxData` while
`CANrxNew` is set, `buf` the part of the buffer that is filled (`bufOffsetWr` is its length), `out`
the transmit queue. `Stop` is the branch for an NMT state without SDO.

| Action | Code in `CO_SDOserver.c` |
|---|---|
| `ReceiveAbort`, `ReceiveRequest`, `ReceiveBlock` | the branches of `CO_SDO_receive` |
| `RefuseCommand`, `RefuseObject`, `RefuseFrame` | an abort as the answer |
| `Upload`, `ExpeditedDownload` | one request, one answer |
| `InitSegmented`, `RepeatSegment`, `DownloadSegment` | segmented download |
| `InitBlock`, `SubBlockResponse`, `EndBlock` | block download |
| `TransferTimeout`, `Idle` | the timers |
| `Transmit` | `CANSendReceive`, sending |

`ValidateAndWrite` is `validateAndWriteToOD`: sizes, then the CRC, then the write. The answer of an
object of known length is that of `OD_writeOriginal`; a DOMAIN appends and its handler may say
`ODR_OK`, `ODR_PARTIAL` or an error at every call, which covers `OD_write_fwUpdateData`. The CRC of a
block is the data it is computed over.

Frames are records with a command specifier, not bytes. In the code the same first byte is a command
in one state and a sequence number in another; here a frame of another kind than the state expects
is a wrong sequence number, or an unknown command.

Loss, duplication and reordering of frames need no action of their own: any frame of `Frames` may
come at any time, and an answer is lost when the queue is full. What a host makes of it is the
subject of `SdoDownload`.

### NodeControl

`lssState`, `select` and `request` are the LSS slave (`request` is `CANdata` while `sendResponse` is
set), `pendingNodeID` and `pendingBitRate` what it configures (`desiredNodeID` and `lssBitrate` of the
application), `nodeId` the id in use, 255 for none. `operatingState` to `hbTimer` are `CO_NMT_t`,
`interval` is `time_interval_us` of `main()`. `baudrate` is what STORE stored. `sent` holds the frames of
the last step, `since` and `announced` are history variables: the time since the last heartbeat and
the state it carried. `CO_CANsend` is taken to accept the frame.

| Action | Code |
|---|---|
| `ReceiveNmt` | `CO_NMT_receive`: one slot, the latest command stays |
| `ReceiveLss` | `CO_LSSslave_receive`: one slot, the earliest request stays |
| `Round`, `RoundUnassigned` | `CO_process` without a reset, of a node with and without an id |
| `ResetCommunication` | a round that ends in `CO_RESET_COMM` by command, then `app_canopen_init` |
| `StartAssigned` | the same by request of the LSS slave |
| `ResetNode`, `Restart` | `CO_RESET_APP`, and a start of the device at any time |
| `WriteHeartbeatTime` | `OD_write_1017`, by the SDO server at the end of a round |

A round of the main loop is any number of `Receive` steps, which stand for `CANSendReceive`, and one of
the other steps but the write. Fastscan is in `ReceiveLss` (`Fastscan`): the position it has reached is
`fastscanPos`, a frame's `bit` says how many of the low bits of the part are not compared. A selection
that is complete, by address or by scan, moves the slave to configuration. The LSS slave is processed before the NMT slave and its request for a
reset counts only where `CO_process` returns before the NMT slave (`Commanded`). A round that ends in a
reset does not clear `interval`, as in `main()`.

### CanQueue

`fifo` and `mailbox` are the controller's, `rx` and `tx` the ring buffers `canRxQueue` and `canTxQueue`,
`item` the slot that `CANRxQueueGet` returns a pointer to, `count` the value of `size` in a register,
`masked` PRIMASK, `pc` where the main loop is.

| Action | Code |
|---|---|
| `Arrive`, `Transmit` | the controller; a full FIFO overwrites, a frame is sent or given up |
| `Interrupt` | `CAN_RX1_IRQHandler` with `CANRxQueuePut`, between any two steps unless masked |
| `SendFrame`, `ShiftTx`, `SendDone` | the sending half of `CANSendReceive` |
| `Get`, `Handle`, `ReceiveDone` | its receiving half; `Handle` stands for the receive function |
| `Lock`, `ShiftHead`, `LoadSize`, `StoreSize` | `CANRxQueueShift`, access by access |
| `Send`, `Silent` | `CO_CANsend` of the LSS slave, the NMT slave and the SDO server, or nothing to send |
| `AccessObject`, `ObjectAccessed`, `NoAccess` | `CO_LOCK_OD` around the dictionary |
| `ResetCommunication` | `CO_CANmodule_init`: the controller is reset, the rings are not |

The receive queue maps to `LossyFifo` with the frame in hand still in its slot (`InHand`): between the
steps of the shift the ring's fields say something that is true of no queue, so the mapping counts from
`item` and not from `head`. The history variables `rxLost` and `txLost` become `refused`.

### SdoDownload

The server's steps are `SdoServer`'s own, the client is `write_data_segmented` with `_sdo`: `step` is where
it is, `acked` the offset, `inbox` what the adapter has received. A frame waits in `toServer` until it is
delivered or lost; answers pass the server's transmit queue and are then in the inbox or lost. `_sdo`
discards the inbox before it sends. `HostTimeout` may come at any time, so late answers, with the toggle
bit of a segment before, are in the inbox when the next one is awaited. The user runs the program again
after success or failure (`RunAgain`) with other data, on top of the server's state and of the frames the
run before has left.

### HostSession

A session is the list of parameters and START, the image, END, the wait for completion, APPLY and the
wait until the target has left (`step` and `pos`; `Asked` is the request of the moment). A run of the
program begins with the read of the identity, unless it is run with `--skip-identity` (`SkipIdentity`),
and a session that fails behind its preparation ends with a look at 5F03 (`GiveUp`); neither cares for
the values or for an abort. The run goes on from a kernel that is not to be installed to the image of the
PLC (`NextImage`); else the user runs the program again (`RunAgain`). At any time he may stop it
(`Interrupt`), and nothing more is sent then. One exchange of
`_sdo` is `Ask`, a step of the server, and `ReadAnswer` or `AnswerTimeout`. The device's steps are
`OtaApp`'s own. An answer is recognised by the object it is about, so a late answer can be taken for the
one to a newer request on the same object, as in the code. `DeadlinePasses` stands for the deadlines of
the two waits. `trouble` is a history variable, of one run of the program: whether anything was lost,
late, or refused by flash, a timeout passed, power failed, or the user stopped the program. A request, a
piece in work or an answer of an older run that is still there when the next begins is late, and a flash
controller that has refused something goes on refusing; a transfer that is still open is no trouble.

The server ends an open transfer with an abort when anything but its next piece comes (`Refuse`). So a
transfer that was given up is closed by the look at 5F03, and one that the user has left behind by the
read of the identity of the next run, which takes the abort as a warning. With `--skip-identity` it is the
first write of the session that is aborted, which ends the program (`Fail` in the preparation).

### SdoUpload

The upload states of `CO_SDOserver.c` and the upload of `CO_SDOclient.c`, one object, one transfer.
`source` is the server's buffer with its read position, the stream and the CRC; `Read` is `readFromOd`,
which moves what is unread to the front and fills the buffer up. `txBuff` is what `CANtxBuff` still holds
of the last segment. In blocks the server sends unasked (`SendNext`) and the client acknowledges the last
segment it has in order; `Acknowledge` goes back in the buffer by what was not received. The default
dictionary of this firmware has nothing longer than an expedited answer, so there it reaches the
initiation and block uploads of up to 4 bytes; the longer ones need `USE_DOMAIN_READ`
(`OD_read_fwUpdateData`) or another dictionary.

## 3. The runs

| Run | Question | Bounds |
|---|---|---|
| `ota_safety` | is an accepted image in flash, does it stay, is only it installed; is the installation neither early nor forgotten | 2 byte values and the blank one, words and pages of 2 bytes, 3 pages, timer of 4 ticks, delay of 1 |
| `ota_erase` | is flash erased before it is programmed | the same, timer of 2 ticks |
| `ota_default_build` | does END say the truth in a build without `USE_FLASH` | as `ota_erase` |
| `sdo_segmented` | room, account of bytes and truth of the answer, segmented | segments of 2 bytes, buffer of 8, DOMAIN of 8, queue of 1, timeouts of 2 and 1 ticks |
| `sdo_block` | the same for block downloads; does the server end the transfer of a client that is gone | the same, sub-blocks of 2 segments |
| `sdo_upload` | is an upload that succeeds true, does one that loses only segments of blocks succeed | objects of 1, 2, 4, 7 and 8 bytes, segments of 2, buffer of 5, sub-blocks of 2, 3 frames on their way, 3 faults |
| `sdo_upload_resend` | is the last response still there when a request comes twice | the same, 1 fault |
| `node_safety` | states told, heartbeats in time, which steps change the node id, what can be started with, does an assigned node start | ids 0, 1, 127 and 255, 2 supported bit rates and 1 other, heartbeat times 0 and 3 ticks, rounds of 0 to 2 ticks |
| `node_store` | does a stored configuration survive a restart | the same, LSS frames only, heartbeat times 0, 2 and 3 |
| `can_queue` | are the ring buffers lossy FIFOs, does reception go on | rings of 2 frames, FIFO and mailboxes of 1, 2 frames each way |
| `host_download` | does a success mean that the data is stored once, does every transfer end | two runs of the program with 7 bytes each, segments of 2, buffer of 6, 2 retries, 3 frames on their way |
| `host_session` | does a success mean that the image is staged and will be installed, is nothing else installed, does no session fail without a cause, do all end | 3 sessions, words and pages of 2 bytes, stage of 4, pieces of 2, timer of 4 ticks, delay of 2, 2 answers on their way |

Why the bounds are enough. *OTA*: a word of 2 bytes is collected from chunks of 0, 1 and 3 bytes, so
words are full, partial, split over two calls and followed by another in the same call; an image of
3 bytes needs two pages and ends with a partial word; 3 pages leave one that START does not erase;
sizes 0, 3 and 7 are "any", "fits" and "too large"; old content is blank or another image. An image
can be longer than announced, as long and shorter. With a timer of 4 ticks the deadline is before and
behind the wrap. *SDO*: the buffer holds three segments and
the two spare bytes, the DOMAIN more than the buffer, so a download empties the buffer in the middle
and at the end; segments of 1 and 2 bytes reach every fill level; 7 announced bytes (5 for blocks)
are met, missed and exceeded; sub-blocks are cut short in every place. *Upload*: the lengths are one
byte, one segment, full segments, and more than the buffer, so that the buffer is refilled with unread
bytes in it; bytes are counted, so that no two positions look alike; three faults lose a segment, its
repetition and an acknowledgement. *Node*: a round can be shorter
and longer than what the timer has left, the time of the first heartbeat (1) is below and above the
heartbeat times; the serial number is the one part of the address that tells nodes apart, so a
selection or a scan can be right in the parts before it and wrong in the last; 0 is an id out of range,
1000 a bit rate that is not supported. *Queues*: a ring of 2
has every combination of head and size, is full with one frame in hand, and wraps; two different
frames show a change of place. *Host*: 7 bytes in segments of 2 make four segments with a short last
one, of which the buffer holds two, so the object is written twice; 2 retries are enough for a second
loss and for giving up; the data of the two runs has the same length, so that no size tells them apart, and
differs in every position.
The sessions are a kernel to install, a kernel that is not to be installed, and an image of another
target, so each can take over what the one before has left, and the last two can be one run of the program
or two. The first kernel has a length that is no multiple of a piece or of a word; the second leaves its
transfer open between its pieces too. The proofs lift the safety
properties of the components to every size.

Properties:

- `StagedImage`, `SwapSource`, `NothingLostInCache`: flash and word cache against the counters and the
  CRC, which the firmware computes from the received data and never from flash.
- `NoImageAfterFlashError`: the flags that nothing clears keep images out.
- `StageFrozen`, `NoEarlySwap`, `SwapHappens`: from APPLY to the installation.
- `Promise`: `OtaApp` implements `FwUpdate`.
- `BufferFits`: no write beyond the buffer and never a sub-block announced that would not fit; the code
  comments the check as "just in case".
- `Accounted`: each byte counted is in the object or in the buffer, and the CRC so far is that of the
  object's bytes.
- `ConfirmedIsStored`: a confirmed download is in the object, as long as announced, with the CRC sent.
- `BackToIdle`: a silent client does not occupy the server for ever.
- `UploadTrue`: an upload the client reports as done is the object, but for the exception of the finding
  below (`zeros`); `UploadSucceeds`: lost segments of blocks are repaired, and both ends come to rest.
- `StartAccepted`: whatever LSS masters send, `app_canopen_init` accepts what it finds; if it did not,
  `main()` would go to `ErrorHandler`.
- `StateAnnounced`, `BootUpFirst`, `HeartbeatInTime`: what the bus is told, and when, across writes of
  1017, changes of state, and resets that leave a time difference behind.
- `IdChanges`, `AssignedStarts`: an id is taken over by a master's reset, or by the LSS slave's request if
  the node had none; that request is not lost.
- `RxFifo`, `TxFifo`: each ring buffer implements `LossyFifo`: the frame in hand is not changed by the
  interrupt, none is doubled or overtaken, and one is refused only if the ring is full.
- `ReceptionGoesOn`: a frame that waits is handled although the mailboxes are full for ever.
- `SuccessStored`: the host reports success only if the object holds its data, all of it, once. It is a
  property of two runs, not of any number: see section 5.
  `NoMixture`: at any moment of a transfer the server has the beginning of the data of one run, never
  bytes of two. `TransferEnds`.
- `SuccessStaged`, `SuccessApplied`, `InstalledWhole`: the same for whole sessions: what success means for
  the staging area and for the installation, and that nothing is installed that was not sent whole by a
  session that asked for it.
- `NoFalseAlarm`: a session fails only if there is a cause in its own run of the program: something lost or
  late, a timeout, a word that flash refuses, a loss of power, the user. An answer or a request of an older
  run that is still on its way counts as late; a transfer that an older run left open does not count, nor
  does anything else it has left in the device. It holds without `--skip-identity` and not with it: see
  section 5. `SessionEnds`.

Fairness. `ota_safety`: the timer runs and the handlers' loops go on (weak fairness); the main loop
polls far more often than the 32-bit timer wraps, so that a poll which is due again and again takes
place (strong fairness of `ProcessPending`). This holds for a node that has a node id: only then
does `main.c` call `app_program1ms`. `sdo_block`: the main loop calls
`CO_SDOserver_process` for ever and time passes (weak fairness of `Serve` and `Poll(1)`); nothing is
assumed of clients or of the bus. `node_safety`: the main loop goes round for ever (weak fairness of
`MainLoop`, a round being possible at any time); masters may be silent or not. `can_queue`: the main
loop goes on; that it leaves the loop of `CANSendReceive` does not depend on the bus, and frames may go
on to arrive. `host_download`: the host program goes on and its deadlines pass (weak fairness of `Host`);
the server and the bus may stop at any time. `host_session`: the host asks and reads, an answer comes or
its timeout passes (weak fairness); a wait of the host looks at its clock in every iteration and ends
when the deadline has passed, which is strong fairness of `DeadlinePasses`, enabled between two
exchanges; nothing is assumed of the device. `sdo_upload`: both sides go on, frames arrive unless they are lost, and timeouts pass
when nothing comes (weak fairness of each). No run switches off deadlock detection.

## 4. The proofs

TLAPS proves, for every value of the constants that the named assumptions allow:

`OtaAppProofs`
- `TypeCorrect`: `TypeOK`, as long as the counters have not left the staging area (`InArea`). Without
  it the installer could be given a length beyond the area; the invariant below shows that it is not
  in builds that program flash.
- `Invariance`, for `UseFlash`: the inductive invariant `IInv`. `StagedImage` alone is not inductive,
  because END only writes the last word; `IInv` adds what holds before: `Collected` (the first *n*
  bytes are in flash up to the last whole word and the rest is in the cache, with its mask and
  address), between calls (`AtRest`) and inside the loop (`InLoop`), and that a reception starts
  with a prepared stage and nothing pending (`Receiving`).
- From it: `AcceptedImageStaged`, `PendingImageStaged`, `NothingLost`, `FlashErrorBars`,
  `StageStaysFrozen`, and `Implementation`, that each step of `OtaApp` is a step or a stutter of
  `FwUpdate`.
- `NeverEarly`: `NoEarlySwap`, in every build, by an invariant of its own, `Countdown`: while the delay
  has not passed, the deadline lies the rest of it after `now`, counted around the wrap. `NotDue` then
  uses that the delay is at most half a turn, which is what the signed comparison of the code needs.

`SdoServerProofs`
- `Invariance`: `IInv` is `TypeOK`, `BufferFits`, `Accounted`, that objects of known length are never half
  written and that a transfer is on a writable object (`Dictionary`), and that the timers of a transfer
  have not expired between two calls (`InTime`). `Accounted` needs `Dictionary` because a plain variable is
  replaced while a DOMAIN grows; `TypeOK` of the timers needs `InTime`.
- From it: `TypeCorrect`, `BufferNeverOverflows`, `BytesAccounted`. The bound comes from
  `FreeSegments`, a division, and from the order of two steps: the buffer is emptied before the size of
  the next sub-block is chosen. It needs `BufferAssumption`, that the buffer holds a full sub-block and two
  bytes; the code demands 900 bytes at compile time and 127 * 7 + 2 is 891.
- `ConfirmationIsTrue`: `ConfirmedIsStored`. Two facts join the invariant: the end of a block download is
  awaited only after its last segment was stored (`Ending`), and what waits to be sent are answers
  (`Answers`), so that a confirmation appears in the queue only by a step that gives it. For those steps
  `WriteCompletes` says that the verdict on the size leaves the whole object written, from `Accounted`.

`NodeControlProofs`
- `Invariance`: `IInv` is `TypeOK`, `StartAccepted` with the pending bit rate (`PendingSupported`),
  `StateAnnounced`, and two facts it needs: `TimerBound`, that the time since the last heartbeat and what the
  timer has left are together no more than the heartbeat time, unless the timer is at zero and the
  heartbeat due, and `Unannounced`, that a node with an id has told no state yet exactly while it boots.
- From it: `TypeCorrect`, `NextStartAccepted`, `EveryStateAnnounced`, `HeartbeatAlwaysInTime`, `IdKept`,
  `BootUpIsFirst`.

`CanQueueProofs`
- `Invariance`: `IInv` is `TypeOK` and, for each place of the main loop, what it knows of the rings:
  whether a frame is in hand and where its slot is against `head`, that interrupts are masked while the
  fields of the ring disagree, and that the size in the register is the ring's. The lemma `PutAppends`
  carries the rest: the interrupt writes behind the frames that wait and changes neither `head` nor a slot
  in use.
- From it: `TypeCorrect`, and `RxImplementsFifo` and `TxImplementsFifo`, the two refinements, for rings of
  any size and any frames. The program's ring buffers need a power of two for `& (SIZE - 1)`; `Wrap` needs
  no more than that both positions are below the size.

`SdoUploadProofs`
- `Invariance`: `Base` is the types, that the server's buffer is a `Window` on the object which ends at the
  stream's offset, with the CRC of all up to there, and that what was sent in a sub-block is still in front of
  the read position (`SubBlock`), so that `Acknowledge` can go back. From it `ReadsWithinBuffer`: the
  server reads within its buffer and never overfills it, whatever is unread.
- `UploadIsTrue`: `UploadTrue`. In blocks and expedited it follows from the window and the CRC. In segments it
  is an alternating bit (`Alternation`): while the bits of the two sides are equal the server has not seen the
  request of the moment and no segment on its way is taken for an answer (`Waiting`), else every segment that
  could be taken is the one behind what the client has (`Served`). `zeros` is where the code leaves that
  protocol. It needs a buffer that is no multiple of a segment, as in both builds; see section 5.

`SdoDownloadProofs`
- `DownloadWithinBuffer`: what `SdoServerProofs` proves of the server with any client, carried over to this
  one: each step of the composition is one of `SdoServer` or leaves its variables alone.
- `TypeCorrect`, and `Invariance` with `ReportedDownloadStored` and `RunsNeverMix` for any number of runs
  under `Patient`. All that is on its way is read as one line, answers first, requests behind them, and the
  invariant says what the line can hold. Before the host has an answer to its initiation (`Waiting`) the server
  may still be served with a run before, one segment of which is behind what it has (`Track`), but never from
  behind an initiation. After it (`Underway`) the toggle bits in the line change at most once, and an answer
  with the host's bit means that the segment in work is stored. `Complete` is the success.
- `Patient` is a hypothesis about the user: from the second run on, none is started while an initiation or its
  answer is on its way. The code does not enforce it, and it is needed: TLC has a counterexample with
  three runs (29 steps). A "written" of the first run stays in the node's transmit queue; the second run stores
  a segment and fails; the third run's initiation is lost and the old "written" is taken for its answer, so
  its first segment passes for a repetition. TLC checked the invariant with three runs under `Patient`.
- `TwoRuns`: with one or two runs, nothing is asked of the user. This is what `host_download` checks.
  The initiation of the first run is all that can then be left over.

`HostSessionProofs`
- `TypeCorrect`, without any hypothesis.
- `SessionStaged`, `SessionSwapSource`, `SessionPromise`: `OtaAppProofs` holds of the device of a session,
  because each step of the composition is a step of `OtaApp` or leaves its variables alone (`DeviceStep`).
- `Invariance`, and from it `ReportedImageStaged`, `OnlyWholeImages` and `ReportedImageApplied`, for
  `UseFlash` under `Patient`: as long as the session can still succeed, nothing is on its way about an object
  that counts but the one request or answer of the exchange (`Once`); so an exchange whose answer is read or
  waits has had its effect (`Sure`). `Announced`, `Confirmed`, `ApplyDue` and `Installing` say which: the device knows
  size and CRC, the image is in flash for good, what an APPLY on its way would install, what is installed.
- `Patient` is here that the program is run again only when no request, no piece in work and no answer is
  left. The code does not enforce it: the host takes any answer about the object, whichever session it is
  for. It is needed for the number of runs and answers to be free: TLC has a counterexample with 19 runs for one
  image and 21 answers on their way. Every run but the last fails one exchange further than the run before, and
  leaves its answers up to there; at last a whole session's answers are on their way, the next session takes
  them for its own while START erases the stage and its pieces are lost, and reports success. It cannot be
  short: an answer is read only after those before it, so an old answer to START is read as one only if there
  are old answers for the whole preparation in front of it. `host_session` checks the properties for 3 runs
  without `Patient`.

`HostAlarmProofs`
- `FailureHasCause`: `NoFalseAlarm`, for `UseFlash` and without `--skip-identity`; `Patient` is not needed. The
  inductive invariant (`Together`) is conditional: as long as the session is `Healthy` (no trouble, the right
  target, a size that fits), it is `InStep`. `Orderly` is the host's side: of the exchange there is the request,
  or the piece in work, or the answer, and nothing else. `Informed`, `Streaming`, `Collecting` and `Finished`
  are the device's side: at every place of the script it has exactly what was asked so far, with the transfer
  open between the first piece and the last. Until the first answer of a run is there a transfer of an older one
  may be open (`MayBeOpen`), and that answer may be an abort; `RefuseInStep` says that the server refuses
  nothing else and that the transfer is closed by it. So no command is refused, no piece comes too late and
  every judgement of the status is right.
- That the flash has no reason to refuse a word is `Collecting` again: behind what is written, all that START
  erased for this size is blank (`Fresh`). `OtaAppProofs` has the lemmas for one step each (`CleanStart`,
  `CleanByte`, `CleanEnd`); they rest on `WordErased`, that pages are erased whole and consist of whole
  words, so that the word of the last byte is erased too.
- A run that begins is `Healthy` only if no request, piece or answer of an older one is on its way and the
  flash controller works. What an older one left in the device (an open transfer, state, parameters, counters,
  a pending installation, the stage) is not restricted, and the theorem says that none of it matters.

The other assumptions are those of the hardware and of the protocol: words of 2 or 4 bytes that
divide pages and area, a timer that counts further than twice the delay, expedited data shorter
than a segment, a sub-block timeout below that of the transfer, a server's buffer that holds a full
sub-block and two bytes, and that only a session for the kernel asks for APPLY, as `_run_single_ota` does.

Model-checked only: the liveness properties `SwapHappens`, `BackToIdle`, `AssignedStarts`, `ReceptionGoesOn`,
`TransferEnds`, `SessionEnds` and `UploadSucceeds`, since ENABLED and fairness are beyond the prover. Every
invariant that a passing run checks is also proved.

## 5. What the code does and the documentation does not say

- `ota_erase`: README.md promises "Sector/Page erase before write". START erases the pages of
  `expectedSize`; the data handler programs a chunk before it compares the new offset with
  `expectedSize`, so the last chunk can be put together for pages that were not erased. The flash
  controller refuses the word, the object goes to ERROR; nothing wrong is accepted.
- `ota_default_build`: README.md promises "flash operation verification". Neither the Makefile nor
  the Keil project defines `USE_FLASH`; without it END accepts an image that was not programmed.
- `node_store`: `CO_LSSslave.h` has the callback of "store configuration" write to non-volatile memory and
  the application start with those values. `LSScfgStoreCallback` keeps them in RAM, answers success, and
  `main()` starts with 0x7F and 250 kbit/s every time.
- `sdo_upload_resend`: `CO_SDOserver.c` says of a segment request that comes twice "re-send last upload
  segment response" and sends `CANtxBuff`, which every call of `CO_SDOserver_process` in between has
  cleared. The client gets command 0 and zeros; if toggle 0 is due and the segment itself was lost, it
  reports an upload of 1 2 3 4 as done with 0 0 3 4.
- By reading, without a property:
  - A segment that fails, and a user who stops the program, leave the transfer open for 15 s: the host sends no
    abort (`write-firmware.py:470`). The server aborts the next request of any other kind
    (`CO_SDOserver.c:845-848`). After a failed segment that is the look at 5F03 (line 704), after a program that
    was stopped it is the read of the identity (line 840); both take the abort as a warning, and
    `NoFalseAlarm` says that this is enough. The help of `--skip-identity` says only "Skip read 0x1018 before
    OTA" (line 957), but without the read the first write of the session is what the server aborts: the
    program ends with an uncaught `SdoAbortError` although nothing was lost, late or refused in it. With
    `SkipIdentity = TRUE` in `HostSession.cfg` TLC finds this in seconds; it is also what breaks `NoFalseAlarm`
    in its mutant `NoOpening`. A second try works, the transfer being closed by then.
  - The LSS slave answers a selection by serial number that comes in the
  configuration state although it has not compared the address (`LssAnswer`).
  - If the answer to the last segment is lost, the server is idle and aborts the repeated segment: the
    host reports a failure although the image is stored (`host_download` has this behaviour; it violates
    no property, since a failure promises nothing). A late answer with the toggle bit of the segment
    before ends the program too, although the transfer could go on.
  - After APPLY the host takes any read that fails for "the target left CANopen"
    (`write-firmware.py:775`), so its message is no proof of a restart; `SuccessApplied` says what is.
  - The host takes any "written" answer for the one to its own initiation. With three runs of the program,
    an answer that waits in the node's transmit queue for a whole run is taken that way; if the initiation
    was lost too, the first segment of the run before stays in the object. `SuccessStored` therefore holds
    for two runs (`host_download`) and not for three; the CRC that END checks finds such an image out.
  - The receive interrupt leaves `ident` of an extended or remote frame as the frame before set it
    (`boards.c:493`); the modules assume standard data frames.
  - `CO_CANmodule_init` reports success although the hardware was not initialised
    (`CO_driver_AT32.c:212`), and the error flags of the CAN module are not cleared when the bus
    recovers (`CO_driver_AT32.c:354`); nothing reads them, CO_CONFIG_EM being 0.
  - A server buffer of a multiple of 7 bytes would break long block uploads: it is sent to its end before
    the object is at its end, which the server takes for too little data. The compile-time check asks for
    900 bytes only; the builds have 1032 and 2048.
- Dead code: under the invariant, the branch of `ota_stage_write_chunk` that flushes a word at another
  address (`Stale`) is never taken.

## 6. What is not modelled

PROJECT.json lists every component with what is left out of it. In short: strings, the byte coding of
frames; the modules of CANopenNode that the configuration switches off; the vendor library but for the
flash operations; the installer, which this repository does not contain; of the host program the
detection by heartbeat, the serial line, and the reading of the status once more after the PLC's image
(`write-firmware.py:928`), after which nothing follows; chance collisions of CRCs; how long the main loop is held
up by an erase, and with it how many frames and timer ticks are lost in that time.

The source tree is mostly code this firmware does not run or does not own: the peripheral drivers and
CMSIS headers of the chip's vendor, register definitions, and CANopenNode modules (PDO, SYNC, TIME,
gateway, SRDO, trace, storage, LSS master) that `CO_driver_target.h` and `OD.h` exclude from the build.
They are more than four fifths of the lines. The modules here cover the code that is compiled and decides
something, so the share of all lines stays small, and models of uncompiled code would describe no
program anybody runs. The one exception is the SDO client's upload, as the counterpart the server's
upload was written for.

## 7. Plan

Done: the OTA object with its abstract specification and proofs; the SDO server with its proofs;
NMT slave, LSS slave with fastscan, and main loop with their proofs; the queues with their refinement
proofs; the host's download and whole sessions composed with the device, and uploads, with their proofs.

1. Proofs: the success of a session for a few runs of the program that are not `Patient`.
2. Block download with a client that resends after the acknowledged sequence number.
3. LSS fastscan with several slaves: at most one is selected.
4. `OD_find` and `OD_getSub` as a search over the dictionary's list.
