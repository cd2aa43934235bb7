------------------------------ MODULE FwUpdate ------------------------------
(***************************************************************************)
(* What the firmware-update object of the bootloader promises to its host, *)
(* without the flash, the word cache, the SDO stream or the timer:         *)
(*                                                                         *)
(*   - an image is what the host sent since the last START, in order;      *)
(*   - only an image that was received to its end and accepted can be      *)
(*     armed for installation, and from then on it can only be installed   *)
(*     or dropped, never changed;                                          *)
(*   - what is installed is exactly the image that was accepted.           *)
(*                                                                         *)
(* OtaApp implements this specification (OtaApp!Promise).                  *)
(***************************************************************************)
EXTENDS Naturals, Sequences

CONSTANTS
  Byte,       \* the values a byte of an image can have
  NoImage     \* nothing was installed yet

VARIABLES
  phase,      \* "idle", "receiving", "ready" or "failed"
  image,      \* the bytes received since START
  armed,      \* an installation was requested and is due
  installed   \* the image handed to the installer since the last START or ABORT

vars == <<phase, image, armed, installed>>

Phases == {"idle", "receiving", "ready", "failed"}

TypeOK ==
  /\ phase \in Phases
  /\ image \in Seq(Byte)
  /\ armed \in BOOLEAN
  /\ installed \in Seq(Byte) \cup {NoImage}

Init ==
  /\ phase = "idle"
  /\ image = <<>>
  /\ armed = FALSE
  /\ installed = NoImage

\* START: a new, empty image; an installation still due is called off.
Begin ==
  /\ phase' = "receiving"
  /\ image' = <<>>
  /\ armed' = FALSE
  /\ installed' = NoImage

\* A piece of the image arrives and is appended.
Receive ==
  /\ phase = "receiving"
  /\ Len(image') >= Len(image)
  /\ SubSeq(image', 1, Len(image)) = image
  /\ UNCHANGED <<phase, armed, installed>>

\* The host opens the transfer again before it has sent anything new.
Rewind ==
  /\ phase = "receiving"
  /\ image' = <<>>
  /\ UNCHANGED <<phase, armed, installed>>

\* END: the image is complete and verified.
Accept ==
  /\ phase = "receiving"
  /\ phase' = "ready"
  /\ UNCHANGED <<image, armed, installed>>

\* An error: an image in reception is lost. One that is armed stays as it is.
Fail ==
  /\ phase' = "failed"
  /\ phase # "receiving" => image' = image
  /\ UNCHANGED <<armed, installed>>

\* APPLY: the accepted image, which is not empty, will be installed.
Arm ==
  /\ phase = "ready"
  /\ image # <<>>
  /\ armed' = TRUE
  /\ UNCHANGED <<phase, image, installed>>

\* The installer is called with the image that was accepted.
Install ==
  /\ armed
  /\ installed' = image
  /\ armed' = FALSE
  /\ UNCHANGED <<phase, image>>

\* ABORT, a restart of the device, or a START that cannot be carried out.
Cancel ==
  /\ phase' \in {"idle", "failed"}
  /\ image' = <<>>
  /\ armed' = FALSE
  /\ installed' = NoImage

Next ==
  \/ Begin
  \/ Receive
  \/ Rewind
  \/ Accept
  \/ Fail
  \/ Arm
  \/ Install
  \/ Cancel

Spec == Init /\ [][Next]_vars
=============================================================================
