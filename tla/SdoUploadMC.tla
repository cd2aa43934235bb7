----------------------------- MODULE SdoUploadMC -----------------------------
(* Values of the constants of SdoUpload for TLC: objects of one byte, of one  *)
(* segment, of full segments and of more than the buffer.  Bytes are counted, *)
(* so that no two positions look the same.                                    *)
EXTENDS SdoUpload

ObjectsOf == {[i \in 1 .. n |-> i] : n \in {1, 2, 4, 7, 8}}
=============================================================================
