------------------------------ MODULE OtaAppMC ------------------------------
(***************************************************************************)
(* Small instances of OtaApp for TLC: words and pages of 2 bytes, two byte *)
(* values and a staging area of 3 pages.                                   *)
(***************************************************************************)
EXTENDS OtaApp

CONSTANTS Sent          \* values of the bytes the host sends

ByteSet  == Sent \cup {Blank}

\* Full and partial words, a word split over two calls, an empty last segment.
ChunkSet == {<<>>, <<0>>} \cup {<<0, x, 0>> : x \in Sent \ {0}}

\* "Any size", one that needs two of the pages, one that does not fit.
SizeSet  == {0, 3, StageSize + 1}

\* "Do not check", and the CRC of one image.
CrcSet   == {<<>>} \cup {<<0, x, 0>> : x \in Sent \ {0}}

\* Erased, or full of an older image.
OldFlash == {[a \in 0 .. StageSize - 1 |-> b] : b \in {Blank, 0}}
=============================================================================
