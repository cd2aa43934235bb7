---------------------------- MODULE SdoServerMC ----------------------------
(***************************************************************************)
(* Small instances of SdoServer for TLC: a variable of one byte that is    *)
(* read and written, and a DOMAIN of at most 8 bytes; segments of 2 bytes, *)
(* sub-blocks of 2 segments, a buffer of 8 bytes.  A DOMAIN of 8 bytes     *)
(* fills the buffer more than once, so that it is written in several parts.*)
(***************************************************************************)
EXTENDS SdoServer

\* The objects: "word" has a known size, "image" has none.
SizeOf     == [o \in Object |-> IF o = "word" THEN 1 ELSE 0]
InitialOf  == [o \in Object |-> IF o = "word" THEN <<1>> ELSE <<>>]

\* The data clients send.  In a block transfer, where all segments are full,
\* neighbouring bytes differ.
Ones(n)  == [i \in 1 .. n |-> 1]
Bytes(n) == [i \in 1 .. n |-> i % 2]

\* Expedited and segmented transfers; 7 bytes are announced or none.
SegmentedFrames ==
       [cs : {"abort", "other"}]
  \cup [cs : {"upload"}, obj : {"word", "none"}]
  \cup [cs : {"expedited"}, obj : {"word"}, data : {<<1>>}, sized : BOOLEAN]
  \cup [cs : {"initSegmented"}, obj : {"image"}, sized : BOOLEAN, size : {7}]
  \cup [cs : {"segment"}, toggle : {0, 1}, data : {Ones(1), Ones(2)}, last : BOOLEAN]

\* Block downloads with and without CRC; 5 bytes are announced or none.
BlockFrames ==
       [cs : {"abort", "other"}]
  \cup [cs : {"initBlock"}, obj : {"word", "image"}, sized : {FALSE}, size : {0}, crc : BOOLEAN]
  \cup [cs : {"initBlock"}, obj : {"image"}, sized : {TRUE}, size : {5}, crc : {TRUE}]
  \cup [cs : {"block"}, seqno : 1 .. MaxBlock, data : {Bytes(2)}, last : BOOLEAN]
  \cup [cs : {"endBlock"}, noData : {0, 1}, crc : {Bytes(n) : n \in {3, 5, 7}}]
=============================================================================
