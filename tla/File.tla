-------------------------------- MODULE File --------------------------------
(***************************************************************************)
(* fs/file.cpp: a byte string that grows at its end, is resized and is     *)
(* read from any offset.                                                   *)
(***************************************************************************)
EXTENDS Integers, Sequences

CONSTANT Zero     \* the byte a longer file is filled up with

Resized(bytes, n) == [i \in 1 .. n |-> IF i <= Len(bytes) THEN bytes[i] ELSE Zero]

PRead(bytes, offset, n) ==
  LET end == IF offset + n < Len(bytes) THEN offset + n ELSE Len(bytes)
  IN  SubSeq(bytes, offset + 1, end)
=============================================================================
