------------------------------ MODULE MCMemory ------------------------------
(***************************************************************************)
(* An arena of three pages; blocks of one and two units are used again,    *)
(* blocks of four are not.                                                 *)
(***************************************************************************)
EXTENDS Memory

MCSizeClass == {1, 2}
MCLargeSize == {4}
=============================================================================
