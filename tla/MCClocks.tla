------------------------------ MODULE MCClocks ------------------------------
(***************************************************************************)
(* A machine whose clock is one of the slowest, the fairly fast or the     *)
(* fastest ones, and an adversary.                                         *)
(***************************************************************************)
EXTENDS Clocks

CONSTANTS h1, a1

MCHost == {h1, a1}
MCAdversary == {a1}
MCDrifts == {-75, -50, 99, 299}
=============================================================================
