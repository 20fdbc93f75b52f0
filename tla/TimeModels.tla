----------------------------- MODULE TimeModels -----------------------------
(***************************************************************************)
(* time_model/catalog: what the time models answer when a clock asks.  The *)
(* crazy model draws from GlobalRandomNumber(lo, hi), which leaves hi out. *)
(***************************************************************************)
EXTENDS Integers

CrazyStartTime == 1 .. 199

CrazyClockDrift == (200 .. 299) \cup (75 .. 99) \cup (-75 .. -50)

CrazyMonotonicStart == 1 .. 99

CrazyWallClockOffset == 0 .. 999

CrazyUncertainty == (300 .. 999) \cup (5 .. 49)

\* The hosts of adversaries, told by their names, keep the world's time.
AdversaryClockDrift == {0}

AdversaryMonotonicStart == {0}

AdversaryWallClockOffset == {0}

AdversaryUncertainty == {1}
=============================================================================
