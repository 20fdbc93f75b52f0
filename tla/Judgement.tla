----------------------------- MODULE Judgement -----------------------------
(***************************************************************************)
(* The end of a simulation (examples/kv/main.cpp): the history the         *)
(* recorder has put together (module History) goes through LinCheck        *)
(* (module LinChecker).  The checker may also be given a history of        *)
(* another service, which need not be right.                               *)
(***************************************************************************)
EXTENDS History, LinChecker

CONSTANT Histories      \* of services of any kind

ASSUME HistoriesAssumption == Histories \subseteq Seq(Call)

vars == <<historyVars, searchVars>>

Init ==
  /\ RecorderInit
  /\ \/ Unused
     \/ history \in Histories /\ Begun

Record == pc = "idle" /\ RecorderNext /\ UNCHANGED searchVars

\* The world is stopped; nothing but the history is looked at again.
Judge ==
  /\ stopped
  /\ LinCheck(finalized_calls)
  /\ now' = 0 /\ next_id' = 0
  /\ running_calls' = {} /\ finalized_calls' = <<>>
  /\ requests' = {} /\ responses' = {}
  /\ store' = InitialState
  /\ UNCHANGED stopped

Search == SearchNext /\ UNCHANGED historyVars

Next == Record \/ Judge \/ Search

Spec == Init /\ [][Next]_vars
-----------------------------------------------------------------------------
(* Properties *)

\* The history of a service that does each request in one instant passes,
\* whatever calls fail, are refused, done too late to be answered or still
\* running at the end (HistoryChannel, HistoryRecorder::Finalize, LinCheck).
RightIsFoundRight == pc = "end" /\ stopped => found
=============================================================================
