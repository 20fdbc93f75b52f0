---------------------------- MODULE MCJudgement ----------------------------
(***************************************************************************)
(* Two clients and three calls of one key, recorded by the simulator, and  *)
(* every history of up to MaxGiven calls in which a Set writes one value   *)
(* and a compare-and-set may replace it by the other.  Clients are alike,  *)
(* and so are values.                                                      *)
(***************************************************************************)
EXTENDS Judgement, TLC

CONSTANTS v1, v2, c1, c2, MaxGiven, LastMoment

MCVal == {v1, v2}
MCClient == {c1, c2}
Alike == Permutations(MCVal) \cup Permutations(MCClient)

Ops ==
  {op \in Operation : /\ op.method = "Set" => op.value = v1
                      /\ op.method = "Cas" => op.expected = v1 /\ op.value = v2}

Moments == 1 .. LastMoment

CompletedCalls ==
  {call \in [op : Ops, result : Val \cup {Default, Unit},
             start_time : Moments, end_time : Moments] :
     /\ call.start_time <= call.end_time
     /\ call.result = Unit <=> call.op.method = "Set"}

LostCalls == [op : Ops, result : {None}, start_time : Moments, end_time : {None}]

\* The recorder appends completed calls when they end.
InOrderOfEnds(h) ==
  \A i, j \in DOMAIN h :
    i < j /\ IsCompleted(h[i]) /\ IsCompleted(h[j]) => h[i].end_time <= h[j].end_time

MCHistories ==
  {h \in UNION {[1 .. n -> CompletedCalls \cup LostCalls] : n \in 0 .. MaxGiven} :
     InOrderOfEnds(h)}
=============================================================================
