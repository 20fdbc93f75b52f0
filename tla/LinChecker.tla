----------------------------- MODULE LinChecker -----------------------------
(***************************************************************************)
(* semantics/checker: the search that decides whether a history is         *)
(* linearizable, at the end of a simulation.  It tries the calls nobody    *)
(* else precedes one after the other, on one array: the first count_ of    *)
(* calls_ are those still to be placed, StepInto swaps the chosen one      *)
(* behind them and swaps it back when the search returns.  The recursion   *)
(* of Search is the stack here, its place in the code the variable pc.     *)
(***************************************************************************)
EXTENDS Semantics

CONSTANT
  TimeLimit     \* kTimeLimit

ASSUME CheckerAssumption == TimeLimit \in Nat

VARIABLES
  history,      \* the argument of LinCheck
  calls,        \* calls_
  count,        \* count_
  linear,       \* linear_
  time,         \* time_
  stack,        \* the calls of Search: their state, the index i and where they wait
  pc,           \* "idle", "search", "loop", "apply", "next", "return" and "end"
  found         \* what the Search that has ended returns

searchVars == <<history, calls, count, linear, time, stack, pc, found>>

Entered(state) == [state |-> state, i |-> 1, waits |-> "next"]

Unused ==
  /\ history = <<>> /\ calls = <<>> /\ linear = <<>> /\ stack = <<>>
  /\ count = 0 /\ time = 0
  /\ pc = "idle"
  /\ found = FALSE

\* The search of a history begins.
Begun ==
  /\ calls = Cleanup(history)
  /\ count = Len(calls) /\ linear = <<>>
  /\ time = 0
  /\ stack = <<Entered(InitialState)>>
  /\ pc = "search"
  /\ found = FALSE

\* LinCheck, of a history of one key
LinCheck(recorded) ==
  /\ pc = "idle"
  /\ history' = recorded
  /\ calls' = Cleanup(recorded)
  /\ count' = Len(calls')
  /\ stack' = <<Entered(InitialState)>>
  /\ pc' = "search"
  /\ UNCHANGED <<linear, time, found>>

Top == stack[Len(stack)]

WithTop(frame) == [stack EXCEPT ![Len(stack)] = frame]

Swapped(i, j) == [calls EXCEPT ![i] = calls[j], ![j] = calls[i]]

\* Search begins.
Enter ==
  /\ pc = "search"
  /\ time' = time + 1
  /\ IF time + 1 > TimeLimit \/ count = 0
       THEN pc' = "return" /\ found' = TRUE
       ELSE pc' = "loop" /\ UNCHANGED found
  /\ UNCHANGED <<history, calls, count, linear, stack>>

StepInto(i, state, waits) ==
  /\ linear' = Append(linear, calls[i])
  /\ calls' = Swapped(i, count)
  /\ count' = count - 1
  /\ stack' = Append(WithTop([Top EXCEPT !.waits = waits]), Entered(state))
  /\ pc' = "search"
  /\ UNCHANGED <<history, time, found>>

\* Slip: only the call before is looked at.
CandidateNextTo(i) ==
  \A j \in 1 .. count : j = i - 1 => ~ PrecedesInRealTime(calls[j], calls[i])

Candidate(i) == \A j \in 1 .. count : ~ PrecedesInRealTime(calls[j], calls[i])

NextCall ==
  /\ stack' = WithTop([Top EXCEPT !.i = @ + 1])
  /\ pc' = "loop"
  /\ UNCHANGED <<history, calls, count, linear, time, found>>

\* A call without an end may never have happened.
Ignore ==
  /\ pc = "loop" /\ Top.i <= count
  /\ Candidate(Top.i) /\ ~ IsCompleted(calls[Top.i])
  /\ StepInto(Top.i, Top.state, "apply")

PassOver ==
  /\ pc = "loop" /\ Top.i <= count
  /\ ~ Candidate(Top.i)
  /\ NextCall

Fits(i) ==
  ~ IsCompleted(calls[i]) \/ Output(Top.state, calls[i].op) = calls[i].result

\* Model::Apply, at once or after Ignore has found nothing.
AtApply ==
  \/ pc = "loop" /\ Top.i <= count /\ Candidate(Top.i) /\ IsCompleted(calls[Top.i])
  \/ pc = "apply"

Fit ==
  /\ AtApply
  /\ IF Fits(Top.i)
       THEN StepInto(Top.i, NextState(Top.state, calls[Top.i].op), "next")
       ELSE NextCall

NoneLeft ==
  /\ pc = "loop" /\ Top.i > count
  /\ pc' = "return" /\ found' = FALSE
  /\ UNCHANGED <<history, calls, count, linear, time, stack>>

Caller == stack[Len(stack) - 1]

\* Slip: the swap is not undone.
UnwindKeepingOrder ==
  /\ pc = "return" /\ Len(stack) > 1
  /\ count' = count + 1
  /\ linear' = SubSeq(linear, 1, Len(linear) - 1)
  /\ pc' = IF found THEN "return" ELSE Caller.waits
  /\ stack' = SubSeq(stack, 1, Len(stack) - 1)
  /\ UNCHANGED <<history, calls, time, found>>

\* Search returns to the StepInto of its caller.
Unwind ==
  /\ pc = "return" /\ Len(stack) > 1
  /\ count' = count + 1
  /\ calls' = Swapped(Caller.i, count + 1)
  /\ linear' = SubSeq(linear, 1, Len(linear) - 1)
  /\ pc' = IF found THEN "return" ELSE Caller.waits
  /\ stack' = SubSeq(stack, 1, Len(stack) - 1)
  /\ UNCHANGED <<history, time, found>>

\* ++i of the loop, after an execution that led nowhere.
Continue == pc = "next" /\ NextCall

End ==
  /\ pc = "return" /\ Len(stack) = 1
  /\ pc' = "end"
  /\ UNCHANGED <<history, calls, count, linear, time, stack, found>>

SearchNext ==
  \/ Enter \/ Ignore \/ PassOver \/ Fit \/ NoneLeft \/ Unwind \/ Continue
  \/ End
-----------------------------------------------------------------------------
(* Properties *)

\* LinCheck refuses only histories that are not linearizable, whatever limit
\* the search has.
RefusedIsNotLinearizable ==
  pc = "end" /\ ~ found => ~ Linearizable(history)

\* A history it accepts within its limit is linearizable.
AcceptedIsLinearizable ==
  pc = "end" /\ found /\ time <= TimeLimit => Linearizable(history)

\* The calls placed so far do not contradict real time: none is placed before
\* one that was over when it began.
PlacedInOrder ==
  /\ \A k, m \in DOMAIN linear : k < m => ~ PrecedesInRealTime(linear[m], linear[k])
  /\ \A k \in DOMAIN linear : \A i \in 1 .. count : ~ PrecedesInRealTime(calls[i], linear[k])
=============================================================================
