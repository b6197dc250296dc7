---------------------------- MODULE ParallelLoop ----------------------------
(***************************************************************************)
(* What a threaded loop promises its caller: once called on the indices    *)
(* i .. f-1 every one of them is evaluated exactly once, in any order, and *)
(* the call returns only when all of them have been.  This is all that     *)
(* NcmFitMC, NcmFitESMCMC, NcmABC and the cluster counts likelihood assume *)
(* of ncm_func_eval_threaded_loop_full.                                    *)
(***************************************************************************)
EXTENDS Naturals

CONSTANTS
  Loops,  \* the threads that may call a loop
  Last    \* the largest index of a loop

VARIABLES
  running,  \* the loops that were called and have not returned
  range,    \* the indices of each loop
  done,     \* those that have been evaluated
  evals     \* how many evaluations the current call of each loop has made

Init ==
  /\ running = {}
  /\ range = [l \in Loops |-> {}]
  /\ done = [l \in Loops |-> {}]
  /\ evals = [l \in Loops |-> 0]

Call(l) ==
  /\ l \notin running
  /\ running' = running \cup {l}
  /\ \E i, f \in 0..Last + 1 : i < f /\ range' = [range EXCEPT ![l] = i..f - 1]
  /\ done' = [done EXCEPT ![l] = {}]
  /\ evals' = [evals EXCEPT ![l] = 0]

(* Every evaluation is of an index that was not evaluated before: one more *)
(* evaluation without one more index is not a step of this specification.  *)
Eval(l) ==
  /\ l \in running
  /\ \E j \in range[l] \ done[l] : done' = [done EXCEPT ![l] = @ \cup {j}]
  /\ evals' = [evals EXCEPT ![l] = @ + 1]
  /\ UNCHANGED <<running, range>>

Return(l) ==
  /\ l \in running
  /\ done[l] = range[l]
  /\ running' = running \ {l}
  /\ UNCHANGED <<range, done, evals>>

Next == \E l \in Loops : Call(l) \/ Eval(l) \/ Return(l)

Spec == Init /\ [][Next]_<<running, range, done, evals>>
=============================================================================
