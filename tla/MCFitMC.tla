------------------------------- MODULE MCFitMC -------------------------------
(***************************************************************************)
(* FitMC for TLC, of processes that live and of processes that may die at  *)
(* any point, also in a sync, chosen at the start.                         *)
(***************************************************************************)
EXTENDS FitMC

CONSTANTS
  MaxDying,      \* bound: realizations asked of a process that may die
  DyingWorkers   \* bound: the threads of its pool

VARIABLE dies  \* whether the process may die

Bounded ==
  /\ asked <= MaxDying /\ firstId <= MaxDying
  /\ \A w \in Workers \ DyingWorkers : pc[w] = "idle"

MCInit == Init /\ dies \in BOOLEAN

MCNext ==
  /\ UNCHANGED dies
  /\ \/ Next
     \/ dies /\ (Crash \/ CrashInSync)
  /\ dies => Bounded'

MCSpec == MCInit /\ [][MCNext]_<<vars, dies>>
MCFairSpec == MCSpec /\ Fairness

-----------------------------------------------------------------------------

(* InOrder and Complete, of a catalog filled by one process.               *)
MCInOrder == ~ dies => InOrder
MCComplete == ~ dies => Complete

(* The multi-threaded run with keep_order, in a process that does not die, *)
(* cannot be told from a serial one.                                       *)
MCSerial == INSTANCE SerialRun WITH
              rows <- IF keepOrder /\ ~ dies THEN rows ELSE <<>>,
              running <- keepOrder /\ ~ dies /\ running # "no"
MCIsSerial == MCSerial!Spec
=============================================================================
