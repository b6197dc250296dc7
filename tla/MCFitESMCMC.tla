---------------------------- MODULE MCFitESMCMC ----------------------------
(***************************************************************************)
(* FitESMCMC for TLC.  A position is a number whose digits in base 16 are  *)
(* the block it was computed from, the block its partner was computed      *)
(* from, and so on, so that positions computed from different ones differ. *)
(* 14 and 15 are points of the program.                                    *)
(*                                                                         *)
(* Whether the process may die is chosen at the start: never, at any point *)
(* of a short run, which may start from points of the program, or at any   *)
(* point of a longer one, which has none.                                  *)
(***************************************************************************)
EXTENDS FitESMCMC

CONSTANTS
  MaxShort,  \* bound: ensembles of a short run that may die
  MaxLong    \* bound: ensembles of a longer one

VARIABLE dies

MCPosition == Nat \ {0}
MCBlank == 0
MCOwn == {14, 15}
MCBlocks == 1..13

MCPartner(b, k) == IF k < Half THEN Half + ((b + k) % Half) ELSE (b + (k \div 2)) % Half
MCAccepts(b, k, own, partner) == ((b * b) + k + partner) % 3 # 0
MCMove(b, k, own, partner) == b + (16 * partner)
MCPrior(b) == b
MCDrawnFrom(p) == IF p \in MCOwn THEN 0 ELSE p % 16

-----------------------------------------------------------------------------

(* Processes that die have one thread, and no point of the program but 15. *)
Bounded ==
  LET own == {rows[i] : i \in 1..Len(rows)} \cap MCOwn
      ensembles == left + (curSampleId + 1) \div NWalkers
  IN  /\ nthreads = 1
      /\ own \subseteq IF dies = "short" THEN {15} ELSE {}
      /\ ensembles <= IF dies = "short" THEN MaxShort ELSE MaxLong

MCInit == Init /\ dies \in {"never", "short", "long"} /\ (dies # "never" => nthreads = 1)

MCNext ==
  /\ UNCHANGED dies
  /\ \/ Next
     \/ dies # "never" /\ (Crash \/ CrashInSync)
  /\ dies # "never" => Bounded'

MCSpec == MCInit /\ [][MCNext]_<<vars, dies>> /\ Fairness
=============================================================================
