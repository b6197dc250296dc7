----------------------------- MODULE EnsembleRun -----------------------------
(***************************************************************************)
(* What an ensemble sampler run promises: the catalog grows one ensemble   *)
(* at a time.  The walkers of the lower half move first, all at once, each *)
(* against a walker of the upper half; then those of the upper half move,  *)
(* each against the new position of a walker of the lower half.  Every     *)
(* ensemble is computed from one block of draws of its own.  How many      *)
(* threads moved the walkers, and in which order, cannot be told.          *)
(***************************************************************************)
EXTENDS Integers, Sequences

CONSTANTS
  Half,              \* walkers of one half of the ensemble
  Partner(_, _),     \* the walker that block b gives walker k
  Stepped(_, _, _, _)  \* where block b leaves walker k, from its position and its partner's

VARIABLES
  rows,   \* the catalog
  theta,  \* the positions of the walkers
  from,   \* the first walker that moves in the next ensemble
  block,  \* the last block drawn
  left    \* ensembles the run has still to add

vars == <<rows, theta, from, block, left>>

NWalkers == 2 * Half
Walkers == 0..NWalkers - 1
Lower == 0..Half - 1
Upper == Half..NWalkers - 1

(* All the walkers of one half from the walker i on move at once.          *)
MoveHalf(half, pos, i, b) ==
  [k \in Walkers |-> IF k \in half /\ k >= i
                     THEN Stepped(b, k, pos[k], pos[Partner(b, k)])
                     ELSE pos[k]]

Moved(pos, i, b) == MoveHalf(Upper, MoveHalf(Lower, pos, i, b), i, b)

(* The rows that an ensemble adds, from the walker i on.                   *)
NewRows(pos, i) == [n \in 1..NWalkers - i |-> pos[i + n - 1]]

(* The catalog may be replaced between runs, or cut.                       *)
Replace == left = 0 /\ left' = 0

Run ==
  /\ left = 0 /\ left' \in Nat \ {0}
  /\ from' \in Walkers
  /\ UNCHANGED <<rows, theta, block>>

Ensemble ==
  /\ left > 0 /\ left' = left - 1
  /\ block' = block + 1
  /\ theta' = Moved(theta, from, block')
  /\ rows' = rows \o NewRows(theta', from)
  /\ from' = 0

(* The process may die during a run.                                       *)
Die == left > 0 /\ left' = 0 /\ rows' = <<>>

Init == left = 0

Next == Replace \/ Run \/ Ensemble \/ Die

Spec == Init /\ [][Next]_vars
=============================================================================
