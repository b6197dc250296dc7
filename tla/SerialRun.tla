------------------------------ MODULE SerialRun ------------------------------
(***************************************************************************)
(* What a Monte Carlo run promises: a catalog that grows one realization   *)
(* at a time, in the order in which the realizations were drawn from the   *)
(* one random generator, with none left out.  The number of threads that   *)
(* computed them cannot be told from the catalog.                          *)
(***************************************************************************)
EXTENDS Naturals, Sequences

CONSTANT NData  \* draws of one realization: one per data set

VARIABLES
  rows,    \* the catalog: for each realization the draw it starts at
  running  \* a call of run is in progress

Init == rows = <<>> /\ running = FALSE

Run == ~ running /\ running' = TRUE /\ UNCHANGED rows

Realize ==
  /\ running
  /\ Len(rows') = Len(rows) + 1
  /\ SubSeq(rows', 1, Len(rows)) = rows
  /\ rows # <<>> => rows'[Len(rows')] = rows[Len(rows)] + NData
  /\ UNCHANGED running

Return == running /\ running' = FALSE /\ UNCHANGED rows

(* Between runs the catalog may be emptied or loaded from its file.        *)
Replace == ~ running /\ UNCHANGED running

(* The process may die during a run.                                       *)
Crash == rows' = <<>> /\ running' = FALSE

Next == Run \/ Realize \/ Return \/ Replace \/ Crash

Spec == Init /\ [][Next]_<<rows, running>>
=============================================================================
