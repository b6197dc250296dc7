------------------------------ MODULE FitESMCMC ------------------------------
(***************************************************************************)
(* NcmFitESMCMC (numcosmo/math/ncm_fit_esmcmc.c) with a walker such as     *)
(* NcmFitESMCMCWalkerStretch: an ensemble of walkers whose positions make  *)
(* the rows of the catalog, one row of each walker per ensemble.  The main *)
(* thread draws what an ensemble needs, then each half of the walkers      *)
(* moves in a threaded loop, each walker against one of the other half.    *)
(*                                                                         *)
(* A position is whatever Prior and Move make of the draws it was computed *)
(* from.  A block is the draws of one ensemble, or of one point of the     *)
(* prior sample, and the state of the generator the number of blocks       *)
(* drawn: every process uses one seed.                                     *)
(*                                                                         *)
(* The catalog keeps its rows in memory and in a file (MSetCatalog); here  *)
(* a file is what a process finds in it when it opens it.  A process may   *)
(* die at any time, also in the middle of a sync.                          *)
(***************************************************************************)
EXTENDS Integers, Sequences, FiniteSets

CONSTANTS
  Half,               \* walkers of one half of the ensemble
  Threads,            \* values of nthreads the program may choose
  PoolSize,           \* threads of the pool
  Position,           \* values of the parameters, with their likelihood
  Own,                \* positions the program itself may put in the catalog
  Blank,              \* a row that was inserted in the file and not written
  None,               \* no state of the generator
  Blocks,             \* bound: the blocks a generator can draw
  Partner(_, _),      \* walker_setup: the walker that block b gives walker k
  Accepts(_, _, _, _),  \* block b moves walker k, given its position and its partner's
  Move(_, _, _, _),   \* where it moves to
  Prior(_),           \* the point of the prior drawn as block b
  DrawnFrom(_),       \* the block a position was computed from, 0 for one of Own
  MaxEnsembles,       \* bound: ensembles of a run
  MaxOwn,             \* bound: rows in a catalog the program adds rows to
  MaxRng              \* bound: blocks drawn before a point is drawn again

NWalkers == 2 * Half
Walkers == 0..NWalkers - 1
Lower == 0..Half - 1
Upper == Half..NWalkers - 1

ASSUME HalfAssumption == Half \in Nat \ {0}
ASSUME ThreadsAssumption == Threads \subseteq Nat /\ PoolSize \in Nat \ {0}
ASSUME BlankAssumption == Blank \notin Position /\ Own \subseteq Position
ASSUME NoneAssumption == None \notin Nat
ASSUME PartnerAssumption ==
  \A b \in Blocks : \A k \in Walkers : Partner(b, k) \in IF k \in Lower THEN Upper ELSE Lower
ASSUME BoundsAssumption == MaxEnsembles \in Nat /\ MaxOwn \in Nat /\ MaxRng \in Nat

VARIABLES
  nthreads,     \* nthreads
  started,      \* started
  curSampleId,  \* cur_sample_id
  left,         \* ensembles the current call of run has still to add
  phase,        \* where the main thread is
  ki,           \* the first walker of the ensemble being computed
  todo,         \* walkers of the current loop not yet taken
  busy,         \* walkers a thread is computing
  theta,        \* theta: the positions of the walkers
  star,         \* thetastar: where a walker may move to, and whether it does
  accepted,     \* accepted: flags not yet counted
  naccepted,    \* naccepted
  ntotal,       \* ntotal
  fromCat,      \* read_from_cat of start_run
  rng,          \* the generator: blocks drawn
  firstId,      \* first_id of the catalog
  rows,         \* rows of the catalog
  attached,     \* the catalog has a file
  saved,        \* what the file holds
  base,         \* history: the positions the ensemble started from
  torn,         \* history: the positions in rows of the file that a sync wrote and
                \* then died, before it wrote the generator
  moved         \* history: walkers that moved since the last start_run

confVars == <<nthreads>>
runVars == <<started, curSampleId, left, phase, ki>>
loopVars == <<todo, busy, star>>
countVars == <<accepted, naccepted, ntotal, moved>>
histVars == <<base, torn>>
catVars == <<firstId, rows, attached, saved>>

vars == <<confVars, runVars, loopVars, theta, countVars, fromCat, rng, catVars, histVars>>

Row == Position \cup {Blank}

Phase ==
  { "idle",      \* outside the calls
    "points",    \* start_run: _ncm_fit_esmcmc_gen_init_points
    "synced",    \* start_run: before the sync of the initial points
    "check",     \* start_run: validates the last ensemble
    "again",     \* start_run: calls itself
    "setup",     \* run: before an ensemble
    "lower",     \* run: the loop over the first half
    "upper",     \* run: the loop over the second half, or what is left of it
    "sync" }     \* run: ncm_mset_catalog_timed_sync

FileType == [rows : Seq(Row), first : Nat, stat : Nat \cup {None}]
NoFile == [rows |-> <<>>, first |-> 0, stat |-> None]

TypeOK ==
  /\ nthreads \in Threads
  /\ started \in BOOLEAN
  /\ curSampleId \in Int
  /\ left \in Nat
  /\ phase \in Phase
  /\ ki \in Walkers
  /\ todo \subseteq Walkers
  /\ busy \subseteq Walkers
  /\ theta \in [Walkers -> Row]
  /\ star \in [Walkers -> [moves : BOOLEAN, to : Row]]
  /\ accepted \in [Walkers -> BOOLEAN]
  /\ naccepted \in Nat
  /\ ntotal \in Nat
  /\ fromCat \in BOOLEAN
  /\ rng \in Nat
  /\ firstId \in Nat
  /\ rows \in Seq(Row)
  /\ attached \in BOOLEAN
  /\ saved \in FileType
  /\ base \in [Walkers -> Row]
  /\ torn \subseteq Row
  /\ moved \in Nat

AllBlank == [k \in Walkers |-> Blank]
NoneAccepted == [k \in Walkers |-> FALSE]
Stay == [moves |-> FALSE, to |-> Blank]
AllStay == [k \in Walkers |-> Stay]

(* What the program starts with: ncm_fit_esmcmc_new, set_nthreads, a new   *)
(* generator and no file.                                                  *)
StartOfProcess ==
  /\ nthreads \in Threads
  /\ started = FALSE /\ curSampleId = -1 /\ left = 0 /\ phase = "idle" /\ ki = 0
  /\ todo = {} /\ busy = {} /\ theta = AllBlank /\ star = AllStay
  /\ accepted = NoneAccepted /\ naccepted = 0 /\ ntotal = 0 /\ moved = 0
  /\ fromCat = FALSE /\ rng = 0
  /\ firstId = 0 /\ rows = <<>> /\ attached = FALSE /\ base = AllBlank

Init == StartOfProcess /\ saved = NoFile /\ torn = {}

-----------------------------------------------------------------------------
(* The catalog                                                             *)

CurId == firstId + Len(rows) - 1  \* cur_id of the catalog

(* Mutant of Saved: the state of the generator is written once.            *)
SavedOldState ==
  IF attached /\ Len(rows) > Len(saved.rows)
  THEN [rows |-> rows, first |-> firstId, stat |-> IF saved.stat = None THEN rng ELSE saved.stat]
  ELSE saved

(* ncm_mset_catalog_sync when memory has rows the file has not.            *)
Saved ==
  IF attached /\ Len(rows) > Len(saved.rows)
  THEN [rows |-> rows, first |-> firstId, stat |-> rng]
  ELSE saved

(* The same sync cut short: it inserts the rows, writes them in order, and *)
(* the state of the generator after them.                                  *)
Torn(written) ==
  [rows |-> [i \in 1..Len(rows) |-> IF i <= written THEN rows[i] ELSE Blank],
   first |-> firstId, stat |-> saved.stat]

(* The row that a walker was given last.                                   *)
LastRowOf(k) ==
  rows[CHOOSE i \in 1..Len(rows) : (firstId + i - 1) % NWalkers = k /\ i > Len(rows) - NWalkers]

-----------------------------------------------------------------------------
(* The program, between runs                                               *)

(* ncm_fit_esmcmc_set_data_file: the rows in memory are written to an      *)
(* empty file, or those of the file loaded in an empty catalog with the    *)
(* generator.  A file with rows and no state of the generator is an error. *)
(* The library also joins a file with rows and a catalog with rows, see    *)
(* MSetCatalog; the callers (tools/darkenergy.c:955, the examples) name a  *)
(* file that may have rows while the catalog has none.                     *)
SetDataFile ==
  /\ phase = "idle" /\ ~ attached
  /\ attached' = TRUE
  /\ \/ /\ saved.rows = <<>>
        /\ saved' = [rows |-> rows, first |-> firstId, stat |-> IF rows = <<>> THEN saved.stat ELSE rng]
        /\ started => curSampleId = CurId
        /\ UNCHANGED <<rows, firstId, rng>>
     \/ /\ rows = <<>> /\ saved.rows # <<>> /\ saved.stat # None
        /\ rows' = saved.rows /\ firstId' = saved.first /\ rng' = saved.stat
        /\ ~ started
        /\ UNCHANGED saved
  /\ UNCHANGED <<confVars, runVars, loopVars, theta, countVars, fromCat, histVars>>

(* The program adds a row of its own, to a catalog that has no other, to   *)
(* start from points it knows.  The catalog syncs it unless start_run left *)
(* its sync mode at something else than SYNC_AUTO.                         *)
AddRow ==
  /\ phase = "idle" /\ ~ started
  /\ curSampleId = -1 /\ Len(rows) < MaxOwn
  /\ \A i \in 1..Len(rows) : rows[i] \in Own
  /\ \E p \in Own : rows' = Append(rows, p)
  /\ \/ attached /\ saved' = [rows |-> rows', first |-> firstId, stat |-> rng]
     \/ UNCHANGED saved
  /\ UNCHANGED <<confVars, runVars, loopVars, theta, countVars, fromCat, rng, firstId, attached>>
  /\ UNCHANGED histVars

(* Mutant of Load: the walkers of an ensemble that is not complete are     *)
(* loaded as if it were.                                                   *)
LoadLastRows == [k \in Walkers |-> rows[Len(rows) - NWalkers + k + 1]]

(* The walkers of the ensemble being filled that have a row already, and   *)
(* the others as the ensemble before left them.                            *)
Load ==
  LET t == (CurId + 1) \div NWalkers
      i == (CurId + 1) % NWalkers
  IN  [k \in Walkers |-> rows[NWalkers * (IF k < i THEN t ELSE t - 1) + k - firstId + 1]]

(* ncm_fit_esmcmc_start_run, which calls itself after it has removed an    *)
(* ensemble that is not valid.  With less than one ensemble the rest of    *)
(* the walkers get points of the prior.                                    *)
StartRun ==
  /\ (phase = "idle" /\ ~ started) \/ phase = "again"
  /\ CurId >= curSampleId
  /\ started' = TRUE
  /\ saved' = Saved
  /\ naccepted' = 0 /\ ntotal' = 0 /\ moved' = 0
  /\ curSampleId' = CurId
  /\ \/ /\ CurId + 1 < NWalkers /\ firstId = 0
        /\ theta' = [k \in Walkers |-> IF k < Len(rows) THEN rows[k + 1] ELSE theta[k]]
        /\ fromCat' = (rows # <<>>)
        /\ todo' = Len(rows)..NWalkers - 1
        /\ phase' = "points"
     \/ /\ CurId + 1 >= NWalkers
        /\ Len(rows) >= NWalkers
        /\ theta' = Load
        /\ fromCat' = TRUE
        /\ phase' = "check"
        /\ UNCHANGED todo
  /\ UNCHANGED <<confVars, left, ki, busy, star, accepted, rng, firstId, rows, attached, histVars>>

(* One thread after the other draws a point under resample_lock, again     *)
(* when its likelihood is not finite.  One thread takes the walkers in     *)
(* order.                                                                  *)
InOrder(k) == nthreads <= 1 => \A j \in todo : k <= j

DrawPoint(k) ==
  /\ phase = "points"
  /\ k \in todo /\ InOrder(k)
  /\ rng' = rng + 1 /\ rng' \in Blocks
  /\ \/ /\ theta' = [theta EXCEPT ![k] = Prior(rng')]
        /\ accepted' = [accepted EXCEPT ![k] = TRUE]
        /\ todo' = todo \ {k}
     \/ rng < MaxRng /\ UNCHANGED <<theta, accepted, todo>>
  /\ UNCHANGED <<confVars, runVars, busy, star, naccepted, ntotal, moved, fromCat, catVars, histVars>>

(* _ncm_fit_esmcmc_update of the walkers from i on.                        *)
NewRows(i) == [n \in 1..NWalkers - i |-> theta[i + n - 1]]

PointsDone ==
  /\ phase = "points" /\ todo = {}
  /\ rows' = rows \o NewRows(curSampleId + 1)
  /\ curSampleId' = NWalkers - 1
  /\ accepted' = [k \in Walkers |-> accepted[k] /\ k <= curSampleId]
  /\ phase' = "synced"
  /\ UNCHANGED <<confVars, started, left, ki, loopVars, theta, naccepted, ntotal, moved, fromCat>>
  /\ UNCHANGED <<rng, firstId, attached, saved, histVars>>

SyncPoints ==
  /\ phase = "synced"
  /\ saved' = Saved
  /\ phase' = IF fromCat THEN "check" ELSE "idle"
  /\ UNCHANGED <<confVars, started, curSampleId, left, ki, loopVars, theta, countVars, fromCat>>
  /\ UNCHANGED <<rng, firstId, rows, attached, histVars>>

LastRows == {rows[i] : i \in Len(rows) - NWalkers + 1..Len(rows)}

(* Mutant of Validate: one row stands for the ensemble.                    *)
ValidateFirst ==
  /\ phase = "check"
  /\ rows[Len(rows) - NWalkers + 1] # Blank
  /\ accepted' = [accepted EXCEPT ![0] = TRUE]
  /\ phase' = "idle"
  /\ UNCHANGED <<confVars, started, curSampleId, left, ki, loopVars, theta, naccepted, ntotal, moved>>
  /\ UNCHANGED <<fromCat, rng, catVars, histVars>>

(* ncm_fit_esmcmc_validate, which answers through the flag of walker 0.    *)
Validate ==
  /\ phase = "check"
  /\ Blank \notin LastRows
  /\ accepted' = [accepted EXCEPT ![0] = TRUE]
  /\ phase' = "idle"
  /\ UNCHANGED <<confVars, started, curSampleId, left, ki, loopVars, theta, naccepted, ntotal, moved>>
  /\ UNCHANGED <<fromCat, rng, catVars, histVars>>

(* ncm_mset_catalog_remove_last_ensemble writes a new file.                *)
RemoveLastEnsemble ==
  LET rest == Len(rows) % NWalkers
      kept == Len(rows) - (IF rest = 0 THEN NWalkers ELSE rest)
  IN  /\ rows' = SubSeq(rows, 1, kept)
      /\ saved' = [rows |-> rows', first |-> firstId, stat |-> IF kept = 0 THEN None ELSE rng]

Retry ==
  /\ phase = "check" /\ attached
  /\ Blank \in LastRows
  /\ accepted' = [accepted EXCEPT ![0] = FALSE]
  /\ RemoveLastEnsemble
  /\ curSampleId' = curSampleId - NWalkers
  /\ started' = FALSE
  /\ phase' = "again"
  /\ torn' = torn \cap {rows'[i] : i \in 1..Len(rows')}
  /\ UNCHANGED <<confVars, left, ki, loopVars, theta, naccepted, ntotal, moved>>
  /\ UNCHANGED <<fromCat, rng, firstId, attached, base>>

(* ncm_fit_esmcmc_run up to the first ensemble, of which only the walkers  *)
(* from ki on move.                                                        *)
Run(n) ==
  /\ phase = "idle" /\ started
  /\ n > (curSampleId + 1) \div NWalkers
  /\ left' = n - (curSampleId + 1) \div NWalkers
  /\ ki' = (curSampleId + 1) % NWalkers
  /\ phase' = "setup"
  /\ UNCHANGED <<confVars, started, curSampleId, loopVars, theta, countVars, fromCat, rng>>
  /\ UNCHANGED <<catVars, histVars>>

(* ncm_fit_esmcmc_run_lre trims the catalog between two calls of run.      *)
Trim(tc) ==
  /\ phase = "idle" /\ started /\ attached
  /\ Len(rows) >= (tc + 1) * NWalkers
  /\ firstId' = firstId + tc * NWalkers
  /\ rows' = SubSeq(rows, tc * NWalkers + 1, Len(rows))
  /\ saved' = [rows |-> rows', first |-> firstId', stat |-> rng]
  /\ UNCHANGED <<confVars, runVars, loopVars, theta, countVars, fromCat, rng, attached, histVars>>

EndRun ==
  /\ phase = "idle" /\ started
  /\ started' = FALSE
  /\ saved' = Saved
  /\ UNCHANGED <<confVars, curSampleId, left, phase, ki, loopVars, theta, countVars, fromCat, rng>>
  /\ UNCHANGED <<firstId, rows, attached, histVars>>

(* ncm_fit_esmcmc_reset: the rows go from memory and from the file, which  *)
(* is closed; neither first_id nor the generator is set back.              *)
Reset ==
  /\ phase = "idle" /\ rng <= MaxRng
  /\ curSampleId' = -1 /\ started' = FALSE
  /\ naccepted' = 0 /\ ntotal' = 0 /\ moved' = 0
  /\ rows' = <<>>
  /\ saved' = IF attached THEN [saved EXCEPT !.rows = <<>>] ELSE saved
  /\ attached' = FALSE
  /\ torn' = IF attached THEN {} ELSE torn
  /\ UNCHANGED <<confVars, left, phase, ki, loopVars, theta, accepted, fromCat, rng, firstId, base>>

-----------------------------------------------------------------------------
(* An ensemble: _ncm_fit_esmcmc_run                                        *)

(* Mutant of Setup: one loop moves both halves.                            *)
SetupOneLoop ==
  /\ phase = "setup"
  /\ rng' = rng + 1 /\ rng' \in Blocks
  /\ base' = theta
  /\ todo' = ki..NWalkers - 1
  /\ phase' = "upper"
  /\ UNCHANGED <<confVars, started, curSampleId, left, ki, busy, star, theta, countVars, fromCat>>
  /\ UNCHANGED <<catVars, torn>>

(* The main thread draws the jumps and, in walker_setup, the partners of   *)
(* the walkers, and starts the first loop.                                 *)
Setup ==
  /\ phase = "setup"
  /\ rng' = rng + 1 /\ rng' \in Blocks
  /\ base' = theta
  /\ IF ki < Half THEN todo' = ki..Half - 1 /\ phase' = "lower"
                  ELSE todo' = ki..NWalkers - 1 /\ phase' = "upper"
  /\ UNCHANGED <<confVars, started, curSampleId, left, ki, busy, star, theta, countVars, fromCat>>
  /\ UNCHANGED <<catVars, torn>>

Free == Cardinality(busy) < (IF nthreads <= 1 THEN 1 ELSE PoolSize)

(* A thread takes a walker and computes where it goes: walker_step reads   *)
(* the positions of the walker and of its partner.                         *)
Propose(k) ==
  /\ phase \in {"lower", "upper"}
  /\ k \in todo /\ InOrder(k) /\ Free
  /\ todo' = todo \ {k}
  /\ busy' = busy \cup {k}
  /\ LET partner == theta[Partner(rng, k)]
     IN  star' = [star EXCEPT ![k] = [moves |-> Accepts(rng, k, theta[k], partner),
                                      to |-> Move(rng, k, theta[k], partner)]]
  /\ UNCHANGED <<confVars, runVars, theta, countVars, fromCat, rng, catVars, histVars>>

(* Mutant of Decide: the thread's fit never goes back to its pool.         *)
DecideKept(k) ==
  /\ k \in busy
  /\ IF star[k].moves
     THEN /\ theta' = [theta EXCEPT ![k] = star[k].to]
          /\ accepted' = [accepted EXCEPT ![k] = TRUE]
          /\ moved' = moved + 1
     ELSE UNCHANGED <<theta, accepted, moved>>
  /\ star' = [star EXCEPT ![k] = Stay]
  /\ UNCHANGED <<confVars, runVars, todo, busy, naccepted, ntotal, fromCat, rng, catVars, histVars>>

(* Its likelihood is known: the walker moves, or stays where it was.       *)
Decide(k) ==
  /\ k \in busy
  /\ busy' = busy \ {k}
  /\ IF star[k].moves
     THEN /\ theta' = [theta EXCEPT ![k] = star[k].to]
          /\ accepted' = [accepted EXCEPT ![k] = TRUE]
          /\ moved' = moved + 1
     ELSE UNCHANGED <<theta, accepted, moved>>
  /\ star' = [star EXCEPT ![k] = Stay]
  /\ UNCHANGED <<confVars, runVars, todo, naccepted, ntotal, fromCat, rng, catVars, histVars>>

(* Mutant of NextHalf: the second loop goes one walker too far.            *)
NextHalfTooFar ==
  /\ phase = "lower" /\ todo = {} /\ busy = {}
  /\ todo' = Half..NWalkers
  /\ phase' = "upper"
  /\ UNCHANGED <<confVars, started, curSampleId, left, ki, busy, star, theta, countVars, fromCat>>
  /\ UNCHANGED <<rng, catVars, histVars>>

(* The loop over the first half returned.                                  *)
NextHalf ==
  /\ phase = "lower" /\ todo = {} /\ busy = {}
  /\ todo' = Half..NWalkers - 1
  /\ phase' = "upper"
  /\ UNCHANGED <<confVars, started, curSampleId, left, ki, busy, star, theta, countVars, fromCat>>
  /\ UNCHANGED <<rng, catVars, histVars>>

Counted == {k \in ki..NWalkers - 1 : accepted[k]}

(* Mutant of Update: the flags are not cleared.                            *)
UpdateKeepsFlags ==
  /\ phase = "upper" /\ todo = {} /\ busy = {}
  /\ rows' = rows \o NewRows(ki)
  /\ curSampleId' = curSampleId + NWalkers - ki
  /\ ntotal' = ntotal + NWalkers - ki
  /\ naccepted' = naccepted + Cardinality(Counted)
  /\ ki' = 0 /\ left' = left - 1
  /\ phase' = "sync"
  /\ UNCHANGED <<confVars, started, loopVars, theta, accepted, moved, fromCat, rng>>
  /\ UNCHANGED <<firstId, attached, saved, histVars>>

(* _ncm_fit_esmcmc_update: the ensemble is added to the catalog, whose     *)
(* sync mode is SYNC_DISABLE.                                              *)
Update ==
  /\ phase = "upper" /\ todo = {} /\ busy = {}
  /\ rows' = rows \o NewRows(ki)
  /\ curSampleId' = curSampleId + NWalkers - ki
  /\ ntotal' = ntotal + NWalkers - ki
  /\ naccepted' = naccepted + Cardinality(Counted)
  /\ accepted' = [k \in Walkers |-> accepted[k] /\ k < ki]
  /\ ki' = 0 /\ left' = left - 1
  /\ phase' = "sync"
  /\ UNCHANGED <<confVars, started, loopVars, theta, moved, fromCat, rng, firstId, attached, saved, histVars>>

(* ncm_mset_catalog_timed_sync, which may or may not be due.               *)
TimedSync ==
  /\ phase = "sync"
  /\ saved' \in {saved, Saved}
  /\ phase' = IF left = 0 THEN "idle" ELSE "setup"
  /\ UNCHANGED <<confVars, started, curSampleId, left, ki, loopVars, theta, countVars, fromCat>>
  /\ UNCHANGED <<rng, firstId, rows, attached, histVars>>

-----------------------------------------------------------------------------
(* Failures                                                                *)

NewProcess ==
  /\ nthreads' \in Threads
  /\ started' = FALSE /\ curSampleId' = -1 /\ left' = 0 /\ phase' = "idle" /\ ki' = 0
  /\ todo' = {} /\ busy' = {} /\ theta' = AllBlank /\ star' = AllStay
  /\ accepted' = NoneAccepted /\ naccepted' = 0 /\ ntotal' = 0 /\ moved' = 0
  /\ fromCat' = FALSE /\ rng' = 0
  /\ firstId' = 0 /\ rows' = <<>> /\ attached' = FALSE /\ base' = AllBlank

Crash == NewProcess /\ UNCHANGED <<saved, torn>>

(* The process dies in a sync, also that of set_data_file, with some of    *)
(* the new rows written.                                                   *)
CrashInSync ==
  /\ phase \in {"idle", "synced", "sync"}
  /\ attached \/ (phase = "idle" /\ saved.rows = <<>>)
  /\ Len(rows) > Len(saved.rows)
  /\ \E written \in Len(saved.rows)..Len(rows) :
        /\ saved' = Torn(written)
        /\ torn' = torn \cup {rows[i] : i \in Len(saved.rows) + 1..written}
  /\ NewProcess

-----------------------------------------------------------------------------

Program ==
  \/ SetDataFile \/ AddRow \/ StartRun \/ EndRun \/ Reset
  \/ \E n \in 1..MaxEnsembles : Run(n) \/ Trim(n)

StartStep == (\E k \in Walkers : DrawPoint(k)) \/ PointsDone \/ SyncPoints \/ Validate \/ Retry

RunStep == Setup \/ NextHalf \/ Update \/ TimedSync

ThreadStep(k) == Propose(k) \/ Decide(k)

Next == Program \/ StartStep \/ RunStep \/ \E k \in Walkers : ThreadStep(k)

Spec == Init /\ [][Next]_vars

CrashSpec == Init /\ [][Next \/ Crash \/ CrashInSync]_vars

(* The main thread and the threads of a loop go on.                        *)
Fairness == WF_vars(RunStep) /\ WF_vars(\E k \in Walkers : ThreadStep(k))

-----------------------------------------------------------------------------
(* Properties                                                              *)

Moving == phase \in {"lower", "upper"}

Stepped(b, k, own, partner) ==
  IF Accepts(b, k, own, partner) THEN Move(b, k, own, partner) ELSE own

(* However the threads take the walkers of the two loops                   *)
(* (ncm_fit_esmcmc.c:1363), each ensemble is the simultaneous move of the  *)
(* lower half against the old positions of the upper half, and then of the *)
(* upper half against the new positions of the lower half, computed from   *)
(* the next block of the generator.                                        *)
Ensembles == INSTANCE EnsembleRun WITH
               theta <- IF Moving THEN base ELSE theta,
               block <- IF Moving THEN rng - 1 ELSE rng,
               from <- ki
IsEnsembleRun == Ensembles!Spec

(* A run that is to compute an ensemble has the walkers where the catalog  *)
(* says, each in its last row, also when it is resumed in the middle of an *)
(* ensemble, by another process or after the catalog was trimmed.          *)
ThetaInCatalog ==
  started /\ phase \in {"idle", "setup", "sync"} =>
    /\ phase = "setup" => ki = (CurId + 1) % NWalkers
    /\ curSampleId = CurId
    /\ \A k \in Walkers : theta[k] = LastRowOf(k)

(* "Last ensemble failed in the m2lnL check, the catalog may be corrupted, *)
(* removing last ensemble and retrying" (ncm_fit_esmcmc.c:1123): whatever  *)
(* a sync that was cut short left in the file, once start_run returns no   *)
(* row of the catalog is one that was never written.                       *)
RowsValid ==
  started /\ phase \in {"idle", "setup", "sync"} => \A i \in 1..Len(rows) : rows[i] # Blank

(* naccepted is the number of moves made since start_run, except that the  *)
(* flag of walker 0, through which validate answers, may be counted once.  *)
AcceptCount ==
  started /\ phase \in {"idle", "setup", "sync"} =>
    naccepted - moved \in IF fromCat THEN {0, 1} ELSE {0}

(* Draws are not used twice: every row of a run that may go on was         *)
(* computed from a block drawn before the state of its generator, also     *)
(* when it was resumed after a crash at any time.  Excepted are, until     *)
(* start_run removes them, the positions that a sync wrote to the file     *)
(* before it died without writing the generator                            *)
(* (ncm_mset_catalog.c:1768-1782): see fit_esmcmc_torn.                    *)
GeneratorAhead ==
  started /\ phase \in {"idle", "setup", "sync"} =>
    \A i \in 1..Len(rows) : rows[i] \in torn \/ DrawnFrom(rows[i]) \in 0..rng

(* "If there is already data in it, the sampler continues from where it    *)
(* stopped" (examples/pydata_simple/example_esmcmc.py:131): no row of a    *)
(* run that may go on was computed from a block still to be drawn.         *)
ContinuesWhereItStopped ==
  started /\ phase \in {"idle", "setup", "sync"} =>
    \A i \in 1..Len(rows) : DrawnFrom(rows[i]) \in 0..rng

(* A call of run returns.                                                  *)
RunEnds == left > 0 ~> left = 0
=============================================================================
