-------------------------------- MODULE FitMC --------------------------------
(***************************************************************************)
(* NcmFitMC (numcosmo/math/ncm_fit_mc.c): n realizations of the data are   *)
(* drawn from one random generator, the model is fitted to each, and the   *)
(* best fits are the rows of an NcmMSetCatalog.  With more than one thread *)
(* the fits run in the pool (module FuncEval): a thread draws its          *)
(* realization under resample_lock, which also gives it its index, fits it *)
(* with no lock, and adds its row under update_lock.  With keep_order it   *)
(* first waits on write_cond until write_index is its index.               *)
(*                                                                         *)
(* A realization draws once for each of its NData data sets, so the state  *)
(* of the generator is the number of its next draw, from 1 on, and a row   *)
(* is the draw its realization starts at.  The catalog is the sequence of  *)
(* its rows; what its file holds are the rows and the state of the         *)
(* generator at the last sync that added any (module MSetCatalog says when *)
(* the two agree).  The interval of the timed sync may or may not have     *)
(* passed at each row.                                                     *)
(***************************************************************************)
EXTENDS Integers, Sequences, FiniteSets

CONSTANTS
  Workers,    \* the threads of the pool that evaluate realizations
  None,       \* holder of a free mutex, and what a file with no generator has
  Threads,    \* what the program may set mc->nthreads to
  Orders,     \* what it may set mc->keep_order to
  NData,      \* data sets in the NcmDataset of the fit
  MaxN,       \* bound: the program asks for at most MaxN realizations
  MaxRng      \* bound: the catalog is not emptied after MaxRng draws

ASSUME WorkersAssumption == IsFiniteSet(Workers) /\ None \notin Workers
ASSUME NoneAssumption == None \notin Nat
ASSUME ParametersAssumption ==
  Threads \subseteq Nat /\ Orders \subseteq BOOLEAN /\ NData \in Nat \ {0}
ASSUME BoundsAssumption == MaxN \in Nat /\ MaxRng \in Nat

VARIABLES
  nthreads,      \* mc->nthreads
  keepOrder,     \* mc->keep_order
  started,       \* mc->started
  curSampleId,   \* mc->cur_sample_id
  writeIndex,    \* mc->write_index
  running,       \* where run is: "no", "single" or "mt"
  left,          \* realizations of the run not yet taken by a thread
  rng,           \* state of the generator of the catalog
  firstId,       \* first_id of the catalog
  rows,          \* rows of the catalog
  attached,      \* the catalog has its file open
  saved,         \* the file: its rows, first id and generator state
  resampleLock,  \* holder of mc->resample_lock
  updateLock,    \* holder of mc->update_lock
  pc,            \* where each thread of the pool is
  drawn,         \* draws each thread has made of its realization
  row,           \* the draw its realization starts at
  index,         \* its sample_index
  asked,         \* history: the n of the last run, 0 if there was none
  torn           \* history: the rows of the file that a sync which was cut
                 \* short inserted, and with which no generator was saved

progVars == <<nthreads, keepOrder, started, running, left, firstId, attached, asked, torn>>
confVars == <<nthreads, keepOrder>>
catVars == <<rows, saved>>
lockVars == <<resampleLock, updateLock>>
threadVars == <<pc, drawn, row, index>>
histVars == <<asked, torn>>
vars == <<nthreads, keepOrder, started, curSampleId, writeIndex, running, left, rng,
          firstId, rows, attached, saved, resampleLock, updateLock, pc, drawn, row, index,
          asked, torn>>

Location == {"idle", "resample", "draw", "fit", "check", "asleep", "woken", "write"}

TypeOK ==
  /\ nthreads \in Threads
  /\ keepOrder \in Orders
  /\ started \in BOOLEAN
  /\ curSampleId \in Int
  /\ writeIndex \in Nat
  /\ running \in {"no", "single", "mt"}
  /\ left \in Nat
  /\ rng \in Nat
  /\ firstId \in Nat
  /\ rows \in Seq(Nat)
  /\ attached \in BOOLEAN
  /\ saved \in [rows : Seq(Nat), first : Nat, stat : Nat \cup {None}]
  /\ resampleLock \in Workers \cup {None}
  /\ updateLock \in Workers \cup {None}
  /\ pc \in [Workers -> Location]
  /\ drawn \in [Workers -> 0..NData]
  /\ row \in [Workers -> Nat]
  /\ index \in [Workers -> Int]
  /\ asked \in Nat
  /\ torn \subseteq Nat

NoFile == [rows |-> <<>>, first |-> 0, stat |-> None]

Blank == 0  \* a row that was inserted in the file and not written

Zero == [w \in Workers |-> 0]
AllIdle == [w \in Workers |-> "idle"]

(* ncm_fit_mc_init, a catalog with a new generator and no file, and what   *)
(* the program sets with ncm_fit_mc_set_nthreads and ncm_fit_mc_keep_order,*)
(* which it calls before its first run.                                    *)
Init ==
  /\ nthreads \in Threads /\ keepOrder \in Orders
  /\ started = FALSE /\ curSampleId = -1 /\ writeIndex = 0
  /\ running = "no" /\ left = 0
  /\ rng = 1 /\ firstId = 0 /\ rows = <<>>
  /\ attached = FALSE /\ saved = NoFile
  /\ resampleLock = None /\ updateLock = None
  /\ pc = AllIdle /\ drawn = Zero /\ row = Zero /\ index = Zero
  /\ asked = 0 /\ torn = {}

-----------------------------------------------------------------------------
(* The catalog                                                             *)

(* A sync in which memory has rows the file has not.                       *)
Saved(newRows, state) ==
  IF attached /\ Len(newRows) > Len(saved.rows)
  THEN [rows |-> newRows, first |-> firstId, stat |-> state]
  ELSE saved

(* The same sync cut short: the rows are inserted and written in order,    *)
(* and the state of the generator after them (ncm_mset_catalog.c:1765).    *)
Torn(written) ==
  [rows |-> [i \in 1..Len(rows) |-> IF i <= written THEN rows[i] ELSE Blank],
   first |-> firstId, stat |-> saved.stat]

(* add_from_mset and its timed sync, which may or may not be due.          *)
AddRow(r, state) ==
  /\ rows' = Append(rows, r)
  /\ saved' \in {saved, Saved(rows', state)}

CurId == firstId + Len(rows) - 1  \* cur_id of the catalog

-----------------------------------------------------------------------------
(* The program, between runs                                               *)

(* ncm_fit_mc_intern_skip                                                  *)
Skip(n) ==
  IF n = 0 THEN UNCHANGED <<curSampleId, writeIndex>>
  ELSE /\ curSampleId' = curSampleId + n
       /\ writeIndex' = curSampleId + n + 1

(* Mutant of Loaded: the generator is left where it was.                   *)
LoadedNoState == rows' = saved.rows /\ firstId' = saved.first /\ UNCHANGED rng

(* The rows of the file and its generator, in an empty catalog.            *)
Loaded == rows' = saved.rows /\ firstId' = saved.first /\ rng' = saved.stat

(* ncm_fit_mc_set_data_file: the rows in memory are written to an empty    *)
(* file, or those of the file loaded into an empty catalog with the        *)
(* generator, and skipped if the run was started.  A file with rows and no *)
(* generator is an error.  No program sets a file that has rows in a       *)
(* catalog that has some: ncm_fit_mcbs.c:326 does it after a reset (:337), *)
(* and darkenergy.c:792 before the first run.  Module MSetCatalog says how *)
(* opening joins the two.                                                  *)
SetDataFile ==
  /\ running = "no" /\ ~ attached
  /\ attached' = TRUE
  /\ \/ /\ saved.rows = <<>>
        /\ saved' = [rows |-> rows, first |-> firstId,
                     stat |-> IF rows = <<>> THEN saved.stat ELSE rng]
        /\ UNCHANGED <<rows, firstId, rng, curSampleId, writeIndex>>
     \/ /\ rows = <<>> /\ saved.rows # <<>> /\ saved.stat # None
        /\ Loaded
        /\ IF started
           THEN /\ CurId' >= curSampleId
                /\ Skip(CurId' - curSampleId)
           ELSE UNCHANGED <<curSampleId, writeIndex>>
        /\ UNCHANGED saved
  /\ UNCHANGED <<confVars, started, running, left, lockVars, threadVars, histVars>>

(* The realizations the catalog already has are skipped.                   *)
StartRun ==
  /\ ~ started
  /\ started' = TRUE
  /\ saved' = Saved(rows, rng)
  /\ CurId >= curSampleId
  /\ Skip(CurId - curSampleId)
  /\ UNCHANGED <<confVars, running, left, rng, firstId, rows, attached>>
  /\ UNCHANGED <<lockVars, threadVars, histVars>>

(* ncm_fit_mc_set_first_sample_id: forwards, and in a catalog with no rows. *)
SetFirstSampleId(id) ==
  /\ started /\ running = "no"
  /\ id # firstId /\ id > curSampleId
  /\ rows = <<>>
  /\ firstId' = id
  /\ saved' = IF attached THEN [saved EXCEPT !.first = id] ELSE saved
  /\ Skip(id - curSampleId - 1)
  /\ UNCHANGED <<confVars, started, running, left, rng, rows, attached>>
  /\ UNCHANGED <<lockVars, threadVars, histVars>>

(* Mutant of Run: n - cur_sample_id.                                       *)
RunOneMore(n) ==
  /\ started /\ running = "no"
  /\ n > curSampleId + 1
  /\ left' = n - curSampleId
  /\ running' = IF nthreads <= 1 \/ left' = 1 THEN "single" ELSE "mt"
  /\ asked' = n
  /\ UNCHANGED <<confVars, started, curSampleId, writeIndex, rng, firstId, attached>>
  /\ UNCHANGED <<catVars, lockVars, threadVars, torn>>

(* ncm_fit_mc_run, up to the loop.  With one realization left to run the   *)
(* multi-threaded run is a single-threaded one.                            *)
Run(n) ==
  /\ started /\ running = "no"
  /\ n > curSampleId + 1
  /\ left' = n - (curSampleId + 1)
  /\ running' = IF nthreads <= 1 \/ left' = 1 THEN "single" ELSE "mt"
  /\ asked' = n
  /\ UNCHANGED <<confVars, started, curSampleId, writeIndex, rng, firstId, attached>>
  /\ UNCHANGED <<catVars, lockVars, threadVars, torn>>

EndRun ==
  /\ started /\ running = "no"
  /\ started' = FALSE
  /\ saved' = Saved(rows, rng)
  /\ UNCHANGED <<confVars, curSampleId, writeIndex, running, left, rng, firstId, rows, attached>>
  /\ UNCHANGED <<lockVars, threadVars, histVars>>

(* ncm_fit_mc_reset: the rows go from memory and from the file, which is   *)
(* closed; the generator is not rewound.                                   *)
Reset ==
  /\ running = "no" /\ rng <= MaxRng + 1
  /\ started' = FALSE /\ curSampleId' = -1 /\ writeIndex' = 0
  /\ left' = 0
  /\ rows' = <<>>
  /\ saved' = IF attached THEN [saved EXCEPT !.rows = <<>>] ELSE saved
  /\ torn' = IF attached THEN {} ELSE torn
  /\ attached' = FALSE
  /\ asked' = 0
  /\ UNCHANGED <<confVars, running, rng, firstId, lockVars, threadVars>>

-----------------------------------------------------------------------------
(* The single-threaded run: nothing else draws or adds rows meanwhile.     *)

(* Mutant of Realize: the sync comes before the draw.                      *)
RealizeSaveFirst ==
  /\ running = "single" /\ left > 0
  /\ left' = left - 1
  /\ rng' = rng + NData
  /\ curSampleId' = curSampleId + 1
  /\ AddRow(rng, rng)
  /\ writeIndex' = writeIndex + 1
  /\ UNCHANGED <<confVars, started, running, firstId, attached>>
  /\ UNCHANGED <<lockVars, threadVars, histVars>>

Realize ==
  /\ running = "single" /\ left > 0
  /\ left' = left - 1
  /\ rng' = rng + NData
  /\ curSampleId' = curSampleId + 1
  /\ AddRow(rng, rng')
  /\ writeIndex' = writeIndex + 1
  /\ UNCHANGED <<confVars, started, running, firstId, attached>>
  /\ UNCHANGED <<lockVars, threadVars, histVars>>

ReturnRun ==
  /\ running # "no" /\ left = 0
  /\ pc = AllIdle
  /\ running' = "no"
  /\ UNCHANGED <<confVars, started, curSampleId, writeIndex, left, rng, firstId, attached>>
  /\ UNCHANGED <<catVars, lockVars, threadVars, histVars>>

-----------------------------------------------------------------------------
(* The multi-threaded run: _ncm_fit_mc_mt_eval and _mt_eval_keep_order     *)

Goto(w, l) == pc' = [pc EXCEPT ![w] = l]

(* A pool thread takes a realization to do and a fit from the memory pool. *)
Take(w) ==
  /\ running = "mt" /\ left > 0
  /\ pc[w] = "idle"
  /\ left' = left - 1
  /\ Goto(w, "resample")
  /\ UNCHANGED <<confVars, started, curSampleId, writeIndex, running, rng, firstId, attached>>
  /\ UNCHANGED <<catVars, lockVars, drawn, row, index, histVars>>

(* Mutant of LockResample: the mutex is not taken.                         *)
LockResampleNot(w) ==
  /\ pc[w] = "resample"
  /\ row' = [row EXCEPT ![w] = rng]
  /\ Goto(w, "draw")
  /\ UNCHANGED <<progVars, catVars, curSampleId, writeIndex, rng, lockVars, drawn, index>>

LockResample(w) ==
  /\ pc[w] = "resample"
  /\ resampleLock = None
  /\ resampleLock' = w
  /\ row' = [row EXCEPT ![w] = rng]
  /\ Goto(w, "draw")
  /\ UNCHANGED <<progVars, catVars, curSampleId, writeIndex, rng, updateLock, drawn, index>>

(* Mutant of Draw: one data set too many.                                  *)
DrawTooMany(w) ==
  /\ pc[w] = "draw"
  /\ drawn[w] <= NData
  /\ rng' = rng + 1
  /\ drawn' = [drawn EXCEPT ![w] = @ + 1]
  /\ UNCHANGED <<progVars, catVars, curSampleId, writeIndex, lockVars, pc, row, index>>

(* ncm_dataset_resample draws for one data set after the other.            *)
Draw(w) ==
  /\ pc[w] = "draw"
  /\ drawn[w] < NData
  /\ rng' = rng + 1
  /\ drawn' = [drawn EXCEPT ![w] = @ + 1]
  /\ UNCHANGED <<progVars, catVars, curSampleId, writeIndex, lockVars, pc, row, index>>

(* Mutant of UnlockResample: the index is that of the previous realization.*)
UnlockResampleOldIndex(w) ==
  /\ pc[w] = "draw"
  /\ drawn[w] = NData
  /\ curSampleId' = curSampleId + 1
  /\ index' = [index EXCEPT ![w] = curSampleId]
  /\ drawn' = [drawn EXCEPT ![w] = 0]
  /\ resampleLock' = None
  /\ Goto(w, "fit")
  /\ UNCHANGED <<progVars, catVars, writeIndex, rng, updateLock, row>>

(* The index is given with the lock still held.                            *)
UnlockResample(w) ==
  /\ pc[w] = "draw"
  /\ drawn[w] = NData
  /\ curSampleId' = curSampleId + 1
  /\ index' = [index EXCEPT ![w] = curSampleId']
  /\ drawn' = [drawn EXCEPT ![w] = 0]
  /\ resampleLock' = None
  /\ Goto(w, "fit")
  /\ UNCHANGED <<progVars, catVars, writeIndex, rng, updateLock, row>>

(* Mutant of LockUpdate: a thread that was woken does not test again.      *)
LockUpdateOnce(w) ==
  /\ pc[w] \in {"fit", "woken"}
  /\ updateLock = None
  /\ updateLock' = w
  /\ Goto(w, IF keepOrder /\ pc[w] = "fit" THEN "check" ELSE "write")
  /\ UNCHANGED <<progVars, catVars, curSampleId, writeIndex, rng, resampleLock, drawn, row, index>>

(* The fit ends, and the thread gets update_lock.                          *)
LockUpdate(w) ==
  /\ pc[w] \in {"fit", "woken"}
  /\ updateLock = None
  /\ updateLock' = w
  /\ Goto(w, IF keepOrder THEN "check" ELSE "write")
  /\ UNCHANGED <<progVars, catVars, curSampleId, writeIndex, rng, resampleLock, drawn, row, index>>

(* while (mc->write_index != sample_index) g_cond_wait (...)               *)
WaitTurn(w) ==
  /\ pc[w] = "check"
  /\ writeIndex # index[w]
  /\ updateLock' = None
  /\ Goto(w, "asleep")
  /\ UNCHANGED <<progVars, catVars, curSampleId, writeIndex, rng, resampleLock, drawn, row, index>>

(* Mutant of HasTurn: the turn is not tested.                              *)
HasTurnAlways(w) ==
  /\ pc[w] = "check"
  /\ Goto(w, "write")
  /\ UNCHANGED <<progVars, catVars, curSampleId, writeIndex, rng, lockVars, drawn, row, index>>

HasTurn(w) ==
  /\ pc[w] = "check"
  /\ writeIndex = index[w]
  /\ Goto(w, "write")
  /\ UNCHANGED <<progVars, catVars, curSampleId, writeIndex, rng, lockVars, drawn, row, index>>

(* Mutant of Broadcast: g_cond_signal, which wakes one of them.            *)
Asleep(p) == {v \in Workers : p[v] = "asleep"}
BroadcastToOne(p) ==
  IF Asleep(p) = {} THEN p ELSE [p EXCEPT ![CHOOSE v \in Asleep(p) : TRUE] = "woken"]

(* g_cond_broadcast wakes every thread that waits for its turn.            *)
Broadcast(p) == [v \in Workers |-> IF p[v] = "asleep" THEN "woken" ELSE p[v]]

(* The row is added, with update_lock but not resample_lock held, and the  *)
(* fit goes back to the memory pool.                                       *)
Write(w) ==
  /\ pc[w] = "write"
  /\ AddRow(row[w], rng)
  /\ writeIndex' = writeIndex + 1
  /\ updateLock' = None
  /\ pc' = Broadcast([pc EXCEPT ![w] = "idle"])
  /\ UNCHANGED <<progVars, curSampleId, rng, resampleLock, drawn, row, index>>

-----------------------------------------------------------------------------
(* The process dies and a new one starts                                   *)

NewProcess ==
  /\ started' = FALSE /\ curSampleId' = -1 /\ writeIndex' = 0
  /\ running' = "no" /\ left' = 0
  /\ rng' = 1 /\ firstId' = 0 /\ rows' = <<>>
  /\ attached' = FALSE /\ UNCHANGED confVars
  /\ resampleLock' = None /\ updateLock' = None
  /\ pc' = AllIdle /\ drawn' = Zero /\ row' = Zero /\ index' = Zero
  /\ asked' = 0

(* What the file holds remains.                                            *)
Crash == NewProcess /\ UNCHANGED <<saved, torn>>

(* The process dies in a sync, with some of the new rows written, or in    *)
(* that of set_data_file.                                                  *)
CrashInSync ==
  /\ attached \/ (running = "no" /\ saved.rows = <<>>)
  /\ Len(rows) > Len(saved.rows)
  /\ \E written \in Len(saved.rows)..Len(rows) : saved' = Torn(written)
  /\ torn' = torn \cup (Len(saved.rows) + 1)..Len(rows)
  /\ NewProcess

Program ==
  \/ SetDataFile \/ StartRun \/ EndRun \/ Reset
  \/ \E n \in 1..MaxN : SetFirstSampleId(n) \/ Run(n)

RunStep == Realize \/ ReturnRun

ThreadStep(w) ==
  \/ Take(w) \/ LockResample(w) \/ Draw(w) \/ UnlockResample(w)
  \/ LockUpdate(w) \/ WaitTurn(w) \/ HasTurn(w) \/ Write(w)

Next == Program \/ RunStep \/ \E w \in Workers : ThreadStep(w)

Spec == Init /\ [][Next]_vars

(* Processes die, but not in a sync.                                       *)
CrashSpec == Init /\ [][Next \/ Crash]_vars

(* They die anywhere.                                                      *)
TornSpec == Init /\ [][Next \/ Crash \/ CrashInSync]_vars

(* Fits end, and a thread that can go on does: within one run each thread  *)
(* asks for a mutex a bounded number of times.                             *)
Fairness == WF_vars(RunStep) /\ \A w \in Workers : WF_vars(ThreadStep(w))

-----------------------------------------------------------------------------
(* Properties                                                              *)

RowsFollow == \A i \in 1..Len(rows) - 1 : rows[i + 1] = rows[i] + NData

(* "Since the order of the resampling is important, due to the fact that   *)
(* we use the same pseudo-random number generator for all resamplings,     *)
(* this object also guarantees the order of the samples added."            *)
(* (ncm_mset_catalog.c:34): on one thread, or with keep_order, the rows    *)
(* are the realizations in the order they were drawn, with none left out.  *)
InOrder == keepOrder \/ nthreads <= 1 => RowsFollow

(* The multi-threaded run with keep_order cannot be told from a serial one.*)
Serial == INSTANCE SerialRun WITH
            rows <- IF keepOrder THEN rows ELSE <<>>,
            running <- keepOrder /\ running # "no"
IsSerial == Serial!Spec

(* Realizations drawn and not yet in the catalog.                          *)
InFlight == {w \in Workers : pc[w] \in {"fit", "check", "asleep", "woken", "write"}}

(* Whatever the threads do, every index up to cur_sample_id is a row or is *)
(* held by exactly one thread, and write_index is the next row's id.       *)
IndexAccount ==
  started =>
    /\ writeIndex = CurId + 1
    /\ curSampleId = CurId + Cardinality(InFlight)
    /\ keepOrder => {index[w] : w \in InFlight} = writeIndex..curSampleId

(* "Runs the Monte Carlo until it reaches the @n-th realization.  Note     *)
(* that if the first_id is non-zero it will run @n - first_id              *)
(* realizations." (ncm_fit_mc.c:693): with or without keep_order, a run    *)
(* that ends has in its catalog n - first_id rows, which are the last      *)
(* n - first_id realizations drawn, each there once, the draws of each     *)
(* following one another as if nothing else drew meanwhile.                *)
Complete ==
  running = "no" =>
    /\ {rows[i] : i \in 1..Len(rows)} = {rng - k * NData : k \in 1..Len(rows)}
    /\ asked # 0 => Len(rows) = asked - firstId

(* Rows with which, or after which, the state of the generator was saved,  *)
(* or that are not in the file yet.                                        *)
Whole == (1..Len(rows)) \ IF attached THEN torn ELSE {}
WholeSaved == (1..Len(saved.rows)) \ torn

(* No draw is used by two realizations, not even when a run is resumed     *)
(* from what the file held at the last sync before its process died.  The  *)
(* rows of a sync that was cut short before the generator was saved are    *)
(* left out: a run resumed from them uses their draws again.               *)
NoDrawUsedTwice ==
  \A i, j \in Whole :
    i # j => rows[i] >= rows[j] + NData \/ rows[j] >= rows[i] + NData

(* On one thread the generator is saved as it was right after the last row *)
(* saved, so that a run resumed after a death goes on with the realization *)
(* that follows the last row whose sync was not cut short.                 *)
ResumesInOrder ==
  nthreads <= 1 =>
    \A i, j \in Whole :
      i < j /\ (i + 1)..(j - 1) \cap Whole = {} => rows[j] = rows[i] + NData

SavedContinues ==
  nthreads <= 1 =>
    \A i \in WholeSaved :
      (\A j \in WholeSaved : j <= i) => saved.stat = saved.rows[i] + NData

(* A run ends: no thread waits for a turn that never comes.                *)
RunEnds == running # "no" ~> running = "no"
=============================================================================
