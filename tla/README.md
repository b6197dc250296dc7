# NumCosmo in TLA+

Specifications of the parts of NumCosmo that carry control rather than numbers: the
thread machinery (`ncm_func_eval`, `NcmMemoryPool`), the catalog every statistical run
writes to (`NcmMSetCatalog`), the two samplers built on them (`NcmFitMC`,
`NcmFitESMCMC`), and the protocol by which objects that keep results find out that a
model changed (`NcmModelCtrl`), with the objects that share a run of CLASS (`NcCBE`).
They are checked with TLC on small instances, and the main properties of the memory
pool, of the samplers and of the caches are proved with TLAPS for instances of any size.
Paths below are relative to `numcosmo/math/` unless they say otherwise.

## The system

NumCosmo is a library for cosmology. Models (`numcosmo/model`, `lss`,
`perturbations`, `xcor`, `nc_*.c`) are functions of parameters; likelihoods
(`numcosmo/data`) compare them with observations; minimizers find the best
parameters; samplers repeat that thousands of times on several threads, for
hours, and write what they find to a FITS file from which they can be resumed.
The last part is where the program is concurrent and persistent.

| part | state it keeps | operations | interacts with |
|---|---|---|---|
| `NcmMemoryPool` (`memory_pool.c`) | slices with a flag each, a counter, a mutex, a condition | new, get, return, set_min_size, add, free | threads of a loop get fits, workspaces and walkers |
| threaded loops (`ncm_func_eval.c`) | one global `GThreadPool`, a counter with its mutex and condition on each caller's stack | loop, loop_nw, loop_full, set_max_threads | called by the samplers, and by likelihoods that samplers call |
| `NcmMSetCatalog` (`ncm_mset_catalog.c`) | rows in memory, in chains and in ensembles; a FITS file; the ranges of ids of both; a generator, its first and last saved state; sync mode; burn-in | set_file, set_rng, add, sync, reset, erase_data, set_first_id, set_burnin, trim, remove_last_ensemble | all samplers; `NcmStatsVec`, `NcmRNG`, cfitsio |
| `NcmFitMC` (`ncm_fit_mc.c`) | cur_sample_id, write_index, started, two mutexes and a condition | set_data_file, start_run, run, end_run, reset, set_first_sample_id | threaded loops, memory pool of fits, catalog, generator |
| `NcmFitESMCMC` (`ncm_fit_esmcmc.c`) | positions, jumps and acceptances of the walkers, cur_sample_id, counts | set_data_file, start_run with points of the prior, reload, validation and retry, run with two half-ensembles in turn, run_lre, end_run, reset | threaded loops, memory pool, catalog, a walker |
| `NcmFitMCMC`, `NcmFitMCBS`, `NcmABC` | ids, a catalog, nested runs | the same | as above |
| `NcmModel` (`ncm_model.c`) | parameters, a change counter `pkey`, submodels | set, add_submodel; the getter of the fraction of helium of `NcHICosmoDE` sets a parameter | every consumer of a model |
| `NcmModelCtrl` (`ncm_model_ctrl.c`, `.h`) | a weak reference to a model, its `pkey`, a control for each submodel | update, set_model, force_update | owned by every object that keeps results |
| `NcCBE` (`../nc_cbe.c`) and its users | a control, what CLASS is asked for, what it computed; copies of it in `NcPowspecMLCBE`, `NcRecombCBE` and `NcHIPertBoltzmannCBE`, each with a control of its own | prepare_if_needed, thermodyn_prepare, settings | models, CLASS |
| `NcmMSet` | the map of free parameters | set, get | minimizers, samplers |
| `NcmStatsVec`, `NcmFunctionCache`, `NcmRNG`, `NcmTimer`, `NcmSerialize` | moments and saved rows; a locked tree; generators by name; times; objects by name | | |
| `NcmFit`, `NcmLHRatio*`, data, likelihood, models, splines, integrals | numbers | | |
| CLASS, libcuba, levmar, plc, toeplitz | vendored | | |

What is hard in it, and hardly reached by the tests of `tests/` (which test one
thread, and of the concurrent parts only `ncm_func_eval`):

* threads that search, allocate and return under one mutex while an owner waits
  to free everything (`memory_pool.c`);
* a counter on a stack frame that tasks of other threads point to, and loops
  called from inside loops of the same pool (`ncm_func_eval.c`);
* two mutexes in `ncm_fit_mc.c`, one for drawing and one for adding, and the
  wait for one's turn, which must neither reorder rows nor stop;
* a file and a memory that are brought together by comparing ids only, in any
  order of opening, adding, dropping, and dying (`ncm_mset_catalog.c`);
* a generator whose saved state must be the one after the last saved row;
* walkers that read each other's positions while they move, and an ensemble that
  is resumed in the middle, or was cut short while it was written
  (`ncm_fit_esmcmc.c`);
* results that are kept as long as an address and a counter agree, when models
  are freed, others come to live at their addresses, and reading a model may
  change it (`ncm_model_ctrl.c`, `../nc_cbe.c`).

`PROJECT.json` lists each of these hazards at its line, with the properties
that cover it or the reason why none does yet.

## The modules

    ParallelLoop  <--implements--  FuncEval          ncm_func_eval.c
                                     MCFuncEval, FuncEvalProofs
                                   MemoryPool        memory_pool.c
                                     MemoryPoolProofs
    SerialRun     <--implements--  FitMC             ncm_fit_mc.c
                                     MCFitMC, FitMCProofs,
                                     FitMCCountProofs, FitMCCrashProofs
                  CatalogStats <-- MSetCatalog       ncm_mset_catalog.c
                                     MCMSetCatalog, MSetCatalogProofs
    EnsembleRun   <--implements--  FitESMCMC         ncm_fit_esmcmc.c
                                     MCFitESMCMC, FitESMCMCProofs
                     ModelCtrl <-- CBE               ncm_model_ctrl.c, ../nc_cbe.c
                                     MCCBE, CBEProofs

**MemoryPool.** A slice is its index in `mp->slices`; `inUse` is the set of
flags, `slicesInUse` the counter, `update` the holder of the mutex. A get is
three steps (call, lock, and the search, or an allocation with the mutex held,
up to the unlock); a return is two; free is a lock, the test of the counter, the
wait and the two releases. `g_cond_wait` may wake without a signal. The callers
promise, and all callers in the library keep, that a slice is returned once and
that no get is in progress or begins once free was called.

**FuncEval.** A loop is identified by its caller. `active` is
`ctrl.active_threads`, `queue` and `task` the `GThreadPool`, `TasksFull` and
`TasksNW` the cuts of the index range. Evaluating an index in `Nested` calls a
loop in the same pool, which is what the cluster counts likelihood
(`numcosmo/data/nc_data_cluster_ncount.c:1348-1377`) does inside the fits of a
Monte Carlo run. `ParallelLoop` is what callers rely on: each index is evaluated
once, and all before the return. It counts the evaluations of a call, so that one
more of an index that was evaluated already is a step it does not allow.
`ncm_func_eval_threaded_loop_nw` is called with any number of workers it does not
abort on. The limit of the pool is whatever `g_thread_pool_set_max_threads` takes: a
positive number, -1 for none (`ncm_func_eval.c:110`), or 0, which GLib accepts too
and which stops the pool; it prints a warning at anything below -1 and changes
nothing. With -1 `ncm_func_eval_threaded_loop` aborts (`:150`), since it passes the
limit on as a guint; the other two loops work. **MCFuncEval** only gives the limits.

**CatalogStats** is the in-memory side of a catalog as operators on a record:
all rows, the rows of each chain, the open ensemble and the closed ones.
**MSetCatalog** is the object and its files. A row is the number of the draw it
was computed from, so that "the same row" and "in the order of the draws" have
a meaning, and a state of the generator is a number of draws. The functions of
the code are operators from a pair (object, disk) to the next pair, composed as
the code composes them: `SetFile` closes (with a sync), opens or creates, takes
over the generator, and syncs. Calls the code aborts on are disabled; that a
sync cannot abort is a property (`SyncCannotFail`). Five next-state relations
describe programs: runs, runs in parts, edits, analyses with a burn-in, and
burn-ins that are extended. `Restart` is the death of the process between two calls.
**MCMSetCatalog** puts them together but for the last: a usage is chosen at the start and
kept. `MCSpec`, of which most theorems are, has runs, runs in parts and analyses;
`AllSpec`, which the run `catalog` checks, has the edits too.

**FitMC.** One action per critical section and per wait of `_ncm_fit_mc_mt_eval` and
`_ncm_fit_mc_mt_eval_keep_order`, plus the calls of the program between runs. A
realization draws once per data set, one draw per step, so that interleaved draws would
show. The catalog is reduced to its rows and what its file holds (MSetCatalog justifies
that reduction for catalogs that start at their first realization), and its sync, which
is timed, may or may not take place at each row. In `CrashSpec` the process may die
between two steps; in `TornSpec` also in a sync, which has written some of the new rows,
or all, and not yet the state of the generator (`ncm_mset_catalog.c:1765-1782`). `torn`
remembers the rows of such a sync. In **MCFitMC** `dies` is chosen at the start: the
process lives, or may die wherever `TornSpec` lets it. A file with rows is set in an
empty catalog only, as all callers in the repository do (`SetDataFile`); how the two are
joined otherwise is the subject of MSetCatalog. The pool is reduced to its threads: that
each realization is evaluated once is FuncEval's promise. **SerialRun** is the abstract
run: a catalog that grows by the next draw.

**FitESMCMC.** The main thread goes through the phases of `start_run` (the points of the
prior, the sync, the validation of the last ensemble, the call of itself) and of `run`
(the draws of an ensemble, the loop over each half, the update, the timed sync). A
thread of a loop takes a walker in two steps: `Propose`, in which `walker_step` reads
the positions of the walker and of its partner, and `Decide`, after the likelihood. On
one thread the walkers are taken in order. A position is whatever `Prior` and `Move`
make of the block of draws and of the positions it was computed from, so that in
`MCFitESMCMC` two positions differ when any draw or any position they depend on does.
The partner of a walker is any walker of the other half, by a function of the block: the
stretch and the walk both draw it there; a walker that draws several is represented by
one that draws one. The catalog is its rows and first id, and the file what the next
process finds in it. `CrashSpec` adds the death of the process between two steps and in
the middle of a sync, which leaves some of the new rows blank and the old state of the
generator: cfitsio inserts the rows before it writes them. In **MCFitESMCMC** `dies` is
chosen at the start: never, in a short run that may begin with points of the program, or
in a longer one. A row added by the program may be synced at once, if the catalog has
its file open. **EnsembleRun** is the abstract run, an ensemble that moves as if half
after half moved at once, from a block of draws of its own; its process may `Die`, and
begin again with the positions of a file.

**ModelCtrl** has the models and the controls as operators on records. A model is an
address, so that an address may be used again. The counter starts at 1, every setter
counts, and `ReadYp` counts as well. A control forgets a model that is gone, since its
reference is weak. **CBE** is the program over them: cosmologies with a primordial and a
reionization submodel are created, changed, exchanged (also shared by two cosmologies)
and freed, and in any order the power spectrum (`NcPowspecMLCBE`), the recombination
(`NcRecombCBE`) and the Boltzmann code (`NcHIPertBoltzmannCBE`) are asked for results
over one `NcCBE`. Each of the three has a control and a copy of its own; that of the
Boltzmann code is in its base class (`../perturbations/nc_hipert_boltzmann.c:368-375`).
They are asked through their `prepare_if_needed`, as the library does. A result is the
record of the values it was computed from, `None` what was never computed; it is
`foreign` when the recombination left in the `NcCBE` the thermodynamics of another
cosmology than the one its control knows. `zmax` stands for the settings that force an
update when they change, `target`, `lensed` and `transfer` are those that choose how far
CLASS goes (`UpdateCallbacks`).

## What the runs show

| run | instance | states | result |
|---|---|---|---|
| `memory_pool` | 3 threads, owner enlarging to 2 slices | 840 | no object is held twice, the counter is exact, nothing is freed in use, the pool does not outgrow its users, free ends |
| `func_eval` | one caller, 2 pool threads, limits 1, 2 and none, 1 or 2 parts, indices 0..2, one of them nested | 204 thousand | implements ParallelLoop: each index is evaluated exactly once; no task outlives its counter; every loop returns if the pool has a thread more than there are nested indices |
| `func_eval_nested` | 2 pool threads, both indices nested | 12 thousand | **violated**: the loop does not return |
| `catalog` | 2 files, 2 chains, 4 draws and rows; where rows are dropped 1 file, 5 draws and rows | 358 thousand | memory and file agree; no sync can fail; a run interrupted any number of times equals an uninterrupted one; opening a file joins it with memory; no draw is recorded twice; a chain has the rows of its walker; every row of an edited catalog is in one ensemble |
| `catalog_prepend` | as `catalog`, rows never dropped | | **violated**: rows read before those in memory are reversed in the chains |
| `catalog_burnin` | 1 file, 3 rows | | **violated**: extending a file that was loaded with a burn-in overwrites the wrong rows |
| `fit_mc` | 3 threads, keep_order or not, 2 data sets, 4 realizations; with deaths, also in a sync, 2 threads or one and 3 realizations | 1.1 million | with keep_order the run implements SerialRun; ids and indices account for every realization; a run that ends has all it was asked for, and the last one drawn; but for the rows of a sync that was cut short, no draw is used twice after a resume, and on one thread the resumed run repeats the one cut; runs end |
| `fit_mc_resume` | 2 threads, keep_order, deaths | | **violated**: a resumed run leaves realizations out |
| `fit_esmcmc` | 4 walkers, 1 or 2 threads, up to 3 ensembles, 5 rows of the program; with deaths, also in a sync, one thread | 1.5 million | implements EnsembleRun; walkers stand in the last rows of the catalog, also after a resume and a trim; moves are counted; no row that was not written survives start_run; but for the positions of a sync that was cut short, no row is from draws still to come; runs end |
| `fit_esmcmc_torn` | 4 walkers on one thread, deaths in a sync | | **violated**: a block of draws that made rows of the file is to be used again |
| `cbe` | 2 cosmologies, 2 primordial and 1 reionization address, 2 values, 2 redshifts, 3 changes | 466 thousand | recombination and Cls are never stale, the power spectrum only in the two cases that follow; at most two runs of CLASS for a change |
| `cbe_powspec` | as `cbe` | | **violated**: a power spectrum of the old reionization model, or over the thermodynamics of another cosmology |

The violations are described under "findings" in `PROJECT.json`, each against the
comment or the example it contradicts. Where a passing property leaves such a case
out, its comment names it: `Answers` leaves out the two cases of `cbe_powspec`,
`GeneratorAhead` the positions of a sync that was cut short (`fit_esmcmc_torn`), and
`NoDrawUsedTwice`, `ResumesInOrder` and `SavedContinues` the rows of such a sync, which
is the same defect of the same code (`ncm_mset_catalog.c:1765-1782`) under the other
sampler. `ChainsHoldRows` says which rows a chain has and not in which order, because
of `catalog_prepend`; `MCEnsemblesHoldRows` says that each row is in one ensemble and not
which row closes it, because the code closes one row early (see the observations below).

**Bounds.** Three threads are the least with which one sleeps, one is woken and one
writes (a broadcast and a signal differ), and in the pool with which one allocates while
one returns and one takes. Three indices over two pool threads give a part with a
remainder and a part without, and a task queued behind a nested one; the limits are one
thread, as many as there are, and none. Four rows let a catalog be split three ways
(file only, both, memory only) with more than one row in a part, two files let a program
leave one for another and come back, two chains tell the order of what is prepended;
five rows over two chains give two ensembles and a rest. `MaxDraw`, `MaxLength`, `MaxN`
and `MaxRng` stop the draws, the rows, the realizations asked for and the resets after
draws; `MaxLen` the size an owner asks for. `MaxKept` stops draws, rows and ids where no
row is dropped, one sooner than `MaxDraw` and `MaxLength` do where some are. `MaxDying`
and `DyingWorkers` bound the realizations asked of a process that may die and the
threads of its pool: two realizations in flight are enough for a state of the generator
that belongs to no row, three are enough for a row before and after. Four walkers are
two halves in which there is an order to be told, and with three ensembles, or five rows
of the program before them, a run is resumed in the middle of an ensemble that is
neither the first nor the last; `MaxOwn`, `MaxEnsembles`, `MaxRng` and `Blocks` bound
the rows of the program, the ensembles asked for, the points of the prior drawn again
and the draws, which stops processes from dying for ever. `MaxShort` and `MaxLong` bound
the ensembles of runs that may die, two with points of the program and three without.
One thread is enough with deaths, because every loop has ended by the time anything is
written. In CBE two cosmologies give a freed address to somebody else while another one
lives, and three changes (`MaxChanges`) are to free, to create and to change. Symmetry
is used there only, where addresses, values and redshifts are compared and nothing else;
the other instances are small without it, and four of them check liveness
(`memory_pool`, `func_eval`, `fit_mc` and `fit_esmcmc`).

**Fairness.** Weak fairness per thread: a thread of the program or of the
`GThreadPool` that can run does run; fits, likelihoods and allocations end. A
thread that waits for a mutex is treated as one that can run whenever the mutex
is free; within one run or one free each thread takes a mutex a bounded number of
times, so none can be passed over for ever. Spurious wakes come to an end
(`FreeSpuriousWake`). In FitESMCMC the main thread of a run goes on and some
thread of a loop does, which is weaker: whichever walker it is, a loop has
finitely many steps. Nothing is assumed of the program: it need not call a loop,
start a run or free a pool.

**Deadlock** is checked where somebody can always move (the pool, the Monte Carlo
run). It is not checked in the runs of FuncEval, where the program can really
stop, which is what `func_eval_nested` shows, nor in those of the catalog, of
FitESMCMC and of CBE, whose draws or changes are bounded and whose program need
not call anything.

Each passing property has a mutant: a definition with a plausible mistake, beside
the definition it changes, under which TLC finds the property violated.

## What is proved

`MemoryPoolProofs` proves, for any finite set of threads and any `MaxLen`:

* `TypeCorrect`: `Spec => []TypeOK`,
* `MutualExclusion`: `Spec => []Exclusive`,
* `CountCorrect`: `Spec => []CountExact`,
* `FreeIsSafe`: `Spec => []NoUseAfterFree`,
* `SlicesReused`: `Spec => []PoolBounded`.

The assumptions are that the owner and the "no thread" value are not users, that
the users are finitely many and that `MaxLen` is a natural number. None of the
five is inductive. `IInv` adds: who holds the mutex in which location
(`LockHeld`), that the pool is alive unless the owner has none (`AliveInv`), that
nobody is in a get once free was called (`NoGet`) and nobody holds anything once
the slices go (`NoneLeft`), and that a thread about to allocate still sees every
slice in use (`AllocFull`). The argument has three parts. A get gives out a slice
that is not flagged, and flagged slices are exactly those held, so exclusion and
the count survive (`HandKeeps`). Free passes its test when the count is zero, so
the set of flagged slices is empty and nobody holds one (`FreeIInv`). A thread
that allocates sees every slice in use by somebody else, so there are fewer slices
than threads (`RoomForOne`, by a surjection from holders to slices). TLC checks
`IInv` on the instance of `memory_pool` as well.

`FuncEvalProofs` proves, for any callers, any set of pool threads with a thread in it,
any `Last`, any set of nested indices and any limits of `set_max_threads`:

* `TypeCorrect`: `Spec => []TypeOK`,
* `CounterExact`: `Spec => []ActiveExact`,
* `CtrlOutlivesTasks`: `Spec => []CtrlAlive`,
* `PromiseKept`: `Spec => KeepsPromise`, that is, every step is a step of ParallelLoop
  or changes nothing that ParallelLoop sees.

The assumptions are those of `FuncEval.tla`: the pool has threads, finitely many, a
limit is an integer (of which GLib takes -1 and above), and `NoTask` is no task. `IInv`
says where the indices of a loop are: those not evaluated are shared out between the
tasks the caller has still to push, those in the queue and those that run. Every task
has only such indices (`TasksPending`), no two have the same one (`LeftApart`,
`QueueApart`, `RunApart`), and each is in some task (`AllHeld`). Therefore the index a
thread evaluates was not evaluated before. The part that has to be known of the code is
that the cuts of `ncm_func_eval_threaded_loop_full` and `ncm_func_eval_threaded_loop_nw`
are a partition of the range (`Cuts`), the last task of the second being the remainder
of a division. The counter is a sum of three cardinalities, each changed by one step at
most (`OfLoop`, `Running`); a loop returns when it is zero, so that no task of it is
left anywhere, therefore no index either.

`FitMCProofs`, `FitMCCountProofs` and `FitMCCrashProofs` prove, for any set of threads,
any number of data sets and of realizations, and any choice of `nthreads` and
`keep_order`:

* `TypeCorrect`: `Spec => []TypeOK`,
* `OrderKept`: `Spec => []InOrder`, and `LivingOrderKept`: `MCSpec => []MCInOrder`,
* `ImplementsSerial`: `Spec => IsSerial`, that is, every step is a step of SerialRun
  or changes nothing that SerialRun sees, and `LivingImplementsSerial`:
  `MCSpec => MCIsSerial`,
* `IndicesAccounted`: `Spec => []IndexAccount`,
* `RunsComplete`: `Spec => []Complete`, and `LivingRunsComplete`:
  `MCSpec => []MCComplete`,
* `DrawsUsedOnce`: `TornSpec => []NoDrawUsedTwice`,
* `ResumedInOrder`: `TornSpec => []ResumesInOrder`,
* `FileContinues`: `TornSpec => []SavedContinues`.

`Spec` is a process that lives, `TornSpec` one that may die anywhere, also in a sync, and
`MCSpec` that of `MCFitMC`, where a living process behaves as in `Spec`.

The assumptions are the three of `FitMC.tla`: the value that stands for a free mutex
is no thread, thread counts are natural numbers, and a realization draws at least
once. `Control`, which holds with deaths and without, is the types, who holds which mutex
(`LockInv`), that only a multi-threaded run has threads at work (`RunInv`) and that the
generator is as far from the start of the realization being drawn as the thread has drawn
(`DrawInv`). The three modules add what each needs.

*Order.* `InOrder` says nothing of realizations that are not rows yet, so it is not
inductive. `IInv` adds that the indices of the realizations in flight are
`write_index..cur_sample_id`, one each (`IndexOrder`), that a thread past its wait still
has its turn (`TurnOrder`), and that the realizations follow one another from the last
row, through those in flight by index, to the position of the generator (`CatalogOrder`,
`FlightOrder`). Between runs and on one thread nothing is in flight and the generator
stands right after the last row (`IdleFacts`, `IdleStep`). In a multi-threaded run two
steps matter: the unlock of `resample_lock` puts a realization at the end of that order
(`UnlockResampleIInv`) and a write takes one from its front (`WriteIInv`); the other
steps leave the order alone (`SameFlight`). The refinement needs no more than that: a
write appends the draw after the last row.

*Counts*, which hold without keep_order too. `Account`: `write_index` plus the number of
realizations in flight is `cur_sample_id + 1`, and while a run is started `write_index`
is the id of the next row. `Target`: in a run the realizations that exist and those that
are left are as many as were asked for, so that a run that is over has as many rows.
`Contiguous`: the draws of the rows and of the realizations in flight are, as a set, so
many consecutive ones, and end where the generator is; a run that is over has nothing in
flight, so its rows are the last realizations the generator gave, none left out.

*Deaths.* Of memory, file and realizations in flight `CInv` looks at the rows that are
`Left` when those of syncs that were cut short are taken out. No two have a draw in common
and none has one that its generator has still to give (`SpacedInv`); on one thread rows
also follow one another up to the generator (`FollowsInv`). `TornInv` says where the rows
of a torn sync are: in the file, and in a memory that was loaded from it. A sync that is
cut short puts all its rows among them and leaves the state of the generator, which is
that after the rows before; so the invariant survives it, and the exception made for
those rows is exactly as large as the defect. With several threads the file may hold the
state of a generator in the midst of a realization, which is why no more than disjointness
survives a death, and a resumed run does leave realizations out, as `fit_mc_resume`
shows.

`FitESMCMCProofs` proves, for any number of walkers, threads and ensembles and any
`Prior`, `Partner`, `Accepts` and `Move`, from the assumptions of `FitESMCMC.tla` (there is
a walker in each half, and a partner is of the other half):

* `ImplementsEnsembleRun`: `CrashSpec => IsEnsembleRun`,
* `WalkersInCatalog`: `CrashSpec => []ThetaInCatalog`,
* `MovesCounted`: `CrashSpec => []AcceptCount`,
* `NoBlankRow`: `CrashSpec => []RowsValid`, if `MovesInPosition`,
* `TypeCorrect`: `CrashSpec => []TypeOK`, if `MovesInPosition`,
* `RowsFromDrawnBlocks`: `CrashSpec => []GeneratorAhead`, if `MovesInPosition` and
  `DrawnAsNamed`.

`MovesInPosition` says that the prior and a walker make positions out of positions, and
that a position is not a row that was never written; `DrawnAsNamed` that a position tells
the last block of draws it was computed from, which is what `DrawnFrom` reads off. They
are hypotheses of these theorems and not assumptions of the module because TLC, which
evaluates assumptions, cannot enumerate the positions of `MCFitESMCMC`; there a position is
the record of what it was computed from, and both hold by its definition.

The invariant has a part for each. `IInv` says where the main thread may be (`Control`,
`Stages`), and of a loop (`Loop`): the walkers that are done have moved from where the
loop found them, against where it found their partners, the others are where it found
them, and a walker being computed carries the move it would have made then. A partner is
of the other half, which is not in the loop, so it is where the loop found it whatever
the threads have done (`PartnerInOtherHalf`, `ProposeIInv`). When the first loop ends
the positions are `MoveHalf` of the lower half, which is what the second loop starts
from (`NextHalfIInv`); when the second ends they are the ensemble moved
(`LoopsMoveTheEnsemble`), and the update is the step `Ensemble` of the abstract run. All
other steps change nothing it sees, happen between runs, or are the death of the process
(`DeathSimulation`). `Placed` says that each walker stands in the last row of the
catalog that is its own: rows go round the walkers, also from a first id that is not a
multiple of their number, and after a trim or in the middle of an ensemble (`LastIndex`,
and the lemmas on residues). `Flags` is how far the accepted flags are ahead of the
moves, by one at most and only after a start that validated. `RInv` says which rows were
written: a death in a sync leaves blank ones in the file only where the validation of
the next start looks. For `RowsFromDrawnBlocks` two facts come together: the rows of the
file are the first ones of the memory (`Kept`), and neither memory nor file has a
position from a block that its generator has still to give, but for the positions a sync
wrote before it was cut short (`Gen`, in terms of `GenBut(torn)`). Those are the ones
the code does compute again from the same block, as `fit_esmcmc_torn` shows.

`CBEProofs` proves, for any sets of addresses, values and redshifts and any
`MaxChanges`, from the assumptions that addresses of the three kinds differ and
that `None` is nothing else:

* `TypeCorrect`: `Spec => []TypeOK`,
* `AnswersAreFresh`: `Spec => []Answers`, which says nothing of the reionization model of a
  power spectrum, and nothing of its cosmology when it is `foreign`: `cbe_powspec` shows
  that the code is stale there,
* `RunsAtMostTwice`: `Spec => []AtMostTwice`.

`Answers` is about the call that returned last, so it needs to be known of every cache
at any time that what it holds is right unless its control can tell. `IInv` says it: a
control refers to models that live, and has seen of each a counter that is not above the
one it has (`Known`); if the counters agree, the cached values are those of the model
(`Remembers`, `RemembersSub`), of the `NcCBE` and the power spectrum unless they are
foreign. Counters of a living model only grow, each change of values makes them grow,
and a model at a used address is unknown to every control, because the references to the
dead one were forgotten: so the implication survives every step of the program
(`KnownFollows` and its uses, one lemma for each kind of step). `UpdateSees` and `NotUp`
say what an update leaves in a control and what it means that it found nothing;
`PrepareFacts` that after `nc_cbe_prepare_if_needed` the spectra are those of the
primordial model and, if they are not foreign, of the cosmology; one lemma for each of
the three calls puts them together. `AtMostTwice` follows from `RunInv`: after the first
run the fraction of helium is known, so reading it changes nothing, and after the second
the control has seen the last counter.

`MSetCatalogProofs` proves, for any files, any number of chains, and any bounds on draws
and rows, of the program of MCMSetCatalog (a run, a run in parts with first ids, or an
analysis with a burn-in, any of which dies and is started again):

* `IdsAlwaysMatch`: `MCSpec => []IdsMatch`,
* `SyncNeverFails`: `MCSpec => []SyncCannotFail`,
* `RowsAlwaysAgree`: `MCSpec => []MCRowsAgree`,
* `NeverInterrupted`: `MCSpec => []MCUninterrupted`,
* `OpeningJoins`: `MCSpec => OpenJoins`,
* `ChainsComplete`: `MCSpec => []ChainsHoldRows`,
* `MCTypes`: `MCSpec => []TypeOK`.

The assumptions are those of `CatalogStats.tla` and `MSetCatalog.tla`: there is a chain, the
bounds are natural numbers, and `None` is no file name, no number and no content of a file.
The proof follows the calls of the code from the inside. First come the operations of
cfitsio and of the memory on tables: what a write, a read, an insertion and a prepending
leave at each position, and then at each row id (`Spans`, `At`). Each half of
`ncm_mset_catalog_sync` then brings rows from one side to the other and does nothing else
(`Brings`: each side keeps its rows, and those it gets are the other's at the same id);
that is transitive, so sync as a whole leaves both sides with the rows of both (`Synced`).
`set_file` is a close, an open that leaves each row its id (`OpenedReady`), the generator,
and a sync. The inductive invariant is `MCIInv`. `Kept` says that the ids are those of the
rows, that memory and file begin at the same id, and that the open file has no row beyond
memory, with a burn-in exactly memory's; that is why two ranges of ids that sync compares
always meet. `InOrderAll` says of memory and of every file, also those that are not open,
that row `i` is draw `i` (behind the burn-in in memory), that a file with rows has both
states of the generator, the second one right after its last row, and that the program
and the open file both have a generator or neither has (`OneRng`): a row that sync
copies lands at the position of its draw (`SyncInOrder`), and a generator
taken from the file goes on where its rows end. It does not hold of a run in parts, which
may give two parts the same id; there `OpeningJoins` is what remains. TLC checks `MCIInv`
on an instance of `MCSpec` as well.

`TypeOK` is more than it seems: `fits_insert_rows` makes room in a file with rows that are
blank until `sync` writes them, and what `sync` reads goes into memory, chains and
ensembles. `Typed` says that memory and every file have no blank row. The two cases of
`sync` that insert rows write each of them before they return (`SyncFirstTyped`,
`SyncLastTyped`); with a burn-in, which hides the first rows of a file from memory, nothing
is ever inserted, because the file has every row that memory has (`Kept`). The same
invariant has the chains: the chain of each walker is a permutation of the walker's rows,
which says as much as there is to say where rows are prepended (`Holding`).

The chains and the ensembles are what is left of the rows after they were added one after
another (`AddRows`, a recursive function). The induction theorems of the library take an
operator as a parameter, which the provers cannot instantiate; that a property of the
first `n` additions holds of all of them is proved by taking the least `n` for which it
fails (`WFMin`), once, for a set of natural numbers (`OneByOne`), and cited for the types
(`AddRowsTyped`) and for `Whole`.

Of the program that also drops rows (`EditSpec`: `reset`, `erase_data`, `trim` and
`remove_last_ensemble`, rows being added with the file open) the same module proves

* `EditedIdsMatch`: `EditSpec => []IdsMatch`,
* `EditedSyncs`: `EditSpec => []SyncCannotFail`,
* `EditedRowsAgree`: `EditSpec => []RowsAgree`, if `OneFile`,
* `EditedInOrder`: `EditSpec => []NoRowTwice`, if `OneFile`,
* `EditedChains`: `EditSpec => []ChainsFollowIds`, if `OneFile`,
* `EditedEnsembles`: `EditSpec => []EnsemblesHoldRows`, if `OneFile`.

`OneFile` says that `Files` has one element, and is needed. With two files a program can
write its rows to both, remove the last ensemble with one of them open and add another:
then it sets the other file, which still has what was removed at the same ids, and sync,
which compares ids only, takes the rows for the same (TLC, given two files, finds this
after seven steps, and rows that are out of order after eight; it is no run here). The
first two theorems hold on any files. The invariant is `EditIInv`: `Kept` as above,
without a burn-in, and with one file `Edited`, which says that memory and file have the
draws in order, none beyond their generator, that the file has the first rows of memory
whenever memory has rows, open or not (`Begins`), and that the chains and ensembles are
those of the rows (`Whole`). As for the rows this is weaker than `InOrderAll`, as it
must be: they are no longer those of an unbroken sequence of draws. `SyncEdited` is its
heart: of two tables one is a beginning of the other, so what sync copies continues the
shorter one. `trim` and `remove_last_ensemble` are a close, a reset (`BareOK`), for
`trim` a new first id (`BareMoves`), and the rows that remain, still in order
(`CutInOrder`), added again and written to a new file, which can always be opened
(`CanSetNewFile`, `ReloadOK`).

`Whole` says that a chain has its ids' rows in order, that the closed ensembles and the
open one are the rows cut into pieces, and, which makes it inductive, how long the open
ensemble is: it goes on where the last id that closes an ensemble left off, also when
`first_id` put the first row in the middle of one, and each ensemble after the first has
as many rows as there are walkers (`WholeGrows`, for one row; `WholeAdded`, for all rows
of a call). That these rows are of one generation it does not say, and they are not: the
last row but one of a generation closes the ensemble. `Whole` survives every step
because rows are only added behind those in memory (`AddedStaysWhole`): with rows in
memory the file begins at the same id (`Begins`), without any memory takes the id of the
file it opens (`WholeMoves`), so that the half of `sync` that prepends does nothing.
Dropping rows is always a reset and an addition of those that remain, and `first_id`
moves only while memory is empty.

Only model-checked are the liveness properties (`FreeEnds`, `SparedLoopReturns` and the two
`RunEnds`): liveness under fairness is out of the prover's reach, as is ENABLED. Each
invariant and action property of a passing run is proved, of the specification the run
checks or of those it is put together from:

* in `catalog`, of `MCSpec` and `EditSpec` one by one, the two parts of `AllSpec`. Of
  `MCSpec` are `TypeOK`, `ChainsHoldRows` and `OpenJoins`, of `EditSpec` the order in which
  draws are recorded and the ensembles, of both the ids, the syncs and the rows in memory
  and file; `MCUninterrupted` is about runs only. `TypeOK`, `OpenJoins` and `ChainsHoldRows` of edited catalogs are model-checked (`EditedChains` says more than the
  last of them), and so is the order of the draws in `MCSpec`;
* in `fit_mc`, `TypeOK` and `IndexAccount` are proved of a process that lives, and are
  model-checked of one that dies.

## Not modelled

`PROJECT.json` gives a reason for each component. In short: numbers (models,
likelihoods, minimizers, splines, diagnostics), conversions (serialization, columns of a
file against the parameters of a model), read-only files and failures of cfitsio, and
third-party code, which is a third of the repository's C. The death of a process inside
a sync is modelled in FitMC and FitESMCMC, with the writes reaching the disk in the
order they are made; MSetCatalog lets it die between two calls. The other samplers
(`NcmFitMCMC`, `NcmFitMCBS`, `NcmABC`) and `NcmFunctionCache` are not modelled; their
hazards are listed.

Observed while modelling, and not stated as a property of a run:

* `ncm_fit_mc.c:869` gives every realization to any thread of the pool; `nthreads`
  only decides whether the pool is used, so the option `mc-nthreads`
  (`tools/de_options.c:271`) does not limit the threads.
* `ncm_mset_catalog_reset` closes the file and forgets its name (`:1605`), although
  its comment (`:1879-1880`) says it changes no parameter of the object.
* `e_var_array` is not emptied by reset (`:1884-1910`).
* `sync (check = TRUE)` compares the ranges of ids; rows with one id are taken to
  be the same row. A program that starts a part of a run at an id another part
  already has gets a file that disagrees with its memory, which is why
  `MCRowsAgree` leaves parts out.
* A program that writes its rows to two files, removes the last ensemble with one of them
  open and adds another, and sets the other file again, has replaced rows in the file and
  new ones in memory under the same ids, and `sync` takes them for the same
  (`ncm_mset_catalog.c:1680`). `MCRowsAgree` is checked with two files where rows are only
  added and with one where they are dropped.
* After a file is loaded with a burn-in, `erase_data` deletes as many rows as memory has
  (`ncm_mset_catalog.c:1931`), and the file has the burn-in besides.
* `post_update` closes an ensemble when `(cur_id + 1) % nchains + 1 == nchains`
  (`ncm_mset_catalog.c:2252-2254`), one row before its last walker: with two chains
  the first row already makes one ensemble, and `max_time` is not the "Number of
  itens in the catalog divided by the number of chains" (`:2073-2074`). Each ensemble
  after the first has rows of two generations.
* `ncm_fit_esmcmc_validate` answers through the accepted flag of walker 0
  (`ncm_fit_esmcmc.c:1629`) and leaves it set, so that after a resumed start the
  first ensemble may count a move too many (`AcceptCount` allows for it).
* A process that dies in its first sync leaves a file with rows and no state of a
  generator, which set_data_file refuses together with a generator (`SetDataFile`).
* What `fit_esmcmc_torn` shows holds of NcmFitMC too, which does not validate: after a
  death in a sync that wrote its rows and not the state of the generator, a resumed run
  repeats realizations on one thread also, and has a blank row if the death came before
  they were written. `InOrder`, with `TornSpec` and one thread, is violated.
* `validate` compares `diff > 1.0e-3`, which is false when the quotient is not a
  number (`ncm_fit_esmcmc.c:1558`).
* Without a file the retry of start_run formats a NULL file name
  (`ncm_mset_catalog.c:3708`; `Retry` requires a file), and after a reset of a trimmed
  run, which keeps first_id, start_run aborts on `:1064` of `ncm_fit_esmcmc.c`.
* The stale power spectra of `cbe_powspec` do not reach the other two users of the `NcCBE`:
  the Boltzmann code forces an update at each call (`set_lensed_Cls`), and the
  recombination computes its own thermodynamics.
* `nc_cbe_thermodyn_prepare_if_needed` (`nc_cbe.c:1770-1777`) uses up the update of
  the control that `prepare_if_needed` needs. Nobody calls it.
* After another cosmology is set, `ncm_model_ctrl_submodel_last_update` is FALSE for
  submodels that are others too, since `set_model` has just set them, against
  `ncm_model_ctrl.c:206-209`. The users look at the cosmology first.
* `nc_powspec_mnl_halofit.c:608` prepares the linear spectrum without its control,
  which costs a run of CLASS more when it is asked for directly afterwards.

## Plan

1. Done: MemoryPool, FuncEval with ParallelLoop, CatalogStats and MSetCatalog,
   FitMC with SerialRun, FitESMCMC with EnsembleRun, ModelCtrl and CBE, and proofs about
   each of them.
2. Left aside: `FitMCMC`, `FitMCBS` and `ABC`, which repeat in simpler form what the two
   samplers show; the composition of FitMC with MSetCatalog in one module, whose states
   multiply; `NcmFunctionCache`.
