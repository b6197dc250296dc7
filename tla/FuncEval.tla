------------------------------ MODULE FuncEval ------------------------------
(***************************************************************************)
(* The threaded loops of numcosmo/math/ncm_func_eval.c.  A loop cuts its   *)
(* indices into tasks, pushes them one by one to the one global            *)
(* GThreadPool and sleeps until its counter of active threads is zero.     *)
(* The counter, its mutex and its condition live on the caller's stack.    *)
(*                                                                         *)
(* A loop function may call a loop itself: the likelihood of               *)
(* NcDataClusterNCount does, inside the fits that NcmFitMC or the walkers  *)
(* that NcmFitESMCMC run in the pool.  The caller is then a pool thread,   *)
(* which sleeps in the inner loop without giving its place back.           *)
(***************************************************************************)
EXTENDS Integers, Sequences, FiniteSets

CONSTANTS
  Callers,  \* threads outside the pool that call loops
  Workers,  \* the threads the pool may have
  NoTask,   \* what an idle pool thread runs
  Last,     \* bound: the loops run over indices in 0 .. Last
  Nested,   \* indices of an outer loop whose evaluation calls a loop itself
  Limits    \* what ncm_func_eval_set_max_threads is called with

Loops == Callers \cup Workers

ASSUME ThreadsAssumption ==
  Callers \cap Workers = {} /\ IsFiniteSet(Workers) /\ Workers # {}
ASSUME LastAssumption == Last \in Nat
ASSUME NestedAssumption == Nested \subseteq 0..Last
ASSUME LimitsAssumption == Limits \subseteq Int

VARIABLES
  maxThreads,  \* the pool's limit, -1 for none
  queue,       \* tasks pushed and not yet taken
  task,        \* the task each pool thread runs, its i the next index
  phase,       \* where the caller of each loop is
  left,        \* tasks each caller has still to push
  active,      \* ctrl.active_threads of each loop
  range,       \* the indices of each loop
  done,        \* those evaluated in its current call
  evals,       \* how many evaluations its current call has made
  subDone      \* the inner loop of the thread's current index has returned

vars == <<maxThreads, queue, task, phase, left, active, range, done, evals,
          subDone>>

Task == [loop : Loops, i : 0..Last + 1, f : 0..Last + 1]

ASSUME NoTaskAssumption == NoTask \notin Task

TypeOK ==
  /\ maxThreads \in Int /\ maxThreads >= -1
  /\ queue \in Seq(Task)
  /\ task \in [Workers -> Task \cup {NoTask}]
  /\ phase \in [Loops -> {"idle", "push", "wait", "asleep"}]
  /\ left \in [Loops -> Seq(Task)]
  /\ active \in [Loops -> Int]
  /\ range \in [Loops -> SUBSET (0..Last)]
  /\ done \in [Loops -> SUBSET (0..Last)]
  /\ evals \in [Loops -> Nat]
  /\ subDone \in [Workers -> BOOLEAN]

Init ==
  /\ maxThreads = Cardinality(Workers)
  /\ queue = <<>>
  /\ task = [w \in Workers |-> NoTask]
  /\ phase = [l \in Loops |-> "idle"]
  /\ left = [l \in Loops |-> <<>>]
  /\ active = [l \in Loops |-> 0]
  /\ range = [l \in Loops |-> {}]
  /\ done = [l \in Loops |-> {}]
  /\ evals = [l \in Loops |-> 0]
  /\ subDone = [w \in Workers |-> FALSE]

-----------------------------------------------------------------------------
(* How a loop cuts i .. f-1 into tasks                                     *)

(* threaded_loop_full: one task per index.                                 *)
TasksFull(l, i, f) ==
  [k \in 1..f - i |-> [loop |-> l, i |-> i + k - 1, f |-> i + k]]

(* Mutant of TasksNW: every task has the remainder.                        *)
TasksNWTooLong(l, i, f, nworkers) ==
  LET delta == (f - i) \div nworkers
      res == (f - i) % nworkers
      cut(k) == i + k * (delta + res)
  IN  [k \in 1..nworkers |-> [loop |-> l, i |-> cut(k - 1), f |-> cut(k)]]

(* Mutant of TasksNW: the second task does not start after the remainder   *)
(* that the first one has.                                                 *)
TasksNWOverlapping(l, i, f, nworkers) ==
  LET delta == (f - i) \div nworkers
      res == (f - i) % nworkers
  IN  [k \in 1..nworkers |->
         [loop |-> l, i |-> i + (k - 1) * delta, f |-> i + res + k * delta]]

(* threaded_loop_nw: nworkers tasks of delta indices, the first of which   *)
(* also has the remainder.                                                 *)
TasksNW(l, i, f, nworkers) ==
  LET delta == (f - i) \div nworkers
      res == (f - i) % nworkers
      cut(k) == IF k = 0 THEN i ELSE i + res + k * delta
  IN  [k \in 1..nworkers |-> [loop |-> l, i |-> cut(k - 1), f |-> cut(k)]]

-----------------------------------------------------------------------------
(* The caller                                                              *)

(* Mutant of Call: active_threads counts indices instead of tasks.         *)
CallCountsIndices(l, i, f, tasks) ==
  /\ phase[l] = "idle"
  /\ phase' = [phase EXCEPT ![l] = "push"]
  /\ range' = [range EXCEPT ![l] = i..f - 1]
  /\ done' = [done EXCEPT ![l] = {}]
  /\ evals' = [evals EXCEPT ![l] = 0]
  /\ left' = [left EXCEPT ![l] = tasks]
  /\ active' = [active EXCEPT ![l] = f - i]
  /\ UNCHANGED <<maxThreads, queue, task, subDone>>

Call(l, i, f, tasks) ==
  /\ phase[l] = "idle"
  /\ phase' = [phase EXCEPT ![l] = "push"]
  /\ range' = [range EXCEPT ![l] = i..f - 1]
  /\ done' = [done EXCEPT ![l] = {}]
  /\ evals' = [evals EXCEPT ![l] = 0]
  /\ left' = [left EXCEPT ![l] = tasks]
  /\ active' = [active EXCEPT ![l] = Len(tasks)]
  /\ UNCHANGED <<maxThreads, queue, task, subDone>>

(* g_assert (f > i)                                                        *)
LoopFull(l) ==
  \E i, f \in 0..Last + 1 : i < f /\ Call(l, i, f, TasksFull(l, i, f))

(* threaded_loop_nw, with any number of workers it does not abort on: it   *)
(* asserts f - i > nworkers > 0, so delta is never 0.  threaded_loop is    *)
(* the call with the limit of the pool; with -1 it aborts, the limit being *)
(* passed on as a guint.                                                   *)
LoopNW(l) ==
  \E i, f \in 0..Last + 1 : \E nworkers \in 1..Last :
    f - i > nworkers /\ Call(l, i, f, TasksNW(l, i, f, nworkers))

(* A pool thread that evaluates a nested index calls the inner loop.       *)
Nests(w) ==
  task[w] # NoTask /\ task[w].i < task[w].f
    /\ task[w].loop \in Callers /\ task[w].i \in Nested

NestedLoop(w) == Nests(w) /\ ~ subDone[w] /\ LoopFull(w)

(* g_thread_pool_push, task after task: the pool may run them meanwhile.   *)
Push(l) ==
  /\ phase[l] = "push"
  /\ IF left[l] = <<>>
     THEN /\ phase' = [phase EXCEPT ![l] = "wait"]
          /\ UNCHANGED <<queue, left>>
     ELSE /\ queue' = Append(queue, Head(left[l]))
          /\ left' = [left EXCEPT ![l] = Tail(@)]
          /\ UNCHANGED phase
  /\ UNCHANGED <<maxThreads, task, active, range, done, evals, subDone>>

(* while (ctrl.active_threads != 0) g_cond_wait (...)                      *)
Sleep(l) ==
  /\ phase[l] = "wait"
  /\ active[l] # 0
  /\ phase' = [phase EXCEPT ![l] = "asleep"]
  /\ UNCHANGED <<maxThreads, queue, task, left, active, range, done, evals, subDone>>

(* Mutant of Return: the counter is not tested again after the wait.       *)
ReturnEarly(l) ==
  /\ phase[l] = "wait"
  /\ phase' = [phase EXCEPT ![l] = "idle"]
  /\ subDone' = IF l \in Workers THEN [subDone EXCEPT ![l] = TRUE] ELSE subDone
  /\ UNCHANGED <<maxThreads, queue, task, left, active, range, done, evals>>

Return(l) ==
  /\ phase[l] = "wait"
  /\ active[l] = 0
  /\ phase' = [phase EXCEPT ![l] = "idle"]
  /\ subDone' = IF l \in Workers THEN [subDone EXCEPT ![l] = TRUE] ELSE subDone
  /\ UNCHANGED <<maxThreads, queue, task, left, active, range, done, evals>>

-----------------------------------------------------------------------------
(* The pool                                                                *)

Busy == {w \in Workers : task[w] # NoTask}

(* A pool thread takes the oldest task, if the limit lets it run.          *)
Take(w) ==
  /\ task[w] = NoTask
  /\ queue # <<>>
  /\ maxThreads = -1 \/ Cardinality(Busy) < maxThreads
  /\ task' = [task EXCEPT ![w] = Head(queue)]
  /\ queue' = Tail(queue)
  /\ UNCHANGED <<maxThreads, phase, left, active, range, done, evals, subDone>>

(* lfunc (i, f, data) evaluates its indices in order.                      *)
Eval(w) ==
  /\ task[w] # NoTask
  /\ task[w].i < task[w].f
  /\ phase[w] = "idle"
  /\ Nests(w) => subDone[w]
  /\ done' = [done EXCEPT ![task[w].loop] = @ \cup {task[w].i}]
  /\ evals' = [evals EXCEPT ![task[w].loop] = @ + 1]
  /\ task' = [task EXCEPT ![w].i = @ + 1]
  /\ subDone' = [subDone EXCEPT ![w] = FALSE]
  /\ UNCHANGED <<maxThreads, queue, phase, left, active, range>>

(* Mutant of Finish: the caller is not signalled.                          *)
FinishSilently(w) ==
  /\ task[w] # NoTask
  /\ task[w].i = task[w].f
  /\ active' = [active EXCEPT ![task[w].loop] = @ - 1]
  /\ task' = [task EXCEPT ![w] = NoTask]
  /\ UNCHANGED <<maxThreads, queue, phase, left, range, done, evals, subDone>>

(* The end of func: under ctrl->update, count down and signal at zero.     *)
Finish(w) ==
  /\ task[w] # NoTask
  /\ task[w].i = task[w].f
  /\ LET l == task[w].loop
     IN  /\ active' = [active EXCEPT ![l] = @ - 1]
         /\ phase' = IF active'[l] = 0 /\ phase[l] = "asleep"
                     THEN [phase EXCEPT ![l] = "wait"]
                     ELSE phase
  /\ task' = [task EXCEPT ![w] = NoTask]
  /\ UNCHANGED <<maxThreads, queue, left, range, done, evals, subDone>>

(* Called where the tools call it (darkenergy.c:210), outside any loop;    *)
(* the pool takes -1, no limit, and nothing below it.                      *)
SetMaxThreads(mt) ==
  /\ mt >= -1 /\ mt # maxThreads
  /\ \A l \in Loops : phase[l] = "idle"
  /\ maxThreads' = mt
  /\ UNCHANGED <<queue, task, phase, left, active, range, done, evals, subDone>>

-----------------------------------------------------------------------------

CallerStep(l) == Push(l) \/ Sleep(l) \/ Return(l)

WorkerStep(w) == Take(w) \/ Eval(w) \/ Finish(w) \/ NestedLoop(w)

Next ==
  \/ \E l \in Callers : LoopFull(l) \/ LoopNW(l)
  \/ \E l \in Loops : CallerStep(l)
  \/ \E w \in Workers : WorkerStep(w)
  \/ \E mt \in Limits : SetMaxThreads(mt)

Spec == Init /\ [][Next]_vars

(* Loop functions terminate, and the pool runs its threads; nobody has to  *)
(* call a loop from outside.                                               *)
Fairness == /\ \A l \in Loops : WF_vars(CallerStep(l))
            /\ \A w \in Workers : WF_vars(WorkerStep(w))

FairSpec == Spec /\ Fairness

-----------------------------------------------------------------------------
(* Properties                                                              *)

(* Every index is evaluated exactly once and before the loop returns,      *)
(* however its tasks and those of other loops interleave in the pool.  An  *)
(* index evaluated again changes evals alone, which no step of             *)
(* ParallelLoop does.                                                      *)
Promise == INSTANCE ParallelLoop WITH running <- {l \in Loops : phase[l] # "idle"}
KeepsPromise == Promise!Spec

(* The counter of a loop is the number of its tasks that are not finished: *)
(* still to be pushed, in the queue, or being run.                         *)
ActiveExact ==
  \A l \in Loops :
    active[l] = Len(left[l])
                + Cardinality({k \in DOMAIN queue : queue[k].loop = l})
                + Cardinality({w \in Busy : task[w].loop = l})

(* A task points to the counter on the stack of its loop's caller, which   *)
(* must therefore still be inside the call while the task exists.          *)
CtrlAlive ==
  /\ \A k \in DOMAIN queue : phase[queue[k].loop] # "idle"
  /\ \A w \in Busy : phase[task[w].loop] # "idle"

(* "Using the thread pool, evaluate @fl sending one worker per index."     *)
(* (ncm_func_eval.c:216): a loop that is called returns.                   *)
LoopReturns == \A l \in Callers : phase[l] = "push" ~> phase[l] = "idle"

(* It does when the pool has a thread more than there are nested indices:  *)
(* the inner loops then run on it, and nothing else is needed.             *)
Spare ==
  LET nested == Cardinality(Nested)
  IN  nested < Cardinality(Workers) /\ (maxThreads = -1 \/ nested < maxThreads)
SparedLoopReturns == \A l \in Callers : Spare /\ phase[l] = "push" ~> phase[l] = "idle"
=============================================================================
