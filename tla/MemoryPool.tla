----------------------------- MODULE MemoryPool -----------------------------
(***************************************************************************)
(* NcmMemoryPool (numcosmo/math/memory_pool.c): a pool of duplicated       *)
(* objects (fits, integration workspaces, walkers) shared by the threads   *)
(* of a loop.  A thread takes an unused slice with ncm_memory_pool_get,    *)
(* or has a new one allocated while it holds the pool's mutex, and gives   *)
(* it back with ncm_memory_pool_return; the owner creates the pool, may    *)
(* enlarge it, and frees it, which waits on a condition until every slice  *)
(* is back.                                                                *)
(*                                                                         *)
(* What the callers promise (fit_mc, fit_esmcmc, abc and integral all do): *)
(* a slice is returned once, by the thread that took it, and once the      *)
(* owner has called ncm_memory_pool_free no get is in progress or starts.  *)
(* A return may still be pending then: the function waits for it.          *)
(***************************************************************************)
EXTENDS Naturals, FiniteSets

CONSTANTS
  Users,     \* the threads that get and return slices
  Owner,     \* the thread that creates, enlarges and frees the pool
  NoThread,  \* holder of a free mutex
  MaxLen     \* bound: the owner enlarges the pool up to MaxLen slices

ASSUME OwnerAssumption == /\ Owner \notin Users
                          /\ NoThread \notin Users \cup {Owner}
ASSUME MaxLenAssumption == MaxLen \in Nat
ASSUME UsersAssumption == IsFiniteSet(Users)

VARIABLES
  alive,        \* the pool exists, from _new to the end of _free
  len,          \* mp->slices->len: the slices are 1 .. len
  inUse,        \* the slices whose in_use flag is TRUE
  slicesInUse,  \* mp->slices_in_use
  update,       \* holder of the mutex mp->update
  pc,           \* where each user is
  slice,        \* the slice each user holds, 0 for none
  opc           \* where the owner is

vars == <<alive, len, inUse, slicesInUse, update, pc, slice, opc>>

PoolLocation == {"out", "get", "scan", "alloc", "using", "return"}
OwnerLocation == {"none", "idle", "lock", "check", "wait", "clear"}

TypeOK ==
  /\ alive \in BOOLEAN
  /\ len \in Nat
  /\ inUse \subseteq 1..len
  /\ slicesInUse \in Nat
  /\ update \in Users \cup {Owner, NoThread}
  /\ pc \in [Users -> PoolLocation]
  /\ slice \in [Users -> Nat]
  /\ opc \in OwnerLocation

Init ==
  /\ alive = FALSE
  /\ len = 0
  /\ inUse = {}
  /\ slicesInUse = 0
  /\ update = NoThread
  /\ pc = [u \in Users |-> "out"]
  /\ slice = [u \in Users |-> 0]
  /\ opc = "none"

-----------------------------------------------------------------------------
(* ncm_memory_pool_get                                                     *)

Free == (1..len) \ inUse

(* The linear search takes the slice of least index.                       *)
IsFirstFree(s) == s \in Free /\ \A r \in Free : s <= r

GetCall(u) ==
  /\ pc[u] = "out"
  /\ opc = "idle"
  /\ pc' = [pc EXCEPT ![u] = "get"]
  /\ UNCHANGED <<alive, len, inUse, slicesInUse, update, slice, opc>>

GetLock(u) ==
  /\ pc[u] = "get"
  /\ update = NoThread
  /\ update' = u
  /\ pc' = [pc EXCEPT ![u] = "scan"]
  /\ UNCHANGED <<alive, len, inUse, slicesInUse, slice, opc>>

(* Mutant of Hand: the slice is not marked as in use.                      *)
HandUnmarked(u, s) ==
  /\ slice' = [slice EXCEPT ![u] = s]
  /\ slicesInUse' = slicesInUse + 1
  /\ update' = NoThread
  /\ pc' = [pc EXCEPT ![u] = "using"]
  /\ UNCHANGED inUse

(* Mutant of Hand: the slice is not counted.                               *)
HandUncounted(u, s) ==
  /\ inUse' = inUse \cup {s}
  /\ slice' = [slice EXCEPT ![u] = s]
  /\ update' = NoThread
  /\ pc' = [pc EXCEPT ![u] = "using"]
  /\ UNCHANGED slicesInUse

(* The rest of get once slice s is the thread's: count it and unlock.      *)
Hand(u, s) ==
  /\ inUse' = inUse \cup {s}
  /\ slice' = [slice EXCEPT ![u] = s]
  /\ slicesInUse' = slicesInUse + 1
  /\ update' = NoThread
  /\ pc' = [pc EXCEPT ![u] = "using"]

GetFree(u) ==
  /\ pc[u] = "scan"
  /\ \E s \in Free : IsFirstFree(s) /\ Hand(u, s)
  /\ UNCHANGED <<alive, len, opc>>

(* Mutant of GetNone: a slice is allocated even if one is free.            *)
GetNoneAlways(u) ==
  /\ pc[u] = "scan"
  /\ pc' = [pc EXCEPT ![u] = "alloc"]
  /\ UNCHANGED <<alive, len, inUse, slicesInUse, update, slice, opc>>

(* No free slice: mp->alloc runs with the mutex held.                      *)
GetNone(u) ==
  /\ pc[u] = "scan"
  /\ Free = {}
  /\ pc' = [pc EXCEPT ![u] = "alloc"]
  /\ UNCHANGED <<alive, len, inUse, slicesInUse, update, slice, opc>>

(* Mutant of GetAlloc: the new slice is not added to the array.            *)
GetAllocUnlisted(u) ==
  /\ pc[u] = "alloc"
  /\ Hand(u, len + 1)
  /\ UNCHANGED <<alive, len, opc>>

GetAlloc(u) ==
  /\ pc[u] = "alloc"
  /\ len' = len + 1
  /\ Hand(u, len + 1)
  /\ UNCHANGED <<alive, opc>>

-----------------------------------------------------------------------------
(* ncm_memory_pool_return                                                  *)

ReturnLock(u) ==
  /\ pc[u] = "using"
  /\ update = NoThread
  /\ update' = u
  /\ pc' = [pc EXCEPT ![u] = "return"]
  /\ UNCHANGED <<alive, len, inUse, slicesInUse, slice, opc>>

(* Mutant of Signal: nobody is woken.                                      *)
SignalLost == UNCHANGED opc

(* g_cond_signal wakes the owner, which must then take the mutex again.    *)
Signal == opc' = IF opc = "wait" THEN "lock" ELSE opc

Return(u) ==
  /\ pc[u] = "return"
  /\ inUse' = inUse \ {slice[u]}
  /\ slicesInUse' = slicesInUse - 1
  /\ IF slicesInUse' = 0 THEN Signal ELSE UNCHANGED opc
  /\ slice' = [slice EXCEPT ![u] = 0]
  /\ update' = NoThread
  /\ pc' = [pc EXCEPT ![u] = "out"]
  /\ UNCHANGED <<alive, len>>

-----------------------------------------------------------------------------
(* The owner: ncm_memory_pool_new, _set_min_size, _add and _free           *)

New ==
  /\ opc = "none"
  /\ alive' = TRUE
  /\ len' = 0
  /\ inUse' = {}
  /\ slicesInUse' = 0
  /\ opc' = "idle"
  /\ UNCHANGED <<update, pc, slice>>

(* set_min_size(n) allocates while the pool is shorter than n.             *)
SetMinSize(n) ==
  /\ opc = "idle"
  /\ update = NoThread
  /\ len < n
  /\ len' = n
  /\ UNCHANGED <<alive, inUse, slicesInUse, update, pc, slice, opc>>

Add ==
  /\ opc = "idle"
  /\ update = NoThread
  /\ len < MaxLen
  /\ len' = len + 1
  /\ UNCHANGED <<alive, inUse, slicesInUse, update, pc, slice, opc>>

(* The call of _free: by then no user is inside get.                       *)
FreeCall ==
  /\ opc = "idle"
  /\ \A u \in Users : pc[u] \in {"out", "using", "return"}
  /\ opc' = "lock"
  /\ UNCHANGED <<alive, len, inUse, slicesInUse, update, pc, slice>>

FreeLock ==
  /\ opc = "lock"
  /\ update = NoThread
  /\ update' = Owner
  /\ opc' = "check"
  /\ UNCHANGED <<alive, len, inUse, slicesInUse, pc, slice>>

(* while (mp->slices_in_use != 0) g_cond_wait (...)                        *)
FreeWait ==
  /\ opc = "check"
  /\ slicesInUse # 0
  /\ update' = NoThread
  /\ opc' = "wait"
  /\ UNCHANGED <<alive, len, inUse, slicesInUse, pc, slice>>

(* g_cond_wait may return without a signal; the loop tests again.          *)
FreeSpuriousWake ==
  /\ opc = "wait"
  /\ opc' = "lock"
  /\ UNCHANGED <<alive, len, inUse, slicesInUse, update, pc, slice>>

(* Mutant of FreeSlices: the counter is not tested again after the wait.   *)
FreeSlicesAnyway ==
  /\ opc = "check"
  /\ len' = 0
  /\ inUse' = {}
  /\ update' = NoThread
  /\ opc' = "clear"
  /\ UNCHANGED <<alive, slicesInUse, pc, slice>>

(* Every slice is freed and the mutex released ...                         *)
FreeSlices ==
  /\ opc = "check"
  /\ slicesInUse = 0
  /\ len' = 0
  /\ inUse' = {}
  /\ update' = NoThread
  /\ opc' = "clear"
  /\ UNCHANGED <<alive, slicesInUse, pc, slice>>

(* ... then the mutex, the condition and the pool itself go.               *)
FreePool ==
  /\ opc = "clear"
  /\ alive' = FALSE
  /\ opc' = "none"
  /\ UNCHANGED <<len, inUse, slicesInUse, update, pc, slice>>

-----------------------------------------------------------------------------

UserStep(u) == \/ GetLock(u) \/ GetFree(u) \/ GetNone(u) \/ GetAlloc(u)
               \/ ReturnLock(u) \/ Return(u)

OwnerFree == FreeLock \/ FreeWait \/ FreeSlices \/ FreePool

Next ==
  \/ \E u \in Users : GetCall(u) \/ UserStep(u)
  \/ New \/ Add \/ FreeCall \/ FreeSpuriousWake \/ OwnerFree
  \/ \E n \in 1..MaxLen : SetMinSize(n)

(* A loop function returns its slice, and a thread that can run does run;  *)
(* nobody has to start a get or a free, and spurious wakes come to an end. *)
Fairness == /\ \A u \in Users : WF_vars(UserStep(u))
            /\ WF_vars(OwnerFree)
            /\ <>[][~ FreeSpuriousWake]_vars

Spec == Init /\ [][Next]_vars

FairSpec == Spec /\ Fairness

-----------------------------------------------------------------------------
(* Properties                                                              *)

Holding(u) == pc[u] \in {"using", "return"}

(* "These functions are thread safe" (memory_pool.c:46): no two threads    *)
(* ever hold the same object, whatever the order in which they take,       *)
(* allocate and return.                                                    *)
Exclusive ==
  \A u, v \in Users :
    Holding(u) /\ Holding(v) /\ slice[u] = slice[v] => u = v

(* The counter _free waits on agrees with the flags get searches and with  *)
(* the threads that really hold a slice.                                   *)
CountExact ==
  /\ slicesInUse = Cardinality(inUse)
  /\ inUse = {slice[u] : u \in {v \in Users : Holding(v)}}

(* The owner never frees slices or the pool under a thread that holds a    *)
(* slice, nor while a thread is inside one of the pool's functions.        *)
NoUseAfterFree ==
  \A u \in Users : pc[u] # "out" => alive /\ opc \notin {"clear", "none"}

(* A get allocates only for want of a free slice, so the pool never grows  *)
(* beyond what the owner asked for or one slice per thread: a slice that   *)
(* was returned is used again.                                             *)
PoolBounded ==
  len <= IF MaxLen > Cardinality(Users) THEN MaxLen ELSE Cardinality(Users)

(* The mutex protects the search: at most one thread is between lock and   *)
(* unlock, and it is the one recorded as the holder.                       *)
LockHeld ==
  /\ \A u \in Users : pc[u] \in {"scan", "alloc", "return"} <=> update = u
  /\ opc = "check" <=> update = Owner

(* Once called, _free ends: the last return wakes it.                      *)
FreeEnds == opc = "lock" ~> opc = "none"
=============================================================================
