-------------------------- MODULE MemoryPoolProofs --------------------------
(***************************************************************************)
(* Proofs about MemoryPool, for any finite set of threads and any MaxLen.  *)
(*                                                                         *)
(* None of Exclusive, CountExact, NoUseAfterFree and PoolBounded is        *)
(* inductive.  IInv adds to them who holds the mutex, what the state of    *)
(* the owner says of the pool and of the users, and that a thread about to *)
(* allocate has seen every slice in use.                                   *)
(***************************************************************************)
EXTENDS MemoryPool, TLAPS, FiniteSetTheorems

(* The users that hold a slice.                                            *)
Holders == {u \in Users : Holding(u)}

Bound == IF MaxLen > Cardinality(Users) THEN MaxLen ELSE Cardinality(Users)

(* The pool exists unless the owner has none.                              *)
AliveInv == alive <=> opc # "none"

(* From the call of _free on no thread is in get ...                       *)
NoGet == opc # "idle" => \A u \in Users : pc[u] \in {"out", "using", "return"}

(* ... and when the slices go none of them is held.                        *)
NoneLeft == opc \in {"clear", "none"} => \A u \in Users : pc[u] = "out"

(* A thread allocates when every slice is in use, and nobody adds one      *)
(* while it does.                                                          *)
AllocFull == \A u \in Users : pc[u] = "alloc" => inUse = 1..len

IInv ==
  /\ TypeOK
  /\ LockHeld
  /\ AliveInv /\ NoGet /\ NoneLeft
  /\ Exclusive
  /\ CountExact
  /\ AllocFull
  /\ PoolBounded

-----------------------------------------------------------------------------
(* Cardinalities                                                           *)

LEMMA InUseFinite ==
  ASSUME TypeOK
  PROVE  IsFiniteSet(inUse) /\ Cardinality(inUse) \in Nat
<1>1. IsFiniteSet(1..len) BY FS_Interval DEF TypeOK
<1>2. IsFiniteSet(inUse) BY <1>1, FS_Subset DEF TypeOK
<1>. QED BY <1>2, FS_CardinalityType

(* The users are finitely many, so the bound on the pool is a number.      *)
LEMMA BoundType == Bound \in Nat
BY UsersAssumption, MaxLenAssumption, FS_CardinalityType DEF Bound

(* If a thread holds no slice while all of them are in use there is room   *)
(* for one more within the bound.                                          *)
LEMMA RoomForOne ==
  ASSUME TypeOK, CountExact,
         NEW u \in Users, ~ Holding(u), inUse = 1..len
  PROVE  len + 1 <= Cardinality(Users)
<1>. DEFINE f == [v \in Holders |-> slice[v]]
<1>1. /\ IsFiniteSet(Users \ {u})
      /\ Cardinality(Users \ {u}) = Cardinality(Users) - 1
  BY UsersAssumption, FS_RemoveElement
<1>2. Holders \subseteq Users \ {u}
  BY DEF Holders
<1>3. /\ IsFiniteSet(Holders)
      /\ Cardinality(Holders) <= Cardinality(Users \ {u})
  BY <1>1, <1>2, FS_Subset
<1>4. f \in Surjection(Holders, inUse)
  <2>1. f \in [Holders -> inUse]
    BY DEF CountExact, Holders
  <2>2. \A s \in inUse : \E v \in Holders : f[v] = s
    BY DEF CountExact, Holders
  <2>. QED BY <2>1, <2>2 DEF Surjection
<1>5. Cardinality(inUse) <= Cardinality(Holders)
  BY <1>3, <1>4, FS_Surjection
<1>6. Cardinality(1..len) = len
  BY FS_Interval DEF TypeOK
<1>7. /\ Cardinality(Users) \in Nat
      /\ Cardinality(Holders) \in Nat
      /\ Cardinality(Users \ {u}) \in Nat
  BY <1>1, <1>3, UsersAssumption, FS_CardinalityType
<1>. QED BY <1>1, <1>3, <1>5, <1>6, <1>7 DEF TypeOK

-----------------------------------------------------------------------------
(* The invariant                                                           *)

LEMMA InitIInv == Init => IInv
<1>. SUFFICES ASSUME Init PROVE IInv
  OBVIOUS
<1>. USE DEF Init
<1>1. TypeOK
  BY DEF TypeOK, PoolLocation, OwnerLocation
<1>2. LockHeld
  BY OwnerAssumption DEF LockHeld
<1>3. AliveInv /\ NoGet /\ NoneLeft /\ AllocFull
  BY DEF AliveInv, NoGet, NoneLeft, AllocFull
<1>4. Exclusive
  BY DEF Exclusive, Holding
<1>5. CountExact
  <2>1. Cardinality({}) = 0 BY FS_EmptySet
  <2>2. {slice[u] : u \in {v \in Users : Holding(v)}} = {} BY DEF Holding
  <2>. QED BY <2>1, <2>2 DEF CountExact
<1>6. PoolBounded
  BY BoundType DEF PoolBounded, Bound
<1>. QED BY <1>1, <1>2, <1>3, <1>4, <1>5, <1>6 DEF IInv

(* A step that leaves the slices, and who holds them, as they were.        *)
LEMMA SlicesKept ==
  ASSUME Exclusive, CountExact, PoolBounded,
         UNCHANGED <<inUse, slicesInUse, slice>>,
         len' <= Bound,
         \A u \in Users : Holding(u)' <=> Holding(u)
  PROVE  Exclusive' /\ CountExact' /\ PoolBounded'
<1>1. Exclusive'
  BY DEF Exclusive, Holding
<1>2. CountExact'
  <2>1. {v \in Users : Holding(v)}' = {v \in Users : Holding(v)}
    BY DEF Holding
  <2>. QED BY <2>1 DEF CountExact
<1>3. PoolBounded'
  BY DEF PoolBounded, Bound
<1>. QED BY <1>1, <1>2, <1>3

(* The end of a get: slice s goes to u, which held none.                   *)
LEMMA HandKeeps ==
  ASSUME TypeOK, LockHeld, AliveInv, NoGet, NoneLeft, Exclusive, CountExact, AllocFull,
         NEW u \in Users, pc[u] \in {"scan", "alloc"},
         NEW s \in 1..len', s \notin inUse,
         len' \in Nat, len <= len', len' <= Bound,
         Hand(u, s), UNCHANGED <<alive, opc>>
  PROVE  IInv'
<1>. USE DEF Hand
<1>1. TypeOK'
  BY DEF TypeOK, PoolLocation, OwnerLocation
<1>2. LockHeld'
  BY OwnerAssumption DEF TypeOK, LockHeld
<1>3. opc = "idle"
  BY DEF NoGet, TypeOK
<1>4. (AliveInv /\ NoGet /\ NoneLeft)'
  BY <1>3 DEF AliveInv, NoGet, NoneLeft
<1>5. AllocFull'
  BY DEF AllocFull, LockHeld, TypeOK
<1>6. \A v \in Users \ {u} : /\ Holding(v)' <=> Holding(v)
                             /\ slice'[v] = slice[v]
                             /\ Holding(v) => slice[v] # s
  BY DEF Holding, TypeOK, CountExact
<1>7. Holding(u)' /\ ~ Holding(u) /\ slice'[u] = s
  BY DEF Holding, TypeOK
<1>8. Exclusive'
  BY <1>6, <1>7 DEF Exclusive
<1>9. CountExact'
  <2>1. {slice[v] : v \in {w \in Users : Holding(w)}}'
          = {slice[v] : v \in {w \in Users : Holding(w)}} \cup {s}
    BY <1>6, <1>7
  <2>2. Cardinality(inUse \cup {s}) = Cardinality(inUse) + 1
    BY InUseFinite, FS_AddElement
  <2>. QED BY <2>1, <2>2 DEF CountExact
<1>10. PoolBounded'
  BY DEF PoolBounded, Bound
<1>. QED BY <1>1, <1>2, <1>4, <1>5, <1>8, <1>9, <1>10 DEF IInv

LEMMA GetIInv ==
  ASSUME IInv, NEW u \in Users
  PROVE  GetCall(u) \/ GetLock(u) \/ GetNone(u) \/ GetFree(u) \/ GetAlloc(u) => IInv'
<1>. USE DEF IInv
<1>0. len <= Bound
  BY DEF PoolBounded, Bound
<1>1. ASSUME GetCall(u) \/ GetLock(u) \/ GetNone(u) PROVE IInv'
  <2>. USE <1>1 DEF GetCall, GetLock, GetNone
  <2>1. TypeOK'
    BY DEF TypeOK, PoolLocation
  <2>2. LockHeld'
    BY OwnerAssumption DEF TypeOK, LockHeld
  <2>3. opc = "idle"
    BY DEF NoGet, TypeOK
  <2>4. (AliveInv /\ NoGet /\ NoneLeft)'
    BY <2>3 DEF AliveInv, NoGet, NoneLeft
  <2>5. AllocFull'
    BY DEF AllocFull, TypeOK, Free
  <2>6. \A v \in Users : Holding(v)' <=> Holding(v)
    BY DEF Holding, TypeOK
  <2>. QED BY <1>0, <2>1, <2>2, <2>4, <2>5, <2>6, SlicesKept
<1>2. ASSUME GetFree(u) PROVE IInv'
  <2>1. PICK s \in Free : Hand(u, s)
    BY <1>2 DEF GetFree
  <2>2. s \in 1..len' /\ s \notin inUse /\ len' = len /\ len \in Nat
    BY <1>2, <2>1 DEF GetFree, Free, TypeOK
  <2>. QED BY <1>0, <1>2, <2>1, <2>2, HandKeeps DEF GetFree
<1>3. ASSUME GetAlloc(u) PROVE IInv'
  <2>1. ~ Holding(u) /\ inUse = 1..len
    BY <1>3 DEF GetAlloc, Holding, AllocFull
  <2>2. len + 1 <= Cardinality(Users)
    BY <2>1, RoomForOne
  <2>3. /\ len' = len + 1 /\ len \in Nat
        /\ len + 1 \in 1..len' /\ len + 1 \notin inUse
    BY <1>3 DEF GetAlloc, TypeOK
  <2>4. len' <= Bound
    BY <2>2, <2>3, MaxLenAssumption, UsersAssumption, FS_CardinalityType DEF Bound
  <2>. QED BY <1>3, <2>3, <2>4, HandKeeps DEF GetAlloc
<1>. QED BY <1>1, <1>2, <1>3

LEMMA ReturnIInv ==
  ASSUME IInv, NEW u \in Users
  PROVE  ReturnLock(u) \/ Return(u) => IInv'
<1>. USE DEF IInv
<1>0. len <= Bound
  BY DEF PoolBounded, Bound
<1>1. ASSUME ReturnLock(u) PROVE IInv'
  <2>. USE <1>1 DEF ReturnLock
  <2>1. TypeOK'
    BY DEF TypeOK, PoolLocation
  <2>2. LockHeld'
    BY OwnerAssumption DEF TypeOK, LockHeld
  <2>3. (AliveInv /\ NoGet /\ NoneLeft)'
    BY DEF AliveInv, NoGet, NoneLeft, TypeOK
  <2>4. AllocFull'
    BY DEF AllocFull, TypeOK
  <2>5. \A v \in Users : Holding(v)' <=> Holding(v)
    BY DEF Holding, TypeOK
  <2>. QED BY <1>0, <2>1, <2>2, <2>3, <2>4, <2>5, SlicesKept
<1>2. ASSUME Return(u) PROVE IInv'
  <2>. USE <1>2 DEF Return
  <2>1. Holding(u) /\ slice[u] \in inUse
    BY DEF Holding, CountExact
  <2>2. /\ Cardinality(inUse \ {slice[u]}) = Cardinality(inUse) - 1
        /\ Cardinality(inUse \ {slice[u]}) \in Nat
    BY <2>1, InUseFinite, FS_RemoveElement, FS_CardinalityType
  <2>3. slicesInUse' = Cardinality(inUse') /\ slicesInUse' \in Nat
    BY <2>2 DEF CountExact
  <2>4. opc' = opc \/ (opc = "wait" /\ opc' = "lock")
    BY DEF Signal
  <2>5. TypeOK'
    BY <2>3, <2>4 DEF TypeOK, PoolLocation, OwnerLocation
  <2>6. LockHeld'
    BY <2>4, OwnerAssumption DEF TypeOK, LockHeld
  <2>7. (AliveInv /\ NoGet /\ NoneLeft)'
    BY <2>4 DEF AliveInv, NoGet, NoneLeft, TypeOK
  <2>8. AllocFull'
    BY DEF AllocFull, LockHeld, TypeOK
  <2>9. /\ \A v \in Users \ {u} : /\ Holding(v)' <=> Holding(v)
                                  /\ slice'[v] = slice[v]
                                  /\ Holding(v) => slice[v] # slice[u]
        /\ ~ Holding(u)'
    BY <2>1 DEF Holding, TypeOK, Exclusive
  <2>10. Exclusive'
    BY <2>9 DEF Exclusive
  <2>11. {slice[v] : v \in {w \in Users : Holding(w)}}'
           = {slice[v] : v \in {w \in Users : Holding(w)}} \ {slice[u]}
    BY <2>9
  <2>12. CountExact'
    BY <2>3, <2>11 DEF CountExact
  <2>13. PoolBounded'
    BY DEF PoolBounded
  <2>. QED BY <2>5, <2>6, <2>7, <2>8, <2>10, <2>12, <2>13
<1>. QED BY <1>1, <1>2

(* New and FreeSlices: with no thread in the pool nothing is held, so the  *)
(* slices may be replaced by none.                                         *)
LEMMA EmptyKeeps ==
  ASSUME \A u \in Users : ~ Holding(u)',
         len' = 0, inUse' = {}, slicesInUse' = 0
  PROVE  Exclusive' /\ CountExact' /\ PoolBounded'
<1>1. Exclusive'
  BY DEF Exclusive
<1>2. {slice[u] : u \in {v \in Users : Holding(v)}}' = {}
  OBVIOUS
<1>3. CountExact'
  BY <1>2, FS_EmptySet DEF CountExact
<1>4. PoolBounded'
  BY BoundType DEF PoolBounded, Bound
<1>. QED BY <1>1, <1>3, <1>4

LEMMA GrowIInv ==
  ASSUME IInv
  PROVE  New \/ Add \/ (\E n \in 1..MaxLen : SetMinSize(n)) => IInv'
<1>. USE DEF IInv
<1>1. ASSUME New PROVE IInv'
  <2>. USE <1>1 DEF New
  <2>1. \A u \in Users : pc[u] = "out"
    BY DEF NoneLeft
  <2>2. TypeOK'
    BY DEF TypeOK, OwnerLocation
  <2>3. LockHeld'
    BY DEF LockHeld
  <2>4. (AliveInv /\ NoGet /\ NoneLeft /\ AllocFull)'
    BY <2>1 DEF AliveInv, NoGet, NoneLeft, AllocFull
  <2>5. \A u \in Users : ~ Holding(u)'
    BY <2>1 DEF Holding
  <2>. QED BY <2>2, <2>3, <2>4, <2>5, EmptyKeeps
<1>2. ASSUME Add \/ \E n \in 1..MaxLen : SetMinSize(n) PROVE IInv'
  <2>1. /\ opc = "idle" /\ update = NoThread
        /\ len' \in Nat /\ len <= len' /\ len' <= MaxLen
        /\ UNCHANGED <<alive, inUse, slicesInUse, update, pc, slice, opc>>
    BY <1>2, MaxLenAssumption DEF Add, SetMinSize, TypeOK
  <2>2. len' <= Bound
    BY <2>1, MaxLenAssumption, UsersAssumption, FS_CardinalityType DEF Bound
  <2>3. TypeOK'
    BY <2>1 DEF TypeOK
  <2>4. LockHeld'
    BY <2>1 DEF LockHeld
  <2>5. (AliveInv /\ NoGet /\ NoneLeft)'
    BY <2>1 DEF AliveInv, NoGet, NoneLeft
  <2>6. AllocFull'
    BY <2>1, OwnerAssumption DEF AllocFull, LockHeld
  <2>7. \A v \in Users : Holding(v)' <=> Holding(v)
    BY <2>1 DEF Holding
  <2>. QED BY <2>1, <2>2, <2>3, <2>4, <2>5, <2>6, <2>7, SlicesKept
<1>. QED BY <1>1, <1>2

LEMMA FreeIInv ==
  ASSUME IInv
  PROVE  FreeCall \/ FreeSpuriousWake \/ OwnerFree => IInv'
<1>. USE DEF IInv
<1>0. len <= Bound
  BY DEF PoolBounded, Bound
<1>1. ASSUME FreeCall \/ FreeSpuriousWake \/ FreeLock \/ FreeWait \/ FreePool PROVE IInv'
  <2>. USE <1>1 DEF FreeCall, FreeSpuriousWake, FreeLock, FreeWait, FreePool
  <2>1. TypeOK'
    BY DEF TypeOK, OwnerLocation
  <2>2. LockHeld'
    BY OwnerAssumption DEF TypeOK, LockHeld
  <2>3. (AliveInv /\ NoGet /\ NoneLeft)'
    BY DEF AliveInv, NoGet, NoneLeft
  <2>4. AllocFull'
    BY DEF AllocFull
  <2>5. \A v \in Users : Holding(v)' <=> Holding(v)
    BY DEF Holding
  <2>. QED BY <1>0, <2>1, <2>2, <2>3, <2>4, <2>5, SlicesKept
<1>2. ASSUME FreeSlices PROVE IInv'
  <2>. USE <1>2 DEF FreeSlices
  <2>1. inUse = {}
    BY InUseFinite, FS_EmptySet DEF CountExact
  <2>2. \A u \in Users : pc[u] = "out"
    BY <2>1 DEF CountExact, Holding, NoGet
  <2>3. TypeOK'
    BY DEF TypeOK, OwnerLocation
  <2>4. LockHeld'
    BY <2>2, OwnerAssumption DEF LockHeld
  <2>5. (AliveInv /\ NoGet /\ NoneLeft /\ AllocFull)'
    BY <2>2 DEF AliveInv, NoGet, NoneLeft, AllocFull
  <2>6. \A u \in Users : ~ Holding(u)'
    BY <2>2 DEF Holding
  <2>. QED BY <2>3, <2>4, <2>5, <2>6, EmptyKeeps DEF TypeOK
<1>. QED BY <1>1, <1>2 DEF OwnerFree

LEMMA StutterIInv == IInv /\ UNCHANGED vars => IInv'
BY DEF vars, IInv, TypeOK, LockHeld, AliveInv, NoGet, NoneLeft, Exclusive, Holding,
       CountExact, AllocFull, PoolBounded

LEMMA NextIInv == IInv /\ [Next]_vars => IInv'
<1>. SUFFICES ASSUME IInv, [Next]_vars PROVE IInv'
  OBVIOUS
<1>1. ASSUME NEW u \in Users, GetCall(u) \/ UserStep(u) PROVE IInv'
  BY <1>1, GetIInv, ReturnIInv DEF UserStep
<1>2. CASE New \/ Add \/ \E n \in 1..MaxLen : SetMinSize(n)
  BY <1>2, GrowIInv
<1>3. CASE FreeCall \/ FreeSpuriousWake \/ OwnerFree
  BY <1>3, FreeIInv
<1>4. CASE UNCHANGED vars
  BY <1>4, StutterIInv
<1>. QED BY <1>1, <1>2, <1>3, <1>4 DEF Next

-----------------------------------------------------------------------------
(* The theorems                                                            *)

(* The pool always satisfies the invariant the theorems below follow from. *)
THEOREM Invariance == Spec => []IInv
BY InitIInv, NextIInv, PTL DEF Spec

(* Type correctness.                                                       *)
THEOREM TypeCorrect == Spec => []TypeOK
<1>1. IInv => TypeOK
  BY DEF IInv
<1>. QED BY <1>1, Invariance, PTL

(* Two threads never hold the same object, for any number of threads and   *)
(* any size of the pool: what ncm_memory_pool_get promises its callers.    *)
THEOREM MutualExclusion == Spec => []Exclusive
<1>1. IInv => Exclusive
  BY DEF IInv
<1>. QED BY <1>1, Invariance, PTL

(* slices_in_use, on which ncm_memory_pool_free waits, is the number of    *)
(* in_use flags that are set, and those are the slices held.               *)
THEOREM CountCorrect == Spec => []CountExact
<1>1. IInv => CountExact
  BY DEF IInv
<1>. QED BY <1>1, Invariance, PTL

(* ncm_memory_pool_free frees nothing under a thread that holds a slice or *)
(* is inside a function of the pool.                                       *)
THEOREM FreeIsSafe == Spec => []NoUseAfterFree
<1>1. IInv => NoUseAfterFree
  BY DEF IInv, NoUseAfterFree, AliveInv, NoneLeft
<1>. QED BY <1>1, Invariance, PTL

(* The pool never has more slices than the owner asked for or than there   *)
(* are threads, whichever is more: slices given back are used again.       *)
THEOREM SlicesReused == Spec => []PoolBounded
<1>1. IInv => PoolBounded
  BY DEF IInv
<1>. QED BY <1>1, Invariance, PTL
=============================================================================
