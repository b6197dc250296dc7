----------------------------- MODULE FitMCProofs -----------------------------
(***************************************************************************)
(* Proofs about FitMC, for any number of threads, data sets and            *)
(* realizations: with keep_order, or on one thread, the rows of the        *)
(* catalog are the realizations in the order they were drawn.              *)
(***************************************************************************)
EXTENDS MCFitMC, TLAPS, SequenceTheorems

Ordered == keepOrder \/ nthreads <= 1

(* A mutex is held by the thread that is between its lock and unlock.      *)
LockInv ==
  \A w \in Workers : /\ pc[w] = "draw" <=> resampleLock = w
                     /\ pc[w] \in {"check", "write"} <=> updateLock = w

(* Only a multi-threaded run has threads at work.                          *)
RunInv ==
  /\ running # "mt" => \A w \in Workers : pc[w] = "idle"
  /\ running = "mt" => nthreads > 1
  /\ running # "no" => started
  /\ curSampleId >= -1

(* The thread that is drawing has advanced the generator since its start.  *)
DrawInv ==
  \A w \in Workers : /\ pc[w] = "draw" => rng = row[w] + drawn[w]
                     /\ pc[w] # "draw" => drawn[w] = 0

(* What holds of the threads and locks whatever becomes of the catalog,    *)
(* and after a crash too.                                                  *)
Control == TypeOK /\ LockInv /\ RunInv /\ DrawInv

(* A file that is not open has no rows unless a process died.              *)
FileInv == ~ attached => saved.rows = <<>>

(* The state of the generator, between realizations.                       *)
Position == IF resampleLock = None THEN rng ELSE row[resampleLock]

(* With keep_order the indices from write_index to cur_sample_id are those *)
(* of the realizations in flight, one each.                                *)
IndexOrder ==
  /\ writeIndex <= curSampleId + 1
  /\ \A w \in InFlight : index[w] \in writeIndex..curSampleId
  /\ \A v, w \in InFlight : index[v] = index[w] => v = w
  /\ \A k \in writeIndex..curSampleId : \E w \in InFlight : index[w] = k

IndexInv == keepOrder => IndexOrder

(* A thread that is past the wait has its turn until it writes.            *)
TurnOrder == \A w \in Workers : pc[w] = "write" => index[w] = writeIndex

TurnInv == keepOrder => TurnOrder

LastRow == rows[Len(rows)]

(* The draws of the rows, of the realizations in flight by index, and of   *)
(* the next realization follow one another.                                *)
CatalogOrder ==
  /\ RowsFollow
  /\ rows # <<>> /\ InFlight = {} => Position = LastRow + NData

FlightOrder ==
  /\ \A w \in InFlight :
       /\ index[w] = curSampleId => Position = row[w] + NData
       /\ index[w] = writeIndex /\ rows # <<>> => row[w] = LastRow + NData
  /\ \A v, w \in InFlight : index[v] = index[w] + 1 => row[v] = row[w] + NData

RowInv ==
  /\ Ordered => CatalogOrder
  /\ keepOrder => FlightOrder

IInv == Control /\ FileInv /\ IndexInv /\ TurnInv /\ RowInv

-----------------------------------------------------------------------------
(* What the invariant says of the program between runs and on one thread.  *)
LEMMA RestFacts ==
  ASSUME Control, running # "mt"
  PROVE  /\ \A w \in Workers : pc[w] = "idle" /\ drawn[w] = 0
         /\ resampleLock = None /\ updateLock = None
         /\ InFlight = {}
         /\ Position = rng
<1>1. \A w \in Workers : pc[w] = "idle" /\ drawn[w] = 0
  BY DEF Control, RunInv, DrawInv
<1>2. resampleLock = None /\ updateLock = None
  BY <1>1 DEF Control, LockInv, TypeOK
<1>3. InFlight = {}
  BY <1>1 DEF InFlight
<1>4. Position = rng
  BY <1>2 DEF Position
<1>. QED BY <1>1, <1>2, <1>3, <1>4

LEMMA IdleFacts ==
  ASSUME IInv, running # "mt"
  PROVE  /\ keepOrder => writeIndex = curSampleId + 1
         /\ Ordered => RowsFollow
         /\ Ordered /\ rows # <<>> => rng = LastRow + NData
<1>1. InFlight = {} /\ Position = rng
  BY RestFacts DEF IInv
<1>2. keepOrder => writeIndex = curSampleId + 1
  <2>1. keepOrder => writeIndex <= curSampleId + 1 /\ writeIndex \notin writeIndex..curSampleId
    BY <1>1 DEF IInv, IndexInv, IndexOrder
  <2>. QED BY <2>1 DEF IInv, Control, TypeOK
<1>. QED BY <1>1, <1>2 DEF IInv, RowInv, CatalogOrder

(* What the program, or a run on one thread, can change of the type.       *)
SavedSet == [rows : Seq(Nat), first : Nat, stat : Nat \cup {None}]

ProgType ==
  /\ started \in BOOLEAN /\ attached \in BOOLEAN
  /\ running \in {"no", "single", "mt"}
  /\ curSampleId \in Int
  /\ writeIndex \in Nat /\ left \in Nat /\ rng \in Nat /\ firstId \in Nat
  /\ rows \in Seq(Nat)
  /\ saved \in SavedSet
  /\ asked \in Nat /\ torn \subseteq Nat

LEMMA ProgTypeOK == Control => ProgType /\ curSampleId >= -1
BY DEF Control, RunInv, TypeOK, ProgType, SavedSet

LEMMA ProgTypeStep ==
  ASSUME TypeOK, ProgType', UNCHANGED <<confVars, lockVars, threadVars>>
  PROVE  TypeOK'
BY DEF TypeOK, ProgType, SavedSet, confVars, lockVars, threadVars

LEMMA EmptyRange == \A a, b \in Int : a = b + 1 => a <= b + 1 /\ a..b = {}
OBVIOUS

(* A step between such states keeps the threads at rest.                   *)
LEMMA RestStep ==
  ASSUME Control, running # "mt", ProgType',
         UNCHANGED <<confVars, lockVars, threadVars>>,
         running' = "mt" => nthreads > 1,
         running' # "no" => started',
         curSampleId' >= -1
  PROVE  /\ Control'
         /\ InFlight' = {} /\ Position' = rng'
<1>0. TypeOK'
  BY ProgTypeStep DEF Control
<1>1. \A w \in Workers : pc'[w] = "idle" /\ drawn'[w] = 0
  BY RestFacts DEF threadVars
<1>2. resampleLock' = None /\ updateLock' = None
  BY RestFacts DEF lockVars
<1>3. nthreads' = nthreads /\ keepOrder' = keepOrder
  BY DEF confVars
<1>4. LockInv' /\ DrawInv'
  BY <1>1, <1>2, WorkersAssumption DEF LockInv, DrawInv
<1>5. RunInv'
  BY <1>1, <1>3 DEF RunInv
<1>6. InFlight' = {} /\ Position' = rng'
  BY <1>1, <1>2 DEF InFlight, Position
<1>. QED BY <1>0, <1>4, <1>5, <1>6 DEF Control

(* It keeps the whole invariant if it keeps these facts about the catalog. *)
LEMMA IdleStep ==
  ASSUME IInv, running # "mt", Control', InFlight' = {}, Position' = rng',
         UNCHANGED <<confVars, threadVars>>, FileInv',
         keepOrder => writeIndex' = curSampleId' + 1,
         Ordered => RowsFollow',
         Ordered /\ rows' # <<>> => rng' = LastRow' + NData
  PROVE  IInv'
<1>1. \A w \in Workers : pc'[w] = "idle"
  BY RestFacts DEF IInv, threadVars
<1>2. nthreads' = nthreads /\ keepOrder' = keepOrder
  BY DEF confVars
<1>3. IndexInv'
  <2>. SUFFICES ASSUME keepOrder'
                PROVE  /\ writeIndex' <= curSampleId' + 1
                       /\ writeIndex'..curSampleId' = {}
    BY DEF IndexInv, IndexOrder
  <2>1. keepOrder
    BY <1>2, Zenon
  <2>2. writeIndex' = curSampleId' + 1
    BY <2>1, Zenon
  <2>3. writeIndex' \in Int /\ curSampleId' \in Int
    BY DEF Control, TypeOK
  <2>. QED BY <2>2, <2>3, EmptyRange, Zenon
<1>4. TurnInv'
  BY <1>1 DEF TurnInv, TurnOrder
<1>5. RowInv'
  BY <1>2 DEF RowInv, CatalogOrder, FlightOrder, Ordered
<1>. QED BY <1>3, <1>4, <1>5 DEF IInv

LEMMA InitControl == Init => Control
<1>. SUFFICES ASSUME Init PROVE Control
  OBVIOUS
<1>1. TypeOK
  <2>1. /\ pc \in [Workers -> Location] /\ row \in [Workers -> Nat]
        /\ index \in [Workers -> Int]
    BY DEF Init, AllIdle, Zero, Location
  <2>2. drawn \in [Workers -> 0..NData]
    BY ParametersAssumption DEF Init, Zero
  <2>3. /\ saved \in [rows : Seq(Nat), first : Nat, stat : Nat \cup {None}]
        /\ rows \in Seq(Nat) /\ asked \in Nat /\ torn \subseteq Nat
    BY DEF Init, NoFile
  <2>4. /\ nthreads \in Threads /\ keepOrder \in Orders
        /\ started \in BOOLEAN /\ attached \in BOOLEAN
        /\ running \in {"no", "single", "mt"}
        /\ resampleLock \in Workers \cup {None} /\ updateLock \in Workers \cup {None}
    BY DEF Init
  <2>5. /\ curSampleId \in Int
        /\ writeIndex \in Nat /\ left \in Nat /\ rng \in Nat /\ firstId \in Nat
    BY DEF Init
  <2>. QED BY <2>1, <2>2, <2>3, <2>4, <2>5 DEF TypeOK
<1>2. \A w \in Workers : pc[w] = "idle" /\ drawn[w] = 0
  BY DEF Init, AllIdle, Zero
<1>3. LockInv /\ DrawInv
  BY <1>2, WorkersAssumption DEF Init, LockInv, DrawInv
<1>4. RunInv
  BY <1>2 DEF Init, RunInv
<1>. QED BY <1>1, <1>3, <1>4 DEF Control

LEMMA InitIInv == Init => IInv
<1>. SUFFICES ASSUME Init PROVE IInv
  OBVIOUS
<1>1. \A w \in Workers : pc[w] = "idle"
  BY DEF Init, AllIdle
<1>2. FileInv /\ TurnInv
  BY <1>1 DEF Init, FileInv, NoFile, TurnInv, TurnOrder
<1>3. InFlight = {}
  BY <1>1 DEF InFlight
<1>4. IndexInv
  BY <1>3, EmptyRange DEF Init, IndexInv, IndexOrder
<1>5. RowInv
  BY <1>3 DEF Init, RowInv, CatalogOrder, FlightOrder, RowsFollow
<1>. QED BY <1>2, <1>4, <1>5, InitControl DEF IInv

-----------------------------------------------------------------------------
(* The catalog                                                             *)

(* Appending a row keeps the order if it follows the last one.             *)
LEMMA AppendFollows ==
  ASSUME rows \in Seq(Nat), NData \in Nat, NEW r \in Nat, rows' = Append(rows, r)
  PROVE  /\ rows' \in Seq(Nat)
         /\ rows' # <<>>
         /\ LastRow' = r
         /\ RowsFollow /\ (rows # <<>> => r = LastRow + NData) => RowsFollow'
<1>1. /\ rows' \in Seq(Nat) /\ Len(rows') = Len(rows) + 1
      /\ rows'[Len(rows) + 1] = r
      /\ \A i \in 1..Len(rows) : rows'[i] = rows[i]
  OBVIOUS
<1>2. Len(rows) \in Nat /\ (rows # <<>> <=> Len(rows) > 0)
  OBVIOUS
<1>3. rows' # <<>> /\ LastRow' = r
  BY <1>1, <1>2 DEF LastRow
<1>4. ASSUME RowsFollow, rows # <<>> => r = LastRow + NData
      PROVE  RowsFollow'
  <2>. SUFFICES ASSUME NEW i \in 1..Len(rows') - 1
                PROVE  rows'[i + 1] = rows'[i] + NData
    BY DEF RowsFollow
  <2>1. CASE i = Len(rows)
    BY <1>1, <1>2, <1>4, <2>1 DEF LastRow
  <2>2. CASE i # Len(rows)
    BY <1>1, <1>2, <1>4, <2>2 DEF RowsFollow
  <2>. QED BY <2>1, <2>2
<1>. QED BY <1>1, <1>3, <1>4

LEMMA SavedType ==
  ASSUME ProgType, NEW newRows \in Seq(Nat), NEW state \in Nat
  PROVE  Saved(newRows, state) \in SavedSet
BY DEF ProgType, Saved, SavedSet

LEMMA SavedFile ==
  ASSUME FileInv, NEW newRows, NEW state,
         saved' \in {saved, Saved(newRows, state)}, attached' = attached
  PROVE  FileInv'
BY DEF FileInv, Saved

(* Skipping forwards.                                                      *)
LEMMA SkipFacts ==
  ASSUME ProgType, curSampleId >= -1, NEW n \in Nat, Skip(n)
  PROVE  /\ curSampleId' \in Int /\ curSampleId' >= -1
         /\ curSampleId' = curSampleId + n
         /\ writeIndex' \in Nat
         /\ writeIndex = curSampleId + 1 => writeIndex' = curSampleId' + 1
BY DEF ProgType, Skip

LEMMA CurIdType == ProgType => CurId \in Int
<1>. SUFFICES ASSUME ProgType PROVE CurId \in Int
  OBVIOUS
<1>1. Len(rows) \in Nat /\ firstId \in Nat
  BY DEF ProgType
<1>. QED BY <1>1 DEF CurId

-----------------------------------------------------------------------------
(* The program, between runs                                               *)

LEMMA SetDataFileControl ==
  ASSUME Control, SetDataFile
  PROVE  Control' /\ InFlight' = {} /\ Position' = rng'
<1>1. /\ ProgType /\ curSampleId >= -1 /\ running = "no" /\ attached' = TRUE
      /\ UNCHANGED <<started, running, left, asked, torn>>
      /\ UNCHANGED <<confVars, lockVars, threadVars>>
  BY ProgTypeOK DEF SetDataFile, histVars
<1>2. CASE /\ saved' = [rows |-> rows, first |-> firstId,
                        stat |-> IF rows = <<>> THEN saved.stat ELSE rng]
           /\ UNCHANGED <<rows, firstId, rng, curSampleId, writeIndex>>
  <2>1. saved' \in SavedSet
    BY <1>1, <1>2 DEF ProgType, SavedSet
  <2>2. ProgType'
    BY <1>1, <1>2, <2>1 DEF ProgType
  <2>. QED BY <1>1, <1>2, <2>2, RestStep
<1>3. CASE /\ saved.stat # None /\ Loaded
           /\ IF started
              THEN CurId' >= curSampleId /\ Skip(CurId' - curSampleId)
              ELSE UNCHANGED <<curSampleId, writeIndex>>
           /\ UNCHANGED saved
  <2>1. /\ rows' \in Seq(Nat) /\ firstId' \in Nat /\ rng' \in Nat /\ saved' = saved
    BY <1>1, <1>3, NoneAssumption DEF Loaded, ProgType, SavedSet
  <2>2. CurId' \in Int
    <3>1. Len(rows') \in Nat
      BY <2>1
    <3>. QED BY <2>1, <3>1 DEF CurId
  <2>3. curSampleId' \in Int /\ writeIndex' \in Nat /\ curSampleId' >= -1
    <3>1. CASE started
      <4>1. CurId' >= curSampleId /\ Skip(CurId' - curSampleId)
        BY <1>3, <3>1, Zenon
      <4>2. CurId' - curSampleId \in Nat
        <5>1. CurId' >= curSampleId
          BY <4>1
        <5>2. curSampleId \in Int
          BY <1>1 DEF ProgType
        <5>3. \A a, b \in Int : a >= b => a - b \in Nat
          OBVIOUS
        <5>. QED BY <2>2, <5>1, <5>2, <5>3, Zenon
      <4>3. PICK n \in Nat : Skip(n)
        BY <4>1, <4>2, Zenon
      <4>. QED BY <1>1, <4>3, SkipFacts
    <3>2. CASE ~ started
      BY <1>1, <1>3, <3>2 DEF ProgType
    <3>. QED BY <3>1, <3>2
  <2>4. ProgType'
    BY <1>1, <2>1, <2>3 DEF ProgType
  <2>. QED BY <1>1, <2>3, <2>4, RestStep
<1>. QED BY <1>2, <1>3 DEF SetDataFile

(* An open file has been given the rows in memory, when none died.         *)
LEMMA SetDataFileIInv ==
  ASSUME IInv, SetDataFile
  PROVE  /\ IInv'
         /\ UNCHANGED <<rows, firstId, rng, curSampleId, writeIndex, started>>
<1>1. Control' /\ InFlight' = {} /\ Position' = rng' /\ running = "no" /\ attached' = TRUE
  BY SetDataFileControl DEF IInv, SetDataFile
<1>2. saved.rows = <<>>
  BY DEF IInv, FileInv, SetDataFile
<1>3. UNCHANGED <<rows, firstId, rng, curSampleId, writeIndex, started>>
  BY <1>2 DEF SetDataFile
<1>4. RowsFollow' = RowsFollow /\ LastRow' = LastRow
  BY <1>3 DEF RowsFollow, LastRow
<1>5. FileInv' /\ UNCHANGED <<confVars, threadVars>>
  BY <1>1 DEF FileInv, SetDataFile
<1>. QED BY <1>1, <1>3, <1>4, <1>5, IdleFacts, IdleStep

LEMMA StartRunControl ==
  ASSUME Control, StartRun
  PROVE  /\ Control' /\ InFlight' = {} /\ Position' = rng'
         /\ running = "no" /\ curSampleId' = CurId /\ CurId' = CurId
         /\ writeIndex = curSampleId + 1 => writeIndex' = curSampleId' + 1
<1>1. ProgType /\ curSampleId >= -1 /\ running = "no"
  BY ProgTypeOK DEF Control, RunInv, StartRun
<1>2. PICK n \in Nat : n = CurId - curSampleId /\ Skip(n)
  <2>1. CurId - curSampleId \in Nat
    BY <1>1, CurIdType DEF StartRun, ProgType
  <2>. QED BY <2>1 DEF StartRun
<1>3. /\ UNCHANGED <<running, left, rng, firstId, rows, attached, asked, torn>>
      /\ UNCHANGED <<confVars, lockVars, threadVars>>
      /\ started' = TRUE /\ saved' = Saved(rows, rng)
  BY DEF StartRun, histVars
<1>4. saved' \in SavedSet
  BY <1>1, <1>3, SavedType DEF ProgType
<1>5. /\ curSampleId' \in Int /\ curSampleId' >= -1 /\ writeIndex' \in Nat
      /\ curSampleId' = curSampleId + n
      /\ writeIndex = curSampleId + 1 => writeIndex' = curSampleId' + 1
  BY <1>1, <1>2, SkipFacts
<1>6. ProgType'
  BY <1>1, <1>3, <1>4, <1>5 DEF ProgType
<1>7. curSampleId' = CurId
  BY <1>1, <1>2, <1>5, CurIdType DEF ProgType
<1>8. CurId' = CurId
  BY <1>3 DEF CurId
<1>. QED BY <1>1, <1>3, <1>5, <1>6, <1>7, <1>8, RestStep

LEMMA StartRunIInv ==
  ASSUME IInv, StartRun
  PROVE  IInv'
<1>1. /\ Control' /\ InFlight' = {} /\ Position' = rng' /\ running = "no"
      /\ writeIndex = curSampleId + 1 => writeIndex' = curSampleId' + 1
  BY StartRunControl DEF IInv
<1>2. /\ UNCHANGED <<rng, rows, attached>> /\ UNCHANGED <<confVars, threadVars>>
      /\ saved' \in {saved, Saved(rows, rng)}
  BY DEF StartRun
<1>3. FileInv'
  BY <1>2, SavedFile DEF IInv
<1>4. RowsFollow' = RowsFollow /\ LastRow' = LastRow
  BY <1>2 DEF RowsFollow, LastRow
<1>. QED BY <1>1, <1>2, <1>3, <1>4, IdleFacts, IdleStep

LEMMA EndRunControl ==
  ASSUME Control, EndRun
  PROVE  Control' /\ InFlight' = {} /\ Position' = rng'
<1>1. ProgType /\ curSampleId >= -1 /\ running = "no"
  BY ProgTypeOK DEF EndRun
<1>2. /\ UNCHANGED <<curSampleId, writeIndex, running, left, rng, firstId, rows, attached>>
      /\ UNCHANGED <<asked, torn, confVars, lockVars, threadVars>>
      /\ started' = FALSE /\ saved' = Saved(rows, rng)
  BY DEF EndRun, histVars
<1>3. saved' \in SavedSet
  BY <1>1, <1>2, SavedType DEF ProgType
<1>4. ProgType'
  BY <1>1, <1>2, <1>3 DEF ProgType
<1>. QED BY <1>1, <1>2, <1>4, RestStep

LEMMA EndRunIInv ==
  ASSUME IInv, EndRun
  PROVE  IInv'
<1>1. /\ Control' /\ InFlight' = {} /\ Position' = rng' /\ running = "no"
      /\ UNCHANGED <<curSampleId, writeIndex, rng, rows, attached>>
      /\ UNCHANGED <<confVars, threadVars>>
      /\ saved' \in {saved, Saved(rows, rng)}
  BY EndRunControl DEF IInv, EndRun
<1>2. FileInv'
  BY <1>1, SavedFile DEF IInv
<1>3. RowsFollow' = RowsFollow /\ LastRow' = LastRow
  BY <1>1 DEF RowsFollow, LastRow
<1>. QED BY <1>1, <1>2, <1>3, IdleFacts, IdleStep

LEMMA ResetControl ==
  ASSUME Control, Reset
  PROVE  Control' /\ InFlight' = {} /\ Position' = rng'
<1>1. ProgType /\ running = "no"
  BY ProgTypeOK DEF Reset
<1>2. /\ UNCHANGED <<running, rng, firstId>>
      /\ UNCHANGED <<confVars, lockVars, threadVars>>
      /\ started' = FALSE /\ curSampleId' = -1 /\ writeIndex' = 0 /\ left' = 0
      /\ rows' = <<>> /\ attached' = FALSE
      /\ saved' = saved \/ saved' = [saved EXCEPT !.rows = <<>>]
      /\ asked' = 0 /\ (torn' = torn \/ torn' = {})
  BY DEF Reset
<1>3. saved' \in SavedSet
  <2>1. saved \in SavedSet /\ <<>> \in Seq(Nat)
    BY <1>1 DEF ProgType
  <2>. QED BY <2>1, <1>2 DEF SavedSet
<1>4. ProgType'
  <2>1. rows' \in Seq(Nat)
    BY <1>2
  <2>2. /\ curSampleId' \in Int /\ curSampleId' >= -1 /\ writeIndex' \in Nat /\ left' \in Nat
        /\ asked' \in Nat
    BY <1>2
  <2>. QED BY <1>1, <1>2, <1>3, <2>1, <2>2 DEF ProgType
<1>5. curSampleId' >= -1
  BY <1>2
<1>. QED BY <1>1, <1>2, <1>4, <1>5, RestStep

LEMMA ResetIInv ==
  ASSUME IInv, Reset
  PROVE  IInv'
<1>1. /\ Control' /\ InFlight' = {} /\ Position' = rng' /\ running = "no"
      /\ UNCHANGED <<confVars, threadVars>>
  BY ResetControl DEF IInv, Reset
<1>2. FileInv'
  BY DEF IInv, FileInv, Control, TypeOK, Reset
<1>3. rows' = <<>> /\ RowsFollow'
  BY DEF RowsFollow, Reset
<1>4. writeIndex' = curSampleId' + 1
  BY DEF Reset
<1>. QED BY <1>1, <1>2, <1>3, <1>4, IdleStep

LEMMA SetFirstSampleIdControl ==
  ASSUME Control, NEW id \in Nat, SetFirstSampleId(id)
  PROVE  /\ Control' /\ InFlight' = {} /\ Position' = rng'
         /\ curSampleId' = id - 1
         /\ writeIndex = curSampleId + 1 => writeIndex' = curSampleId' + 1
<1>1. ProgType /\ curSampleId >= -1 /\ running = "no"
  BY ProgTypeOK DEF SetFirstSampleId
<1>2. PICK n \in Nat : n = id - curSampleId - 1 /\ Skip(n)
  <2>1. id - curSampleId - 1 \in Nat
    BY <1>1 DEF SetFirstSampleId, ProgType
  <2>. QED BY <2>1 DEF SetFirstSampleId
<1>3. /\ UNCHANGED <<started, running, left, rng, rows, attached, asked, torn>>
      /\ UNCHANGED <<confVars, lockVars, threadVars>>
      /\ firstId' = id
      /\ saved' = saved \/ saved' = [saved EXCEPT !.first = id]
  BY DEF SetFirstSampleId, histVars
<1>4. saved' \in SavedSet
  BY <1>1, <1>3 DEF ProgType, SavedSet
<1>5. /\ curSampleId' \in Int /\ curSampleId' >= -1 /\ writeIndex' \in Nat
      /\ curSampleId' = curSampleId + n
      /\ writeIndex = curSampleId + 1 => writeIndex' = curSampleId' + 1
  BY <1>1, <1>2, SkipFacts
<1>6. ProgType'
  BY <1>1, <1>3, <1>4, <1>5 DEF ProgType
<1>7. curSampleId' = id - 1
  BY <1>1, <1>2, <1>5 DEF ProgType
<1>. QED BY <1>1, <1>3, <1>5, <1>6, <1>7, RestStep

LEMMA SetFirstSampleIdIInv ==
  ASSUME IInv, NEW id \in Nat, SetFirstSampleId(id)
  PROVE  IInv'
<1>1. /\ Control' /\ InFlight' = {} /\ Position' = rng' /\ running = "no"
      /\ writeIndex = curSampleId + 1 => writeIndex' = curSampleId' + 1
      /\ UNCHANGED <<rng, rows, attached>> /\ UNCHANGED <<confVars, threadVars>>
  BY SetFirstSampleIdControl DEF IInv, SetFirstSampleId
<1>2. FileInv'
  BY DEF IInv, FileInv, SetFirstSampleId
<1>3. RowsFollow' = RowsFollow /\ LastRow' = LastRow
  BY <1>1 DEF RowsFollow, LastRow
<1>. QED BY <1>1, <1>2, <1>3, IdleFacts, IdleStep

LEMMA RunControl ==
  ASSUME Control, NEW n \in Nat, Run(n)
  PROVE  Control' /\ InFlight' = {} /\ Position' = rng'
<1>1. ProgType /\ curSampleId >= -1 /\ running = "no"
  BY ProgTypeOK DEF Run
<1>2. /\ UNCHANGED <<started, curSampleId, writeIndex, rng, firstId, attached, rows, saved>>
      /\ UNCHANGED <<torn, confVars, lockVars, threadVars>>
      /\ asked' = n
      /\ left' = n - (curSampleId + 1) /\ n > curSampleId + 1
      /\ running' = IF nthreads <= 1 \/ left' = 1 THEN "single" ELSE "mt"
  BY DEF Run, catVars
<1>3. left' \in Nat
  BY <1>1, <1>2 DEF ProgType
<1>4. ProgType'
  BY <1>1, <1>2, <1>3 DEF ProgType
<1>5. nthreads \in Nat
  BY ParametersAssumption DEF Control, TypeOK
<1>6. (running' = "mt" => nthreads > 1) /\ started'
  BY <1>2, <1>5 DEF Run
<1>. QED BY <1>1, <1>2, <1>4, <1>6, RestStep

LEMMA RunIInv ==
  ASSUME IInv, NEW n \in Nat, Run(n)
  PROVE  IInv'
<1>1. /\ Control' /\ InFlight' = {} /\ Position' = rng' /\ running = "no"
      /\ UNCHANGED <<curSampleId, writeIndex, rng, rows, saved, attached>>
      /\ UNCHANGED <<confVars, threadVars>>
  BY RunControl DEF IInv, Run, catVars
<1>2. FileInv'
  BY <1>1 DEF IInv, FileInv
<1>3. RowsFollow' = RowsFollow /\ LastRow' = LastRow
  BY <1>1 DEF RowsFollow, LastRow
<1>. QED BY <1>1, <1>2, <1>3, IdleFacts, IdleStep

LEMMA ProgramControl ==
  ASSUME Control, Program
  PROVE  Control'
<1>1. \A n \in 1..MaxN : n \in Nat
  BY BoundsAssumption
<1>. QED BY <1>1, SetDataFileControl, StartRunControl, EndRunControl, ResetControl,
            SetFirstSampleIdControl, RunControl DEF Program

LEMMA ProgramIInv ==
  ASSUME IInv, Program
  PROVE  IInv'
<1>1. \A n \in 1..MaxN : n \in Nat
  BY BoundsAssumption
<1>. QED BY <1>1, SetDataFileIInv, StartRunIInv, EndRunIInv, ResetIInv,
            SetFirstSampleIdIInv, RunIInv DEF Program

-----------------------------------------------------------------------------
(* The single-threaded run, and the return of either                       *)

LEMMA RealizeControl ==
  ASSUME Control, Realize
  PROVE  /\ Control' /\ InFlight' = {} /\ Position' = rng'
         /\ running = "single" /\ started
         /\ curSampleId' = curSampleId + 1 /\ writeIndex' = writeIndex + 1
<1>1. ProgType /\ curSampleId >= -1 /\ running = "single" /\ started
  BY ProgTypeOK DEF Control, RunInv, Realize
<1>2. /\ UNCHANGED <<started, running, firstId, attached, asked, torn>>
      /\ UNCHANGED <<confVars, lockVars, threadVars>>
      /\ left > 0 /\ left' = left - 1 /\ rng' = rng + NData
      /\ curSampleId' = curSampleId + 1 /\ writeIndex' = writeIndex + 1
      /\ rows' = Append(rows, rng) /\ saved' \in {saved, Saved(rows', rng')}
  BY DEF Realize, AddRow, histVars
<1>3. /\ left' \in Nat /\ rng' \in Nat
      /\ curSampleId' \in Int /\ curSampleId' >= -1 /\ writeIndex' \in Nat
  BY <1>1, <1>2, ParametersAssumption DEF ProgType
<1>4. rows' \in Seq(Nat)
  BY <1>1, <1>2 DEF ProgType
<1>5. saved' \in SavedSet
  <2>1. saved \in SavedSet
    BY <1>1 DEF ProgType
  <2>. QED BY <2>1, <1>1, <1>2, <1>3, <1>4, SavedType
<1>6. ProgType'
  BY <1>1, <1>2, <1>3, <1>4, <1>5 DEF ProgType
<1>. QED BY <1>1, <1>2, <1>3, <1>6, RestStep

LEMMA RealizeIInv ==
  ASSUME IInv, Realize
  PROVE  IInv'
<1>1. /\ Control' /\ InFlight' = {} /\ Position' = rng'
      /\ running = "single"
      /\ curSampleId' = curSampleId + 1 /\ writeIndex' = writeIndex + 1
  BY RealizeControl DEF IInv
<1>2. /\ rng' = rng + NData /\ rows' = Append(rows, rng)
      /\ saved' \in {saved, Saved(rows', rng')}
      /\ attached' = attached /\ UNCHANGED <<confVars, threadVars>>
  BY DEF Realize, AddRow
<1>3. rows \in Seq(Nat) /\ rng \in Nat /\ NData \in Nat /\ curSampleId \in Int
  BY ParametersAssumption DEF IInv, Control, TypeOK
<1>4. /\ LastRow' = rng
      /\ RowsFollow /\ (rows # <<>> => rng = LastRow + NData) => RowsFollow'
  BY <1>2, <1>3, AppendFollows
<1>5. FileInv'
  BY <1>2, SavedFile DEF IInv
<1>6. writeIndex = curSampleId + 1 => writeIndex' = curSampleId' + 1
  BY <1>1, <1>3
<1>7. rng' = LastRow' + NData
  BY <1>2, <1>4
<1>. QED BY <1>1, <1>2, <1>4, <1>5, <1>6, <1>7, IdleFacts, IdleStep

LEMMA ReturnRunControl ==
  ASSUME Control, ReturnRun
  PROVE  Control' /\ InFlight' = InFlight /\ InFlight = {} /\ Position' = Position
<1>1. /\ running' = "no" /\ \A w \in Workers : pc[w] = "idle"
      /\ UNCHANGED <<started, curSampleId, writeIndex, left, rng, firstId, attached, rows, saved>>
      /\ UNCHANGED <<resampleLock, updateLock, pc, drawn, row, index, nthreads, keepOrder>>
      /\ UNCHANGED <<asked, torn>>
  BY DEF ReturnRun, AllIdle, catVars, confVars, lockVars, threadVars, histVars
<1>2. TypeOK'
  BY <1>1 DEF Control, TypeOK
<1>3. LockInv' /\ DrawInv'
  BY <1>1 DEF Control, LockInv, DrawInv
<1>4. RunInv'
  BY <1>1 DEF Control, RunInv
<1>5. InFlight' = InFlight /\ InFlight = {} /\ Position' = Position
  BY <1>1 DEF InFlight, Position
<1>. QED BY <1>2, <1>3, <1>4, <1>5 DEF Control

LEMMA ReturnRunIInv ==
  ASSUME IInv, ReturnRun
  PROVE  IInv'
<1>1. /\ UNCHANGED <<curSampleId, writeIndex, rng, attached, rows, saved>>
      /\ UNCHANGED <<pc, row, index, nthreads, keepOrder>>
  BY DEF ReturnRun, catVars, confVars, threadVars
<1>2. Control' /\ InFlight' = InFlight /\ Position' = Position
  BY ReturnRunControl DEF IInv
<1>3. FileInv' /\ TurnInv'
  BY <1>1 DEF IInv, FileInv, TurnInv, TurnOrder
<1>4. IndexInv'
  BY <1>1, <1>2 DEF IInv, IndexInv, IndexOrder
<1>5. RowInv'
  BY <1>1, <1>2 DEF IInv, RowInv, CatalogOrder, FlightOrder, Ordered, RowsFollow, LastRow
<1>. QED BY <1>2, <1>3, <1>4, <1>5 DEF IInv

-----------------------------------------------------------------------------
(* The threads of a multi-threaded run                                     *)

(* A thread at work is of a multi-threaded run, where only keep_order puts *)
(* the rows in order.                                                      *)
LEMMA BusyFacts ==
  ASSUME Control, NEW w \in Workers, pc[w] # "idle"
  PROVE  running = "mt" /\ nthreads > 1
BY DEF Control, RunInv

LEMMA OrderFacts ==
  ASSUME IInv, keepOrder
  PROVE  IndexOrder /\ TurnOrder /\ CatalogOrder /\ FlightOrder
BY DEF IInv, IndexInv, TurnInv, RowInv, Ordered

(* What a thread can change of the type.                                   *)
ThreadType ==
  /\ curSampleId \in Int
  /\ writeIndex \in Nat /\ left \in Nat /\ rng \in Nat
  /\ rows \in Seq(Nat)
  /\ saved \in SavedSet
  /\ resampleLock \in Workers \cup {None} /\ updateLock \in Workers \cup {None}
  /\ pc \in [Workers -> Location] /\ drawn \in [Workers -> 0..NData]
  /\ row \in [Workers -> Nat] /\ index \in [Workers -> Int]

LEMMA ThreadTypeOK == Control => ThreadType
BY DEF Control, TypeOK, ThreadType, SavedSet

KeptByThreads == <<nthreads, keepOrder, started, running, firstId, attached, asked, torn>>

LEMMA ThreadControl ==
  ASSUME Control, running = "mt", UNCHANGED KeptByThreads, curSampleId' >= curSampleId,
         ThreadType', LockInv', DrawInv'
  PROVE  Control'
<1>1. TypeOK'
  BY DEF Control, TypeOK, ThreadType, SavedSet, KeptByThreads
<1>2. curSampleId' >= -1
  BY DEF Control, RunInv, TypeOK, ThreadType
<1>3. RunInv'
  BY <1>2 DEF Control, RunInv, KeptByThreads
<1>. QED BY <1>1, <1>3 DEF Control

(* A step of a thread keeps the invariant if, with keep_order, it keeps    *)
(* the order.                                                              *)
LEMMA ThreadIInv ==
  ASSUME IInv, running = "mt", UNCHANGED KeptByThreads, Control', FileInv',
         keepOrder => IndexOrder' /\ TurnOrder' /\ CatalogOrder' /\ FlightOrder'
  PROVE  IInv'
<1>1. keepOrder' = keepOrder /\ Ordered' = Ordered
  BY DEF KeptByThreads, Ordered
<1>2. Ordered => keepOrder
  <2>1. nthreads \in Nat /\ nthreads > 1
    BY ParametersAssumption DEF IInv, Control, TypeOK, RunInv
  <2>2. ~ (nthreads <= 1)
    BY <2>1
  <2>. QED BY <2>2, Zenon DEF Ordered
<1>3. IndexInv' /\ TurnInv' /\ RowInv'
  BY <1>1, <1>2, Zenon DEF IndexInv, TurnInv, RowInv
<1>. QED BY <1>3 DEF IInv

(* Moving a thread from one location to another.                           *)
LEMMA GotoFacts ==
  ASSUME ThreadType, NEW w \in Workers, NEW l \in Location, Goto(w, l)
  PROVE  /\ pc' \in [Workers -> Location]
         /\ pc'[w] = l
         /\ \A v \in Workers \ {w} : pc'[v] = pc[v]
BY DEF ThreadType, Goto

(* Most steps give no index and add no row: only the realizations in       *)
(* flight and what they carry matter to the order.                         *)
Quiet ==
  /\ running = "mt"
  /\ UNCHANGED KeptByThreads
  /\ UNCHANGED <<curSampleId, writeIndex, rows, saved, index>>
  /\ InFlight' = InFlight /\ Position' = Position
  /\ \A v \in InFlight : row'[v] = row[v]
  /\ keepOrder => \A v \in Workers : pc'[v] = "write" => pc[v] = "write" \/ index[v] = writeIndex

LEMMA TakeQuiet ==
  ASSUME Control, NEW w \in Workers, Take(w)
  PROVE  Control' /\ Quiet
<1>1. /\ ThreadType /\ running = "mt" /\ left > 0 /\ pc[w] = "idle" /\ left' = left - 1
      /\ UNCHANGED KeptByThreads
      /\ UNCHANGED <<curSampleId, writeIndex, rng, rows, saved>>
      /\ UNCHANGED <<resampleLock, updateLock, drawn, row, index>>
  BY ThreadTypeOK DEF Take, KeptByThreads, catVars, lockVars, confVars, histVars
<1>2. /\ pc' \in [Workers -> Location] /\ pc'[w] = "resample"
      /\ \A v \in Workers \ {w} : pc'[v] = pc[v]
  BY <1>1, GotoFacts DEF Take, Location
<1>3. left' \in Nat /\ curSampleId' >= curSampleId
  BY <1>1 DEF ThreadType
<1>4. ThreadType'
  BY <1>1, <1>2, <1>3 DEF ThreadType
<1>5. LockInv' /\ DrawInv'
  BY <1>1, <1>2 DEF Control, LockInv, DrawInv
<1>6. InFlight' = InFlight /\ Position' = Position
  BY <1>1, <1>2 DEF InFlight, Position
<1>7. \A v \in Workers : pc'[v] = "write" => pc[v] = "write"
  BY <1>2
<1>8. Quiet
  BY <1>1, <1>6, <1>7 DEF Quiet
<1>. QED BY <1>1, <1>3, <1>4, <1>5, <1>8, ThreadControl

LEMMA LockResampleQuiet ==
  ASSUME Control, NEW w \in Workers, LockResample(w)
  PROVE  Control' /\ Quiet
<1>1. /\ ThreadType /\ running = "mt" /\ pc[w] = "resample"
      /\ resampleLock = None /\ resampleLock' = w
      /\ row' = [row EXCEPT ![w] = rng]
      /\ UNCHANGED KeptByThreads
      /\ UNCHANGED <<curSampleId, writeIndex, left, rng, rows, saved>>
      /\ UNCHANGED <<updateLock, drawn, index>>
  BY ThreadTypeOK, BusyFacts DEF LockResample, KeptByThreads, catVars, progVars
<1>2. /\ pc' \in [Workers -> Location] /\ pc'[w] = "draw"
      /\ \A v \in Workers \ {w} : pc'[v] = pc[v]
  BY <1>1, GotoFacts DEF LockResample, Location
<1>3. /\ row' \in [Workers -> Nat] /\ row'[w] = rng
      /\ \A v \in Workers \ {w} : row'[v] = row[v]
  BY <1>1 DEF ThreadType
<1>4. ThreadType'
  BY <1>1, <1>2, <1>3 DEF ThreadType
<1>5. LockInv'
  BY <1>1, <1>2, WorkersAssumption DEF Control, LockInv
<1>6. DrawInv'
  <2>1. drawn'[w] = 0 /\ rng' = row'[w] /\ rng' \in Nat
    BY <1>1, <1>3, <1>4 DEF Control, DrawInv, ThreadType
  <2>2. \A v \in Workers \ {w} : pc[v] # "draw"
    BY <1>1, WorkersAssumption DEF Control, LockInv
  <2>. QED BY <1>1, <1>2, <2>1, <2>2 DEF Control, DrawInv
<1>7. InFlight' = InFlight /\ w \notin InFlight
  BY <1>1, <1>2 DEF InFlight
<1>8. Position' = Position
  BY <1>1, <1>3, WorkersAssumption DEF Position
<1>9. \A v \in InFlight : row'[v] = row[v]
  BY <1>3, <1>7 DEF InFlight
<1>10. \A v \in Workers : pc'[v] = "write" => pc[v] = "write"
  BY <1>2
<1>11. Quiet
  BY <1>1, <1>7, <1>8, <1>9, <1>10 DEF Quiet
<1>12. curSampleId' >= curSampleId
  BY <1>1 DEF ThreadType
<1>. QED BY <1>1, <1>4, <1>5, <1>6, <1>11, <1>12, ThreadControl

LEMMA DrawQuiet ==
  ASSUME Control, NEW w \in Workers, Draw(w)
  PROVE  Control' /\ Quiet
<1>1. /\ ThreadType /\ running = "mt" /\ pc[w] = "draw" /\ drawn[w] < NData
      /\ rng' = rng + 1
      /\ drawn' = [drawn EXCEPT ![w] = drawn[w] + 1]
      /\ UNCHANGED KeptByThreads
      /\ UNCHANGED <<curSampleId, writeIndex, left, rows, saved>>
      /\ UNCHANGED <<resampleLock, updateLock, pc, row, index>>
  BY ThreadTypeOK, BusyFacts DEF Draw, KeptByThreads, catVars, progVars, lockVars
<1>2. drawn[w] \in Nat /\ drawn[w] + 1 \in 0..NData
  BY <1>1, ParametersAssumption DEF ThreadType
<1>3. /\ drawn' \in [Workers -> 0..NData] /\ drawn'[w] = drawn[w] + 1
      /\ \A v \in Workers \ {w} : drawn'[v] = drawn[v]
  BY <1>1, <1>2 DEF ThreadType
<1>4. rng' \in Nat /\ curSampleId' >= curSampleId
  BY <1>1 DEF ThreadType
<1>5. ThreadType'
  BY <1>1, <1>3, <1>4 DEF ThreadType
<1>6. LockInv'
  BY <1>1 DEF Control, LockInv
<1>7. DrawInv'
  <2>1. resampleLock = w /\ \A v \in Workers \ {w} : pc[v] # "draw"
    BY <1>1 DEF Control, LockInv
  <2>2. rng' = row'[w] + drawn'[w]
    <3>1. rng = row[w] + drawn[w]
      BY <1>1 DEF Control, DrawInv
    <3>2. rng \in Nat /\ row[w] \in Nat
      BY <1>1 DEF ThreadType
    <3>. QED BY <1>1, <1>2, <1>3, <3>1, <3>2
  <2>. QED BY <1>1, <1>3, <2>1, <2>2 DEF Control, DrawInv
<1>8. InFlight' = InFlight
  BY <1>1 DEF InFlight
<1>9. Position' = Position
  <2>1. resampleLock = w /\ resampleLock # None
    BY <1>1, WorkersAssumption DEF Control, LockInv
  <2>. QED BY <1>1, <2>1 DEF Position
<1>10. Quiet
  BY <1>1, <1>8, <1>9 DEF Quiet
<1>. QED BY <1>1, <1>4, <1>5, <1>6, <1>7, <1>10, ThreadControl

LEMMA LockUpdateQuiet ==
  ASSUME Control, NEW w \in Workers, LockUpdate(w)
  PROVE  Control' /\ Quiet
<1>. DEFINE l == IF keepOrder THEN "check" ELSE "write"
<1>1. /\ ThreadType /\ running = "mt" /\ pc[w] \in {"fit", "woken"}
      /\ updateLock = None /\ updateLock' = w
      /\ UNCHANGED KeptByThreads
      /\ UNCHANGED <<curSampleId, writeIndex, left, rng, rows, saved>>
      /\ UNCHANGED <<resampleLock, drawn, row, index>>
  BY ThreadTypeOK, BusyFacts DEF LockUpdate, KeptByThreads, catVars, progVars
<1>2. /\ pc' \in [Workers -> Location] /\ pc'[w] = l /\ l \in {"check", "write"}
      /\ \A v \in Workers \ {w} : pc'[v] = pc[v]
  BY <1>1, GotoFacts DEF LockUpdate, Location
<1>3. keepOrder => pc'[w] = "check"
  BY <1>2, Zenon DEF l
<1>. HIDE DEF l
<1>4. ThreadType'
  BY <1>1, <1>2 DEF ThreadType
<1>5. LockInv'
  BY <1>1, <1>2, WorkersAssumption DEF Control, LockInv
<1>6. DrawInv'
  BY <1>1, <1>2 DEF Control, DrawInv
<1>7. InFlight' = InFlight /\ Position' = Position
  BY <1>1, <1>2 DEF InFlight, Position
<1>8. keepOrder => \A v \in Workers : pc'[v] = "write" => pc[v] = "write"
  BY <1>2, <1>3
<1>9. Quiet
  BY <1>1, <1>7, <1>8 DEF Quiet
<1>10. curSampleId' >= curSampleId
  BY <1>1 DEF ThreadType
<1>. QED BY <1>1, <1>4, <1>5, <1>6, <1>9, <1>10, ThreadControl

LEMMA WaitTurnQuiet ==
  ASSUME Control, NEW w \in Workers, WaitTurn(w)
  PROVE  Control' /\ Quiet
<1>1. /\ ThreadType /\ running = "mt" /\ pc[w] = "check"
      /\ updateLock' = None
      /\ UNCHANGED KeptByThreads
      /\ UNCHANGED <<curSampleId, writeIndex, left, rng, rows, saved>>
      /\ UNCHANGED <<resampleLock, drawn, row, index>>
  BY ThreadTypeOK, BusyFacts DEF WaitTurn, KeptByThreads, catVars, progVars
<1>2. /\ pc' \in [Workers -> Location] /\ pc'[w] = "asleep"
      /\ \A v \in Workers \ {w} : pc'[v] = pc[v]
  BY <1>1, GotoFacts DEF WaitTurn, Location
<1>3. ThreadType'
  BY <1>1, <1>2 DEF ThreadType
<1>4. LockInv'
  <2>1. updateLock = w
    BY <1>1 DEF Control, LockInv
  <2>. QED BY <1>1, <1>2, <2>1, WorkersAssumption DEF Control, LockInv
<1>5. DrawInv'
  BY <1>1, <1>2 DEF Control, DrawInv
<1>6. InFlight' = InFlight /\ Position' = Position
  BY <1>1, <1>2 DEF InFlight, Position
<1>7. \A v \in Workers : pc'[v] = "write" => pc[v] = "write"
  BY <1>2
<1>8. Quiet
  BY <1>1, <1>6, <1>7 DEF Quiet
<1>9. curSampleId' >= curSampleId
  BY <1>1 DEF ThreadType
<1>. QED BY <1>1, <1>3, <1>4, <1>5, <1>8, <1>9, ThreadControl

LEMMA HasTurnQuiet ==
  ASSUME Control, NEW w \in Workers, HasTurn(w)
  PROVE  Control' /\ Quiet
<1>1. /\ ThreadType /\ running = "mt" /\ pc[w] = "check" /\ writeIndex = index[w]
      /\ UNCHANGED KeptByThreads
      /\ UNCHANGED <<curSampleId, writeIndex, left, rng, rows, saved>>
      /\ UNCHANGED <<resampleLock, updateLock, drawn, row, index>>
  BY ThreadTypeOK, BusyFacts DEF HasTurn, KeptByThreads, catVars, progVars, lockVars
<1>2. /\ pc' \in [Workers -> Location] /\ pc'[w] = "write"
      /\ \A v \in Workers \ {w} : pc'[v] = pc[v]
  BY <1>1, GotoFacts DEF HasTurn, Location
<1>3. ThreadType'
  BY <1>1, <1>2 DEF ThreadType
<1>4. LockInv' /\ DrawInv'
  BY <1>1, <1>2 DEF Control, LockInv, DrawInv
<1>5. InFlight' = InFlight /\ Position' = Position
  BY <1>1, <1>2 DEF InFlight, Position
<1>6. \A v \in Workers : pc'[v] = "write" => pc[v] = "write" \/ index[v] = writeIndex
  BY <1>1, <1>2
<1>7. Quiet
  BY <1>1, <1>5, <1>6 DEF Quiet
<1>8. curSampleId' >= curSampleId
  BY <1>1 DEF ThreadType
<1>. QED BY <1>1, <1>3, <1>4, <1>7, <1>8, ThreadControl

LEMMA QuietIInv ==
  ASSUME IInv, Control', Quiet
  PROVE  IInv'
<1>. USE DEF Quiet
<1>1. FileInv'
  BY DEF IInv, FileInv, KeptByThreads
<1>2. ASSUME keepOrder
      PROVE  IndexOrder' /\ TurnOrder' /\ CatalogOrder' /\ FlightOrder'
  <2>1. IndexOrder /\ TurnOrder /\ CatalogOrder /\ FlightOrder
    BY <1>2, OrderFacts
  <2>2. IndexOrder'
    BY <2>1 DEF IndexOrder
  <2>3. TurnOrder'
    BY <1>2, <2>1 DEF TurnOrder
  <2>4. RowsFollow' = RowsFollow /\ LastRow' = LastRow
    BY DEF RowsFollow, LastRow
  <2>5. CatalogOrder'
    BY <2>1, <2>4 DEF CatalogOrder
  <2>6. FlightOrder'
    BY <2>1, <2>4 DEF FlightOrder
  <2>. QED BY <2>2, <2>3, <2>5, <2>6
<1>. QED BY <1>1, <1>2, ThreadIInv

(* The realization that has been drawn gets the index after every other    *)
(* and starts where the last of them ends.                                 *)
LEMMA UnlockResampleControl ==
  ASSUME Control, NEW w \in Workers, UnlockResample(w)
  PROVE  /\ Control' /\ running = "mt" /\ UNCHANGED KeptByThreads
         /\ curSampleId' = curSampleId + 1 /\ index'[w] = curSampleId'
         /\ \A v \in Workers \ {w} : index'[v] = index[v]
         /\ UNCHANGED <<writeIndex, rows, saved, row>>
         /\ w \notin InFlight /\ InFlight' = InFlight \cup {w} /\ InFlight \subseteq Workers
         /\ Position = row[w] /\ Position' = row[w] + NData
         /\ \A v \in Workers : pc'[v] = "write" => v # w /\ pc[v] = "write"
<1>1. /\ ThreadType /\ running = "mt" /\ pc[w] = "draw" /\ drawn[w] = NData
      /\ curSampleId' = curSampleId + 1
      /\ index' = [index EXCEPT ![w] = curSampleId']
      /\ drawn' = [drawn EXCEPT ![w] = 0]
      /\ resampleLock' = None
      /\ UNCHANGED KeptByThreads
      /\ UNCHANGED <<writeIndex, left, rng, rows, saved>>
      /\ UNCHANGED <<updateLock, row>>
  BY ThreadTypeOK, BusyFacts DEF UnlockResample, KeptByThreads, catVars, progVars
<1>2. /\ pc' \in [Workers -> Location] /\ pc'[w] = "fit"
      /\ \A v \in Workers \ {w} : pc'[v] = pc[v]
  BY <1>1, GotoFacts DEF UnlockResample, Location
<1>3. curSampleId' \in Int /\ 0 \in 0..NData /\ curSampleId' >= curSampleId
  BY <1>1, ParametersAssumption DEF ThreadType
<1>4. /\ index' \in [Workers -> Int] /\ index'[w] = curSampleId'
      /\ \A v \in Workers \ {w} : index'[v] = index[v]
  BY <1>1, <1>3 DEF ThreadType
<1>5. /\ drawn' \in [Workers -> 0..NData] /\ drawn'[w] = 0
      /\ \A v \in Workers \ {w} : drawn'[v] = drawn[v]
  BY <1>1, <1>3 DEF ThreadType
<1>6. ThreadType'
  BY <1>1, <1>2, <1>3, <1>4, <1>5 DEF ThreadType
<1>7. resampleLock = w /\ w # None
  BY <1>1, WorkersAssumption DEF Control, LockInv
<1>8. LockInv'
  BY <1>1, <1>2, <1>7, WorkersAssumption DEF Control, LockInv
<1>9. DrawInv'
  BY <1>1, <1>2, <1>5, <1>7 DEF Control, DrawInv, LockInv
<1>10. InFlight' = InFlight \cup {w} /\ w \notin InFlight /\ InFlight \subseteq Workers
  BY <1>1, <1>2 DEF InFlight
<1>11. Position = row[w] /\ Position' = rng
  BY <1>1, <1>7 DEF Position
<1>12. rng = row[w] + NData
  BY <1>1 DEF Control, DrawInv
<1>13. \A v \in Workers : pc'[v] = "write" => v # w /\ pc[v] = "write"
  BY <1>2
<1>14. Control'
  BY <1>1, <1>3, <1>6, <1>8, <1>9, ThreadControl
<1>. QED BY <1>1, <1>4, <1>10, <1>11, <1>12, <1>13, <1>14

LEMMA UnlockResampleIInv ==
  ASSUME IInv, NEW w \in Workers, UnlockResample(w)
  PROVE  IInv'
<1>1. /\ Control' /\ running = "mt" /\ UNCHANGED KeptByThreads
      /\ curSampleId' = curSampleId + 1 /\ index'[w] = curSampleId'
      /\ \A v \in Workers \ {w} : index'[v] = index[v]
      /\ UNCHANGED <<writeIndex, rows, saved, row>>
      /\ w \notin InFlight /\ InFlight' = InFlight \cup {w} /\ InFlight \subseteq Workers
      /\ Position = row[w] /\ Position' = row[w] + NData
      /\ \A v \in Workers : pc'[v] = "write" => v # w /\ pc[v] = "write"
  BY UnlockResampleControl DEF IInv
<1>2. /\ curSampleId \in Int /\ writeIndex \in Int
      /\ \A v \in Workers : index[v] \in Int
  BY ThreadTypeOK DEF IInv, ThreadType
<1>3. FileInv'
  BY <1>1 DEF IInv, FileInv, KeptByThreads
<1>4. ASSUME keepOrder
      PROVE  IndexOrder' /\ TurnOrder' /\ CatalogOrder' /\ FlightOrder'
  <2>1. IndexOrder /\ TurnOrder /\ CatalogOrder /\ FlightOrder
    BY <1>4, OrderFacts
  <2>2. \A v \in InFlight :
          /\ v # w /\ index'[v] = index[v] /\ row'[v] = row[v]
          /\ index[v] \in Int /\ writeIndex <= index[v] /\ index[v] <= curSampleId
    BY <1>1, <1>2, <2>1 DEF IndexOrder
  <2>3. IndexOrder'
    <3>1. writeIndex' <= curSampleId' + 1
      BY <1>1, <1>2, <2>1 DEF IndexOrder
    <3>2. ASSUME NEW v \in InFlight' PROVE index'[v] \in writeIndex'..curSampleId'
      <4>1. CASE v = w
        <5>1. writeIndex <= curSampleId + 1
          BY <2>1 DEF IndexOrder
        <5>. QED BY <1>1, <1>2, <4>1, <5>1
      <4>2. CASE v # w
        BY <1>1, <1>2, <2>2, <4>2
      <4>. QED BY <4>1, <4>2
    <3>3. ASSUME NEW u \in InFlight', NEW v \in InFlight', index'[u] = index'[v]
          PROVE  u = v
      BY <1>1, <1>2, <2>1, <2>2, <3>3 DEF IndexOrder
    <3>4. ASSUME NEW k \in writeIndex'..curSampleId'
          PROVE  \E v \in InFlight' : index'[v] = k
      <4>1. CASE k = curSampleId'
        BY <1>1, <4>1
      <4>2. CASE k # curSampleId'
        <5>1. k \in writeIndex..curSampleId
          BY <1>1, <1>2, <4>2
        <5>. QED BY <1>1, <2>1, <2>2, <5>1 DEF IndexOrder
      <4>. QED BY <4>1, <4>2
    <3>. QED BY <3>1, <3>2, <3>3, <3>4 DEF IndexOrder
  <2>4. TurnOrder'
    BY <1>1, <2>1 DEF TurnOrder
  <2>5. RowsFollow' = RowsFollow /\ LastRow' = LastRow /\ rows' = rows
    BY <1>1 DEF RowsFollow, LastRow
  <2>6. CatalogOrder'
    BY <1>1, <2>1, <2>5 DEF CatalogOrder
  <2>7. ASSUME writeIndex' = index'[w], rows' # <<>>
        PROVE  row'[w] = LastRow' + NData
    <3>1. InFlight = {}
      BY <1>1, <1>2, <2>2, <2>7
    <3>. QED BY <1>1, <2>1, <2>5, <2>7, <3>1 DEF CatalogOrder
  <2>8. FlightOrder'
    <3>1. ASSUME NEW v \in InFlight', index'[v] = curSampleId'
          PROVE  Position' = row'[v] + NData
      <4>1. v = w
        BY <1>1, <1>2, <2>2, <3>1
      <4>. QED BY <1>1, <4>1
    <3>2. ASSUME NEW v \in InFlight', index'[v] = writeIndex', rows' # <<>>
          PROVE  row'[v] = LastRow' + NData
      <4>1. CASE v = w
        BY <2>7, <3>2, <4>1
      <4>2. CASE v # w
        BY <1>1, <2>1, <2>2, <2>5, <3>2, <4>2 DEF FlightOrder
      <4>. QED BY <4>1, <4>2
    <3>3. ASSUME NEW u \in InFlight', NEW v \in InFlight', index'[v] = index'[u] + 1
          PROVE  row'[v] = row'[u] + NData
      <4>1. u # w
        BY <1>1, <1>2, <2>2, <3>3
      <4>2. CASE v = w
        <5>1. index[u] = curSampleId
          BY <1>1, <1>2, <2>2, <3>3, <4>1, <4>2
        <5>. QED BY <1>1, <2>1, <4>1, <4>2, <5>1 DEF FlightOrder
      <4>3. CASE v # w
        BY <1>1, <2>1, <2>2, <3>3, <4>1, <4>3 DEF FlightOrder
      <4>. QED BY <4>2, <4>3
    <3>. QED BY <3>1, <3>2, <3>3 DEF FlightOrder
  <2>. QED BY <2>3, <2>4, <2>6, <2>8
<1>. QED BY <1>1, <1>3, <1>4, ThreadIInv

(* With its turn, the thread has the realization after the last row; the   *)
(* one with the next index, if it is in flight, follows.                   *)
LEMMA WriteControl ==
  ASSUME Control, NEW w \in Workers, Write(w)
  PROVE  /\ Control' /\ running = "mt" /\ UNCHANGED KeptByThreads
         /\ pc[w] = "write" /\ row[w] \in Nat
         /\ rows' = Append(rows, row[w]) /\ saved' \in {saved, Saved(rows', rng)}
         /\ writeIndex' = writeIndex + 1
         /\ UNCHANGED <<curSampleId, rng, row, index>>
         /\ w \in InFlight /\ InFlight' = InFlight \ {w} /\ InFlight \subseteq Workers
         /\ Position' = Position
         /\ \A v \in Workers : pc'[v] # "write"
<1>1. /\ ThreadType /\ running = "mt" /\ pc[w] = "write"
      /\ rows' = Append(rows, row[w]) /\ saved' \in {saved, Saved(rows', rng)}
      /\ writeIndex' = writeIndex + 1 /\ updateLock' = None
      /\ pc' = Broadcast([pc EXCEPT ![w] = "idle"])
      /\ UNCHANGED KeptByThreads
      /\ UNCHANGED <<curSampleId, left, rng, resampleLock, drawn, row, index>>
  BY ThreadTypeOK, BusyFacts DEF Write, AddRow, KeptByThreads, progVars
<1>2. /\ pc' \in [Workers -> Location] /\ pc'[w] = "idle"
      /\ \A v \in Workers \ {w} : pc'[v] = IF pc[v] = "asleep" THEN "woken" ELSE pc[v]
  <2>1. pc \in [Workers -> Location]
    BY <1>1 DEF ThreadType
  <2>. QED BY <1>1, <2>1 DEF Broadcast, Location
<1>3. row[w] \in Nat /\ rng \in Nat /\ writeIndex' \in Nat /\ curSampleId' >= curSampleId
  BY <1>1 DEF ThreadType
<1>4. rows' \in Seq(Nat)
  BY <1>1, <1>3 DEF ThreadType
<1>5. saved' \in SavedSet
  <2>1. saved \in SavedSet /\ ProgType
    BY <1>1, ProgTypeOK DEF ThreadType
  <2>. QED BY <2>1, <1>1, <1>3, <1>4, SavedType
<1>6. ThreadType'
  BY <1>1, <1>2, <1>3, <1>4, <1>5 DEF ThreadType
<1>7. updateLock = w /\ \A v \in Workers \ {w} : pc[v] # "write"
  BY <1>1 DEF Control, LockInv
<1>8. LockInv'
  BY <1>1, <1>2, <1>7, WorkersAssumption DEF Control, LockInv
<1>9. DrawInv'
  BY <1>1, <1>2 DEF Control, DrawInv
<1>10. w \in InFlight /\ InFlight' = InFlight \ {w} /\ InFlight \subseteq Workers
  BY <1>1, <1>2 DEF InFlight
<1>11. Position' = Position
  BY <1>1 DEF Position
<1>12. \A v \in Workers : pc'[v] # "write"
  BY <1>2, <1>7
<1>13. Control'
  BY <1>1, <1>3, <1>6, <1>8, <1>9, ThreadControl
<1>. QED BY <1>1, <1>3, <1>10, <1>11, <1>12, <1>13

LEMMA WriteIInv ==
  ASSUME IInv, NEW w \in Workers, Write(w)
  PROVE  IInv'
<1>1. /\ Control' /\ running = "mt" /\ UNCHANGED KeptByThreads
      /\ pc[w] = "write" /\ row[w] \in Nat
      /\ rows' = Append(rows, row[w]) /\ saved' \in {saved, Saved(rows', rng)}
      /\ writeIndex' = writeIndex + 1
      /\ UNCHANGED <<curSampleId, rng, row, index>>
      /\ w \in InFlight /\ InFlight' = InFlight \ {w} /\ InFlight \subseteq Workers
      /\ Position' = Position
      /\ \A v \in Workers : pc'[v] # "write"
  BY WriteControl DEF IInv
<1>2. /\ curSampleId \in Int /\ writeIndex \in Int /\ rows \in Seq(Nat) /\ NData \in Nat
      /\ \A v \in Workers : index[v] \in Int
  BY ThreadTypeOK, ParametersAssumption DEF IInv, ThreadType
<1>3. /\ LastRow' = row[w]
      /\ RowsFollow /\ (rows # <<>> => row[w] = LastRow + NData) => RowsFollow'
  BY <1>1, <1>2, AppendFollows
<1>4. FileInv'
  BY <1>1, SavedFile DEF IInv, KeptByThreads
<1>5. ASSUME keepOrder
      PROVE  IndexOrder' /\ TurnOrder' /\ CatalogOrder' /\ FlightOrder'
  <2>1. IndexOrder /\ TurnOrder /\ CatalogOrder /\ FlightOrder
    BY <1>5, OrderFacts
  <2>2. index[w] = writeIndex
    BY <1>1, <2>1 DEF TurnOrder
  <2>3. writeIndex <= curSampleId
    BY <1>1, <1>2, <2>1, <2>2 DEF IndexOrder
  <2>4. \A v \in InFlight' :
          /\ v \in InFlight /\ v # w /\ index[v] \in Int
          /\ writeIndex + 1 <= index[v] /\ index[v] <= curSampleId
    <3>. SUFFICES ASSUME NEW v \in InFlight'
                  PROVE  /\ v \in InFlight /\ v # w /\ index[v] \in Int
                         /\ writeIndex + 1 <= index[v] /\ index[v] <= curSampleId
      OBVIOUS
    <3>1. v \in InFlight /\ v # w
      BY <1>1
    <3>2. index[v] # index[w] /\ index[v] \in writeIndex..curSampleId
      BY <1>1, <2>1, <3>1 DEF IndexOrder
    <3>. QED BY <1>1, <1>2, <2>2, <3>1, <3>2
  <2>5. IndexOrder'
    <3>1. writeIndex' <= curSampleId' + 1
      BY <1>1, <1>2, <2>3
    <3>2. ASSUME NEW v \in InFlight' PROVE index'[v] \in writeIndex'..curSampleId'
      BY <1>1, <1>2, <2>4
    <3>3. ASSUME NEW u \in InFlight', NEW v \in InFlight', index'[u] = index'[v]
          PROVE  u = v
      BY <1>1, <2>1, <2>4, <3>3 DEF IndexOrder
    <3>4. ASSUME NEW k \in writeIndex'..curSampleId'
          PROVE  \E v \in InFlight' : index'[v] = k
      <4>1. k \in writeIndex..curSampleId /\ k # writeIndex
        BY <1>1, <1>2
      <4>. QED BY <1>1, <2>1, <2>2, <4>1 DEF IndexOrder
    <3>. QED BY <3>1, <3>2, <3>3, <3>4 DEF IndexOrder
  <2>6. TurnOrder'
    BY <1>1 DEF TurnOrder
  <2>7. RowsFollow'
    BY <1>1, <1>3, <2>1, <2>2 DEF CatalogOrder, FlightOrder
  <2>8. ASSUME InFlight' = {} PROVE Position' = LastRow' + NData
    <3>1. writeIndex'..curSampleId' = {}
      BY <2>5, <2>8 DEF IndexOrder
    <3>2. ~ (writeIndex + 1 <= curSampleId)
      <4>1. ASSUME writeIndex + 1 <= curSampleId PROVE curSampleId' \in writeIndex'..curSampleId'
        BY <1>1, <1>2, <4>1
      <4>. QED BY <3>1, <4>1
    <3>3. index[w] = curSampleId
      BY <1>2, <2>2, <2>3, <3>2
    <3>. QED BY <1>1, <1>3, <2>1, <3>3 DEF FlightOrder
  <2>9. CatalogOrder'
    BY <2>7, <2>8 DEF CatalogOrder
  <2>10. FlightOrder'
    <3>1. ASSUME NEW v \in InFlight', index'[v] = curSampleId'
          PROVE  Position' = row'[v] + NData
      BY <1>1, <2>1, <2>4, <3>1 DEF FlightOrder
    <3>2. ASSUME NEW v \in InFlight', index'[v] = writeIndex'
          PROVE  row'[v] = LastRow' + NData
      <4>1. index[v] = index[w] + 1
        BY <1>1, <2>2, <3>2
      <4>. QED BY <1>1, <1>3, <2>1, <2>4, <4>1 DEF FlightOrder
    <3>3. ASSUME NEW u \in InFlight', NEW v \in InFlight', index'[v] = index'[u] + 1
          PROVE  row'[v] = row'[u] + NData
      BY <1>1, <2>1, <2>4, <3>3 DEF FlightOrder
    <3>. QED BY <3>1, <3>2, <3>3 DEF FlightOrder
  <2>. QED BY <2>5, <2>6, <2>9, <2>10
<1>. QED BY <1>1, <1>4, <1>5, ThreadIInv

-----------------------------------------------------------------------------
(* The theorems                                                            *)

(* The steps of the threads: all but two are quiet.                        *)
LEMMA ThreadSteps ==
  ASSUME Control, NEW w \in Workers, ThreadStep(w)
  PROVE  UnlockResample(w) \/ Write(w) \/ (Control' /\ Quiet)
BY TakeQuiet, LockResampleQuiet, DrawQuiet, LockUpdateQuiet, WaitTurnQuiet, HasTurnQuiet
   DEF ThreadStep

LEMMA StutterControl ==
  ASSUME Control, UNCHANGED vars
  PROVE  Control' /\ InFlight' = InFlight /\ Position' = Position
<1>1. TypeOK'
  BY DEF Control, TypeOK, vars
<1>2. LockInv' /\ RunInv' /\ DrawInv'
  BY DEF Control, LockInv, RunInv, DrawInv, vars
<1>3. InFlight' = InFlight /\ Position' = Position
  BY DEF InFlight, Position, vars
<1>. QED BY <1>1, <1>2, <1>3 DEF Control

LEMMA NextControl ==
  ASSUME Control, [Next]_vars
  PROVE  Control'
<1>1. CASE Program
  BY <1>1, ProgramControl
<1>2. CASE RunStep
  BY <1>2, RealizeControl, ReturnRunControl DEF RunStep
<1>3. ASSUME NEW w \in Workers, ThreadStep(w) PROVE Control'
  BY <1>3, ThreadSteps, UnlockResampleControl, WriteControl
<1>4. CASE UNCHANGED vars
  BY <1>4, StutterControl
<1>. QED BY <1>1, <1>2, <1>3, <1>4 DEF Next

LEMMA NextIInv ==
  ASSUME IInv, [Next]_vars
  PROVE  IInv'
<1>1. CASE Program
  BY <1>1, ProgramIInv
<1>2. CASE RunStep
  BY <1>2, RealizeIInv, ReturnRunIInv DEF RunStep
<1>3. ASSUME NEW w \in Workers, ThreadStep(w) PROVE IInv'
  BY <1>3, ThreadSteps, QuietIInv, UnlockResampleIInv, WriteIInv DEF IInv
<1>4. CASE UNCHANGED vars
  <2>. USE <1>4 DEF vars
  <2>1. Control' /\ InFlight' = InFlight /\ Position' = Position
    BY StutterControl DEF IInv
  <2>2. FileInv'
    BY DEF IInv, FileInv
  <2>3. IndexInv' /\ TurnInv'
    BY <2>1 DEF IInv, IndexInv, IndexOrder, TurnInv, TurnOrder
  <2>4. RowInv'
    BY <2>1 DEF IInv, RowInv, CatalogOrder, FlightOrder, Ordered, RowsFollow, LastRow
  <2>. QED BY <2>1, <2>2, <2>3, <2>4 DEF IInv
<1>. QED BY <1>1, <1>2, <1>3, <1>4 DEF Next

(* The inductive invariant holds for any number of threads, data sets and  *)
(* realizations.                                                           *)
THEOREM Invariance == Spec => []IInv
<1>1. Init => IInv
  BY InitIInv
<1>2. IInv /\ [Next]_vars => IInv'
  BY NextIInv
<1>. QED BY <1>1, <1>2, PTL DEF Spec

(* Every variable of NcmFitMC and its threads keeps its type.              *)
THEOREM TypeCorrect == Spec => []TypeOK
<1>1. IInv => TypeOK
  BY DEF IInv, Control
<1>. QED BY <1>1, Invariance, PTL

(* On one thread, or with keep_order (ncm_fit_mc.c:780-811), the rows of   *)
(* the catalog are the realizations in the order they were drawn from its  *)
(* generator, none left out, however many threads fit them.                *)
THEOREM OrderKept == Spec => []InOrder
<1>1. IInv => InOrder
  BY DEF IInv, RowInv, CatalogOrder, Ordered, InOrder
<1>. QED BY <1>1, Invariance, PTL

-----------------------------------------------------------------------------
(* What a serial run sees of the multi-threaded one                        *)

SeenRows == IF keepOrder THEN rows ELSE <<>>
SeenRunning == keepOrder /\ running # "no"

(* An appended row that follows the last one is a realization of the       *)
(* serial run.                                                             *)
LEMMA AppendExtends ==
  ASSUME rows \in Seq(Nat), NEW r \in Nat, rows' = Append(rows, r)
  PROVE  /\ Len(rows') = Len(rows) + 1
         /\ SubSeq(rows', 1, Len(rows)) = rows
         /\ rows'[Len(rows')] = r
<1>1. /\ rows' \in Seq(Nat) /\ Len(rows') = Len(rows) + 1 /\ Len(rows) \in Nat
      /\ rows'[Len(rows) + 1] = r
      /\ \A i \in 1..Len(rows) : rows'[i] = rows[i]
  OBVIOUS
<1>2. SubSeq(rows', 1, Len(rows)) = rows
  BY <1>1
<1>. QED BY <1>1, <1>2

LEMMA RealizationSeen ==
  ASSUME IInv, keepOrder, keepOrder' = keepOrder, running # "no", running' = running,
         NEW r \in Nat, rows' = Append(rows, r),
         rows # <<>> => r = LastRow + NData
  PROVE  Serial!Realize
<1>1. /\ Len(rows') = Len(rows) + 1 /\ SubSeq(rows', 1, Len(rows)) = rows
      /\ rows'[Len(rows')] = r
  BY AppendExtends DEF IInv, Control, TypeOK
<1>2. rows # <<>> => rows'[Len(rows')] = rows[Len(rows)] + NData
  BY <1>1 DEF LastRow
<1>3. (IF keepOrder THEN rows ELSE <<>>) = rows
      /\ (IF keepOrder' THEN rows' ELSE <<>>) = rows'
      /\ (keepOrder /\ running # "no") = TRUE
      /\ (keepOrder' /\ running' # "no") = TRUE
  BY Zenon
<1>. QED BY <1>1, <1>2, <1>3, Zenon DEF Serial!Realize

LEMMA StepSeen ==
  ASSUME IInv, IInv', [Next]_vars
  PROVE  [Serial!Next]_<<SeenRows, SeenRunning>>
<1>1. keepOrder' = keepOrder /\ nthreads' = nthreads
  BY DEF Next, Program, RunStep, ThreadStep, SetDataFile, StartRun, EndRun, Reset,
         SetFirstSampleId, Run, Realize, ReturnRun, Take, LockResample, Draw,
         UnlockResample, LockUpdate, WaitTurn, HasTurn, Write, confVars, progVars, vars
<1>2. CASE ~ keepOrder
  BY <1>1, <1>2, Zenon DEF SeenRows, SeenRunning
<1>3. CASE keepOrder /\ Program
  <2>1. running = "no"
    BY <1>3 DEF IInv, Control, RunInv, Program, SetDataFile, StartRun, EndRun, Reset,
                SetFirstSampleId, Run
  <2>2. CASE running' = "no"
    BY <1>1, <1>3, <2>1, <2>2, Zenon DEF Serial!Next, Serial!Replace
  <2>3. CASE running' # "no"
    <3>1. rows' = rows
      BY <1>3, <2>1, <2>3 DEF Program, SetDataFile, StartRun, EndRun, Reset,
                SetFirstSampleId, Run, catVars
    <3>. QED BY <1>1, <1>3, <2>1, <2>3, <3>1, Zenon DEF Serial!Next, Serial!Run
  <2>. QED BY <2>2, <2>3
<1>4. ASSUME keepOrder, Realize PROVE Serial!Realize
  <2>1. /\ running = "single" /\ running' = running
        /\ rows' = Append(rows, rng) /\ rng \in Nat
    BY <1>4 DEF Realize, AddRow, IInv, Control, TypeOK
  <2>2. rows # <<>> => rng = LastRow + NData
    BY <1>4, <2>1, IdleFacts DEF Ordered
  <2>. QED BY <1>1, <1>4, <2>1, <2>2, RealizationSeen
<1>5. CASE keepOrder /\ ReturnRun
  <2>1. running # "no" /\ running' = "no" /\ rows' = rows
    BY <1>5 DEF ReturnRun, catVars
  <2>. QED BY <1>1, <1>5, <2>1, Zenon DEF Serial!Next, Serial!Return
<1>6. ASSUME NEW w \in Workers, keepOrder, ThreadStep(w)
      PROVE  Serial!Realize \/ UNCHANGED <<SeenRows, SeenRunning>>
  <2>1. CASE Write(w)
    <3>1. /\ running # "no" /\ running' = running
          /\ rows' = Append(rows, row[w]) /\ row[w] \in Nat
          /\ pc[w] = "write" /\ w \in InFlight
      BY <2>1, BusyFacts DEF Write, AddRow, progVars, IInv, Control, TypeOK, InFlight
    <3>2. rows # <<>> => row[w] = LastRow + NData
      BY <1>6, <3>1, OrderFacts DEF TurnOrder, FlightOrder
    <3>. QED BY <1>1, <1>6, <3>1, <3>2, RealizationSeen
  <2>2. CASE ~ Write(w)
    <3>1. UNCHANGED <<rows, running>>
      BY <1>6, <2>2 DEF ThreadStep, Take, LockResample, Draw, UnlockResample, LockUpdate,
                        WaitTurn, HasTurn, catVars, progVars
    <3>. QED BY <1>1, <3>1 DEF SeenRows, SeenRunning
  <2>. QED BY <2>1, <2>2
<1>7. CASE UNCHANGED vars
  BY <1>7 DEF vars, SeenRows, SeenRunning
<1>. QED
  BY <1>2, <1>3, <1>4, <1>5, <1>6, <1>7, Zenon
     DEF Next, RunStep, Serial!Next, SeenRows, SeenRunning

(* The multi-threaded run with keep_order cannot be told from a serial one:*)
(* every step of NcmFitMC is, in its catalog, one realization after the    *)
(* last or the start or end of a run, or changes nothing there.            *)
THEOREM ImplementsSerial == Spec => IsSerial
<1>1. Init => Serial!Init
  BY Zenon DEF Init, Serial!Init
<1>2. IInv /\ IInv' /\ [Next]_vars => [Serial!Next]_<<SeenRows, SeenRunning>>
  BY StepSeen
<1>. QED
  BY <1>1, <1>2, Invariance, PTL DEF Spec, IsSerial, Serial!Spec, SeenRows, SeenRunning

-----------------------------------------------------------------------------
(* The program of MCFitMC, where a process that may die stands beside one  *)
(* that does not                                                           *)

LEMMA LivingInvariance == MCSpec => [](~ dies => IInv)
<1>1. MCInit => (~ dies => IInv)
  BY InitIInv DEF MCInit
<1>2. (~ dies => IInv) /\ [MCNext]_<<vars, dies>> => (~ dies => IInv)'
  <2>. SUFFICES ASSUME ~ dies => IInv, [MCNext]_<<vars, dies>>, ~ dies' PROVE IInv'
    OBVIOUS
  <2>1. ~ dies /\ [Next]_vars
    BY DEF MCNext
  <2>. QED BY <2>1, NextIInv
<1>. QED BY <1>1, <1>2, PTL DEF MCSpec

(* As OrderKept, of the processes of MCFitMC that do not die.              *)
THEOREM LivingOrderKept == MCSpec => []MCInOrder
<1>1. (~ dies => IInv) => MCInOrder
  BY DEF IInv, RowInv, CatalogOrder, Ordered, InOrder, MCInOrder
<1>. QED BY <1>1, LivingInvariance, PTL

LivingRows == IF keepOrder /\ ~ dies THEN rows ELSE <<>>
LivingRunning == keepOrder /\ ~ dies /\ running # "no"

(* As ImplementsSerial, of the processes of MCFitMC that do not die.       *)
THEOREM LivingImplementsSerial == MCSpec => MCIsSerial
<1>1. MCInit => MCSerial!Init
  BY Zenon DEF MCInit, Init, MCSerial!Init
<1>2. (~ dies => IInv) /\ (~ dies => IInv)' /\ [MCNext]_<<vars, dies>>
        => [MCSerial!Next]_<<LivingRows, LivingRunning>>
  <2>. SUFFICES ASSUME ~ dies => IInv, (~ dies => IInv)', [MCNext]_<<vars, dies>>
                PROVE  [MCSerial!Next]_<<LivingRows, LivingRunning>>
    OBVIOUS
  <2>1. dies' = dies
    BY DEF MCNext
  <2>2. CASE dies
    BY <2>1, <2>2, Zenon DEF LivingRows, LivingRunning
  <2>3. CASE ~ dies
    <3>1. [Next]_vars /\ IInv /\ IInv'
      BY <2>1, <2>3 DEF MCNext
    <3>2. [Serial!Next]_<<SeenRows, SeenRunning>>
      BY <3>1, StepSeen
    <3>3. LivingRows = SeenRows /\ LivingRunning = SeenRunning
      BY <2>3, Zenon DEF LivingRows, SeenRows, LivingRunning, SeenRunning
    <3>4. LivingRows' = SeenRows' /\ LivingRunning' = SeenRunning'
      BY <2>1, <2>3, Zenon DEF LivingRows, SeenRows, LivingRunning, SeenRunning
    <3>. QED
      BY <3>2, <3>3, <3>4, Zenon
         DEF Serial!Next, Serial!Run, Serial!Realize, Serial!Return, Serial!Replace, Serial!Crash,
             MCSerial!Next, MCSerial!Run, MCSerial!Realize, MCSerial!Return, MCSerial!Replace,
             MCSerial!Crash, LivingRows, SeenRows, LivingRunning, SeenRunning
  <2>. QED BY <2>2, <2>3
<1>. QED
  BY <1>1, <1>2, LivingInvariance, PTL DEF MCSpec, MCIsSerial, MCSerial!Spec, LivingRows, LivingRunning
=============================================================================
