-------------------------- MODULE FitMCCountProofs --------------------------
(***************************************************************************)
(* Proofs about what NcmFitMC keeps count of, for any number of threads,   *)
(* data sets and realizations: the indices of the realizations, and the    *)
(* draws of the generator, of which a run leaves none out.                 *)
(***************************************************************************)
EXTENDS FitMCProofs, FiniteSetTheorems

(* An index between write_index and cur_sample_id is that of a realization *)
(* in flight, and write_index is the id of the next row of a catalog the   *)
(* run was started for.                                                    *)
Account ==
  /\ writeIndex + Cardinality(InFlight) = curSampleId + 1
  /\ started => writeIndex = CurId + 1

LEMMA FlightFinite ==
  /\ IsFiniteSet(InFlight)
  /\ Cardinality(InFlight) \in Nat
  /\ InFlight = {} => Cardinality(InFlight) = 0
<1>1. IsFiniteSet(InFlight)
  BY WorkersAssumption, FS_Subset DEF InFlight
<1>. QED BY <1>1, FS_CardinalityType, FS_EmptySet

LEMMA CountTypes ==
  ASSUME Control
  PROVE  /\ curSampleId \in Int /\ writeIndex \in Nat /\ rng \in Nat /\ firstId \in Nat
         /\ rows \in Seq(Nat) /\ Len(rows) \in Nat /\ CurId \in Int
         /\ NData \in Nat /\ NData > 0
<1>1. /\ curSampleId \in Int /\ writeIndex \in Nat /\ rng \in Nat /\ firstId \in Nat
      /\ rows \in Seq(Nat) /\ CurId \in Int
  BY ProgTypeOK, CurIdType DEF ProgType
<1>. QED BY <1>1, ParametersAssumption

(* No thread is at work between runs.                                      *)
LEMMA RestAccount ==
  ASSUME Control, Account, running # "mt"
  PROVE  writeIndex = curSampleId + 1
<1>1. Cardinality(InFlight) = 0
  BY RestFacts, FlightFinite
<1>. QED BY <1>1, CountTypes DEF Account

LEMMA RestAccountStep ==
  ASSUME Control', InFlight' = {}, writeIndex' = curSampleId' + 1,
         started' => writeIndex' = CurId' + 1
  PROVE  Account'
<1>1. Cardinality(InFlight') = 0
  BY FS_EmptySet
<1>2. curSampleId' \in Int /\ writeIndex' \in Nat
  BY DEF Control, TypeOK
<1>. QED BY <1>1, <1>2 DEF Account

LEMMA InitAccount == Init => Account
<1>. SUFFICES ASSUME Init PROVE Account
  OBVIOUS
<1>1. InFlight = {}
  BY DEF Init, AllIdle, InFlight
<1>2. Cardinality(InFlight) = 0
  BY <1>1, FlightFinite
<1>. QED BY <1>2 DEF Init, Account

LEMMA ProgramAccount ==
  ASSUME IInv, Account, Program
  PROVE  Account'
<1>0. Control
  BY DEF IInv
<1>1. CASE SetDataFile
  <2>1. /\ Control' /\ InFlight' = {} /\ UNCHANGED <<rows, firstId, curSampleId, writeIndex, started>>
        /\ running = "no"
    BY <1>0, <1>1, SetDataFileControl, SetDataFileIInv DEF SetDataFile
  <2>2. writeIndex = curSampleId + 1 /\ CurId' = CurId
    BY <1>0, <2>1, RestAccount DEF CurId
  <2>. QED BY <2>1, <2>2, RestAccountStep DEF Account
<1>2. CASE StartRun
  <2>1. /\ Control' /\ InFlight' = {} /\ running = "no"
        /\ curSampleId' = CurId /\ CurId' = CurId
        /\ writeIndex = curSampleId + 1 => writeIndex' = curSampleId' + 1
    BY <1>0, <1>2, StartRunControl
  <2>2. writeIndex = curSampleId + 1
    BY <1>0, <2>1, RestAccount
  <2>. QED BY <2>1, <2>2, RestAccountStep
<1>3. CASE EndRun
  <2>1. /\ Control' /\ InFlight' = {} /\ running = "no" /\ ~ started'
        /\ UNCHANGED <<curSampleId, writeIndex>>
    BY <1>0, <1>3, EndRunControl DEF EndRun
  <2>2. writeIndex = curSampleId + 1
    BY <1>0, <2>1, RestAccount
  <2>. QED BY <2>1, <2>2, RestAccountStep
<1>4. CASE Reset
  <2>1. Control' /\ InFlight' = {} /\ ~ started' /\ curSampleId' = -1 /\ writeIndex' = 0
    BY <1>0, <1>4, ResetControl DEF Reset
  <2>2. writeIndex' = curSampleId' + 1
    BY <2>1
  <2>. QED BY <2>1, <2>2, RestAccountStep
<1>5. ASSUME NEW id \in 1..MaxN, SetFirstSampleId(id) PROVE Account'
  <2>0. id \in Nat
    BY BoundsAssumption
  <2>1. /\ Control' /\ InFlight' = {} /\ curSampleId' = id - 1
        /\ writeIndex = curSampleId + 1 => writeIndex' = curSampleId' + 1
    BY <1>0, <1>5, <2>0, SetFirstSampleIdControl
  <2>2. running = "no" /\ rows' = <<>> /\ firstId' = id
    BY <1>5 DEF SetFirstSampleId
  <2>3. writeIndex = curSampleId + 1
    BY <1>0, <2>2, RestAccount
  <2>4. CurId' = id - 1
    BY <2>0, <2>2 DEF CurId
  <2>. QED BY <2>1, <2>3, <2>4, RestAccountStep
<1>6. ASSUME NEW n \in 1..MaxN, Run(n) PROVE Account'
  <2>0. n \in Nat
    BY BoundsAssumption
  <2>1. /\ Control' /\ InFlight' = {} /\ running = "no"
        /\ UNCHANGED <<curSampleId, writeIndex, started, firstId, rows>>
    BY <1>0, <1>6, <2>0, RunControl DEF Run, catVars
  <2>2. writeIndex = curSampleId + 1 /\ CurId' = CurId
    BY <1>0, <2>1, RestAccount DEF CurId
  <2>. QED BY <2>1, <2>2, RestAccountStep DEF Account
<1>. QED BY <1>1, <1>2, <1>3, <1>4, <1>5, <1>6 DEF Program

(* A row more is an id more.                                               *)
LEMMA AppendCount ==
  ASSUME Control, NEW r \in Nat, rows' = Append(rows, r), firstId' = firstId
  PROVE  Len(rows') = Len(rows) + 1 /\ CurId' = CurId + 1
<1>1. Len(rows') = Len(rows) + 1
  BY CountTypes
<1>. QED BY <1>1, CountTypes DEF CurId

(* One realization more, or less, in flight.                               *)
LEMMA FlightGrows ==
  ASSUME NEW w, w \notin InFlight, InFlight' = InFlight \cup {w}
  PROVE  Cardinality(InFlight') = Cardinality(InFlight) + 1
BY FlightFinite, FS_AddElement

LEMMA FlightShrinks ==
  ASSUME NEW w, w \in InFlight, InFlight' = InFlight \ {w}
  PROVE  /\ Cardinality(InFlight') = Cardinality(InFlight) - 1
         /\ Cardinality(InFlight) > 0
<1>1. Cardinality(InFlight') = Cardinality(InFlight) - 1
  BY FlightFinite, FS_RemoveElement
<1>2. Cardinality(InFlight) # 0
  BY FlightFinite, FS_EmptySet
<1>. QED BY <1>1, <1>2, FlightFinite

LEMMA NextAccount ==
  ASSUME IInv, Account, [Next]_vars
  PROVE  Account'
<1>0. Control
  BY DEF IInv
<1>1. CASE Program
  BY <1>1, ProgramAccount
<1>2. CASE Realize
  <2>1. /\ Control' /\ InFlight' = {} /\ running = "single" /\ started
        /\ curSampleId' = curSampleId + 1 /\ writeIndex' = writeIndex + 1
    BY <1>0, <1>2, RealizeControl
  <2>2. rows' = Append(rows, rng) /\ firstId' = firstId /\ rng \in Nat
    BY <1>0, <1>2, CountTypes DEF Realize, AddRow
  <2>3. writeIndex = curSampleId + 1 /\ writeIndex = CurId + 1 /\ CurId' = CurId + 1
    BY <1>0, <2>1, <2>2, RestAccount, AppendCount DEF Account
  <2>. QED BY <1>0, <2>1, <2>3, CountTypes, RestAccountStep
<1>3. CASE ReturnRun
  <2>1. InFlight' = InFlight
    BY <1>0, <1>3, ReturnRunControl
  <2>2. UNCHANGED <<started, curSampleId, writeIndex, firstId, rows>>
    BY <1>3 DEF ReturnRun, catVars
  <2>. QED BY <2>1, <2>2 DEF Account, CurId
<1>4. ASSUME NEW w \in Workers, UnlockResample(w) PROVE Account'
  <2>1. /\ UNCHANGED KeptByThreads
        /\ curSampleId' = curSampleId + 1
        /\ UNCHANGED <<writeIndex, rows>>
        /\ w \notin InFlight /\ InFlight' = InFlight \cup {w}
    BY <1>0, <1>4, UnlockResampleControl
  <2>2. Cardinality(InFlight') = Cardinality(InFlight) + 1
    BY <2>1, FlightGrows
  <2>3. writeIndex' + Cardinality(InFlight') = curSampleId' + 1
    BY <1>0, <2>1, <2>2, CountTypes, FlightFinite DEF Account
  <2>4. CurId' = CurId /\ started' = started
    BY <2>1 DEF CurId, KeptByThreads
  <2>. QED BY <2>1, <2>3, <2>4 DEF Account
<1>5. ASSUME NEW w \in Workers, Write(w) PROVE Account'
  <2>1. /\ UNCHANGED KeptByThreads
        /\ row[w] \in Nat /\ rows' = Append(rows, row[w])
        /\ writeIndex' = writeIndex + 1 /\ curSampleId' = curSampleId
        /\ w \in InFlight /\ InFlight' = InFlight \ {w}
    BY <1>0, <1>5, WriteControl
  <2>2. Cardinality(InFlight') = Cardinality(InFlight) - 1
    BY <2>1, FlightShrinks
  <2>3. writeIndex' + Cardinality(InFlight') = curSampleId' + 1
    BY <1>0, <2>1, <2>2, CountTypes, FlightFinite DEF Account
  <2>4. CurId' = CurId + 1 /\ started' = started
    BY <1>0, <2>1, AppendCount DEF KeptByThreads
  <2>. QED BY <1>0, <2>1, <2>3, <2>4, CountTypes DEF Account
<1>6. CASE Quiet
  BY <1>6 DEF Quiet, KeptByThreads, Account, CurId
<1>7. CASE UNCHANGED vars
  <2>1. InFlight' = InFlight
    BY <1>0, <1>7, StutterControl
  <2>. QED BY <1>7, <2>1 DEF vars, Account, CurId
<1>. QED
  BY <1>0, <1>1, <1>2, <1>3, <1>4, <1>5, <1>6, <1>7, ThreadSteps DEF Next, RunStep

(* In a started run the indices of the realizations in flight are those    *)
(* from write_index to cur_sample_id, one each.                            *)
LEMMA AccountGives ==
  ASSUME IInv, Account
  PROVE  IndexAccount
<1>. SUFFICES ASSUME started
              PROVE  /\ writeIndex = CurId + 1
                     /\ curSampleId = CurId + Cardinality(InFlight)
                     /\ keepOrder => {index[w] : w \in InFlight} = writeIndex..curSampleId
  BY DEF IndexAccount
<1>1. writeIndex = CurId + 1
  BY DEF Account
<1>2. curSampleId = CurId + Cardinality(InFlight)
  <2>1. writeIndex + Cardinality(InFlight) = curSampleId + 1
    BY DEF Account
  <2>2. curSampleId \in Int /\ CurId \in Int /\ Cardinality(InFlight) \in Nat
    BY CountTypes, FlightFinite DEF IInv
  <2>. QED BY <1>1, <2>1, <2>2
<1>3. ASSUME keepOrder PROVE {index[w] : w \in InFlight} = writeIndex..curSampleId
  <2>1. /\ \A w \in InFlight : index[w] \in writeIndex..curSampleId
        /\ \A k \in writeIndex..curSampleId : \E w \in InFlight : index[w] = k
    BY <1>3, OrderFacts DEF IndexOrder
  <2>. QED BY <2>1
<1>. QED BY <1>1, <1>2, <1>3

(* Every index up to cur_sample_id is a row of the catalog or is held by   *)
(* exactly one thread (ncm_fit_mc.c:740-811), for any number of threads.   *)
THEOREM IndicesAccounted == Spec => []IndexAccount
<1>1. Init => Account
  BY InitAccount
<1>2. IInv /\ Account /\ [Next]_vars => Account'
  BY NextAccount
<1>3. IInv /\ Account => IndexAccount
  BY AccountGives
<1>. QED BY <1>1, <1>2, <1>3, Invariance, PTL DEF Spec

-----------------------------------------------------------------------------
(* The draws                                                               *)

(* The draws that realizations start at, of the rows and of those in       *)
(* flight, are every NData-th from low to where the generator is.          *)
Count == Len(rows) + Cardinality(InFlight)
Draws == {rows[i] : i \in 1..Len(rows)} \cup {row[w] : w \in InFlight}
Upto(low, n) == {low + k * NData : k \in 0..n - 1}

ContiguousFrom(low) == Position = low + Count * NData /\ Draws = Upto(low, Count)

Contiguous == \E low \in Nat : ContiguousFrom(low)

LEMMA CountNat == Control => Count \in Nat
<1>1. Cardinality(InFlight) \in Nat
  BY FlightFinite
<1>. QED BY <1>1, CountTypes DEF Count

LEMMA UptoGrows ==
  ASSUME NEW low \in Nat, NEW n \in Nat
  PROVE  /\ Upto(low, n + 1) = Upto(low, n) \cup {low + n * NData}
         /\ low + (n + 1) * NData = (low + n * NData) + NData
<1>1. 0..(n + 1) - 1 = (0..n - 1) \cup {n}
  OBVIOUS
<1>2. Upto(low, n + 1) = Upto(low, n) \cup {low + n * NData}
  BY <1>1 DEF Upto
<1>3. (n + 1) * NData = n * NData + NData
  BY ParametersAssumption
<1>4. n * NData \in Nat /\ NData \in Nat
  BY ParametersAssumption
<1>. QED BY <1>2, <1>3, <1>4

LEMMA UptoEmpty ==
  ASSUME NEW low \in Nat
  PROVE  low + 0 * NData = low /\ Upto(low, 0) = {}
<1>1. 0..0 - 1 = {} /\ 0 * NData = 0
  BY ParametersAssumption
<1>. QED BY <1>1 DEF Upto

(* A row more.                                                             *)
LEMMA RowDraws ==
  ASSUME rows \in Seq(Nat), NEW r \in Nat, rows' = Append(rows, r)
  PROVE  {rows'[i] : i \in 1..Len(rows')} = {rows[i] : i \in 1..Len(rows)} \cup {r}
<1>1. /\ Len(rows) \in Nat /\ Len(rows') = Len(rows) + 1
      /\ rows'[Len(rows) + 1] = r
      /\ \A i \in 1..Len(rows) : rows'[i] = rows[i]
  OBVIOUS
<1>2. 1..Len(rows') = (1..Len(rows)) \cup {Len(rows) + 1}
  BY <1>1
<1>. QED BY <1>1, <1>2

(* The draws of an idle program are those of its rows.                     *)
LEMMA RestDraws ==
  ASSUME InFlight = {}
  PROVE  Count = Len(rows) + 0 /\ Draws = {rows[i] : i \in 1..Len(rows)}
<1>1. Cardinality(InFlight) = 0
  BY FlightFinite
<1>. QED BY <1>1 DEF Count, Draws

(* An empty catalog goes on from where the generator is.                   *)
LEMMA EmptyContiguous ==
  ASSUME Control, InFlight = {}, rows = <<>>, Position = rng
  PROVE  Contiguous
<1>1. Len(rows) = 0 /\ 1..0 = {}
  OBVIOUS
<1>2. Count = 0 /\ Draws = {}
  BY <1>1, RestDraws
<1>3. rng \in Nat
  BY CountTypes
<1>. QED BY <1>2, <1>3, UptoEmpty DEF Contiguous, ContiguousFrom

LEMMA SameContiguous ==
  ASSUME Contiguous, rows' = rows, InFlight' = InFlight, Position' = Position,
         \A w \in InFlight : row'[w] = row[w]
  PROVE  Contiguous'
<1>1. Count' = Count
  BY DEF Count
<1>2. {row'[w] : w \in InFlight'} = {row[w] : w \in InFlight}
  OBVIOUS
<1>3. Draws' = Draws
  BY <1>2 DEF Draws
<1>. QED BY <1>1, <1>3 DEF Contiguous, ContiguousFrom, Upto

(* One realization more, where the generator was.                          *)
LEMMA ContiguousGrows ==
  ASSUME Control, Contiguous, Count' = Count + 1,
         Draws' = Draws \cup {Position}, Position' = Position + NData
  PROVE  Contiguous'
<1>1. PICK low \in Nat : ContiguousFrom(low)
  BY DEF Contiguous
<1>2. PICK n \in Nat : n = Count
  BY CountNat
<1>3. Position = low + n * NData /\ Draws = Upto(low, n)
  BY <1>1, <1>2 DEF ContiguousFrom
<1>4. Draws' = Upto(low, n + 1) /\ Position' = low + (n + 1) * NData
  BY <1>3, UptoGrows
<1>5. Count' = n + 1
  BY <1>2
<1>. QED BY <1>4, <1>5 DEF Contiguous, ContiguousFrom, Upto

LEMMA ProgramContiguous ==
  ASSUME IInv, Contiguous, Program
  PROVE  Contiguous'
<1>0. Control /\ IInv'
  BY ProgramIInv DEF IInv
<1>1. CASE Reset
  <2>1. InFlight' = {} /\ Position' = rng'
    BY <1>0, <1>1, ResetControl
  <2>2. rows' = <<>> /\ rng' = rng /\ rng \in Nat
    BY <1>0, <1>1, CountTypes DEF Reset
  <2>3. Len(rows') = 0 /\ 1..0 = {} /\ Cardinality(InFlight') = 0
    BY <2>1, <2>2, FS_EmptySet
  <2>4. Count' = 0 /\ Draws' = {}
    BY <2>1, <2>3 DEF Count, Draws
  <2>. QED BY <2>1, <2>2, <2>4, UptoEmpty DEF Contiguous, ContiguousFrom, Upto
<1>2. ASSUME rows' = rows, rng' = rng, running # "mt", InFlight' = {}, Position' = rng'
      PROVE  Contiguous'
  <2>1. InFlight = {} /\ Position = rng
    BY <1>0, <1>2, RestFacts
  <2>. QED BY <1>2, <2>1, SameContiguous
<1>3. CASE SetDataFile
  <2>1. /\ InFlight' = {} /\ Position' = rng' /\ rows' = rows /\ rng' = rng /\ running # "mt"
    BY <1>0, <1>3, SetDataFileControl, SetDataFileIInv DEF SetDataFile
  <2>. QED BY <2>1, <1>2
<1>4. CASE StartRun
  <2>1. /\ InFlight' = {} /\ Position' = rng' /\ rows' = rows /\ rng' = rng /\ running # "mt"
    BY <1>0, <1>4, StartRunControl DEF StartRun
  <2>. QED BY <2>1, <1>2
<1>5. CASE EndRun
  <2>1. /\ InFlight' = {} /\ Position' = rng' /\ rows' = rows /\ rng' = rng /\ running # "mt"
    BY <1>0, <1>5, EndRunControl DEF EndRun
  <2>. QED BY <2>1, <1>2
<1>6. \A n \in 1..MaxN : n \in Nat
  BY BoundsAssumption
<1>7. ASSUME NEW id \in 1..MaxN, SetFirstSampleId(id) PROVE Contiguous'
  <2>1. InFlight' = {} /\ Position' = rng'
    BY <1>0, <1>6, <1>7, SetFirstSampleIdControl
  <2>2. rows' = rows /\ rng' = rng /\ running # "mt"
    BY <1>7 DEF SetFirstSampleId
  <2>. QED BY <2>1, <2>2, <1>2
<1>8. ASSUME NEW n \in 1..MaxN, Run(n) PROVE Contiguous'
  <2>1. InFlight' = {} /\ Position' = rng'
    BY <1>0, <1>6, <1>8, RunControl
  <2>2. rows' = rows /\ rng' = rng /\ running # "mt"
    BY <1>8 DEF Run, catVars
  <2>. QED BY <2>1, <2>2, <1>2
<1>. QED BY <1>1, <1>3, <1>4, <1>5, <1>7, <1>8 DEF Program

LEMMA NextContiguous ==
  ASSUME IInv, Contiguous, [Next]_vars
  PROVE  Contiguous'
<1>0. Control
  BY DEF IInv
<1>1. CASE Program
  BY <1>1, ProgramContiguous
<1>2. CASE Realize
  <2>1. InFlight' = {} /\ Position' = rng' /\ running = "single"
    BY <1>0, <1>2, RealizeControl
  <2>2. rows' = Append(rows, rng) /\ rng' = rng + NData /\ rng \in Nat /\ rows \in Seq(Nat)
    BY <1>0, <1>2, CountTypes DEF Realize, AddRow
  <2>3. InFlight = {} /\ Position = rng
    BY <1>0, <2>1, RestFacts
  <2>4. Count' = Count + 1
    <3>1. Len(rows') = Len(rows) + 1 /\ Len(rows) \in Nat
      BY <2>2
    <3>2. Count = Len(rows) + 0 /\ Count' = Len(rows') + 0
      BY <2>1, <2>3, FS_EmptySet DEF Count
    <3>. QED BY <3>1, <3>2
  <2>5. Draws' = Draws \cup {Position}
    BY <2>1, <2>2, <2>3, RowDraws DEF Draws
  <2>. QED BY <1>0, <2>1, <2>2, <2>3, <2>4, <2>5, ContiguousGrows
<1>3. CASE ReturnRun
  <2>1. InFlight' = InFlight /\ InFlight = {} /\ Position' = Position
    BY <1>0, <1>3, ReturnRunControl
  <2>2. rows' = rows
    BY <1>3 DEF ReturnRun, catVars
  <2>. QED BY <2>1, <2>2, SameContiguous
<1>4. ASSUME NEW w \in Workers, UnlockResample(w) PROVE Contiguous'
  <2>1. /\ UNCHANGED <<rows, row>>
        /\ w \notin InFlight /\ InFlight' = InFlight \cup {w}
        /\ Position = row[w] /\ Position' = row[w] + NData
    BY <1>0, <1>4, UnlockResampleControl
  <2>2. Cardinality(InFlight') = Cardinality(InFlight) + 1
    BY <2>1, FlightGrows
  <2>3. Count' = Count + 1
    BY <1>0, <2>1, <2>2, CountTypes, FlightFinite DEF Count
  <2>4. Draws' = Draws \cup {Position}
    BY <2>1 DEF Draws
  <2>. QED BY <1>0, <2>1, <2>3, <2>4, ContiguousGrows
<1>5. ASSUME NEW w \in Workers, Write(w) PROVE Contiguous'
  <2>1. /\ row[w] \in Nat /\ rows' = Append(rows, row[w]) /\ row' = row
        /\ w \in InFlight /\ InFlight' = InFlight \ {w}
        /\ Position' = Position
    BY <1>0, <1>5, WriteControl
  <2>2. Cardinality(InFlight') = Cardinality(InFlight) - 1
    BY <2>1, FlightShrinks
  <2>3. Len(rows') = Len(rows) + 1 /\ rows \in Seq(Nat)
    BY <1>0, <2>1, CountTypes
  <2>4. Count' = Count
    BY <1>0, <2>2, <2>3, CountTypes, FlightFinite DEF Count
  <2>5. {rows'[i] : i \in 1..Len(rows')} = {rows[i] : i \in 1..Len(rows)} \cup {row[w]}
    BY <2>1, <2>3, RowDraws
  <2>6. Draws' = Draws
    BY <2>1, <2>5 DEF Draws
  <2>. QED BY <2>1, <2>4, <2>6 DEF Contiguous, ContiguousFrom, Upto
<1>6. CASE Quiet
  BY <1>6, SameContiguous DEF Quiet
<1>7. CASE UNCHANGED vars
  <2>1. InFlight' = InFlight /\ Position' = Position
    BY <1>0, <1>7, StutterControl
  <2>2. rows' = rows /\ row' = row
    BY <1>7 DEF vars
  <2>. QED BY <2>1, <2>2, SameContiguous
<1>. QED
  BY <1>0, <1>1, <1>2, <1>3, <1>4, <1>5, <1>6, <1>7, ThreadSteps DEF Next, RunStep

-----------------------------------------------------------------------------
(* The realizations asked for                                              *)

(* Realizations taken by a thread and not yet given an index.              *)
Drawing == {w \in Workers : pc[w] \in {"resample", "draw"}}

(* The realizations of a run that are not yet counted by cur_sample_id are *)
(* left to take or are being drawn.                                        *)
Target ==
  /\ asked # 0 => asked > firstId
  /\ running # "no" =>
       asked # 0 /\ curSampleId + 1 + left + Cardinality(Drawing) = asked
  /\ running = "no" /\ asked # 0 => Len(rows) = asked - firstId

LEMMA DrawingFinite ==
  /\ IsFiniteSet(Drawing)
  /\ Cardinality(Drawing) \in Nat
  /\ Drawing = {} => Cardinality(Drawing) = 0
<1>1. IsFiniteSet(Drawing)
  BY WorkersAssumption, FS_Subset DEF Drawing
<1>. QED BY <1>1, FS_CardinalityType, FS_EmptySet

LEMMA RestDrawing ==
  ASSUME Control, running # "mt"
  PROVE  Drawing = {} /\ Cardinality(Drawing) = 0
<1>1. Drawing = {}
  BY RestFacts DEF Drawing
<1>. QED BY <1>1, DrawingFinite

Counted ==
  /\ curSampleId \in Int /\ left \in Nat /\ asked \in Nat /\ firstId \in Nat
  /\ Len(rows) \in Nat /\ Cardinality(Drawing) \in Nat

LEMMA TargetTypes == Control => Counted
<1>. SUFFICES ASSUME Control PROVE Counted
  OBVIOUS
<1>1. left \in Nat /\ asked \in Nat
  BY ProgTypeOK DEF ProgType
<1>. QED BY <1>1, CountTypes, DrawingFinite DEF Counted

(* A started run, or one that has ended, has every row up to cur_sample_id.*)
LEMMA RestRows ==
  ASSUME Control, Account, started, running # "mt"
  PROVE  curSampleId + 1 = firstId + Len(rows)
<1>1. writeIndex = curSampleId + 1 /\ writeIndex = CurId + 1
  BY RestAccount DEF Account
<1>. QED BY <1>1, CountTypes DEF CurId

(* Between runs only a reset and a run change these.                       *)
LEMMA SameTarget ==
  ASSUME Target, running = "no", UNCHANGED <<running, asked, firstId, rows>>
  PROVE  Target'
BY DEF Target

LEMMA ProgramTarget ==
  ASSUME IInv, Account, Target, Program
  PROVE  Target'
<1>0. Control /\ Counted
  BY TargetTypes DEF IInv
<1>1. CASE SetDataFile
  <2>1. running = "no" /\ UNCHANGED <<running, asked, firstId, rows>>
    BY <1>1, SetDataFileIInv DEF SetDataFile, histVars
  <2>. QED BY <2>1, SameTarget
<1>2. CASE StartRun
  <2>1. running = "no" /\ UNCHANGED <<running, asked, firstId, rows>>
    BY <1>0, <1>2, StartRunControl DEF StartRun, histVars
  <2>. QED BY <2>1, SameTarget
<1>3. CASE EndRun
  BY <1>3, SameTarget DEF EndRun, histVars
<1>4. CASE Reset
  BY <1>4 DEF Reset, Target
<1>5. \A n \in 1..MaxN : n \in Nat /\ n > 0
  BY BoundsAssumption
<1>6. ASSUME NEW id \in 1..MaxN, SetFirstSampleId(id) PROVE Target'
  <2>1. /\ running = "no" /\ rows = <<>> /\ Len(rows) = 0
        /\ running' = "no" /\ asked' = asked
    BY <1>6 DEF SetFirstSampleId, histVars
  <2>2. asked = 0
    BY <1>0, <2>1 DEF Target, Counted
  <2>. QED BY <2>1, <2>2 DEF Target
<1>7. ASSUME NEW n \in 1..MaxN, Run(n) PROVE Target'
  <2>1. /\ started /\ running = "no" /\ running' # "no" /\ asked' = n
        /\ n > curSampleId + 1 /\ left' = n - (curSampleId + 1)
        /\ UNCHANGED <<curSampleId, firstId, pc>>
    BY <1>7 DEF Run, threadVars
  <2>2. curSampleId + 1 = firstId + Len(rows)
    BY <1>0, <2>1, RestRows
  <2>3. Drawing' = Drawing /\ Cardinality(Drawing) = 0
    BY <1>0, <2>1, RestDrawing DEF Drawing
  <2>. QED BY <1>0, <1>5, <2>1, <2>2, <2>3 DEF Target, Counted
<1>. QED BY <1>1, <1>2, <1>3, <1>4, <1>6, <1>7 DEF Program

(* A thread takes a realization, and gives it its index.                   *)
LEMMA ThreadTarget ==
  ASSUME Control, Target, NEW w \in Workers, ThreadStep(w)
  PROVE  Target'
<1>0. /\ pc \in [Workers -> Location] /\ Counted
  BY TargetTypes DEF Control, TypeOK
<1>1. running = "mt" /\ UNCHANGED <<asked, firstId, running>>
  BY BusyFacts DEF ThreadStep, Take, LockResample, Draw, UnlockResample, LockUpdate, WaitTurn,
                   HasTurn, Write, progVars, histVars
<1>2. ASSUME curSampleId' + 1 + left' + Cardinality(Drawing') =
             curSampleId + 1 + left + Cardinality(Drawing)
      PROVE  Target'
  BY <1>1, <1>2 DEF Target
<1>3. ASSUME UNCHANGED <<curSampleId, left>>, Drawing' = Drawing PROVE Target'
  BY <1>2, <1>3
<1>4. CASE Take(w)
  <2>1. left' = left - 1 /\ curSampleId' = curSampleId
    BY <1>4 DEF Take
  <2>2. w \notin Drawing /\ Drawing' = Drawing \cup {w}
    BY <1>0, <1>4 DEF Take, Goto, Drawing
  <2>3. Cardinality(Drawing') = Cardinality(Drawing) + 1
    BY <2>2, DrawingFinite, FS_AddElement
  <2>. QED BY <1>0, <1>2, <2>1, <2>3 DEF Counted
<1>5. CASE UnlockResample(w)
  <2>1. left' = left /\ curSampleId' = curSampleId + 1
    BY <1>5 DEF UnlockResample, progVars
  <2>2. w \in Drawing /\ Drawing' = Drawing \ {w}
    BY <1>0, <1>5 DEF UnlockResample, Goto, Drawing
  <2>3. Cardinality(Drawing') = Cardinality(Drawing) - 1
    BY <2>2, DrawingFinite, FS_RemoveElement
  <2>. QED BY <1>0, <1>2, <2>1, <2>3 DEF Counted
<1>6. CASE LockResample(w)
  <2>1. Drawing' = Drawing /\ UNCHANGED <<curSampleId, left>>
    BY <1>0, <1>6 DEF LockResample, Goto, Drawing, progVars
  <2>. QED BY <1>3, <2>1
<1>7. CASE Draw(w)
  <2>1. Drawing' = Drawing /\ UNCHANGED <<curSampleId, left>>
    BY <1>7 DEF Draw, Drawing, progVars
  <2>. QED BY <1>3, <2>1
<1>8. CASE LockUpdate(w)
  <2>1. Drawing' = Drawing /\ UNCHANGED <<curSampleId, left>>
    BY <1>0, <1>8 DEF LockUpdate, Goto, Drawing, progVars
  <2>. QED BY <1>3, <2>1
<1>9. CASE WaitTurn(w)
  <2>1. Drawing' = Drawing /\ UNCHANGED <<curSampleId, left>>
    BY <1>0, <1>9 DEF WaitTurn, Goto, Drawing, progVars
  <2>. QED BY <1>3, <2>1
<1>10. CASE HasTurn(w)
  <2>1. Drawing' = Drawing /\ UNCHANGED <<curSampleId, left>>
    BY <1>0, <1>10 DEF HasTurn, Goto, Drawing, progVars
  <2>. QED BY <1>3, <2>1
<1>11. CASE Write(w)
  <2>1. UNCHANGED <<curSampleId, left>>
    BY <1>11 DEF Write, progVars
  <2>2. ASSUME NEW v \in Workers
        PROVE  pc'[v] \in {"resample", "draw"} <=> pc[v] \in {"resample", "draw"}
    BY <1>0, <1>11 DEF Write, Broadcast
  <2>3. Drawing' = Drawing
    BY <2>2 DEF Drawing
  <2>. QED BY <1>3, <2>1, <2>3
<1>. QED BY <1>4, <1>5, <1>6, <1>7, <1>8, <1>9, <1>10, <1>11 DEF ThreadStep

LEMMA NextTarget ==
  ASSUME IInv, Account, Target, [Next]_vars
  PROVE  Target'
<1>0. Control /\ Counted
  BY TargetTypes DEF IInv
<1>1. CASE Program
  BY <1>1, ProgramTarget
<1>2. CASE Realize
  <2>1. /\ running = "single" /\ left > 0 /\ left' = left - 1
        /\ curSampleId' = curSampleId + 1
        /\ UNCHANGED <<running, firstId, asked, pc>>
    BY <1>2 DEF Realize, threadVars, histVars
  <2>2. Drawing' = Drawing
    BY <2>1 DEF Drawing
  <2>. QED BY <1>0, <2>1, <2>2 DEF Target, Counted
<1>3. CASE ReturnRun
  <2>1. /\ running # "no" /\ running' = "no" /\ left = 0 /\ pc = AllIdle
        /\ UNCHANGED <<rows, firstId, asked>>
    BY <1>3 DEF ReturnRun, catVars, histVars
  <2>2. InFlight = {} /\ Drawing = {}
    BY <2>1 DEF InFlight, Drawing, AllIdle
  <2>3. Cardinality(Drawing) = 0 /\ Cardinality(InFlight) = 0
    BY <2>2, DrawingFinite, FlightFinite
  <2>4. started
    BY <1>0, <2>1 DEF Control, RunInv
  <2>5. writeIndex = curSampleId + 1 /\ writeIndex = CurId + 1
    BY <1>0, <2>3, <2>4, CountTypes DEF Account
  <2>6. curSampleId + 1 = asked
    BY <1>0, <2>1, <2>3 DEF Target, Counted
  <2>7. Len(rows) = asked - firstId
    BY <1>0, <2>5, <2>6 DEF CurId, Counted
  <2>. QED BY <2>1, <2>7 DEF Target
<1>4. ASSUME NEW w \in Workers, ThreadStep(w) PROVE Target'
  BY <1>0, <1>4, ThreadTarget
<1>5. CASE UNCHANGED vars
  BY <1>5 DEF vars, Target, Drawing
<1>. QED BY <1>1, <1>2, <1>3, <1>4, <1>5 DEF Next, RunStep

(* The last realizations drawn, counted back from the generator.           *)
LEMMA UptoBack ==
  ASSUME NEW low \in Nat, NEW n \in Nat, NEW p, p = low + n * NData
  PROVE  Upto(low, n) = {p - k * NData : k \in 1..n}
<1>0. NData \in Nat
  BY ParametersAssumption
<1>1. ASSUME NEW k \in 0..n
      PROVE  n * NData = (n - k) * NData + k * NData /\ k * NData \in Nat /\ (n - k) * NData \in Nat
  BY <1>0
<1>2. ASSUME NEW k \in 0..n PROVE p - k * NData = low + (n - k) * NData
  <2>1. PICK a \in Nat, b \in Nat : a = k * NData /\ b = (n - k) * NData
    BY <1>1
  <2>2. p = low + (b + a)
    BY <1>1, <2>1
  <2>. QED BY <2>1, <2>2
<1>3. ASSUME NEW k \in 0..n - 1 PROVE \E j \in 1..n : low + k * NData = p - j * NData
  <2>1. n - k \in 1..n /\ n - k \in 0..n /\ n - (n - k) = k
    OBVIOUS
  <2>2. p - (n - k) * NData = low + (n - (n - k)) * NData
    BY <1>2, <2>1
  <2>. QED BY <2>1, <2>2
<1>4. ASSUME NEW k \in 1..n PROVE \E j \in 0..n - 1 : p - k * NData = low + j * NData
  <2>1. n - k \in 0..n - 1 /\ k \in 0..n
    OBVIOUS
  <2>. QED BY <1>2, <2>1
<1>. QED BY <1>3, <1>4 DEF Upto

LEMMA ContiguousGives ==
  ASSUME IInv, Contiguous, Target
  PROVE  Complete
<1>. SUFFICES ASSUME running = "no"
              PROVE  {rows[i] : i \in 1..Len(rows)} = {rng - k * NData : k \in 1..Len(rows)}
  BY DEF Complete, Target
<1>1. Control /\ InFlight = {} /\ Position = rng /\ rng \in Nat /\ Len(rows) \in Nat
  BY RestFacts, CountTypes DEF IInv
<1>2. Count = Len(rows) /\ Draws = {rows[i] : i \in 1..Len(rows)}
  BY <1>1, RestDraws
<1>3. PICK low \in Nat : rng = low + Len(rows) * NData /\ Draws = Upto(low, Len(rows))
  BY <1>1, <1>2 DEF Contiguous, ContiguousFrom
<1>4. Upto(low, Len(rows)) = {rng - k * NData : k \in 1..Len(rows)}
  BY <1>1, <1>3, UptoBack
<1>. QED BY <1>2, <1>3, <1>4

LEMMA InitCounts ==
  ASSUME Init
  PROVE  Contiguous /\ Target /\ Account
<1>1. InFlight = {} /\ rows = <<>> /\ Position = rng
  BY DEF Init, AllIdle, InFlight, Position
<1>. QED BY <1>1, InitControl, EmptyContiguous, InitAccount DEF Init, Target

(* "Runs the Monte Carlo until it reaches the @n-th realization.  Note     *)
(* that if the first_id is non-zero it will run @n - first_id              *)
(* realizations." (ncm_fit_mc.c:693): when a run has ended, the catalog    *)
(* has n - first_id rows and they are, in some order, the last             *)
(* realizations drawn, each there once and none missing, however many      *)
(* threads fitted them.                                                    *)
THEOREM RunsComplete == Spec => []Complete
<1>1. Init => Contiguous /\ Target /\ Account
  BY InitCounts
<1>2. IInv /\ Contiguous /\ Target /\ Account /\ [Next]_vars
        => Contiguous' /\ Target' /\ Account'
  BY NextContiguous, NextTarget, NextAccount
<1>3. IInv /\ Contiguous /\ Target => Complete
  BY ContiguousGives
<1>. QED BY <1>1, <1>2, <1>3, Invariance, PTL DEF Spec

(* As RunsComplete, of the processes of MCFitMC that do not die.           *)
THEOREM LivingRunsComplete == MCSpec => []MCComplete
<1>1. MCInit => (~ dies => Contiguous /\ Target /\ Account)
  BY InitCounts DEF MCInit
<1>2. (~ dies => IInv) /\ (~ dies => Contiguous /\ Target /\ Account) /\ [MCNext]_<<vars, dies>>
        => (~ dies => Contiguous /\ Target /\ Account)'
  <2>. SUFFICES ASSUME ~ dies => IInv /\ Contiguous /\ Target /\ Account,
                       [MCNext]_<<vars, dies>>, ~ dies'
                PROVE  Contiguous' /\ Target' /\ Account'
    OBVIOUS
  <2>1. ~ dies /\ [Next]_vars
    BY DEF MCNext
  <2>. QED BY <2>1, NextContiguous, NextTarget, NextAccount
<1>3. (~ dies => IInv) /\ (~ dies => Contiguous /\ Target /\ Account) => MCComplete
  BY ContiguousGives DEF MCComplete
<1>. QED BY <1>1, <1>2, <1>3, LivingInvariance, PTL DEF MCSpec
=============================================================================
