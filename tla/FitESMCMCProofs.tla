-------------------------- MODULE FitESMCMCProofs --------------------------
(***************************************************************************)
(* The ensemble sampler of FitESMCMC, on any number of walkers and of      *)
(* threads, cannot be told from one that moves half of the walkers at      *)
(* once.  The proof rests on what a threaded loop may see while it runs:   *)
(* a walker reads the position of a walker of the other half, and no       *)
(* walker of the other half moves before the loop has returned.            *)
(*                                                                         *)
(* The other theorems are about the catalog, with crashes: the walkers     *)
(* stand in its last rows, its moves are counted, none of its rows was     *)
(* left unwritten and none was computed from draws that come again.  Each  *)
(* adds a part to the invariant:                                           *)
(*   IInv    where the program is and what a loop has done so far          *)
(*   Placed  where the walkers stand in the catalog                        *)
(*   Flags   how far the flags are from the moves                          *)
(*   RInv    the types, and which rows were written                        *)
(*   Kept    the rows of the file are the first ones of the memory         *)
(*   Gen     which draws rows were computed from                           *)
(***************************************************************************)
EXTENDS FitESMCMC, SequenceTheorems, FiniteSetTheorems, TLAPS

-----------------------------------------------------------------------------
(* Sequences of whatever the positions are                                 *)

IsSeq(s) == \E S : s \in Seq(S)

(* Sequences of any elements have a length, and can be joined and cut.     *)
LEMMA SeqFacts ==
  ASSUME NEW s, IsSeq(s), NEW t, IsSeq(t)
  PROVE  /\ Len(s) \in Nat
         /\ IsSeq(s \o t)
         /\ \A m, n \in Int : 1 <= m /\ 0 <= n /\ n <= Len(s) => IsSeq(SubSeq(s, m, n))
<1>1. PICK S : s \in Seq(S)  BY DEF IsSeq
<1>2. PICK T : t \in Seq(T)  BY DEF IsSeq
<1>3. Len(s) \in Nat  BY <1>1
<1>4. s \in Seq(S \cup T) /\ t \in Seq(S \cup T)  BY <1>1, <1>2
<1>5. s \o t \in Seq(S \cup T)  BY <1>4
<1>6. ASSUME NEW m \in Int, NEW n \in Int, 1 <= m, 0 <= n, n <= Len(s)
      PROVE  SubSeq(s, m, n) \in Seq(S)
  BY <1>1, <1>6
<1> QED  BY <1>3, <1>5, <1>6 DEF IsSeq

LEMMA EmptyIsSeq == IsSeq(<<>>)
<1>1. <<>> \in Seq({})  OBVIOUS
<1> QED  BY <1>1 DEF IsSeq

(* The rows that an update adds.                                           *)
LEMMA NewRowsIsSeq ==
  ASSUME NEW i \in 0..NWalkers
  PROVE  IsSeq(NewRows(i))
<1> DEFINE S == {theta[i + n - 1] : n \in 1..NWalkers - i}
<1>1. NWalkers - i \in Nat  BY HalfAssumption DEF NWalkers
<1>2. NewRows(i) \in [1..NWalkers - i -> S]  BY DEF NewRows
<1>3. NewRows(i) \in Seq(S)  BY <1>1, <1>2, SeqDef
<1> QED  BY <1>3 DEF IsSeq

-----------------------------------------------------------------------------
(* The invariant                                                           *)

(* Functions on the walkers, whatever their values.                        *)
OnWalkers(f) == f = [k \in Walkers |-> f[k]]

IsFile(f) == \E S : f \in [rows : Seq(S), first : Nat, stat : Nat \cup {None}]

Control ==
  /\ curSampleId \in Int /\ left \in Nat /\ phase \in Phase /\ ki \in Walkers
  /\ rng \in Nat /\ firstId \in Nat
  /\ IsSeq(rows) /\ IsFile(saved)
  /\ OnWalkers(theta) /\ OnWalkers(star) /\ OnWalkers(base)

(* Where the main thread may be with ensembles to add.                     *)
Stages ==
  /\ phase \in {"setup", "lower", "upper"} => left > 0
  /\ phase \notin {"setup", "lower", "upper", "sync"} => left = 0
  /\ phase = "points" => curSampleId = Len(rows) - 1 /\ Len(rows) < NWalkers
  /\ phase \in {"synced", "check"} => Len(rows) >= NWalkers
  /\ phase = "lower" => ki < Half
  /\ busy # {} => Moving

(* The positions that the walkers of the current loop start from.          *)
LoopBase ==
  IF phase = "lower" THEN base ELSE Ensembles!MoveHalf(Lower, base, ki, rng)

LoopRange == {k \in (IF phase = "lower" THEN Lower ELSE Upper) : k >= ki}

Target(k) == LoopBase[Partner(rng, k)]

(* The walkers of the loop that are done have moved, the others and the    *)
(* walkers of the other half have not.                                     *)
Loop ==
  Moving =>
    /\ rng \in Blocks /\ rng > 0
    /\ todo \subseteq LoopRange /\ busy \subseteq LoopRange
    /\ \A k \in Walkers :
         theta[k] = IF k \in LoopRange \ (todo \cup busy)
                    THEN Stepped(rng, k, LoopBase[k], Target(k))
                    ELSE LoopBase[k]
    /\ todo \cap busy = {}
    /\ \A k \in busy : star[k] = [ moves |-> Accepts(rng, k, LoopBase[k], Target(k)),
                                   to |-> Move(rng, k, LoopBase[k], Target(k)) ]

IInv == Control /\ Stages /\ Loop

-----------------------------------------------------------------------------
(* Arithmetic                                                              *)

LEMMA Sizes ==
  /\ NWalkers \in Nat /\ NWalkers >= 2 /\ 0 \in Walkers
  /\ Walkers = Lower \cup Upper /\ Lower \cap Upper = {}
  /\ \A k \in Lower : k \in Int /\ 0 <= k /\ k < Half
  /\ \A k \in Upper : k \in Int /\ Half <= k /\ k < NWalkers
BY HalfAssumption DEF NWalkers, Walkers, Lower, Upper

LEMMA Division ==
  ASSUME NEW a \in Int
  PROVE  a \div NWalkers \in Int /\ a % NWalkers \in Walkers
<1>1. NWalkers \in Nat \ {0}  BY Sizes
<1>2. ASSUME NEW m \in Nat \ {0} PROVE a \div m \in Int /\ a % m \in 0..m - 1
  BY <1>2
<1> QED  BY <1>1, <1>2 DEF Walkers

LEMMA Product ==
  ASSUME NEW a \in Nat
  PROVE  a * NWalkers \in Nat
BY Sizes

(* A walker and the partner that the block gives it are in two halves.     *)
LEMMA PartnerInOtherHalf ==
  ASSUME Moving, rng \in Blocks, NEW k \in LoopRange
  PROVE  k \in Walkers /\ Partner(rng, k) \in Walkers \ LoopRange
BY Sizes, PartnerAssumption DEF LoopRange, Moving

-----------------------------------------------------------------------------
(* Actions outside the loops                                               *)

LEMMA InitIInv == Init => IInv
<1> SUFFICES ASSUME Init PROVE IInv  OBVIOUS
<1> USE DEF Init, StartOfProcess
<1>1. IsSeq(rows)  BY EmptyIsSeq
<1>2. IsFile(saved)
  <2>1. saved \in [rows : Seq({}), first : Nat, stat : Nat \cup {None}]  BY DEF NoFile
  <2> QED  BY <2>1 DEF IsFile
<1>3. OnWalkers(theta) /\ OnWalkers(star) /\ OnWalkers(base)
  BY DEF OnWalkers, AllBlank, AllStay
<1>4. Control  BY <1>1, <1>2, <1>3, Sizes DEF Control, Phase
<1>5. Stages  BY DEF Stages, Moving
<1>6. Loop  BY DEF Loop, Moving
<1> QED  BY <1>4, <1>5, <1>6 DEF IInv

(* What a sync leaves in the file is a file.                               *)
LEMMA SavedIsFile ==
  ASSUME Control PROVE IsFile(Saved)
<1>1. PICK S : rows \in Seq(S)  BY DEF Control, IsSeq
<1>2. [rows |-> rows, first |-> firstId, stat |-> rng]
        \in [rows : Seq(S), first : Nat, stat : Nat \cup {None}]
  BY <1>1 DEF Control
<1>3. IsFile([rows |-> rows, first |-> firstId, stat |-> rng])  BY <1>2 DEF IsFile
<1> QED  BY <1>3 DEF Saved, Control

(* Any rows, with their first id and a state of the generator.             *)
LEMMA FileOf ==
  ASSUME NEW r, IsSeq(r), NEW f \in Nat, NEW g \in Nat \cup {None}
  PROVE  IsFile([rows |-> r, first |-> f, stat |-> g])
<1>1. PICK S : r \in Seq(S)  BY DEF IsSeq
<1>2. [rows |-> r, first |-> f, stat |-> g]
        \in [rows : Seq(S), first : Nat, stat : Nat \cup {None}]
  BY <1>1
<1> QED  BY <1>2 DEF IsFile

LEMMA FileFields ==
  ASSUME NEW f, IsFile(f)
  PROVE  /\ f = [rows |-> f.rows, first |-> f.first, stat |-> f.stat]
         /\ IsSeq(f.rows) /\ f.first \in Nat /\ f.stat \in Nat \cup {None}
<1>1. PICK S : f \in [rows : Seq(S), first : Nat, stat : Nat \cup {None}]  BY DEF IsFile
<1>2. f.rows \in Seq(S)  BY <1>1
<1> QED  BY <1>1, <1>2 DEF IsSeq

LEMMA CurIdIsInt == ASSUME Control PROVE CurId \in Int /\ Len(rows) \in Nat
<1>1. Len(rows) \in Nat  BY SeqFacts, EmptyIsSeq DEF Control
<1> QED  BY <1>1 DEF Control, CurId

(* Every action between the runs.                                          *)
LEMMA ProgramIInv ==
  ASSUME IInv, Program PROVE IInv'
<1> USE DEF IInv, confVars, runVars, loopVars, countVars, histVars, catVars
<1>0. /\ Len(rows) \in Nat /\ CurId \in Int
      /\ OnWalkers(theta) /\ OnWalkers(star) /\ OnWalkers(base)
  BY CurIdIsInt DEF Control
<1>1. CASE SetDataFile
  <2>1. IsSeq(rows') /\ firstId' \in Nat /\ rng' \in Nat /\ IsFile(saved')
    <3>1. CASE saved.rows = <<>> /\ UNCHANGED <<rows, firstId, rng>>
               /\ saved' = [rows |-> rows, first |-> firstId,
                            stat |-> IF rows = <<>> THEN saved.stat ELSE rng]
      BY <3>1, FileOf, FileFields DEF Control
    <3>2. CASE /\ saved.rows # <<>> /\ saved.stat # None
               /\ rows' = saved.rows /\ firstId' = saved.first /\ rng' = saved.stat
               /\ UNCHANGED saved
      BY <3>2, FileFields DEF Control
    <3> QED  BY <1>1, <3>1, <3>2 DEF SetDataFile
  <2>2. phase' = phase /\ phase = "idle" /\ left' = left /\ busy' = busy /\ ki' = ki
        /\ curSampleId' = curSampleId /\ theta' = theta /\ star' = star /\ base' = base
    BY <1>1 DEF SetDataFile
  <2>3. Control'  BY <2>1, <2>2 DEF Control, OnWalkers
  <2>4. Stages' /\ Loop'  BY <2>2 DEF Stages, Loop, Moving
  <2> QED  BY <2>3, <2>4
<1>2. CASE AddRow
  <2>1. PICK p \in Own : rows' = Append(rows, p)  BY <1>2 DEF AddRow
  <2>2. IsSeq(rows')
    <3>1. PICK S : rows \in Seq(S)  BY DEF Control, IsSeq
    <3>2. Append(rows, p) \in Seq(S \cup {p})  BY <3>1
    <3> QED  BY <2>1, <3>2 DEF IsSeq
  <2>3. IsFile(saved')
    <3>1. saved' = saved \/ saved' = [rows |-> rows', first |-> firstId, stat |-> rng]
      BY <1>2 DEF AddRow
    <3> QED  BY <2>2, <3>1, FileOf DEF Control
  <2>4. Control'  BY <1>2, <2>2, <2>3 DEF AddRow, Control, OnWalkers
  <2>5. Stages' /\ Loop'  BY <1>2 DEF AddRow, Stages, Loop, Moving
  <2> QED  BY <2>4, <2>5
<1>3. CASE StartRun
  <2>1. IsFile(saved')  BY <1>3, SavedIsFile DEF StartRun
  <2>2. OnWalkers(theta')  BY <1>3 DEF StartRun, OnWalkers, Load
  <2>3. Control'
    BY <1>0, <1>3, <2>1, <2>2 DEF StartRun, Control, Phase, OnWalkers
  <2>4. /\ left' = 0 /\ busy' = {} /\ rows' = rows /\ curSampleId' = CurId
    BY <1>3 DEF StartRun, Stages, Moving
  <2>5. CASE CurId + 1 < NWalkers /\ firstId = 0 /\ phase' = "points"
    <3>1. curSampleId' = Len(rows) - 1 /\ Len(rows) < NWalkers
      BY <1>0, <2>4, <2>5, Sizes DEF CurId
    <3> QED  BY <2>3, <2>4, <2>5, <3>1 DEF Stages, Loop, Moving
  <2>6. CASE Len(rows) >= NWalkers /\ phase' = "check"
    BY <2>3, <2>4, <2>6 DEF Stages, Loop, Moving
  <2> QED  BY <1>3, <2>5, <2>6 DEF StartRun
<1>4. CASE EndRun
  <2>1. Control'  BY <1>4, SavedIsFile DEF EndRun, Control, OnWalkers
  <2>2. Stages' /\ Loop'  BY <1>4 DEF EndRun, Stages, Loop, Moving
  <2> QED  BY <2>1, <2>2
<1>5. CASE Reset
  <2>1. IsFile(saved')
    <3>1. [saved EXCEPT !.rows = <<>>] = [rows |-> <<>>, first |-> saved.first, stat |-> saved.stat]
      BY FileFields DEF Control
    <3> QED  BY <1>5, <3>1, FileFields, FileOf, EmptyIsSeq DEF Reset, Control
  <2>2. Control'  BY <1>5, <2>1, EmptyIsSeq DEF Reset, Control, OnWalkers
  <2>3. Stages' /\ Loop'  BY <1>5 DEF Reset, Stages, Loop, Moving
  <2> QED  BY <2>2, <2>3
<1>6. ASSUME NEW n \in 1..MaxEnsembles, Run(n)
      PROVE  IInv'
  <2>1. (curSampleId + 1) \div NWalkers \in Int /\ ki' \in Walkers
    BY <1>6, Division DEF Run, Control
  <2>2. left' \in Nat /\ left' > 0  BY <1>6, <2>1, BoundsAssumption DEF Run
  <2>3. Control'  BY <1>6, <2>1, <2>2 DEF Run, Control, Phase, OnWalkers
  <2>4. Stages' /\ Loop'  BY <1>6, <2>2 DEF Run, Stages, Loop, Moving
  <2> QED  BY <2>3, <2>4
<1>7. ASSUME NEW n \in 1..MaxEnsembles, Trim(n)
      PROVE  IInv'
  <2>1. n \in Nat /\ n * NWalkers \in Nat  BY Product, BoundsAssumption
  <2>2. firstId' \in Nat  BY <1>7, <2>1 DEF Trim, Control
  <2>3. IsSeq(rows')
    <3> DEFINE m == n * NWalkers + 1
    <3>1. m \in Int /\ 1 <= m  BY <2>1
    <3>2. rows' = SubSeq(rows, m, Len(rows))  BY <1>7 DEF Trim
    <3> HIDE DEF m
    <3> QED  BY <1>0, <3>1, <3>2, SeqFacts DEF Control
  <2>4. IsFile(saved')  BY <1>7, <2>2, <2>3, FileOf DEF Trim, Control
  <2>5. Control'  BY <1>7, <2>2, <2>3, <2>4 DEF Trim, Control, OnWalkers
  <2>6. Stages' /\ Loop'  BY <1>7 DEF Trim, Stages, Loop, Moving
  <2> QED  BY <2>5, <2>6
<1> QED  BY <1>1, <1>2, <1>3, <1>4, <1>5, <1>6, <1>7 DEF Program

(* Every action of start_run.                                              *)
LEMMA StartIInv ==
  ASSUME IInv, StartStep PROVE IInv'
<1> USE DEF IInv, confVars, runVars, loopVars, countVars, histVars, catVars
<1>0. Len(rows) \in Nat  BY CurIdIsInt
<1>1. ASSUME NEW k \in Walkers, DrawPoint(k) PROVE IInv'
  <2>1. OnWalkers(theta')  BY <1>1 DEF DrawPoint, OnWalkers, Control
  <2>2. Control'  BY <1>1, <2>1 DEF DrawPoint, Control, OnWalkers
  <2>3. Stages' /\ Loop'  BY <1>1 DEF DrawPoint, Stages, Loop, Moving
  <2> QED  BY <2>2, <2>3
<1>2. CASE PointsDone
  <2>1. curSampleId = Len(rows) - 1 /\ Len(rows) < NWalkers  BY <1>2 DEF PointsDone, Stages
  <2>2. Len(rows) \in 0..NWalkers  BY <1>0, <2>1, Sizes
  <2>3. rows' = rows \o NewRows(Len(rows))  BY <1>0, <1>2, <2>1 DEF PointsDone
  <2>4. IsSeq(rows')  BY <2>2, <2>3, NewRowsIsSeq, SeqFacts DEF Control
  <2>5. Len(rows') = NWalkers
    <3> DEFINE S == {theta[Len(rows) + n - 1] : n \in 1..NWalkers - Len(rows)}
    <3>1. NewRows(Len(rows)) \in [1..NWalkers - Len(rows) -> S]  BY DEF NewRows
    <3>2. NWalkers - Len(rows) \in Nat  BY <2>2, Sizes
    <3>3. NewRows(Len(rows)) \in Seq(S) /\ Len(NewRows(Len(rows))) = NWalkers - Len(rows)
      <4> DEFINE m == NWalkers - Len(rows)
                 q == NewRows(Len(rows))
      <4>1. m \in Nat /\ q \in [1..m -> S]  BY <3>1, <3>2
      <4> HIDE DEF m, q, S
      <4>2. q \in Seq(S)  BY <4>1, SeqDef
      <4>3. Len(q) \in Nat /\ DOMAIN q = 1..Len(q) /\ DOMAIN q = 1..m  BY <4>1, <4>2
      <4>4. Len(q) = m  BY <4>1, <4>3
      <4> QED  BY <4>2, <4>4 DEF m, q
    <3>4. PICK T : rows \in Seq(T)  BY DEF Control, IsSeq
    <3>5. rows \in Seq(T \cup S) /\ NewRows(Len(rows)) \in Seq(T \cup S)  BY <3>3, <3>4
    <3>6. Len(rows') = Len(rows) + Len(NewRows(Len(rows)))  BY <2>3, <3>5, ConcatProperties
    <3> QED  BY <1>0, <3>3, <3>6, Sizes
  <2>6. Control'  BY <1>2, <2>4, Sizes DEF PointsDone, Control, Phase, OnWalkers
  <2>7. Stages' /\ Loop'  BY <1>2, <2>5, Sizes DEF PointsDone, Stages, Loop, Moving
  <2> QED  BY <2>6, <2>7
<1>3. CASE SyncPoints
  <2>1. Control'  BY <1>3, SavedIsFile DEF SyncPoints, Control, Phase, OnWalkers
  <2>2. Stages' /\ Loop'  BY <1>3 DEF SyncPoints, Stages, Loop, Moving
  <2> QED  BY <2>1, <2>2
<1>4. CASE Validate
  <2>1. Control'  BY <1>4 DEF Validate, Control, Phase, OnWalkers
  <2>2. Stages' /\ Loop'  BY <1>4 DEF Validate, Stages, Loop, Moving
  <2> QED  BY <2>1, <2>2
<1>5. CASE Retry
  <2> DEFINE rest == Len(rows) % NWalkers
             kept == Len(rows) - (IF rest = 0 THEN NWalkers ELSE rest)
  <2>1. Len(rows) >= NWalkers  BY <1>5 DEF Retry, Stages
  <2>2. rest \in Walkers  BY <1>0, Division
  <2>3. kept \in Int /\ 0 <= kept /\ kept <= Len(rows)
    BY <1>0, <2>1, <2>2, Sizes DEF Walkers
  <2>4. /\ rows' = SubSeq(rows, 1, kept)
        /\ saved' = [rows |-> rows', first |-> firstId, stat |-> IF kept = 0 THEN None ELSE rng]
    BY <1>5 DEF Retry, RemoveLastEnsemble
  <2> HIDE DEF kept
  <2>5. IsSeq(rows')  BY <2>3, <2>4, SeqFacts DEF Control
  <2>6. IsFile(saved')  BY <2>4, <2>5, FileOf DEF Control
  <2>7. curSampleId' \in Int  BY <1>5, Sizes DEF Retry, Control
  <2>8. Control'  BY <1>5, <2>5, <2>6, <2>7 DEF Retry, Control, Phase, OnWalkers
  <2>9. Stages' /\ Loop'  BY <1>5 DEF Retry, Stages, Loop, Moving
  <2> QED  BY <2>8, <2>9
<1> QED  BY <1>1, <1>2, <1>3, <1>4, <1>5 DEF StartStep

-----------------------------------------------------------------------------
(* The loops                                                               *)

LEMMA SetupIInv == ASSUME IInv, Setup PROVE IInv'
<1> USE DEF IInv, confVars, loopVars, countVars, catVars
<1>1. Control' BY Setup DEF Setup, Control, Phase, OnWalkers
<1>2. busy = {} /\ busy' = {} /\ theta' = theta /\ base' = theta /\ ki' = ki /\ ki \in Walkers
      /\ left' = left /\ left > 0 /\ rng' \in Blocks /\ rng' > 0
  BY DEF Setup, Stages, Moving, Control
<1>3. /\ \A k \in Walkers : theta'[k] = LoopBase'[k]
      /\ todo' = LoopRange'
      /\ phase' \in {"lower", "upper"} /\ (phase' = "lower" => ki < Half)
  <2>1. CASE ki < Half
    <3>1. phase' = "lower" /\ todo' = ki..Half - 1  BY <2>1 DEF Setup
    <3>2. LoopBase' = theta  BY <1>2, <3>1 DEF LoopBase
    <3>3. LoopRange' = todo'  BY <1>2, <3>1, Sizes DEF LoopRange, Lower, Walkers
    <3> QED  BY <1>2, <2>1, <3>1, <3>2, <3>3
  <2>2. CASE ~ (ki < Half)
    <3>1. phase' = "upper" /\ todo' = ki..NWalkers - 1  BY <2>2 DEF Setup
    <3>2. LoopBase' = Ensembles!MoveHalf(Lower, theta, ki, rng')  BY <1>2, <3>1 DEF LoopBase
    <3>3. \A k \in Walkers : LoopBase'[k] = theta[k]
      BY <1>2, <2>2, <3>2, Sizes, HalfAssumption
      DEF Ensembles!MoveHalf, Ensembles!Walkers, Ensembles!NWalkers, Walkers, NWalkers
    <3>4. LoopRange' = todo'  BY <1>2, <2>2, <3>1, Sizes, HalfAssumption DEF LoopRange, Upper, Walkers
    <3> QED  BY <1>2, <3>1, <3>3, <3>4
  <2> QED  BY <2>1, <2>2
<1>4. Stages'  BY <1>2, <1>3 DEF Stages, Moving
<1>5. Loop'
  <2>1. LoopRange' \ (todo' \cup busy') = {}  BY <1>2, <1>3
  <2> QED  BY <1>2, <1>3, <2>1 DEF Loop
<1> QED  BY <1>1, <1>4, <1>5

(* A walker that is taken reads positions that no thread of its loop has   *)
(* changed or changes.                                                     *)
LEMMA ProposeIInv == ASSUME IInv, NEW k \in Walkers, Propose(k) PROVE IInv'
<1> USE DEF IInv, confVars, runVars, countVars, histVars, catVars
<1>1. OnWalkers(star')  BY DEF Propose, Control, OnWalkers
<1>2. Control'  BY <1>1 DEF Propose, Control, OnWalkers
<1>3. Moving /\ Moving' /\ phase' = phase /\ left' = left  BY DEF Propose, Moving
<1>4. Stages'  BY <1>3 DEF Propose, Stages, Moving
<1>5. LoopBase' = LoopBase /\ LoopRange' = LoopRange /\ rng' = rng
      /\ \A j \in Walkers : Target(j)' = Target(j)
  BY DEF Propose, LoopBase, LoopRange, Target
<1>6. k \in todo /\ k \notin busy /\ todo' = todo \ {k} /\ busy' = busy \cup {k}
  BY <1>3 DEF Propose, Loop
<1>7. theta[k] = LoopBase[k] /\ theta[Partner(rng, k)] = Target(k)
  <2>1. k \in LoopRange /\ rng \in Blocks  BY <1>3, <1>6 DEF Loop
  <2>2. Partner(rng, k) \in Walkers \ LoopRange  BY <1>3, <2>1, PartnerInOtherHalf
  <2> QED  BY <1>3, <1>6, <2>2 DEF Loop, Target
<1>8. star'[k] = [ moves |-> Accepts(rng, k, LoopBase[k], Target(k)),
                   to |-> Move(rng, k, LoopBase[k], Target(k)) ]
  BY <1>7 DEF Propose, Control, OnWalkers
<1>9. \A j \in Walkers \ {k} : star'[j] = star[j]  BY DEF Propose, Control, OnWalkers
<1>10. theta' = theta  BY DEF Propose
<1>11. todo' \cup busy' = todo \cup busy  BY <1>6
<1>12. /\ todo' \subseteq LoopRange /\ busy' \subseteq LoopRange /\ todo' \cap busy' = {}
       /\ busy' \subseteq Walkers /\ rng \in Blocks /\ rng > 0
  BY <1>3, <1>6, Sizes DEF Loop, LoopRange
<1>13. busy \subseteq Walkers  BY <1>3, Sizes DEF Loop, LoopRange
<1>14. \A j \in busy' :
         star'[j] = [ moves |-> Accepts(rng, j, LoopBase[j], Target(j)),
                      to |-> Move(rng, j, LoopBase[j], Target(j)) ]
  BY <1>3, <1>6, <1>8, <1>9, <1>13 DEF Loop
<1>15. \A j \in Walkers :
         theta'[j] = IF j \in LoopRange' \ (todo' \cup busy')
                     THEN Stepped(rng, j, LoopBase[j], Target(j))
                     ELSE LoopBase[j]
  BY <1>3, <1>5, <1>10, <1>11 DEF Loop
<1>16. Loop'  BY <1>3, <1>5, <1>12, <1>14, <1>15 DEF Loop
<1> QED  BY <1>2, <1>4, <1>16

LEMMA DecideIInv == ASSUME IInv, NEW k \in Walkers, Decide(k) PROVE IInv'
<1> USE DEF IInv, confVars, runVars, histVars, catVars
<1>0. Moving  BY DEF Decide, Stages
<1>1. OnWalkers(star') /\ OnWalkers(theta')  BY DEF Decide, Control, OnWalkers
<1>2. Control'  BY <1>1 DEF Decide, Control, OnWalkers
<1>3. Moving' /\ phase' = phase /\ left' = left  BY <1>0 DEF Decide, Moving
<1>4. Stages'  BY <1>3 DEF Decide, Stages, Moving
<1>5. LoopBase' = LoopBase /\ LoopRange' = LoopRange /\ rng' = rng
      /\ \A j \in Walkers : Target(j)' = Target(j)
  BY DEF Decide, LoopBase, LoopRange, Target
<1>6. k \in busy /\ k \notin todo /\ k \in LoopRange /\ todo' = todo /\ busy' = busy \ {k}
  BY <1>0 DEF Decide, Loop
<1>7. theta'[k] = Stepped(rng, k, LoopBase[k], Target(k))
  <2>1. theta[k] = LoopBase[k]  BY <1>0, <1>6 DEF Loop
  <2>2. star[k] = [ moves |-> Accepts(rng, k, LoopBase[k], Target(k)),
                    to |-> Move(rng, k, LoopBase[k], Target(k)) ]
    BY <1>0, <1>6 DEF Loop
  <2>3. star[k].moves = Accepts(rng, k, LoopBase[k], Target(k))
        /\ star[k].to = Move(rng, k, LoopBase[k], Target(k))
    BY <2>2
  <2>4. CASE star[k].moves
    <3>1. theta'[k] = star[k].to  BY <2>4 DEF Decide, Control, OnWalkers
    <3> QED  BY <2>3, <2>4, <3>1, Zenon DEF Stepped
  <2>5. CASE ~ star[k].moves
    <3>1. theta' = theta  BY <2>5 DEF Decide
    <3> QED  BY <2>1, <2>3, <2>5, <3>1, Zenon DEF Stepped
  <2> QED  BY <2>4, <2>5
<1>8. \A j \in Walkers \ {k} : theta'[j] = theta[j] /\ star'[j] = star[j]
  BY DEF Decide, Control, OnWalkers
<1>9. todo' \subseteq LoopRange /\ busy' \subseteq LoopRange /\ todo' \cap busy' = {}
      /\ busy' \subseteq Walkers \ {k}
  BY <1>0, <1>6, Sizes DEF Loop, LoopRange
<1>10. \A j \in busy' :
         star'[j] = [ moves |-> Accepts(rng, j, LoopBase[j], Target(j)),
                      to |-> Move(rng, j, LoopBase[j], Target(j)) ]
  BY <1>0, <1>6, <1>8, <1>9 DEF Loop
<1>11. ASSUME NEW j \in Walkers
       PROVE  theta'[j] = IF j \in LoopRange' \ (todo' \cup busy')
                          THEN Stepped(rng, j, LoopBase[j], Target(j))
                          ELSE LoopBase[j]
  <2>1. CASE j = k
    BY <1>5, <1>6, <1>7, <2>1
  <2>2. CASE j # k
    BY <1>0, <1>5, <1>6, <1>8, <2>2 DEF Loop
  <2> QED  BY <2>1, <2>2
<1>12. rng \in Blocks /\ rng > 0  BY <1>0 DEF Loop
<1>13. Loop'  BY <1>5, <1>9, <1>10, <1>11, <1>12 DEF Loop
<1> QED  BY <1>2, <1>4, <1>13

LEMMA NextHalfIInv == ASSUME IInv, NextHalf PROVE IInv'
<1> USE DEF IInv, confVars, countVars, histVars, catVars
<1>1. Control'  BY DEF NextHalf, Control, Phase, OnWalkers
<1>2. Stages'  BY DEF NextHalf, Stages, Moving
<1>3. Moving /\ Moving' /\ todo = {} /\ busy = {} /\ busy' = {} /\ theta' = theta /\ rng' = rng
      /\ phase = "lower" /\ phase' = "upper" /\ ki' = ki /\ ki \in Int /\ ki < Half
  BY Sizes DEF NextHalf, Moving, Stages, Control, Walkers
<1>4. todo' = LoopRange'
  BY <1>3, Sizes, HalfAssumption DEF NextHalf, LoopRange, Upper
<1>5. LoopBase' = Ensembles!MoveHalf(Lower, base, ki, rng)
  BY <1>3 DEF NextHalf, LoopBase
<1>6. ASSUME NEW k \in Walkers PROVE theta[k] = LoopBase'[k]
  <2>1. LoopBase'[k] = IF k \in Lower /\ k >= ki
                       THEN Stepped(rng, k, base[k], base[Partner(rng, k)])
                       ELSE base[k]
    BY <1>5 DEF Ensembles!MoveHalf, Ensembles!Walkers, Ensembles!NWalkers, Walkers, NWalkers
  <2>2. theta[k] = IF k \in LoopRange \ (todo \cup busy)
                   THEN Stepped(rng, k, LoopBase[k], Target(k))
                   ELSE LoopBase[k]
    BY <1>3 DEF Loop
  <2>3. LoopBase = base /\ LoopRange = {j \in Lower : j >= ki} /\ Target(k) = base[Partner(rng, k)]
    BY <1>3 DEF LoopBase, LoopRange, Target
  <2> QED  BY <1>3, <2>1, <2>2, <2>3
<1>7. LoopRange' \ (todo' \cup busy') = {}  BY <1>4
<1>8. Loop'
  <2>1. rng \in Blocks /\ rng > 0  BY <1>3 DEF Loop
  <2> QED  BY <1>3, <1>4, <1>6, <1>7, <2>1 DEF Loop
<1> QED  BY <1>1, <1>2, <1>8

LEMMA UpdateIInv == ASSUME IInv, Update PROVE IInv'
<1> USE DEF IInv, confVars, loopVars, histVars, catVars
<1>1. ki \in 0..NWalkers  BY Sizes DEF Control, Walkers
<1>2. IsSeq(rows')  BY <1>1, NewRowsIsSeq, SeqFacts DEF Update, Control
<1>3. left > 0  BY DEF Update, Stages
<1>4. curSampleId' \in Int /\ left' \in Nat  BY <1>1, <1>3, Sizes DEF Update, Control
<1>5. Control'  BY <1>2, <1>4, Sizes DEF Update, Control, Phase, OnWalkers
<1>6. Stages' /\ Loop'  BY DEF Update, Stages, Loop, Moving
<1> QED  BY <1>5, <1>6

LEMMA TimedSyncIInv == ASSUME IInv, TimedSync PROVE IInv'
<1> USE DEF IInv, confVars, loopVars, countVars, histVars, catVars
<1>1. IsFile(saved')  BY SavedIsFile DEF TimedSync, Control
<1>2. Control'  BY <1>1 DEF TimedSync, Control, Phase, OnWalkers
<1>3. Stages' /\ Loop'  BY DEF TimedSync, Stages, Loop, Moving, Control
<1> QED  BY <1>2, <1>3

(* What a process that dies in a sync leaves in the file is a file.         *)
LEMMA TornIsFile ==
  ASSUME Control, NEW w PROVE IsFile(Torn(w))
<1>1. PICK S : rows \in Seq(S)  BY DEF Control, IsSeq
<1> DEFINE T == S \cup {Blank}
           n == Len(rows)
           r == [i \in 1..n |-> IF i <= w THEN rows[i] ELSE Blank]
<1>2. n \in Nat /\ \A i \in 1..n : rows[i] \in S  BY <1>1
<1>3. r \in [1..n -> T]  BY <1>2
<1>4. r \in Seq(T)
  <2> HIDE DEF n, T
  <2> QED  BY <1>2, <1>3, SeqDef
<1>5. IsSeq(r)  BY <1>4 DEF IsSeq
<1>6. firstId \in Nat /\ saved.stat \in Nat \cup {None}  BY FileFields DEF Control
<1> QED  BY <1>5, <1>6, FileOf DEF Torn

(* A new process finds no run going on.                                    *)
LEMMA CrashIInv ==
  ASSUME IInv, Crash \/ CrashInSync PROVE IInv'
<1>1. NewProcess  BY DEF Crash, CrashInSync
<1>2. IsFile(saved')
  <2>1. CASE Crash  BY <2>1 DEF Crash, IInv, Control
  <2>2. CASE CrashInSync  BY <2>2, TornIsFile DEF CrashInSync, IInv
  <2> QED  BY <2>1, <2>2
<1>3. OnWalkers(theta') /\ OnWalkers(star') /\ OnWalkers(base')
  BY <1>1 DEF NewProcess, OnWalkers, AllBlank, AllStay
<1>4. Control'  BY <1>1, <1>2, <1>3, EmptyIsSeq, Sizes DEF NewProcess, Control, Phase, OnWalkers
<1>5. Stages' /\ Loop'  BY <1>1 DEF NewProcess, Stages, Loop, Moving
<1> QED  BY <1>4, <1>5 DEF IInv

CrashNext == Next \/ Crash \/ CrashInSync

LEMMA StutterIInv ==
  ASSUME IInv, UNCHANGED vars PROVE IInv'
<1> USE DEF vars, confVars, runVars, loopVars, countVars, histVars, catVars
<1>1. Control'  BY DEF IInv, Control, OnWalkers
<1>2. Stages'  BY DEF IInv, Stages, Moving
<1>3. LoopBase' = LoopBase /\ LoopRange' = LoopRange /\ \A k \in Walkers : Target(k)' = Target(k)
  BY DEF LoopBase, LoopRange, Target
<1>4. Moving' = Moving /\ busy' = busy /\ todo' = todo /\ rng' = rng /\ theta' = theta /\ star' = star
  BY DEF Moving
<1>5. CASE Moving
  <2>1. busy \subseteq Walkers  BY <1>5, Sizes DEF IInv, Loop, LoopRange
  <2> QED  BY <1>1, <1>2, <1>3, <1>4, <1>5, <2>1 DEF IInv, Loop
<1> QED  BY <1>1, <1>2, <1>4, <1>5 DEF IInv, Loop

(* The invariant holds in every state, also of processes that die and are  *)
(* resumed.                                                                *)
THEOREM Invariance == CrashSpec => []IInv
<1>1. IInv /\ [CrashNext]_vars => IInv'
  <2> SUFFICES ASSUME IInv, [CrashNext]_vars PROVE IInv'  OBVIOUS
  <2>1. CASE Program  BY <2>1, ProgramIInv
  <2>2. CASE StartStep  BY <2>2, StartIInv
  <2>3. CASE RunStep  BY <2>3, SetupIInv, NextHalfIInv, UpdateIInv, TimedSyncIInv DEF RunStep
  <2>4. ASSUME NEW k \in Walkers, ThreadStep(k) PROVE IInv'
    BY <2>4, ProposeIInv, DecideIInv DEF ThreadStep
  <2>5. CASE Crash \/ CrashInSync  BY <2>5, CrashIInv
  <2>6. CASE UNCHANGED vars  BY <2>6, StutterIInv
  <2> QED  BY <2>1, <2>2, <2>3, <2>4, <2>5, <2>6 DEF CrashNext, Next
<1> QED  BY InitIInv, <1>1, PTL DEF CrashSpec, CrashNext

-----------------------------------------------------------------------------
(* Refinement                                                              *)

(* When a loop over the second half returns, all the walkers have moved as *)
(* if those of each half had at once.                                      *)
LEMMA LoopsMoveTheEnsemble ==
  ASSUME IInv, phase = "upper", todo = {}, busy = {}
  PROVE  theta = Ensembles!Moved(base, ki, rng)
<1> DEFINE mid == Ensembles!MoveHalf(Lower, base, ki, rng)
<1>1. LoopBase = mid /\ LoopRange = {j \in Upper : j >= ki} /\ Moving
  BY DEF LoopBase, LoopRange, Moving
<1>2. ASSUME NEW k \in Walkers
      PROVE  theta[k] = IF k \in Upper /\ k >= ki
                        THEN Stepped(rng, k, mid[k], mid[Partner(rng, k)])
                        ELSE mid[k]
  <2>1. theta[k] = IF k \in LoopRange \ (todo \cup busy)
                   THEN Stepped(rng, k, LoopBase[k], Target(k))
                   ELSE LoopBase[k]
    BY <1>1 DEF IInv, Loop
  <2>2. Target(k) = mid[Partner(rng, k)]  BY <1>1 DEF Target
  <2> HIDE DEF mid
  <2> QED  BY <1>1, <2>1, <2>2
<1>3. theta = [k \in Walkers |-> theta[k]]  BY DEF IInv, Control, OnWalkers
<1>4. Ensembles!Moved(base, ki, rng) = Ensembles!MoveHalf(Upper, mid, ki, rng)
  BY DEF Ensembles!Moved, Ensembles!Upper, Ensembles!Lower, Upper, Lower, Ensembles!NWalkers, NWalkers
<1>5. Ensembles!MoveHalf(Upper, mid, ki, rng)
        = [k \in Walkers |-> IF k \in Upper /\ k >= ki
                             THEN Stepped(rng, k, mid[k], mid[Partner(rng, k)])
                             ELSE mid[k]]
  BY DEF Ensembles!MoveHalf, Ensembles!Walkers, Ensembles!NWalkers, Walkers, NWalkers
<1> HIDE DEF mid
<1> QED  BY <1>2, <1>3, <1>4, <1>5

(* A step with no ensemble to add is one the abstract run may take.        *)
LEMMA ReplaceStep ==
  ASSUME left = 0, left' = 0 PROVE [Ensembles!Next]_(Ensembles!vars)
BY DEF Ensembles!Next, Ensembles!Replace

(* Neither the rows nor the walkers as the abstract run sees them change.  *)
LEMMA StutterStep ==
  ASSUME rows' = rows, left' = left, ki' = ki,
         (IF Moving' THEN base' ELSE theta') = (IF Moving THEN base ELSE theta),
         (IF Moving' THEN rng' - 1 ELSE rng') = (IF Moving THEN rng - 1 ELSE rng)
  PROVE  [Ensembles!Next]_(Ensembles!vars)
BY DEF Ensembles!vars

(* Each step of the sampler is a step of the abstract run.                 *)
LEMMA StepSimulation ==
  ASSUME IInv, [Next]_vars PROVE [Ensembles!Next]_(Ensembles!vars)
<1> USE DEF confVars, runVars, loopVars, countVars, histVars, catVars
<1>1. CASE Program
  <2>1. CASE SetDataFile \/ AddRow \/ StartRun \/ EndRun \/ Reset \/ \E n \in 1..MaxEnsembles : Trim(n)
    <3>1. left = 0 /\ left' = 0
      BY <2>1 DEF IInv, Stages, SetDataFile, AddRow, StartRun, EndRun, Reset, Trim
    <3> QED  BY <3>1, ReplaceStep
  <2>2. ASSUME NEW n \in 1..MaxEnsembles, Run(n)
        PROVE  [Ensembles!Next]_(Ensembles!vars)
    <3>1. (curSampleId + 1) \div NWalkers \in Int /\ ki' \in Walkers
      BY <2>2, Division DEF Run, IInv, Control
    <3>2. left = 0 /\ left' \in Nat \ {0}
      BY <2>2, <3>1, BoundsAssumption DEF Run, IInv, Stages
    <3>3. Moving = FALSE /\ Moving' = FALSE  BY <2>2 DEF Run, Moving
    <3>4. ki' \in Ensembles!Walkers
      BY <3>1 DEF Ensembles!Walkers, Ensembles!NWalkers, Walkers, NWalkers
    <3>5. rows' = rows /\ theta' = theta /\ rng' = rng  BY <2>2 DEF Run
    <3>6. Ensembles!Run  BY <3>2, <3>3, <3>4, <3>5 DEF Ensembles!Run
    <3> QED  BY <3>6 DEF Ensembles!Next
  <2> QED  BY <1>1, <2>1, <2>2 DEF Program
<1>2. CASE StartStep
  <2>1. left = 0 /\ left' = 0
    BY <1>2 DEF IInv, Stages, StartStep, DrawPoint, PointsDone, SyncPoints, Validate, Retry
  <2> QED  BY <2>1, ReplaceStep
<1>3. CASE Setup
  <2>1. Moving = FALSE /\ Moving'  BY <1>3 DEF Setup, Moving
  <2>2. rows' = rows /\ left' = left /\ ki' = ki /\ base' = theta /\ rng' - 1 = rng
    BY <1>3 DEF Setup, IInv, Control
  <2> QED  BY <2>1, <2>2, StutterStep
<1>4. CASE NextHalf
  <2>1. Moving /\ Moving'  BY <1>4 DEF NextHalf, Moving
  <2>2. rows' = rows /\ left' = left /\ ki' = ki /\ base' = base /\ rng' = rng
    BY <1>4 DEF NextHalf
  <2> QED  BY <2>1, <2>2, StutterStep
<1>5. CASE Update
  <2>1. Moving /\ Moving' = FALSE  BY <1>5 DEF Update, Moving
  <2>2. theta = Ensembles!Moved(base, ki, rng)
    BY <1>5, LoopsMoveTheEnsemble DEF Update
  <2>3. theta' = theta /\ rng' = rng /\ ki' = 0 /\ left' = left - 1 /\ left > 0 /\ rng \in Nat
        /\ rows' = rows \o NewRows(ki)
    BY <1>5 DEF Update, IInv, Stages, Control
  <2>4. NewRows(ki) = Ensembles!NewRows(theta, ki)
    BY DEF NewRows, Ensembles!NewRows, Ensembles!NWalkers, NWalkers
  <2>5. rng' = rng - 1 + 1  BY <2>3
  <2>6. Ensembles!Ensemble  BY <2>1, <2>2, <2>3, <2>4, <2>5 DEF Ensembles!Ensemble
  <2> QED  BY <2>6 DEF Ensembles!Next
<1>6. CASE TimedSync
  <2>1. Moving = FALSE /\ Moving' = FALSE  BY <1>6 DEF TimedSync, Moving
  <2>2. rows' = rows /\ left' = left /\ ki' = ki /\ theta' = theta /\ rng' = rng
    BY <1>6 DEF TimedSync
  <2> QED  BY <2>1, <2>2, StutterStep
<1>7. ASSUME NEW k \in Walkers, ThreadStep(k) PROVE [Ensembles!Next]_(Ensembles!vars)
  <2>1. Moving /\ Moving'
    BY <1>7 DEF ThreadStep, Propose, Decide, IInv, Stages, Moving
  <2>2. rows' = rows /\ left' = left /\ ki' = ki /\ base' = base /\ rng' = rng
    BY <1>7 DEF ThreadStep, Propose, Decide
  <2> QED  BY <2>1, <2>2, StutterStep
<1>8. CASE UNCHANGED vars
  <2>1. Moving' = Moving /\ rows' = rows /\ left' = left /\ ki' = ki /\ base' = base
        /\ rng' = rng /\ theta' = theta
    BY <1>8 DEF vars, Moving
  <2> QED  BY <2>1, StutterStep
<1> QED  BY <1>1, <1>2, <1>3, <1>4, <1>5, <1>6, <1>7, <1>8 DEF Next, RunStep

(* The death of the process cuts a run of the abstract one short, or       *)
(* happens between two.                                                    *)
LEMMA DeathSimulation ==
  ASSUME IInv, Crash \/ CrashInSync PROVE [Ensembles!Next]_(Ensembles!vars)
<1>1. left' = 0 /\ rows' = <<>>  BY DEF Crash, CrashInSync, NewProcess
<1>2. left \in Nat  BY DEF IInv, Control
<1>3. CASE left = 0  BY <1>1, <1>3, ReplaceStep
<1>4. CASE left > 0
  <2>1. Ensembles!Die  BY <1>1, <1>4 DEF Ensembles!Die
  <2> QED  BY <2>1 DEF Ensembles!Next
<1> QED  BY <1>2, <1>3, <1>4

(* The sampler implements the abstract run: the walkers of each half move  *)
(* as if at once, whatever the threads of the two loops do                 *)
(* (ncm_fit_esmcmc.c:1363), also in runs that are resumed in the middle of *)
(* an ensemble after the process died.                                     *)
THEOREM ImplementsEnsembleRun == CrashSpec => IsEnsembleRun
<1>1. Init => Ensembles!Init  BY DEF Init, StartOfProcess, Ensembles!Init
<1>2. IInv /\ [CrashNext]_vars => [Ensembles!Next]_(Ensembles!vars)
  BY StepSimulation, DeathSimulation DEF CrashNext
<1> QED  BY Invariance, <1>1, <1>2, PTL DEF CrashSpec, CrashNext, IsEnsembleRun, Ensembles!Spec

-----------------------------------------------------------------------------
(* Residues                                                                *)

LEMMA DivMod ==
  ASSUME NEW a \in Int, NEW n \in Nat \ {0}
  PROVE  a \div n \in Int /\ a % n \in 0..n - 1 /\ a = n * (a \div n) + (a % n)
OBVIOUS

LEMMA SmallMultiple ==
  ASSUME NEW n \in Nat \ {0}, NEW x \in Int, -n < n * x, n * x < n
  PROVE  x = 0
<1>1. CASE x >= 1
  <2>1. n * x >= n  BY <1>1
  <2> QED  BY <2>1
<1>2. CASE x <= -1
  <2>1. n * (-x) >= n  BY <1>2
  <2>2. n * x = -(n * (-x)) OBVIOUS
  <2> QED  BY <2>1, <2>2
<1> QED  BY <1>1, <1>2

(* Two numbers of one residue that are less than n apart are the same.     *)
LEMMA SameResidue ==
  ASSUME NEW n \in Nat \ {0}, NEW a \in Int, NEW b \in Int,
         a % n = b % n, a - b < n, b - a < n
  PROVE  a = b
<1> DEFINE p == a \div n
           q == b \div n
           r == a % n
<1>1. p \in Int /\ r \in Int /\ a = n * p + r  BY DivMod
<1>2. q \in Int /\ b = n * q + r  BY DivMod
<1> HIDE DEF p, q, r
<1>3. a - b = n * (p - q)
  <2>1. n * (p - q) = n * p - n * q  BY <1>1, <1>2
  <2>2. n * p \in Int /\ n * q \in Int  BY <1>1, <1>2
  <2> QED  BY <1>1, <1>2, <2>1, <2>2
<1>4. p - q \in Int /\ n * (p - q) < n /\ -n < n * (p - q)  BY <1>1, <1>2, <1>3
<1>5. p - q = 0  BY <1>4, SmallMultiple
<1> QED  BY <1>1, <1>2, <1>5

(* The residue of a number that is n * q + r with a small r.               *)
LEMMA ResidueOf ==
  ASSUME NEW n \in Nat \ {0}, NEW q \in Int, NEW r \in 0..n - 1
  PROVE  (n * q + r) % n = r
<1> DEFINE a == n * q + r
           p == a \div n
           s == a % n
<1>1. a \in Int  OBVIOUS
<1>2. p \in Int /\ s \in 0..n - 1 /\ a = n * p + s  BY <1>1, DivMod
<1>3. n * q + r = n * p + s  BY <1>2
<1> HIDE DEF p, s, a
<1>4. n * (p - q) = r - s
  <2>1. n * (p - q) = n * p - n * q  BY <1>2
  <2>2. n * p \in Int /\ n * q \in Int  BY <1>2
  <2> QED  BY <1>2, <1>3, <2>1, <2>2
<1>5. p - q \in Int /\ n * (p - q) < n /\ -n < n * (p - q)  BY <1>2, <1>4
<1>6. p - q = 0  BY <1>5, SmallMultiple
<1>7. p = q  BY <1>2, <1>6
<1>8. s = r  BY <1>2, <1>3, <1>7
<1> QED  BY <1>8 DEF s, a

-----------------------------------------------------------------------------
(* The rows                                                                *)

(* The rows an update leaves: those there were, then one for each walker   *)
(* from i on.                                                              *)
LEMMA Joined ==
  ASSUME NEW s, IsSeq(s), NEW i \in 0..NWalkers
  PROVE  /\ Len(s \o NewRows(i)) = Len(s) + NWalkers - i
         /\ \A j \in 1..Len(s) : (s \o NewRows(i))[j] = s[j]
         /\ \A k \in Walkers : k >= i => (s \o NewRows(i))[Len(s) + k - i + 1] = theta[k]
<1> DEFINE t == NewRows(i)
           n == NWalkers - i
<1>1. PICK S : s \in Seq(S)  BY DEF IsSeq
<1>2. PICK T : t \in Seq(T)  BY NewRowsIsSeq DEF IsSeq
<1>3. s \in Seq(S \cup T) /\ t \in Seq(S \cup T) /\ Len(s) \in Nat /\ Len(t) \in Nat
  BY <1>1, <1>2
<1>4. n \in Nat /\ DOMAIN t = 1..n /\ \A j \in 1..n : t[j] = theta[i + j - 1]
  BY Sizes DEF NewRows
<1>5. Len(t) = n
  <2> HIDE DEF n, t
  <2>1. DOMAIN t = 1..Len(t)  BY <1>2
  <2> QED  BY <1>3, <1>4, <2>1
<1>6. /\ Len(s \o t) = Len(s) + Len(t)
      /\ \A j \in 1..Len(s) + Len(t) : (s \o t)[j] = IF j <= Len(s) THEN s[j] ELSE t[j - Len(s)]
  <2> HIDE DEF t
  <2> QED  BY <1>3, ConcatProperties
<1>7. \A j \in 1..Len(s) : (s \o t)[j] = s[j]  BY <1>3, <1>6
<1>8. ASSUME NEW k \in Walkers, k >= i
      PROVE  (s \o t)[Len(s) + k - i + 1] = theta[k]
  <2> DEFINE j == k - i + 1
  <2>1. j \in 1..n /\ k = i + j - 1  BY <1>8, Sizes DEF Walkers
  <2>2. t[j] = theta[k]  BY <1>4, <2>1
  <2> DEFINE x == Len(s) + k - i + 1
  <2>3. x \in 1..Len(s) + Len(t) /\ ~ (x <= Len(s)) /\ x - Len(s) = j
    BY <1>3, <1>5, <2>1
  <2> HIDE DEF x, j, t
  <2>4. (s \o t)[x] = t[x - Len(s)]  BY <1>6, <2>3
  <2>5. (s \o t)[x] = theta[k]  BY <2>2, <2>3, <2>4
  <2> QED  BY <2>5 DEF x
<1> QED  BY <1>5, <1>6, <1>7, <1>8

(* What is left of a sequence that is cut.                                 *)
LEMMA Cut ==
  ASSUME NEW s, IsSeq(s), NEW m \in Int, NEW n \in Int, 1 <= m, m <= n + 1, n <= Len(s)
  PROVE  /\ Len(SubSeq(s, m, n)) = n - m + 1
         /\ \A j \in 1..n - m + 1 : SubSeq(s, m, n)[j] = s[m + j - 1]
<1>1. PICK S : s \in Seq(S)  BY DEF IsSeq
<1>2. \A i \in m..n : s[i] \in S  BY <1>1
<1> QED  BY <1>2, SubSeqProperties

(* Where the last row of a walker is.                                      *)
LastIndex(k) ==
  LET m == (CurId + 1) % NWalkers
  IN  Len(rows) - m + k + 1 - (IF k < m THEN 0 ELSE NWalkers)

LEMMA LastRowIsThere ==
  ASSUME Control, Len(rows) >= NWalkers, NEW k \in Walkers
  PROVE  /\ LastIndex(k) \in 1..Len(rows)
         /\ (firstId + LastIndex(k) - 1) % NWalkers = k
         /\ LastIndex(k) > Len(rows) - NWalkers
<1> DEFINE c == CurId + 1
           t == c \div NWalkers
           m == c % NWalkers
           q == IF k < m THEN t ELSE t - 1
<1>1. c \in Int /\ Len(rows) \in Nat /\ firstId \in Nat /\ c = firstId + Len(rows)
  BY CurIdIsInt DEF Control, CurId
<1>2. NWalkers \in Nat \ {0} /\ k \in 0..NWalkers - 1  BY Sizes DEF Walkers
<1>3. t \in Int /\ m \in 0..NWalkers - 1 /\ c = NWalkers * t + m
  BY <1>1, <1>2, DivMod
<1>4. LastIndex(k) = Len(rows) - m + k + 1 - (IF k < m THEN 0 ELSE NWalkers)
  BY DEF LastIndex
<1> HIDE DEF c, t, m
<1>5. LastIndex(k) \in 1..Len(rows) /\ LastIndex(k) > Len(rows) - NWalkers
  BY <1>1, <1>2, <1>3, <1>4
<1>6. NWalkers * (t - 1) = NWalkers * t - NWalkers /\ NWalkers * t \in Int
  BY <1>2, <1>3
<1>7. q \in Int /\ firstId + LastIndex(k) - 1 = NWalkers * q + k
  BY <1>1, <1>2, <1>3, <1>4, <1>6
<1>8. (NWalkers * q + k) % NWalkers = k
  <2> HIDE DEF q
  <2> QED  BY <1>2, <1>7, ResidueOf
<1> QED  BY <1>5, <1>7, <1>8

LEMMA LastRow ==
  ASSUME Control, Len(rows) >= NWalkers, NEW k \in Walkers
  PROVE  LastRowOf(k) = rows[LastIndex(k)]
<1> DEFINE P(i) == i \in 1..Len(rows) /\ (firstId + i - 1) % NWalkers = k /\ i > Len(rows) - NWalkers
           l == LastIndex(k)
<1>1. P(l)  BY LastRowIsThere
<1>2. ASSUME NEW i, P(i) PROVE i = l
  <2>1. NWalkers \in Nat \ {0} /\ firstId \in Nat /\ Len(rows) \in Nat
    BY Sizes, CurIdIsInt DEF Control
  <2> DEFINE a == firstId + i - 1
             b == firstId + l - 1
  <2>2. a % NWalkers = b % NWalkers  BY <1>1, <1>2
  <2>3. l \in Int /\ i \in Int  BY <1>1, <1>2
  <2>4. a \in Int /\ b \in Int /\ a - b < NWalkers /\ b - a < NWalkers
    <3> HIDE DEF l
    <3> QED  BY <1>1, <1>2, <2>1, <2>3
  <2>5. a = b
    <3> HIDE DEF a, b
    <3> QED  BY <2>1, <2>2, <2>4, SameResidue
  <2> HIDE DEF l
  <2> QED  BY <2>1, <2>3, <2>5
<1>3. (CHOOSE i \in 1..Len(rows) : (firstId + i - 1) % NWalkers = k /\ i > Len(rows) - NWalkers) = l
  <2> HIDE DEF l
  <2> QED  BY <1>1, <1>2
<1> QED  BY <1>3 DEF LastRowOf

-----------------------------------------------------------------------------
(* The walkers stand where the catalog says                                *)

(* The positions the walkers had when the rows of the catalog were last as *)
(* they are.                                                               *)
Held == IF Moving THEN base ELSE theta

Aligned ==
  /\ Len(rows) >= NWalkers
  /\ curSampleId = CurId
  /\ \A k \in Walkers : Held[k] = rows[LastIndex(k)]

Placed ==
  /\ phase \notin {"idle", "again"} => started
  /\ phase = "points" =>
       /\ firstId = 0
       /\ todo \subseteq Len(rows)..NWalkers - 1
       /\ \A k \in Walkers : k < Len(rows) => theta[k] = rows[k + 1]
  /\ started /\ phase # "points" => Aligned
  /\ phase \in {"setup", "lower", "upper"} => ki = (CurId + 1) % NWalkers
  /\ phase = "sync" => ki = 0 /\ (CurId + 1) % NWalkers = 0

LEMMA SameAligned ==
  ASSUME Aligned, UNCHANGED <<rows, firstId, curSampleId>>, Held' = Held
  PROVE  Aligned' /\ CurId' = CurId
BY DEF Aligned, CurId, LastIndex

(* Where the walkers of an ensemble that is filled stand.                  *)
LEMMA LoadIsAligned ==
  ASSUME Control, Len(rows) >= NWalkers, NEW k \in Walkers
  PROVE  Load[k] = rows[LastIndex(k)]
<1> DEFINE c == CurId + 1
           t == c \div NWalkers
           m == c % NWalkers
<1>1. c \in Int /\ Len(rows) \in Nat /\ firstId \in Nat /\ c = firstId + Len(rows)
  BY CurIdIsInt DEF Control, CurId
<1>2. NWalkers \in Nat \ {0} /\ k \in 0..NWalkers - 1  BY Sizes DEF Walkers
<1>3. t \in Int /\ m \in 0..NWalkers - 1 /\ c = NWalkers * t + m
  BY <1>1, <1>2, DivMod
<1>4. Load[k] = rows[NWalkers * (IF k < m THEN t ELSE t - 1) + k - firstId + 1]
  BY DEF Load
<1>5. LastIndex(k) = Len(rows) - m + k + 1 - (IF k < m THEN 0 ELSE NWalkers)
  BY DEF LastIndex
<1> HIDE DEF c, t, m
<1>6. NWalkers * (t - 1) = NWalkers * t - NWalkers /\ NWalkers * t \in Int
  BY <1>2, <1>3
<1>7. NWalkers * (IF k < m THEN t ELSE t - 1) + k - firstId + 1 = LastIndex(k)
  BY <1>1, <1>2, <1>3, <1>5, <1>6
<1> QED  BY <1>4, <1>7

LEMMA StartRunPlaced ==
  ASSUME IInv, Placed, StartRun PROVE Placed'
<1> USE DEF confVars, histVars
<1>0. Len(rows) \in Nat /\ firstId \in Nat  BY CurIdIsInt DEF IInv, Control
<1>1. CASE /\ CurId + 1 < NWalkers /\ firstId = 0
           /\ theta' = [k \in Walkers |-> IF k < Len(rows) THEN rows[k + 1] ELSE theta[k]]
           /\ fromCat' = (rows # <<>>)
           /\ todo' = Len(rows)..NWalkers - 1
           /\ phase' = "points"
  BY <1>1 DEF StartRun, Placed
<1>2. CASE /\ Len(rows) >= NWalkers
           /\ theta' = Load
           /\ phase' = "check"
  <2>1. UNCHANGED <<rows, firstId>> /\ curSampleId' = CurId /\ Held' = Load /\ CurId' = CurId
        /\ started'
    BY <1>2 DEF StartRun, Held, Moving, CurId
  <2>2. \A k \in Walkers : Held'[k] = rows[LastIndex(k)]
    BY <1>2, <2>1, LoadIsAligned DEF IInv
  <2>3. \A k \in Walkers : LastIndex(k)' = LastIndex(k)  BY <2>1 DEF LastIndex
  <2>4. Aligned'  BY <1>2, <2>1, <2>2, <2>3 DEF Aligned
  <2> QED  BY <1>2, <2>1, <2>4 DEF Placed
<1> QED  BY <1>1, <1>2 DEF StartRun

LEMMA TrimPlaced ==
  ASSUME IInv, Placed, NEW n \in 1..MaxEnsembles, Trim(n) PROVE Placed'
<1> USE DEF confVars, runVars, loopVars, countVars, histVars
<1> DEFINE c == n * NWalkers
<1>1. n \in Nat /\ c \in Nat  BY Product, BoundsAssumption
<1>2. Len(rows) \in Nat /\ IsSeq(rows) /\ firstId \in Nat  BY CurIdIsInt DEF IInv, Control
<1>3. Len(rows) >= c + NWalkers /\ NWalkers \in Nat /\ NWalkers > 0
  <2>1. (n + 1) * NWalkers = c + NWalkers  BY <1>1, Sizes
  <2> QED  BY <2>1, Sizes DEF Trim
<1>4. rows' = SubSeq(rows, c + 1, Len(rows))  BY DEF Trim
<1>11. firstId' = firstId + c  BY DEF Trim
<1>5. started /\ started' /\ phase = "idle" /\ phase' = "idle" /\ UNCHANGED <<curSampleId, theta>>
  BY DEF Trim
<1>6. Aligned  BY <1>5 DEF Placed
<1> HIDE DEF c
<1>7. /\ Len(rows') = Len(rows) - c
      /\ \A j \in 1..Len(rows) - c : rows'[j] = rows[c + j]
  <2> DEFINE m == c + 1
             l == Len(rows)
  <2>1. m \in Int /\ 1 <= m /\ l \in Int /\ m <= l + 1 /\ l <= Len(rows) /\ l - m + 1 = Len(rows) - c
    BY <1>1, <1>2, <1>3
  <2>2. \A j \in Int : m + j - 1 = c + j  BY <1>1
  <2>3. rows' = SubSeq(rows, m, l)  BY <1>4
  <2> HIDE DEF m, l
  <2>4. Len(rows') = l - m + 1 /\ \A j \in 1..l - m + 1 : rows'[j] = rows[m + j - 1]
    BY <1>2, <2>1, <2>3, Cut
  <2>5. Len(rows') = Len(rows) - c  BY <2>1, <2>4
  <2>6. ASSUME NEW j \in 1..Len(rows) - c PROVE rows'[j] = rows[c + j]
    <3>1. j \in 1..l - m + 1 /\ j \in Int  BY <2>1
    <3>2. rows'[j] = rows[m + j - 1]  BY <2>4, <3>1
    <3> QED  BY <2>2, <3>1, <3>2
  <2> QED  BY <2>5, <2>6
<1>8. CurId' = CurId
  <2>1. Len(rows') = Len(rows) - c  BY <1>7
  <2>2. firstId' + Len(rows') - 1 = firstId + Len(rows) - 1
    BY <1>1, <1>2, <1>11, <2>1
  <2> QED  BY <2>2 DEF CurId
<1>9. ASSUME NEW k \in Walkers PROVE theta'[k] = rows'[LastIndex(k)']
  <2>1. LastIndex(k) \in 1..Len(rows) /\ LastIndex(k) > Len(rows) - NWalkers
    BY <1>6, LastRowIsThere DEF IInv, Aligned
  <2>2. LastIndex(k)' = LastIndex(k) - c
    <3> DEFINE m == (CurId + 1) % NWalkers
               d == IF k < m THEN 0 ELSE NWalkers
    <3>1. LastIndex(k) = Len(rows) - m + k + 1 - d  BY DEF LastIndex
    <3>2. LastIndex(k)' = Len(rows') - m + k + 1 - d  BY <1>8 DEF LastIndex
    <3>3. m \in Int /\ d \in Int /\ k \in Int
      BY CurIdIsInt, Division, Sizes DEF IInv, Walkers
    <3> HIDE DEF m, d
    <3> QED  BY <1>1, <1>2, <1>7, <3>1, <3>2, <3>3
  <2>3. LastIndex(k) - c \in 1..Len(rows) - c /\ c + (LastIndex(k) - c) = LastIndex(k)
    BY <1>1, <1>2, <1>3, <2>1
  <2>4. rows'[LastIndex(k) - c] = rows[LastIndex(k)]
    <3> DEFINE l == LastIndex(k) - c
    <3> HIDE DEF l
    <3>1. l \in 1..Len(rows) - c /\ c + l = LastIndex(k)  BY <2>3 DEF l
    <3> QED  BY <1>7, <3>1 DEF l
  <2>5. theta[k] = rows[LastIndex(k)]  BY <1>5, <1>6 DEF Aligned, Held, Moving
  <2> QED  BY <1>5, <2>2, <2>4, <2>5
<1>10. Aligned'
  <2>1. Held' = theta'  BY <1>5 DEF Held, Moving
  <2>2. Len(rows') >= NWalkers  BY <1>1, <1>2, <1>3, <1>7
  <2>3. curSampleId' = CurId'  BY <1>5, <1>6, <1>8 DEF Aligned
  <2> QED  BY <1>9, <2>1, <2>2, <2>3 DEF Aligned
<1> QED  BY <1>5, <1>10 DEF Placed

(* The residue of the id that follows the last row, when the last row is   *)
(* that of the last walker.                                                *)
LEMMA WholeEnsembles ==
  ASSUME NEW c \in Int, NEW i \in Walkers, i = c % NWalkers
  PROVE  (c + NWalkers - i) % NWalkers = 0
<1> DEFINE t == c \div NWalkers
<1>1. NWalkers \in Nat \ {0}  BY Sizes
<1>2. t \in Int /\ c = NWalkers * t + i  BY <1>1, DivMod
<1> HIDE DEF t
<1>3. NWalkers * (t + 1) = NWalkers * t + NWalkers /\ NWalkers * t \in Int  BY <1>1, <1>2
<1>4. i \in Int  BY DEF Walkers
<1>5. c + NWalkers - i = NWalkers * (t + 1) + 0  BY <1>1, <1>2, <1>3, <1>4
<1>6. t + 1 \in Int /\ 0 \in 0..NWalkers - 1  BY <1>1, <1>2
<1>7. (NWalkers * (t + 1) + 0) % NWalkers = 0  BY <1>1, <1>6, ResidueOf
<1> QED  BY <1>5, <1>7

LEMMA PointsDonePlaced ==
  ASSUME IInv, Placed, PointsDone PROVE Placed'
<1> USE DEF confVars, loopVars, histVars
<1>1. /\ curSampleId = Len(rows) - 1 /\ Len(rows) < NWalkers /\ firstId = 0
      /\ Len(rows) \in Nat /\ IsSeq(rows) /\ NWalkers \in Nat \ {0}
      /\ \A k \in Walkers : k < Len(rows) => theta[k] = rows[k + 1]
  BY CurIdIsInt, Sizes DEF PointsDone, IInv, Control, Stages, Placed
<1> DEFINE n == Len(rows)
<1>2. rows' = rows \o NewRows(n) /\ n \in 0..NWalkers
  <2>1. curSampleId + 1 = n  BY <1>1
  <2> QED  BY <1>1, <2>1 DEF PointsDone
<1>3. /\ Len(rows') = NWalkers
      /\ \A j \in 1..n : rows'[j] = rows[j]
      /\ \A k \in Walkers : k >= n => rows'[n + k - n + 1] = theta[k]
  <2>1. n + NWalkers - n = NWalkers  BY <1>1
  <2> HIDE DEF n
  <2> QED  BY <1>1, <1>2, <2>1, Joined DEF n
<1>4. ASSUME NEW k \in Walkers PROVE theta[k] = rows'[k + 1]
  <2>1. k \in Nat  BY DEF Walkers
  <2>2. CASE k < n
    <3>1. k + 1 \in 1..n  BY <1>1, <2>1, <2>2
    <3> QED  BY <1>1, <1>3, <2>2, <3>1
  <2>3. CASE k >= n
    <3>1. n + k - n + 1 = k + 1  BY <1>1, <2>1
    <3> QED  BY <1>3, <2>3, <3>1
  <2> QED  BY <1>1, <2>1, <2>2, <2>3
<1>5. firstId' = 0 /\ curSampleId' = NWalkers - 1 /\ theta' = theta /\ phase' = "synced" /\ started'
  BY <1>1 DEF PointsDone, Placed
<1>6. CurId' = NWalkers - 1
  <2>1. CurId' = firstId' + Len(rows') - 1  BY DEF CurId
  <2> QED  BY <1>1, <1>3, <1>5, <2>1
<1>7. ASSUME NEW k \in Walkers PROVE LastIndex(k)' = k + 1
  <2>1. NWalkers % NWalkers = 0
    <3>1. NWalkers * 1 + 0 = NWalkers  BY <1>1
    <3>2. (NWalkers * 1 + 0) % NWalkers = 0  BY <1>1, ResidueOf
    <3> QED  BY <3>1, <3>2
  <2>2. CurId' + 1 = NWalkers  BY <1>1, <1>6
  <2>3. (CurId' + 1) % NWalkers = 0  BY <2>1, <2>2
  <2>4. k \in Nat  BY DEF Walkers
  <2>5. LastIndex(k)' = NWalkers - 0 + k + 1 - (IF k < 0 THEN 0 ELSE NWalkers)
    BY <1>3, <2>3 DEF LastIndex
  <2> QED  BY <1>1, <2>4, <2>5
<1>8. Aligned'
  <2>1. Held' = theta  BY <1>5 DEF Held, Moving
  <2>2. \A k \in Walkers : Held'[k] = rows'[LastIndex(k)']  BY <1>4, <1>7, <2>1
  <2> QED  BY <1>1, <1>3, <1>5, <1>6, <2>2 DEF Aligned
<1> QED  BY <1>5, <1>8 DEF Placed

LEMMA UpdatePlaced ==
  ASSUME IInv, Placed, Update PROVE Placed'
<1> USE DEF confVars, loopVars, histVars
<1> DEFINE n == Len(rows)
<1>1. /\ Aligned /\ ki = (CurId + 1) % NWalkers /\ started
      /\ phase = "upper" /\ todo = {} /\ busy = {} /\ Moving
  BY DEF Update, Placed, Moving
<1>2. /\ n \in Nat /\ CurId \in Int /\ firstId \in Nat /\ IsSeq(rows) /\ NWalkers \in Nat \ {0}
      /\ ki \in 0..NWalkers - 1 /\ ki \in 0..NWalkers /\ CurId = firstId + n - 1
  BY CurIdIsInt, Sizes DEF IInv, Control, Walkers, CurId
<1>3. rows' = rows \o NewRows(ki)  BY DEF Update
<1>4. /\ firstId' = firstId /\ curSampleId' = curSampleId + NWalkers - ki /\ ki' = 0
      /\ phase' = "sync" /\ theta' = theta /\ started' = started
  BY DEF Update
<1>5. /\ Len(rows') = n + NWalkers - ki
      /\ \A j \in 1..n : rows'[j] = rows[j]
      /\ \A k \in Walkers : k >= ki => rows'[n + k - ki + 1] = theta[k]
  BY <1>2, <1>3, Joined
<1>6. CurId' = CurId + NWalkers - ki
  <2>1. CurId' = firstId' + Len(rows') - 1  BY DEF CurId
  <2>2. Len(rows') = n + NWalkers - ki  BY <1>5
  <2> HIDE DEF n
  <2> QED  BY <1>2, <1>4, <2>1, <2>2
<1>7. (CurId' + 1) % NWalkers = 0
  <2>1. CurId + 1 \in Int /\ ki \in Walkers  BY <1>2 DEF Walkers
  <2>2. (CurId + 1 + NWalkers - ki) % NWalkers = 0  BY <1>1, <2>1, WholeEnsembles
  <2>3. CurId' + 1 = CurId + 1 + NWalkers - ki  BY <1>2, <1>6
  <2> QED  BY <2>2, <2>3
<1>8. ASSUME NEW k \in Walkers PROVE LastIndex(k)' = n - ki + k + 1
  <2>1. k \in Nat  BY DEF Walkers
  <2>2. LastIndex(k)' = Len(rows') - 0 + k + 1 - (IF k < 0 THEN 0 ELSE NWalkers)
    BY <1>7 DEF LastIndex
  <2>3. Len(rows') = n + NWalkers - ki  BY <1>5
  <2> HIDE DEF n
  <2> QED  BY <1>2, <2>1, <2>2, <2>3
<1>9. ASSUME NEW k \in Walkers PROVE theta[k] = rows'[n - ki + k + 1]
  <2>1. k \in 0..NWalkers - 1  BY DEF Walkers
  <2>2. CASE k >= ki
    <3>1. n + k - ki + 1 = n - ki + k + 1  BY <1>2, <2>1
    <3> QED  BY <1>5, <2>2, <3>1
  <2>3. CASE k < ki
    <3>1. k \notin LoopRange  BY <1>2, <2>1, <2>3 DEF LoopRange
    <3>2. theta[k] = LoopBase[k]  BY <1>1, <3>1 DEF IInv, Loop
    <3>3. LoopBase = Ensembles!MoveHalf(Lower, base, ki, rng)  BY <1>1 DEF LoopBase
    <3>4. ~ (k >= ki)  BY <1>2, <2>1, <2>3
    <3>5. Ensembles!MoveHalf(Lower, base, ki, rng)[k] = base[k]
      BY <3>4 DEF Ensembles!MoveHalf, Ensembles!Walkers, Ensembles!NWalkers, Walkers, NWalkers
    <3>6. base[k] = rows[LastIndex(k)]  BY <1>1 DEF Aligned, Held
    <3>7. LastIndex(k) = n - ki + k + 1
      <4>1. LastIndex(k) = n - ki + k + 1 - (IF k < ki THEN 0 ELSE NWalkers)
        BY <1>1 DEF LastIndex
      <4> QED  BY <1>2, <2>1, <2>3, <4>1
    <3>8. LastIndex(k) \in 1..n  BY <1>1, LastRowIsThere DEF IInv, Aligned
    <3>9. rows'[LastIndex(k)] = rows[LastIndex(k)]  BY <1>5, <3>8
    <3> QED  BY <3>2, <3>3, <3>5, <3>6, <3>7, <3>9
  <2> QED  BY <1>2, <2>1, <2>2, <2>3
<1>10. Aligned'
  <2>1. Held' = theta  BY <1>4 DEF Held, Moving
  <2>2. \A k \in Walkers : Held'[k] = rows'[LastIndex(k)']  BY <1>8, <1>9, <2>1
  <2>3. n >= NWalkers /\ curSampleId = CurId  BY <1>1 DEF Aligned
  <2>4. curSampleId' = CurId'  BY <1>4, <1>6, <2>3
  <2>5. Len(rows') >= NWalkers  BY <1>2, <1>5, <2>3
  <2> QED  BY <2>2, <2>4, <2>5 DEF Aligned
<1> QED  BY <1>1, <1>4, <1>7, <1>10 DEF Placed

(* The actions that leave the catalog as it is, or end the run.            *)
LEMMA ProgramPlaced ==
  ASSUME IInv, Placed, Program PROVE Placed'
<1> USE DEF confVars, runVars, loopVars, countVars, histVars, catVars
<1>1. CASE SetDataFile
  <2>1. /\ phase = "idle" /\ phase' = "idle" /\ started' = started
        /\ curSampleId' = curSampleId /\ theta' = theta /\ base' = base
    BY <1>1 DEF SetDataFile
  <2>2. CASE started
    <3>1. UNCHANGED <<rows, firstId>>  BY <1>1, <2>2 DEF SetDataFile
    <3>2. Aligned  BY <2>1, <2>2 DEF Placed
    <3>3. Held' = Held  BY <2>1 DEF Held, Moving
    <3>4. Aligned'  BY <2>1, <3>1, <3>2, <3>3, SameAligned
    <3> QED  BY <2>1, <3>4 DEF Placed
  <2>3. CASE ~ started  BY <2>1, <2>3 DEF Placed
  <2> QED  BY <2>2, <2>3
<1>2. CASE AddRow  BY <1>2 DEF AddRow, Placed
<1>3. CASE StartRun  BY <1>3, StartRunPlaced
<1>4. CASE EndRun  BY <1>4 DEF EndRun, Placed
<1>5. CASE Reset  BY <1>5 DEF Reset, Placed
<1>6. ASSUME NEW n \in 1..MaxEnsembles, Run(n)
      PROVE  Placed'
  <2>1. Aligned /\ phase' = "setup" /\ started /\ started' = started
    BY <1>6 DEF Run, Placed
  <2>2. UNCHANGED <<rows, firstId, curSampleId>> /\ Held' = Held
    BY <1>6 DEF Run, Held, Moving
  <2>3. Aligned' /\ CurId' = CurId  BY <2>1, <2>2, SameAligned
  <2>4. ki' = (CurId + 1) % NWalkers  BY <1>6, <2>1 DEF Run, Aligned
  <2> QED  BY <2>1, <2>3, <2>4 DEF Placed
<1>7. ASSUME NEW n \in 1..MaxEnsembles, Trim(n)
      PROVE  Placed'
  BY <1>7, TrimPlaced
<1> QED  BY <1>1, <1>2, <1>3, <1>4, <1>5, <1>6, <1>7 DEF Program

LEMMA StartPlaced ==
  ASSUME IInv, Placed, StartStep PROVE Placed'
<1> USE DEF confVars, runVars, loopVars, countVars, histVars, catVars
<1>1. ASSUME NEW k \in Walkers, DrawPoint(k) PROVE Placed'
  <2>1. phase = "points" /\ phase' = "points" /\ started /\ UNCHANGED <<started, firstId, rows>>
    BY <1>1 DEF DrawPoint, Placed
  <2>2. k \in todo /\ todo \subseteq Len(rows)..NWalkers - 1  BY <1>1, <2>1 DEF DrawPoint, Placed
  <2>3. todo' \subseteq todo /\ \A j \in Walkers : j # k => theta'[j] = theta[j]
    BY <1>1 DEF DrawPoint, IInv, Control, OnWalkers
  <2>4. Len(rows) \in Nat  BY CurIdIsInt DEF IInv
  <2>5. \A j \in Walkers : j < Len(rows) => j # k /\ theta'[j] = rows[j + 1]
    BY <2>1, <2>2, <2>3, <2>4 DEF Placed, Walkers
  <2> QED  BY <2>1, <2>2, <2>3, <2>5 DEF Placed
<1>2. CASE PointsDone  BY <1>2, PointsDonePlaced
<1>3. CASE SyncPoints \/ Validate
  <2>1. Aligned /\ started /\ started' /\ phase' \in {"idle", "check"}
    BY <1>3 DEF SyncPoints, Validate, Placed
  <2>2. UNCHANGED <<rows, firstId, curSampleId>> /\ Held' = Held
    BY <1>3 DEF SyncPoints, Validate, Held, Moving
  <2>3. Aligned'  BY <2>1, <2>2, SameAligned
  <2> QED  BY <2>1, <2>3 DEF Placed
<1>4. CASE Retry  BY <1>4 DEF Retry, Placed
<1> QED  BY <1>1, <1>2, <1>3, <1>4 DEF StartStep

(* The actions of an ensemble that leave the rows as they are.             *)
LEMMA EnsemblePlaced ==
  ASSUME IInv, Placed,
         Setup \/ NextHalf \/ TimedSync \/ (\E k \in Walkers : ThreadStep(k)) \/ UNCHANGED vars
  PROVE  Placed'
<1> USE DEF confVars, runVars, loopVars, countVars, histVars, catVars
<1>1. CASE Setup \/ NextHalf \/ TimedSync \/ \E k \in Walkers : ThreadStep(k)
  <2>1. /\ Aligned /\ started /\ started' = started
        /\ phase \in {"setup", "lower", "upper", "sync"} /\ phase' \in {"setup", "lower", "upper", "idle"}
    BY <1>1 DEF IInv, Stages, Moving, Setup, NextHalf, TimedSync, ThreadStep, Propose, Decide, Placed
  <2>2. UNCHANGED <<rows, firstId, curSampleId, ki>>
    BY <1>1 DEF Setup, NextHalf, TimedSync, ThreadStep, Propose, Decide
  <2>3. Held' = Held
    <3>1. CASE Setup  BY <3>1 DEF Setup, Held, Moving
    <3>2. CASE NextHalf  BY <3>2 DEF NextHalf, Held, Moving
    <3>3. CASE TimedSync  BY <3>3 DEF TimedSync, Held, Moving
    <3>4. CASE \E k \in Walkers : ThreadStep(k)
      BY <3>4 DEF ThreadStep, Propose, Decide, Held, IInv, Stages, Moving
    <3> QED  BY <1>1, <3>1, <3>2, <3>3, <3>4
  <2>4. Aligned' /\ CurId' = CurId  BY <2>1, <2>2, <2>3, SameAligned
  <2>5. ki = (CurId + 1) % NWalkers  BY <2>1 DEF Placed
  <2> QED  BY <2>1, <2>2, <2>4, <2>5 DEF Placed
<1>2. CASE UNCHANGED vars
  <2> USE <1>2 DEF vars
  <2>1. UNCHANGED <<rows, firstId, curSampleId, ki, phase, started, todo, theta>>  OBVIOUS
  <2>2. Held' = Held  BY DEF Held, Moving
  <2>3. Aligned => Aligned'  BY <2>1, <2>2, SameAligned
  <2>4. CurId' = CurId  BY <2>1 DEF CurId
  <2> QED  BY <2>1, <2>3, <2>4 DEF Placed
<1> QED  BY <1>1, <1>2

LEMMA PlacedStep ==
  ASSUME IInv, Placed, [CrashNext]_vars PROVE Placed'
<1>1. CASE Program  BY <1>1, ProgramPlaced
<1>2. CASE StartStep  BY <1>2, StartPlaced
<1>3. CASE Update  BY <1>3, UpdatePlaced
<1>4. CASE Setup \/ NextHalf \/ TimedSync \/ (\E k \in Walkers : ThreadStep(k)) \/ UNCHANGED vars
  BY <1>4, EnsemblePlaced
<1>5. CASE Crash \/ CrashInSync
  <2>1. NewProcess  BY <1>5 DEF Crash, CrashInSync
  <2> QED  BY <2>1 DEF NewProcess, Placed
<1> QED  BY <1>1, <1>2, <1>3, <1>4, <1>5 DEF CrashNext, Next, RunStep

LEMMA AlwaysPlaced == CrashSpec => [](IInv /\ Placed)
<1>1. Init => Placed  BY DEF Init, StartOfProcess, Placed
<1>2. IInv /\ Placed /\ [CrashNext]_vars => Placed'  BY PlacedStep
<1> QED  BY Invariance, <1>1, <1>2, PTL DEF CrashSpec, CrashNext

LEMMA PlacedImpliesThetaInCatalog == IInv /\ Placed => ThetaInCatalog
<1> SUFFICES ASSUME IInv, Placed, started, phase \in {"idle", "setup", "sync"}
             PROVE  /\ phase = "setup" => ki = (CurId + 1) % NWalkers
                    /\ curSampleId = CurId
                    /\ \A k \in Walkers : theta[k] = LastRowOf(k)
  BY DEF ThetaInCatalog
<1>1. Aligned /\ Held = theta  BY DEF Placed, Held, Moving
<1>2. \A k \in Walkers : rows[LastIndex(k)] = LastRowOf(k)  BY <1>1, LastRow DEF IInv, Aligned
<1> QED  BY <1>1, <1>2 DEF Placed, Aligned

(* A run that is to compute an ensemble has each walker in its last row of *)
(* the catalog (ncm_fit_esmcmc.c:1337), in the middle of an ensemble, on   *)
(* points that were drawn, given or loaded, after the catalog was trimmed, *)
(* and in a process that resumes another one that died.                    *)
THEOREM WalkersInCatalog == CrashSpec => []ThetaInCatalog
BY AlwaysPlaced, PlacedImpliesThetaInCatalog, PTL

-----------------------------------------------------------------------------
(* The count of the moves                                                  *)

(* How far the flags are from the moves while an ensemble is computed.     *)
Excess == naccepted + Cardinality(Counted) - moved

(* Walkers whose step of the ensemble is still to be decided.              *)
Undecided == todo \cup busy \cup (IF phase = "lower" THEN Upper ELSE {})

(* Outside an ensemble only walker 0 may have a flag, that of validate.    *)
FlagsBetween ==
  ~ Moving /\ phase # "points" =>
    /\ \A k \in Walkers : accepted[k] => k = 0
    /\ phase \in {"synced", "check"} => naccepted = 0 /\ moved = 0
    /\ phase = "check" => fromCat
    /\ started /\ phase # "check" =>
         /\ naccepted - moved \in {0, 1}
         /\ ~ fromCat => naccepted = moved /\ ~ accepted[0]
         /\ accepted[0] => naccepted = moved

FlagsOfPoints ==
  phase = "points" =>
    /\ \A k \in Walkers : accepted[k] => k = 0 \/ k >= Len(rows)
    /\ ~ fromCat => Len(rows) = 0
    /\ naccepted = 0 /\ moved = 0

(* In an ensemble each move has set a flag, unless that of validate was    *)
(* set and is still to be counted.                                         *)
FlagsMoving ==
  Moving =>
    /\ Excess \in {0, 1}
    /\ ~ fromCat => Excess = 0
    /\ \A k \in Undecided : accepted[k] => k = 0 /\ Excess = 1
    /\ \A k \in Walkers : k < ki /\ accepted[k] => k = 0 /\ Excess = 0 /\ fromCat

Flags ==
  /\ accepted \in [Walkers -> BOOLEAN] /\ naccepted \in Nat /\ moved \in Nat
  /\ FlagsBetween /\ FlagsOfPoints /\ FlagsMoving

LEMMA CountedIsFinite ==
  ASSUME ki \in Walkers
  PROVE  IsFiniteSet(Counted) /\ Cardinality(Counted) \in Nat /\ Counted \subseteq Walkers
<1>1. IsFiniteSet(Walkers)  BY Sizes, FS_Interval DEF Walkers
<1>2. Counted \subseteq Walkers  BY Sizes DEF Counted, Walkers
<1> QED  BY <1>1, <1>2, FS_Subset, FS_CardinalityType

LEMMA ProgramFlags ==
  ASSUME IInv, Placed, Flags, Program PROVE Flags'
<1> USE DEF confVars, runVars, loopVars, countVars, histVars, catVars
<1>1. CASE StartRun
  <2>1. phase \in {"idle", "again"}  BY <1>1 DEF StartRun
  <2>2. /\ accepted' = accepted /\ naccepted' = 0 /\ moved' = 0
        /\ \/ phase' = "points" /\ fromCat' = (rows # <<>>) /\ rows' = rows
           \/ phase' = "check" /\ fromCat'
    BY <1>1 DEF StartRun
  <2>3. ~ fromCat' /\ phase' = "points" => Len(rows') = 0
    <3>1. ~ fromCat' /\ phase' = "points" => rows' = <<>>  BY <2>2, Zenon
    <3> QED  BY <3>1
  <2>4. \A k \in Walkers : accepted[k] => k = 0
    BY <2>1 DEF Flags, FlagsBetween, Moving
  <2>5. FlagsBetween'  BY <2>2, <2>4 DEF FlagsBetween, Moving
  <2>6. FlagsOfPoints'  BY <2>2, <2>3, <2>4 DEF FlagsOfPoints
  <2>7. FlagsMoving'  BY <2>2 DEF FlagsMoving, Moving
  <2> QED  BY <2>2, <2>5, <2>6, <2>7 DEF Flags
<1>2. CASE Reset
  <2>1. /\ phase = "idle" /\ phase' = "idle" /\ started' = FALSE
        /\ accepted' = accepted /\ naccepted' = 0 /\ moved' = 0
    BY <1>2 DEF Reset
  <2> QED  BY <2>1 DEF Flags, FlagsBetween, FlagsOfPoints, FlagsMoving, Moving
<1>3. CASE SetDataFile \/ AddRow \/ EndRun \/ \E n \in 1..MaxEnsembles : Run(n) \/ Trim(n)
  <2>1. /\ phase = "idle" /\ phase' \in {"idle", "setup"} /\ (started' => started)
        /\ accepted' = accepted /\ naccepted' = naccepted /\ moved' = moved /\ fromCat' = fromCat
    BY <1>3 DEF SetDataFile, AddRow, EndRun, Run, Trim
  <2> QED  BY <2>1 DEF Flags, FlagsBetween, FlagsOfPoints, FlagsMoving, Moving
<1> QED  BY <1>1, <1>2, <1>3 DEF Program

LEMMA StartFlags ==
  ASSUME IInv, Placed, Flags, StartStep PROVE Flags'
<1> USE DEF confVars, runVars, loopVars, countVars, histVars, catVars
<1>1. ASSUME NEW k \in Walkers, DrawPoint(k) PROVE Flags'
  <2>1. phase = "points" /\ phase' = "points" /\ UNCHANGED <<naccepted, moved, fromCat, rows>>
    BY <1>1 DEF DrawPoint
  <2>2. k \in todo /\ todo \subseteq Len(rows)..NWalkers - 1  BY <1>1, <2>1 DEF DrawPoint, Placed
  <2>3. k >= Len(rows)  BY <2>2, CurIdIsInt DEF IInv
  <2>4. accepted' \in [Walkers -> BOOLEAN] /\ \A j \in Walkers : j # k => accepted'[j] = accepted[j]
    BY <1>1 DEF DrawPoint, Flags
  <2>5. FlagsOfPoints'  BY <2>1, <2>3, <2>4 DEF Flags, FlagsOfPoints
  <2> QED  BY <2>1, <2>4, <2>5 DEF Flags, FlagsBetween, FlagsMoving, Moving
<1>2. CASE PointsDone
  <2>1. /\ phase = "points" /\ phase' = "synced" /\ UNCHANGED <<naccepted, moved, fromCat>>
        /\ accepted' = [k \in Walkers |-> accepted[k] /\ k <= curSampleId]
        /\ curSampleId = Len(rows) - 1 /\ Len(rows) \in Nat
    BY <1>2, CurIdIsInt DEF PointsDone, IInv, Stages
  <2>2. accepted' \in [Walkers -> BOOLEAN]  BY <2>1 DEF Flags
  <2>3. \A k \in Walkers : accepted'[k] => k = 0
    <3> SUFFICES ASSUME NEW k \in Walkers, accepted[k], k <= curSampleId PROVE k = 0
      BY <2>1
    <3> QED  BY <2>1 DEF Flags, FlagsOfPoints, Walkers
  <2>4. naccepted = 0 /\ moved = 0  BY <2>1 DEF Flags, FlagsOfPoints
  <2>5. ~ fromCat => ~ accepted'[0]
    <3>1. ~ fromCat => curSampleId = -1  BY <2>1 DEF Flags, FlagsOfPoints
    <3>2. accepted'[0] => 0 <= curSampleId  BY <2>1, Sizes, Zenon
    <3>3. ~ (0 <= -1)  OBVIOUS
    <3> QED  BY <3>1, <3>2, <3>3
  <2>6. FlagsBetween'  BY <2>1, <2>3, <2>4, <2>5 DEF FlagsBetween
  <2> QED  BY <2>1, <2>2, <2>4, <2>6 DEF Flags, FlagsOfPoints, FlagsMoving, Moving
<1>3. CASE SyncPoints
  <2>1. /\ phase = "synced" /\ phase' = (IF fromCat THEN "check" ELSE "idle") /\ started
        /\ UNCHANGED <<naccepted, moved, fromCat, accepted, started>>
    BY <1>3 DEF SyncPoints, Placed
  <2> QED  BY <2>1 DEF Flags, FlagsBetween, FlagsOfPoints, FlagsMoving, Moving
<1>4. CASE Validate
  <2>1. /\ phase = "check" /\ phase' = "idle"
        /\ accepted' = [accepted EXCEPT ![0] = TRUE]
        /\ UNCHANGED <<naccepted, moved, fromCat>>
    BY <1>4 DEF Validate
  <2>2. naccepted = 0 /\ moved = 0 /\ fromCat /\ \A k \in Walkers : accepted[k] => k = 0
    BY <2>1 DEF Flags, FlagsBetween, Moving
  <2>3. accepted' \in [Walkers -> BOOLEAN] /\ \A k \in Walkers : accepted'[k] => k = 0
    BY <2>1, <2>2, Sizes DEF Flags
  <2>4. FlagsBetween'  BY <2>1, <2>2, <2>3 DEF FlagsBetween
  <2> QED  BY <2>1, <2>2, <2>3, <2>4 DEF Flags, FlagsOfPoints, FlagsMoving, Moving
<1>5. CASE Retry
  <2>1. /\ phase = "check" /\ phase' = "again" /\ started' = FALSE
        /\ accepted' = [accepted EXCEPT ![0] = FALSE]
        /\ UNCHANGED <<naccepted, moved, fromCat>>
    BY <1>5 DEF Retry
  <2>2. accepted' \in [Walkers -> BOOLEAN] /\ \A k \in Walkers : accepted'[k] => k = 0
    BY <2>1, Sizes DEF Flags, FlagsBetween, Moving
  <2> QED  BY <2>1, <2>2 DEF Flags, FlagsBetween, FlagsOfPoints, FlagsMoving, Moving
<1> QED  BY <1>1, <1>2, <1>3, <1>4, <1>5 DEF StartStep

LEMMA SetupFlags ==
  ASSUME IInv, Placed, Flags, Setup PROVE Flags'
<1> USE DEF confVars, runVars, loopVars, countVars, histVars, catVars
<1>1. /\ phase = "setup" /\ phase' \in {"lower", "upper"} /\ started
      /\ UNCHANGED <<naccepted, moved, fromCat, accepted, ki, busy>>
  BY DEF Setup, Placed
<1>2. todo' \subseteq ki..NWalkers - 1  BY Sizes, HalfAssumption DEF Setup, NWalkers, IInv, Control, Walkers
<1>3. busy = {}  BY <1>1 DEF IInv, Stages, Moving
<1>4. /\ \A k \in Walkers : accepted[k] => k = 0
      /\ naccepted - moved \in {0, 1}
      /\ ~ fromCat => naccepted = moved /\ ~ accepted[0]
      /\ accepted[0] => naccepted = moved
  BY <1>1 DEF Flags, FlagsBetween, Moving
<1>5. ki \in Walkers /\ Counted' = Counted /\ Counted \subseteq {0}
      /\ (0 \in Counted <=> ki = 0 /\ accepted[0])
  <2>1. ki \in Walkers  BY DEF IInv, Control
  <2>2. Counted \subseteq Walkers  BY <2>1, CountedIsFinite
  <2>3. Counted \subseteq {0}  BY <1>4, <2>2 DEF Counted
  <2>4. 0 \in Counted <=> ki = 0 /\ accepted[0]  BY <2>1, Sizes DEF Counted, Walkers
  <2> QED  BY <1>1, <2>1, <2>3, <2>4 DEF Counted
<1>6. Excess' = naccepted + Cardinality(Counted) - moved  BY <1>1, <1>5 DEF Excess
<1>7. CASE ki = 0 /\ accepted[0]
  <2>1. Counted = {0}  BY <1>5, <1>7
  <2>2. Cardinality(Counted) = 1  BY <2>1, FS_Singleton
  <2>3. Excess' = 1 /\ fromCat  BY <1>4, <1>6, <1>7, <2>2 DEF Flags
  <2>4. \A k \in Walkers : ~ (k < ki)  BY <1>7 DEF Walkers
  <2>5. Undecided' \subseteq Walkers
    <3>1. todo' \subseteq Walkers  BY <1>2, <1>7 DEF Walkers
    <3>2. busy' = {} /\ Upper \subseteq Walkers  BY <1>1, <1>3, Sizes
    <3> QED  BY <3>1, <3>2 DEF Undecided
  <2>6. FlagsMoving'  BY <1>1, <1>4, <2>3, <2>4, <2>5 DEF FlagsMoving
  <2> QED  BY <1>1, <2>6 DEF Flags, FlagsBetween, FlagsOfPoints, Moving
<1>8. CASE ~ (ki = 0 /\ accepted[0])
  <2>1. Counted = {}  BY <1>5, <1>8
  <2>2. Cardinality(Counted) = 0  BY <2>1, FS_EmptySet
  <2>3. Excess' = naccepted - moved  BY <1>6, <2>2 DEF Flags
  <2>4. ASSUME NEW k \in Undecided' PROVE ~ accepted[k]
    <3>1. k \in ki..NWalkers - 1 \/ k \in Upper  BY <1>2, <1>3, <1>1 DEF Undecided
    <3>2. k \in Walkers /\ (k = 0 => ki = 0)
      BY <3>1, Sizes, HalfAssumption DEF IInv, Control, Walkers
    <3> QED  BY <1>4, <1>8, <3>2
  <2>5. Excess' \in {0, 1} /\ (~ fromCat => Excess' = 0)  BY <1>4, <2>3 DEF Flags
  <2>6. \A k \in Walkers : accepted[k] => k = 0 /\ Excess' = 0 /\ fromCat
    BY <1>4, <2>3 DEF Flags
  <2>7. FlagsMoving'  BY <1>1, <2>4, <2>5, <2>6 DEF FlagsMoving
  <2> QED  BY <1>1, <2>7 DEF Flags, FlagsBetween, FlagsOfPoints, Moving
<1> QED  BY <1>7, <1>8

(* A walker that moves sets its flag, or finds that of validate.           *)
LEMMA DecideFlags ==
  ASSUME IInv, Placed, Flags, NEW k \in Walkers, Decide(k) PROVE Flags'
<1> USE DEF confVars, runVars, histVars, catVars
<1>1. /\ Moving /\ Moving' /\ phase' = phase /\ UNCHANGED <<naccepted, fromCat, ki, todo>>
      /\ k \in busy /\ busy' = busy \ {k}
  BY DEF Decide, IInv, Stages, Moving
<1>2. k \in LoopRange /\ k \notin todo /\ k >= ki /\ (phase = "lower" => k \notin Upper)
  BY <1>1, Sizes DEF IInv, Loop, LoopRange
<1>3. Undecided' \subseteq Undecided /\ k \in Undecided /\ k \notin Undecided'
  BY <1>1, <1>2 DEF Undecided
<1>4. /\ ki \in Walkers /\ ki \in Nat /\ k \in Nat
      /\ IsFiniteSet(Counted) /\ Cardinality(Counted) \in Nat /\ Counted \subseteq Walkers
  BY CountedIsFinite DEF IInv, Control, Walkers
<1>5. Undecided \subseteq Walkers
  BY <1>1, Sizes DEF Undecided, IInv, Loop, LoopRange
<1>6. /\ Excess \in {0, 1} /\ (~ fromCat => Excess = 0)
      /\ \A j \in Undecided : accepted[j] => j = 0 /\ Excess = 1
      /\ \A j \in Walkers : j < ki /\ accepted[j] => j = 0 /\ Excess = 0 /\ fromCat
      /\ accepted \in [Walkers -> BOOLEAN] /\ naccepted \in Nat /\ moved \in Nat
  BY <1>1 DEF Flags, FlagsMoving
<1>7. FlagsBetween' /\ FlagsOfPoints'  BY <1>1 DEF FlagsBetween, FlagsOfPoints, Moving
<1>8. CASE star[k].moves /\ ~ accepted[k]
  <2>1. accepted' = [accepted EXCEPT ![k] = TRUE] /\ moved' = moved + 1  BY <1>8 DEF Decide
  <2>2. Counted' = Counted \cup {k} /\ k \notin Counted
    <3>1. k \in ki..NWalkers - 1  BY <1>2, <1>4, Sizes DEF Walkers
    <3>2. \A j \in Walkers : accepted'[j] <=> accepted[j] \/ j = k  BY <1>6, <2>1
    <3>3. ki..NWalkers - 1 \subseteq Walkers  BY <1>4, Sizes DEF Walkers
    <3> QED  BY <1>1, <1>8, <3>1, <3>2, <3>3 DEF Counted
  <2>3. Cardinality(Counted') = Cardinality(Counted) + 1  BY <1>4, <2>2, FS_AddElement
  <2>4. Excess' = Excess
    <3>1. naccepted' = naccepted  BY <1>1
    <3> QED  BY <1>4, <1>6, <2>1, <2>3, <3>1 DEF Excess
  <2>5. \A j \in Undecided' : accepted'[j] => j = 0 /\ Excess' = 1
    <3> SUFFICES ASSUME NEW j \in Undecided', accepted'[j] PROVE j = 0 /\ Excess' = 1
      OBVIOUS
    <3>1. j \in Undecided /\ j \in Walkers /\ j # k  BY <1>3, <1>5
    <3>2. accepted[j]  BY <1>6, <2>1, <3>1
    <3> QED  BY <1>6, <2>4, <3>1, <3>2
  <2>6. \A j \in Walkers : j < ki /\ accepted'[j] => j = 0 /\ Excess' = 0 /\ fromCat
    <3> SUFFICES ASSUME NEW j \in Walkers, j < ki, accepted'[j]
                 PROVE  j = 0 /\ Excess' = 0 /\ fromCat
      OBVIOUS
    <3>1. j # k  BY <1>2, <1>4 DEF Walkers
    <3>2. accepted[j]  BY <1>6, <2>1, <3>1
    <3> QED  BY <1>6, <2>4, <3>2
  <2>7. FlagsMoving'  BY <1>1, <1>6, <2>4, <2>5, <2>6 DEF FlagsMoving
  <2>8. accepted' \in [Walkers -> BOOLEAN] /\ naccepted' \in Nat /\ moved' \in Nat
    BY <1>1, <1>6, <2>1
  <2> QED  BY <1>7, <2>7, <2>8 DEF Flags
<1>9. CASE star[k].moves /\ accepted[k]
  <2>1. k = 0 /\ Excess = 1 /\ fromCat  BY <1>3, <1>6, <1>9
  <2>2. accepted' = accepted /\ moved' = moved + 1
    <3>1. accepted' = [accepted EXCEPT ![k] = TRUE] /\ moved' = moved + 1  BY <1>9 DEF Decide
    <3>2. accepted[k] = TRUE  BY <1>6, <1>9
    <3> QED  BY <1>6, <3>1, <3>2
  <2>3. Counted' = Counted  BY <1>1, <2>2 DEF Counted
  <2>4. Excess' = 0
    <3>1. naccepted' = naccepted  BY <1>1
    <3> QED  BY <1>4, <1>6, <2>1, <2>2, <2>3, <3>1 DEF Excess
  <2>5. \A j \in Undecided' : ~ accepted[j]  BY <1>3, <1>6, <2>1
  <2>6. \A j \in Walkers : ~ (j < ki)  BY <1>2, <1>4, <2>1 DEF Walkers
  <2>7. FlagsMoving'  BY <1>1, <2>1, <2>2, <2>4, <2>5, <2>6 DEF FlagsMoving
  <2>8. accepted' \in [Walkers -> BOOLEAN] /\ naccepted' \in Nat /\ moved' \in Nat
    BY <1>1, <1>6, <2>2
  <2> QED  BY <1>7, <2>7, <2>8 DEF Flags
<1>10. CASE ~ star[k].moves
  <2>1. UNCHANGED <<accepted, moved>>  BY <1>10 DEF Decide
  <2>2. Excess' = Excess  BY <1>1, <2>1 DEF Excess, Counted
  <2>3. FlagsMoving'  BY <1>1, <1>3, <1>6, <2>1, <2>2 DEF FlagsMoving
  <2> QED  BY <1>1, <1>6, <1>7, <2>1, <2>3 DEF Flags
<1> QED  BY <1>8, <1>9, <1>10

LEMMA UpdateFlags ==
  ASSUME IInv, Placed, Flags, Update PROVE Flags'
<1> USE DEF confVars, loopVars, histVars, catVars
<1>1. /\ Moving /\ ~ Moving' /\ phase' = "sync" /\ fromCat' = fromCat /\ moved' = moved
      /\ naccepted' = naccepted + Cardinality(Counted)
      /\ accepted' = [k \in Walkers |-> accepted[k] /\ k < ki]
  BY DEF Update, Moving
<1>2. Cardinality(Counted) \in Nat  BY CountedIsFinite DEF IInv, Control
<1>3. /\ Excess \in {0, 1} /\ (~ fromCat => Excess = 0)
      /\ \A j \in Walkers : j < ki /\ accepted[j] => j = 0 /\ Excess = 0 /\ fromCat
      /\ accepted \in [Walkers -> BOOLEAN] /\ naccepted \in Nat /\ moved \in Nat
  BY <1>1 DEF Flags, FlagsMoving
<1>4. accepted' \in [Walkers -> BOOLEAN] /\ naccepted' \in Nat /\ moved' \in Nat
  BY <1>1, <1>2, <1>3
<1>5. naccepted' - moved' = Excess
  <2>1. naccepted' = naccepted + Cardinality(Counted) /\ moved' = moved  BY <1>1
  <2> QED  BY <1>2, <1>3, <2>1 DEF Excess
<1>6. \A k \in Walkers : accepted'[k] => k = 0 /\ Excess = 0 /\ fromCat'  BY <1>1, <1>3
<1>7. Excess = 0 => naccepted' = moved'
  <2>1. \A a, b \in Int : a - b = 0 => a = b  OBVIOUS
  <2>2. naccepted' \in Int /\ moved' \in Int  BY <1>4
  <2> QED  BY <1>5, <2>1, <2>2, Zenon
<1>8. FlagsBetween'  BY <1>1, <1>3, <1>5, <1>6, <1>7, Sizes DEF FlagsBetween
<1> QED  BY <1>1, <1>4, <1>8 DEF Flags, FlagsOfPoints, FlagsMoving

LEMMA FlagsStep ==
  ASSUME IInv, Placed, Flags, [CrashNext]_vars PROVE Flags'
<1> USE DEF confVars, runVars, loopVars, countVars, histVars, catVars
<1>1. CASE Program  BY <1>1, ProgramFlags
<1>2. CASE StartStep  BY <1>2, StartFlags
<1>3. CASE Setup  BY <1>3, SetupFlags
<1>4. CASE Update  BY <1>4, UpdateFlags
<1>5. CASE NextHalf
  <2>1. /\ Moving /\ Moving' /\ phase = "lower" /\ phase' = "upper"
        /\ UNCHANGED <<naccepted, moved, accepted, fromCat, ki>>
        /\ todo' = Upper /\ busy' = {}
    BY <1>5 DEF NextHalf, Moving, Upper
  <2>2. Excess' = Excess /\ Undecided' \subseteq Undecided  BY <2>1 DEF Excess, Counted, Undecided
  <2> QED  BY <2>1, <2>2 DEF Flags, FlagsBetween, FlagsOfPoints, FlagsMoving, Moving
<1>6. CASE TimedSync
  <2>1. /\ phase = "sync" /\ phase' \in {"idle", "setup"}
        /\ UNCHANGED <<naccepted, moved, accepted, fromCat, started>>
    BY <1>6 DEF TimedSync
  <2> QED  BY <2>1 DEF Flags, FlagsBetween, FlagsOfPoints, FlagsMoving, Moving
<1>7. ASSUME NEW k \in Walkers, Propose(k) PROVE Flags'
  <2>1. /\ Moving /\ Moving' /\ phase' = phase /\ todo' \cup busy' = todo \cup busy
        /\ UNCHANGED <<naccepted, moved, accepted, fromCat, ki>>
    BY <1>7 DEF Propose, Moving
  <2>2. Excess' = Excess /\ Undecided' = Undecided  BY <2>1 DEF Excess, Counted, Undecided
  <2> QED  BY <2>1, <2>2 DEF Flags, FlagsBetween, FlagsOfPoints, FlagsMoving, Moving
<1>8. ASSUME NEW k \in Walkers, Decide(k) PROVE Flags'
  BY <1>8, DecideFlags
<1>9. CASE Crash \/ CrashInSync
  <2>1. NewProcess  BY <1>9 DEF Crash, CrashInSync
  <2> QED  BY <2>1 DEF NewProcess, NoneAccepted, Flags, FlagsBetween, FlagsOfPoints, FlagsMoving, Moving
<1>10. CASE UNCHANGED vars
  <2>1. /\ UNCHANGED <<naccepted, moved, accepted, fromCat, ki, todo, busy, phase, rows, started>>
    BY <1>10 DEF vars
  <2>2. Excess' = Excess /\ Undecided' = Undecided  BY <2>1 DEF Excess, Counted, Undecided
  <2> QED  BY <2>1, <2>2 DEF Flags, FlagsBetween, FlagsOfPoints, FlagsMoving, Moving
<1> QED  BY <1>1, <1>2, <1>3, <1>4, <1>5, <1>6, <1>7, <1>8, <1>9, <1>10
         DEF CrashNext, Next, RunStep, ThreadStep

LEMMA AlwaysFlags == CrashSpec => []Flags
<1>1. Init => Flags
  BY DEF Init, StartOfProcess, NoneAccepted, Flags, FlagsBetween, FlagsOfPoints, FlagsMoving, Moving
<1>2. IInv /\ Placed /\ Flags /\ [CrashNext]_vars => Flags'  BY FlagsStep
<1> QED  BY AlwaysPlaced, <1>1, <1>2, PTL DEF CrashSpec, CrashNext

(* naccepted is the number of moves since start_run, but for the flag of   *)
(* walker 0 through which validate answers (ncm_fit_esmcmc.c:1629): an     *)
(* ensemble counts it once at most, and never a flag of a point that was   *)
(* drawn or of a walker that an ensemble had counted before.               *)
THEOREM MovesCounted == CrashSpec => []AcceptCount
<1>1. Flags => AcceptCount
  <2> SUFFICES ASSUME Flags, started, phase \in {"idle", "setup", "sync"}
               PROVE  naccepted - moved \in IF fromCat THEN {0, 1} ELSE {0}
    BY DEF AcceptCount
  <2> QED  BY DEF Flags, FlagsBetween, Moving
<1> QED  BY AlwaysFlags, <1>1, PTL

-----------------------------------------------------------------------------
(* The types                                                               *)

Plain ==
  /\ nthreads \in Threads /\ started \in BOOLEAN /\ fromCat \in BOOLEAN
  /\ attached \in BOOLEAN
  /\ todo \subseteq Walkers /\ busy \subseteq Walkers /\ ntotal \in Nat

LEMMA PlainStep ==
  ASSUME IInv, Plain, [CrashNext]_vars PROVE Plain'
<1> USE DEF confVars, runVars, loopVars, countVars, histVars, catVars
<1>1. CASE SetDataFile \/ AddRow \/ EndRun \/ (\E n \in 1..MaxEnsembles : Run(n) \/ Trim(n))
  BY <1>1 DEF SetDataFile, AddRow, EndRun, Run, Trim, Plain
<1>2. CASE Reset  BY <1>2 DEF Reset, Plain
<1>3. CASE StartRun
  <2>1. Len(rows)..NWalkers - 1 \subseteq Walkers  BY CurIdIsInt, Sizes DEF IInv, Walkers
  <2>2. todo' \subseteq Walkers /\ fromCat' \in BOOLEAN
    BY <1>3, <2>1 DEF StartRun, Plain
  <2> QED  BY <1>3, <2>2 DEF StartRun, Plain
<1>4. CASE StartStep
  BY <1>4 DEF StartStep, DrawPoint, PointsDone, SyncPoints, Validate, Retry, Plain
<1>5. CASE Setup
  <2>1. todo' \subseteq Walkers
    BY <1>5, Sizes, HalfAssumption DEF Setup, IInv, Control, Walkers, NWalkers
  <2> QED  BY <1>5, <2>1 DEF Setup, Plain
<1>6. CASE NextHalf
  <2>1. todo' \subseteq Walkers  BY <1>6, Sizes DEF NextHalf, Upper
  <2> QED  BY <1>6, <2>1 DEF NextHalf, Plain
<1>7. CASE Update
  <2>1. ntotal' \in Nat
    <3>1. ki \in Nat /\ ki < NWalkers /\ NWalkers \in Nat  BY Sizes DEF IInv, Control, Walkers
    <3>2. ntotal \in Nat /\ ntotal' = ntotal + NWalkers - ki  BY <1>7 DEF Update, Plain
    <3> QED  BY <3>1, <3>2
  <2> QED  BY <1>7, <2>1 DEF Update, Plain
<1>8. CASE TimedSync  BY <1>8 DEF TimedSync, Plain
<1>9. ASSUME NEW k \in Walkers, ThreadStep(k) PROVE Plain'
  BY <1>9 DEF ThreadStep, Propose, Decide, Plain
<1>10. CASE Crash  BY <1>10 DEF Crash, NewProcess, Plain
<1>11. CASE CrashInSync
  <2>1. NewProcess  BY <1>11 DEF CrashInSync
  <2> QED  BY <2>1 DEF NewProcess, Plain
<1>12. CASE UNCHANGED vars  BY <1>12 DEF vars, Plain
<1> QED  BY <1>1, <1>2, <1>3, <1>4, <1>5, <1>6, <1>7, <1>8, <1>9, <1>10, <1>11, <1>12
         DEF CrashNext, Next, Program, RunStep

LEMMA AlwaysPlain == CrashSpec => []Plain
<1>1. Init => Plain
  <2> SUFFICES ASSUME Init PROVE Plain  OBVIOUS
  <2>1. nthreads \in Threads /\ started = FALSE /\ fromCat = FALSE /\ attached = FALSE
    BY DEF Init, StartOfProcess
  <2>2. todo = {} /\ busy = {} /\ ntotal = 0  BY DEF Init, StartOfProcess
  <2> QED  BY <2>1, <2>2 DEF Plain
<1>2. IInv /\ Plain /\ [CrashNext]_vars => Plain'  BY PlainStep
<1> QED  BY Invariance, <1>1, <1>2, PTL DEF CrashSpec, CrashNext

-----------------------------------------------------------------------------
(* Rows that were never written                                            *)

(* What the proposals and the prior make is a position: the parameters of  *)
(* a model, with their likelihood.                                         *)
MovesInPosition ==
  /\ \A b \in Blocks : Prior(b) \in Position
  /\ \A b \in Blocks : \A k \in Walkers : \A p, q \in Position :
       Accepts(b, k, p, q) \in BOOLEAN /\ Move(b, k, p, q) \in Position

(* In a file that holds more than one ensemble the rows that were not      *)
(* written are the last ones, so that looking at the last ensemble is      *)
(* enough.                                                                 *)
Sound(r) ==
  Len(r) > NWalkers => \A i, j \in 1..Len(r) : i < j /\ r[j] # Blank => r[i] # Blank

AllWritten == \A i \in 1..Len(rows) : rows[i] \in Position

Typed ==
  /\ theta \in [Walkers -> Row] /\ base \in [Walkers -> Row]
  /\ star \in [Walkers -> [moves : BOOLEAN, to : Row]]
  /\ rows \in Seq(Row) /\ saved.rows \in Seq(Row)

Written ==
  /\ Sound(rows) /\ Sound(saved.rows)
  /\ phase = "points" => \A k \in Walkers : k >= Len(rows) /\ k \notin todo => theta[k] \in Position
  /\ phase = "synced" /\ ~ fromCat => AllWritten
  /\ started /\ (Moving \/ phase \in {"idle", "setup", "sync"}) => AllWritten
  /\ Moving => \A k \in Walkers : theta[k] \in Position
  /\ \A k \in busy : star[k].to \in Position

RInv == Typed /\ Written

LEMMA WrittenIsSound ==
  ASSUME NEW r, \A i \in 1..Len(r) : r[i] \in Position PROVE Sound(r)
BY BlankAssumption DEF Sound

LEMMA PrefixIsSound ==
  ASSUME NEW r \in Seq(Row), Sound(r), NEW n \in Int, 0 <= n, n <= Len(r)
  PROVE  SubSeq(r, 1, n) \in Seq(Row) /\ Sound(SubSeq(r, 1, n))
<1>1. Len(r) \in Nat /\ \A i \in 1..n : r[i] \in Row  BY Sizes
<1> DEFINE s == SubSeq(r, 1, n)
<1>2. /\ s \in Seq(Row) /\ Len(s) = n
      /\ \A i \in 1..n : s[i] = r[i]
  BY <1>1, SubSeqProperties
<1> HIDE DEF s
<1>3. ASSUME n > NWalkers, NEW i \in 1..n, NEW j \in 1..n, i < j, s[j] # Blank
      PROVE  s[i] # Blank
  <2>1. Len(r) > NWalkers /\ i \in 1..Len(r) /\ j \in 1..Len(r)  BY <1>1, <1>3, Sizes
  <2>2. r[j] # Blank  BY <1>2, <1>3
  <2>3. r[i] # Blank  BY <1>3, <2>1, <2>2 DEF Sound
  <2> QED  BY <1>2, <2>3
<1> QED  BY <1>2, <1>3 DEF Sound, s

(* What a sync leaves when the process dies in it.                         *)
LEMMA TornIsSound ==
  ASSUME RInv, NEW w \in Int
  PROVE  Torn(w).rows \in Seq(Row) /\ Sound(Torn(w).rows)
<1> DEFINE n == Len(rows)
           s == [i \in 1..n |-> IF i <= w THEN rows[i] ELSE Blank]
<1>1. Torn(w).rows = s  BY DEF Torn
<1>2. n \in Nat /\ \A i \in 1..n : rows[i] \in Row  BY DEF RInv, Typed
<1>3. s \in [1..n -> Row]  BY <1>2 DEF Row
<1>4. s \in Seq(Row) /\ DOMAIN s = 1..n
  <2> HIDE DEF n
  <2> QED  BY <1>2, <1>3, SeqDef
<1>5. Len(s) = n
  <2> HIDE DEF n, s
  <2> QED  BY <1>2, <1>4
<1>6. ASSUME n > NWalkers, NEW i \in 1..n, NEW j \in 1..n, i < j, s[j] # Blank
      PROVE  s[i] # Blank
  <2>1. j <= w /\ rows[j] # Blank  BY <1>6
  <2>2. rows[i] # Blank  BY <1>6, <2>1 DEF RInv, Written, Sound
  <2>3. i <= w  BY <1>2, <1>6, <2>1
  <2> QED  BY <2>2, <2>3
<1> HIDE DEF n, s
<1> QED  BY <1>1, <1>4, <1>5, <1>6 DEF Sound

LEMMA SavedIsSound ==
  ASSUME RInv
  PROVE  Saved.rows \in Seq(Row) /\ Sound(Saved.rows)
BY DEF RInv, Typed, Written, Saved

(* What validate finds in the last ensemble it may conclude of all rows.   *)
LEMMA LastEnsembleWritten ==
  ASSUME RInv, Len(rows) >= NWalkers, Blank \notin LastRows
  PROVE  AllWritten
<1>1. Len(rows) \in Nat /\ NWalkers \in Nat /\ NWalkers > 0
  BY Sizes DEF RInv, Typed
<1>2. \A i \in Len(rows) - NWalkers + 1..Len(rows) : rows[i] # Blank  BY DEF LastRows
<1>3. ASSUME NEW i \in 1..Len(rows) PROVE rows[i] # Blank
  <2>1. CASE i > Len(rows) - NWalkers
    <3>1. i \in Len(rows) - NWalkers + 1..Len(rows)  BY <1>1, <2>1
    <3> QED  BY <1>2, <3>1
  <2>2. CASE i <= Len(rows) - NWalkers
    <3> DEFINE j == Len(rows)
    <3>1. j \in 1..Len(rows) /\ i < j /\ j > NWalkers /\ j \in Len(rows) - NWalkers + 1..Len(rows)
      BY <1>1, <2>2
    <3>2. rows[j] # Blank  BY <1>2, <3>1
    <3> QED  BY <3>1, <3>2 DEF RInv, Written, Sound
  <2> QED  BY <1>1, <2>1, <2>2
<1>4. \A i \in 1..Len(rows) : rows[i] \in Row  BY DEF RInv, Typed
<1> QED  BY <1>3, <1>4 DEF AllWritten, Row

(* Walkers that stand in a catalog without a blank row.                    *)
LEMMA HeldWritten ==
  ASSUME IInv, Aligned, AllWritten, NEW k \in Walkers
  PROVE  Held[k] \in Position
<1>1. LastIndex(k) \in 1..Len(rows)  BY LastRowIsThere DEF IInv, Aligned
<1> QED  BY <1>1 DEF Aligned, AllWritten

LEMMA ProgramWritten ==
  ASSUME IInv, Placed, RInv, Program PROVE RInv'
<1> USE DEF confVars, runVars, loopVars, countVars, histVars, catVars
<1>0. busy = {}
  <2>1. phase \in {"idle", "again"}
    <3>1. CASE StartRun  BY <3>1 DEF StartRun
    <3>2. CASE ~ StartRun
      BY <3>2 DEF Program, SetDataFile, AddRow, EndRun, Reset, Run, Trim
    <3> QED  BY <3>1, <3>2
  <2> QED  BY <2>1 DEF IInv, Stages, Moving
<1>1. CASE SetDataFile
  <2>1. /\ phase = "idle" /\ phase' = "idle" /\ busy' = busy /\ started' = started
        /\ UNCHANGED <<theta, base, star>>
    BY <1>1 DEF SetDataFile
  <2>2. /\ rows' \in {rows, saved.rows} /\ saved'.rows \in {rows, saved.rows}
        /\ started => rows' = rows
    BY <1>1 DEF SetDataFile
  <2>3. Typed'  BY <2>1, <2>2 DEF RInv, Typed
  <2>4. started => AllWritten'  BY <2>1, <2>2 DEF RInv, Written, AllWritten
  <2>5. Sound(rows') /\ Sound(saved'.rows)  BY <2>2 DEF RInv, Written
  <2>6. Written'  BY <1>0, <2>1, <2>4, <2>5 DEF Written, Moving
  <2> QED  BY <2>3, <2>6 DEF RInv
<1>2. CASE AddRow
  <2>1. /\ phase = "idle" /\ phase' = "idle" /\ busy' = busy /\ ~ started'
        /\ UNCHANGED <<theta, base, star>>
        /\ saved'.rows \in {rows', saved.rows}
    BY <1>2 DEF AddRow
  <2>2. PICK p \in Own : rows' = Append(rows, p)  BY <1>2 DEF AddRow
  <2>3. rows' \in Seq(Row) /\ \A i \in 1..Len(rows') : rows'[i] \in Position
    <3>1. p \in Position /\ p \in Row  BY BlankAssumption DEF Row
    <3>2. \A i \in 1..Len(rows) : rows[i] \in Position  BY <1>2, BlankAssumption DEF AddRow
    <3> QED  BY <2>2, <3>1, <3>2 DEF RInv, Typed
  <2>4. Sound(rows')  BY <2>3, WrittenIsSound
  <2>5. Typed'  BY <2>1, <2>3 DEF RInv, Typed
  <2>6. Written'  BY <1>0, <2>1, <2>4 DEF RInv, Written, Moving
  <2> QED  BY <2>5, <2>6 DEF RInv
<1>3. CASE StartRun
  <2>1. busy' = {} /\ rows' = rows /\ saved' = Saved /\ UNCHANGED <<base, star>>
        /\ phase' \in {"points", "check"}
    BY <1>0, <1>3 DEF StartRun
  <2>2. phase' = "points" => todo' = Len(rows)..NWalkers - 1  BY <1>3 DEF StartRun
  <2>3. theta' \in [Walkers -> Row]
    <3>1. CASE theta' = [k \in Walkers |-> IF k < Len(rows) THEN rows[k + 1] ELSE theta[k]]
      <4>1. Len(rows) \in Nat /\ \A k \in Walkers : k < Len(rows) => k + 1 \in 1..Len(rows)
        BY CurIdIsInt DEF IInv, Walkers
      <4>2. \A k \in Walkers : k < Len(rows) => rows[k + 1] \in Row  BY <4>1 DEF RInv, Typed
      <4> QED  BY <3>1, <4>2 DEF RInv, Typed
    <3>2. CASE theta' = Load /\ Len(rows) >= NWalkers
      <4>1. \A k \in Walkers : Load[k] = rows[LastIndex(k)] /\ LastIndex(k) \in 1..Len(rows)
        BY <3>2, LoadIsAligned, LastRowIsThere DEF IInv
      <4>2. \A k \in Walkers : Load[k] \in Row  BY <4>1 DEF RInv, Typed
      <4>3. Load = [k \in Walkers |-> Load[k]]  BY DEF Load
      <4> QED  BY <3>2, <4>2, <4>3
    <3> QED  BY <1>3, <3>1, <3>2 DEF StartRun
  <2>4. Typed'  BY <2>1, <2>3, SavedIsSound DEF RInv, Typed
  <2>5. phase' = "points" => \A k \in Walkers : k >= Len(rows) => k \in todo'
    BY <2>2, CurIdIsInt, Sizes DEF IInv, Walkers
  <2>6. Sound(rows') /\ Sound(saved'.rows)  BY <2>1, SavedIsSound DEF RInv, Written
  <2>7. Written'  BY <2>1, <2>5, <2>6 DEF Written, Moving
  <2> QED  BY <2>4, <2>7 DEF RInv
<1>4. CASE EndRun
  <2>1. /\ phase = "idle" /\ phase' = "idle" /\ busy' = busy /\ ~ started'
        /\ UNCHANGED <<theta, base, star, rows>> /\ saved' = Saved
    BY <1>4 DEF EndRun
  <2>2. Typed'  BY <2>1, SavedIsSound DEF RInv, Typed
  <2>3. Written'  BY <1>0, <2>1, SavedIsSound DEF RInv, Written, Moving
  <2> QED  BY <2>2, <2>3 DEF RInv
<1>5. CASE Reset
  <2>1. /\ phase = "idle" /\ phase' = "idle" /\ busy' = busy /\ ~ started'
        /\ UNCHANGED <<theta, base, star>> /\ rows' = <<>>
    BY <1>5 DEF Reset
  <2>2. saved'.rows \in {<<>>, saved.rows}
    <3>1. [saved EXCEPT !.rows = <<>>] = [rows |-> <<>>, first |-> saved.first, stat |-> saved.stat]
      BY FileFields DEF IInv, Control
    <3> QED  BY <1>5, <3>1 DEF Reset
  <2>3. <<>> \in Seq(Row) /\ Sound(<<>>)  BY Sizes DEF Sound
  <2>4. Typed'  BY <2>1, <2>2, <2>3 DEF RInv, Typed
  <2>5. Sound(rows') /\ Sound(saved'.rows)  BY <2>1, <2>2, <2>3 DEF RInv, Written
  <2>6. Written'  BY <1>0, <2>1, <2>5 DEF Written, Moving
  <2> QED  BY <2>4, <2>6 DEF RInv
<1>6. ASSUME NEW n \in 1..MaxEnsembles, Run(n)
      PROVE  RInv'
  <2>1. /\ phase = "idle" /\ started /\ phase' = "setup" /\ busy' = busy /\ started'
        /\ UNCHANGED <<theta, base, star, rows, saved>>
    BY <1>6 DEF Run
  <2>2. AllWritten'  BY <2>1 DEF RInv, Written, AllWritten
  <2> QED  BY <1>0, <2>1, <2>2 DEF RInv, Typed, Written, Moving
<1>7. ASSUME NEW n \in 1..MaxEnsembles, Trim(n)
      PROVE  RInv'
  <2> DEFINE m == n * NWalkers + 1
  <2>1. /\ phase = "idle" /\ started /\ phase' = "idle" /\ busy' = busy /\ started'
        /\ UNCHANGED <<theta, base, star>>
        /\ rows' = SubSeq(rows, m, Len(rows)) /\ saved'.rows = rows'
    BY <1>7 DEF Trim
  <2>2. AllWritten  BY <2>1 DEF RInv, Written
  <2>3. m \in Int /\ 1 <= m  BY Product, BoundsAssumption
  <2> HIDE DEF m
  <2>4. rows' \in Seq(Row) /\ \A i \in 1..Len(rows') : rows'[i] \in Position
    <3>1. Len(rows) \in Nat /\ \A i \in m..Len(rows) : rows[i] \in Position
      BY <2>2, <2>3 DEF AllWritten, RInv, Typed
    <3>2. rows' \in Seq(Position)  BY <2>1, <2>3, <3>1, SubSeqProperties
    <3>3. Position \subseteq Row  BY DEF Row
    <3> QED  BY <3>2, <3>3
  <2>5. Sound(rows')  BY <2>4, WrittenIsSound
  <2>6. Typed'  BY <2>1, <2>4 DEF RInv, Typed
  <2>7. Written'  BY <1>0, <2>1, <2>4, <2>5 DEF Written, AllWritten, Moving
  <2> QED  BY <2>6, <2>7 DEF RInv
<1> QED  BY <1>1, <1>2, <1>3, <1>4, <1>5, <1>6, <1>7 DEF Program

LEMMA StartWritten ==
  ASSUME MovesInPosition, IInv, Placed, Flags, RInv, StartStep PROVE RInv'
<1> USE DEF confVars, runVars, loopVars, countVars, histVars, catVars
<1>0. /\ busy = {} /\ ~ Moving /\ Len(rows) \in Nat
      /\ phase \in {"points", "synced", "check"}
  <2>1. phase \in {"points", "synced", "check"}
    BY DEF StartStep, DrawPoint, PointsDone, SyncPoints, Validate, Retry
  <2> QED  BY <2>1 DEF IInv, Stages, Moving, RInv, Typed
<1>1. ASSUME NEW k \in Walkers, DrawPoint(k) PROVE RInv'
  <2>1. /\ phase = "points" /\ phase' = "points" /\ busy' = busy
        /\ UNCHANGED <<base, star, rows, saved>>
    BY <1>1 DEF DrawPoint
  <2>2. \/ /\ theta' = [theta EXCEPT ![k] = Prior(rng')] /\ Prior(rng') \in Position
           /\ todo' = todo \ {k}
        \/ UNCHANGED <<theta, todo>>
    BY <1>1 DEF DrawPoint, MovesInPosition
  <2>3. Position \subseteq Row  BY DEF Row
  <2>4. theta' \in [Walkers -> Row]  BY <2>2, <2>3 DEF RInv, Typed
  <2>5. \A j \in Walkers : j >= Len(rows) /\ j \notin todo' => theta'[j] \in Position
    BY <2>1, <2>2 DEF RInv, Typed, Written
  <2>6. Typed'  BY <2>1, <2>4 DEF RInv, Typed
  <2>7. Written'  BY <1>0, <2>1, <2>5 DEF RInv, Written, Moving
  <2> QED  BY <2>6, <2>7 DEF RInv
<1>2. CASE PointsDone
  <2>1. /\ phase = "points" /\ phase' = "synced" /\ busy' = busy /\ todo = {}
        /\ UNCHANGED <<theta, base, star, saved, fromCat>>
        /\ curSampleId = Len(rows) - 1 /\ Len(rows) < NWalkers
    BY <1>2 DEF PointsDone, IInv, Stages
  <2> DEFINE n == Len(rows)
  <2>2. rows' = rows \o NewRows(n) /\ n \in 0..NWalkers /\ IsSeq(rows)
    <3>1. curSampleId + 1 = n  BY <1>0, <2>1
    <3> QED  BY <1>0, <1>2, <2>1, <3>1, Sizes DEF PointsDone, IInv, Control
  <2>3. /\ Len(rows') = n + NWalkers - n
        /\ \A k \in Walkers : k >= n => rows'[n + k - n + 1] = theta[k]
    <3> HIDE DEF n
    <3> QED  BY <2>2, Joined DEF n
  <2>4. Len(rows') = NWalkers  BY <1>0, <2>3, Sizes
  <2>5. Sound(rows')  BY <2>4, Sizes DEF Sound
  <2>6. rows' \in Seq(Row)
    <3>1. NewRows(n) \in Seq(Row)
      <4> DEFINE m == NWalkers - n
      <4>1. m \in Nat  BY <1>0, <2>1, Sizes
      <4>2. \A j \in 1..m : n + j - 1 \in Walkers  BY <1>0, <2>1, Sizes DEF Walkers
      <4>3. NewRows(n) \in [1..m -> Row]  BY <4>2 DEF NewRows, RInv, Typed
      <4> HIDE DEF m, n
      <4> QED  BY <4>1, <4>3, SeqDef
    <3> QED  BY <2>2, <3>1 DEF RInv, Typed
  <2>7. ~ fromCat => AllWritten'
    <3> SUFFICES ASSUME ~ fromCat PROVE AllWritten'  OBVIOUS
    <3>1. n = 0  BY <2>1 DEF Flags, FlagsOfPoints
    <3>2. \A k \in Walkers : theta[k] \in Position
      BY <2>1, <3>1 DEF RInv, Written, Walkers
    <3>3. ASSUME NEW i \in 1..NWalkers PROVE rows'[i] \in Position
      <4>1. i - 1 \in Walkers /\ i - 1 >= 0 /\ 0 + (i - 1) - 0 + 1 = i  BY Sizes DEF Walkers
      <4> HIDE DEF n
      <4>2. rows'[0 + (i - 1) - 0 + 1] = theta[i - 1]  BY <2>3, <3>1, <4>1
      <4> QED  BY <3>2, <4>1, <4>2
    <3> QED  BY <2>4, <3>3 DEF AllWritten
  <2>8. Typed'  BY <2>1, <2>6 DEF RInv, Typed
  <2>9. Written'  BY <1>0, <2>1, <2>5, <2>7 DEF RInv, Written, Moving
  <2> QED  BY <2>8, <2>9 DEF RInv
<1>3. CASE SyncPoints
  <2>1. /\ phase = "synced" /\ phase' = (IF fromCat THEN "check" ELSE "idle") /\ busy' = busy
        /\ UNCHANGED <<theta, base, star, rows, fromCat>> /\ saved' = Saved
    BY <1>3 DEF SyncPoints
  <2>2. Typed'  BY <2>1, SavedIsSound DEF RInv, Typed
  <2>3. ~ fromCat => AllWritten'  BY <2>1 DEF RInv, Written, AllWritten
  <2>4. Written'  BY <1>0, <2>1, <2>3, SavedIsSound DEF RInv, Written, Moving
  <2> QED  BY <2>2, <2>4 DEF RInv
<1>4. CASE Validate
  <2>1. /\ phase = "check" /\ phase' = "idle" /\ busy' = busy /\ Blank \notin LastRows
        /\ UNCHANGED <<theta, base, star, rows, saved>>
    BY <1>4 DEF Validate
  <2>2. Len(rows) >= NWalkers  BY <2>1 DEF IInv, Stages
  <2>3. AllWritten'  BY <2>1, <2>2, LastEnsembleWritten DEF AllWritten
  <2>4. Typed'  BY <2>1 DEF RInv, Typed
  <2>5. Written'  BY <1>0, <2>1, <2>3 DEF RInv, Written, Moving
  <2> QED  BY <2>4, <2>5 DEF RInv
<1>5. CASE Retry
  <2> DEFINE rest == Len(rows) % NWalkers
             kept == Len(rows) - (IF rest = 0 THEN NWalkers ELSE rest)
  <2>1. /\ phase = "check" /\ phase' = "again" /\ ~ started' /\ busy' = busy
        /\ UNCHANGED <<theta, base, star>>
        /\ rows' = SubSeq(rows, 1, kept) /\ saved'.rows = rows'
    BY <1>5 DEF Retry, RemoveLastEnsemble
  <2>2. Len(rows) >= NWalkers  BY <2>1 DEF IInv, Stages
  <2>3. rest \in Walkers  BY <1>0, Division
  <2>4. kept \in Int /\ 0 <= kept /\ kept <= Len(rows)
    BY <1>0, <2>2, <2>3, Sizes DEF Walkers
  <2> HIDE DEF kept
  <2>5. rows' \in Seq(Row) /\ Sound(rows')
    BY <2>1, <2>4, PrefixIsSound DEF RInv, Typed, Written
  <2>6. Typed'  BY <2>1, <2>5 DEF RInv, Typed
  <2>7. Written'  BY <1>0, <2>1, <2>5 DEF Written, Moving
  <2> QED  BY <2>6, <2>7 DEF RInv
<1> QED  BY <1>1, <1>2, <1>3, <1>4, <1>5 DEF StartStep

(* While an ensemble moves, all positions are those of rows that were      *)
(* written, or were computed from them.                                    *)
LEMMA ThreadWritten ==
  ASSUME MovesInPosition, IInv, Placed, RInv, NEW k \in Walkers, ThreadStep(k) PROVE RInv'
<1> USE DEF confVars, runVars, loopVars, countVars, histVars, catVars
<1>0. /\ Moving /\ Moving' /\ phase' = phase /\ started' = started /\ started
      /\ busy \subseteq Walkers
  <2>1. Moving /\ Moving' /\ phase' = phase /\ started' = started
    BY DEF ThreadStep, Propose, Decide, IInv, Stages, Moving
  <2> QED  BY <2>1, Sizes DEF Placed, IInv, Loop, LoopRange, Moving
<1>1. Position \subseteq Row  BY DEF Row
<1>2. CASE Propose(k)
  <2>1. k \in todo /\ busy' = busy \cup {k} /\ UNCHANGED <<theta, base, rows, saved>>
    BY <1>2 DEF Propose
  <2> DEFINE partner == theta[Partner(rng, k)]
             step == [moves |-> Accepts(rng, k, theta[k], partner), to |-> Move(rng, k, theta[k], partner)]
  <2>2. star' = [star EXCEPT ![k] = step]  BY <1>2 DEF Propose
  <2>3. k \in LoopRange /\ rng \in Blocks  BY <1>0, <2>1 DEF IInv, Loop
  <2>4. Partner(rng, k) \in Walkers  BY <1>0, <2>3, PartnerInOtherHalf
  <2>5. theta[k] \in Position /\ partner \in Position  BY <1>0, <2>4 DEF RInv, Written
  <2>6. step.to \in Position /\ step \in [moves : BOOLEAN, to : Row]
    BY <1>1, <2>3, <2>5 DEF MovesInPosition
  <2> HIDE DEF step
  <2>7. star' \in [Walkers -> [moves : BOOLEAN, to : Row]]  BY <2>2, <2>6 DEF RInv, Typed
  <2>8. Typed'  BY <2>1, <2>7 DEF RInv, Typed
  <2>9. \A j \in busy' : star'[j].to \in Position
    <3> SUFFICES ASSUME NEW j \in busy' PROVE star'[j].to \in Position  OBVIOUS
    <3>1. CASE j = k  BY <2>2, <2>6, <3>1 DEF RInv, Typed
    <3>2. CASE j # k
      <4>1. j \in busy  BY <2>1, <3>2
      <4>2. star'[j] = star[j]  BY <1>0, <2>2, <3>2, <4>1 DEF RInv, Typed
      <4> QED  BY <4>1, <4>2 DEF RInv, Written
    <3> QED  BY <3>1, <3>2
  <2>10. AllWritten'  BY <1>0, <2>1 DEF RInv, Written, AllWritten
  <2>11. Written'  BY <1>0, <2>1, <2>9, <2>10 DEF RInv, Written, Moving
  <2> QED  BY <2>8, <2>11 DEF RInv
<1>3. CASE Decide(k)
  <2>1. /\ k \in busy /\ busy' = busy \ {k} /\ UNCHANGED <<base, rows, saved>>
        /\ star' = [star EXCEPT ![k] = Stay]
        /\ theta' = [theta EXCEPT ![k] = star[k].to] \/ theta' = theta
    BY <1>3 DEF Decide
  <2>2. star[k].to \in Position  BY <2>1 DEF RInv, Written
  <2>3. theta' \in [Walkers -> Row] /\ \A j \in Walkers : theta'[j] \in Position
    BY <1>0, <1>1, <2>1, <2>2 DEF RInv, Typed, Written
  <2>4. Stay \in [moves : BOOLEAN, to : Row]  BY DEF Stay, Row
  <2>5. star' \in [Walkers -> [moves : BOOLEAN, to : Row]]  BY <2>1, <2>4 DEF RInv, Typed
  <2>6. \A j \in busy' : star'[j].to \in Position
    <3> SUFFICES ASSUME NEW j \in busy' PROVE star'[j].to \in Position  OBVIOUS
    <3>1. j \in busy /\ j # k  BY <2>1
    <3>2. star'[j] = star[j]  BY <1>0, <2>1, <3>1 DEF RInv, Typed
    <3> QED  BY <3>1, <3>2 DEF RInv, Written
  <2>7. Typed'  BY <2>1, <2>3, <2>5 DEF RInv, Typed
  <2>8. AllWritten'  BY <1>0, <2>1 DEF RInv, Written, AllWritten
  <2>9. Written'  BY <1>0, <2>1, <2>3, <2>6, <2>8 DEF RInv, Written, Moving
  <2> QED  BY <2>7, <2>9 DEF RInv
<1> QED  BY <1>2, <1>3 DEF ThreadStep

LEMMA RunWritten ==
  ASSUME IInv, Placed, RInv, RunStep PROVE RInv'
<1> USE DEF confVars, runVars, loopVars, countVars, histVars, catVars
<1>0. /\ started /\ started' /\ AllWritten
      /\ phase \in {"setup", "lower", "upper", "sync"} /\ (phase = "setup" \/ phase = "sync" => busy = {})
  <2>1. phase \in {"setup", "lower", "upper", "sync"} /\ started' = started
    BY DEF RunStep, Setup, NextHalf, Update, TimedSync
  <2>2. started /\ (phase = "setup" \/ phase = "sync" => busy = {})
    BY <2>1 DEF Placed, IInv, Stages, Moving
  <2> QED  BY <2>1, <2>2 DEF RInv, Written, Moving
<1>1. CASE Setup
  <2>1. /\ phase = "setup" /\ Moving' /\ phase' \in {"lower", "upper"} /\ base' = theta
        /\ UNCHANGED <<theta, busy, star, rows, saved>> /\ busy = {}
    BY <1>0, <1>1 DEF Setup, Moving
  <2>2. Held = theta /\ Aligned  BY <1>0, <2>1 DEF Held, Moving, Placed
  <2>3. \A k \in Walkers : theta'[k] \in Position  BY <1>0, <2>1, <2>2, HeldWritten
  <2>4. Typed'  BY <2>1 DEF RInv, Typed
  <2>5. AllWritten'  BY <1>0, <2>1 DEF AllWritten
  <2>6. Written'  BY <2>1, <2>3, <2>5 DEF RInv, Written
  <2> QED  BY <2>4, <2>6 DEF RInv
<1>2. CASE NextHalf
  <2>1. /\ phase = "lower" /\ phase' = "upper" /\ Moving /\ Moving'
        /\ UNCHANGED <<theta, base, busy, star, rows, saved>>
    BY <1>2 DEF NextHalf, Moving
  <2>2. AllWritten'  BY <1>0, <2>1 DEF AllWritten
  <2> QED  BY <2>1, <2>2 DEF RInv, Typed, Written
<1>3. CASE Update
  <2>1. /\ phase = "upper" /\ phase' = "sync" /\ Moving /\ ~ Moving' /\ busy' = {}
        /\ UNCHANGED <<theta, base, star, saved>>
        /\ rows' = rows \o NewRows(ki)
    BY <1>3 DEF Update, Moving
  <2>2. \A k \in Walkers : theta[k] \in Position  BY <2>1 DEF RInv, Written
  <2>3. rows \in Seq(Position)
    <3>1. Len(rows) \in Nat /\ rows \in [1..Len(rows) -> Row]  BY DEF RInv, Typed
    <3>2. rows \in [1..Len(rows) -> Position]  BY <1>0, <3>1 DEF AllWritten
    <3> DEFINE n == Len(rows)
    <3> HIDE DEF n
    <3>3. n \in Nat /\ rows \in [1..n -> Position]  BY <3>1, <3>2 DEF n
    <3> QED  BY <3>3, SeqDef
  <2>4. NewRows(ki) \in Seq(Position)
    <3> DEFINE m == NWalkers - ki
    <3>1. ki \in Nat /\ m \in Nat /\ \A j \in 1..m : ki + j - 1 \in Walkers
      BY Sizes DEF IInv, Control, Walkers
    <3>2. NewRows(ki) \in [1..m -> Position]  BY <2>2, <3>1 DEF NewRows
    <3> HIDE DEF m
    <3> QED  BY <3>1, <3>2, SeqDef
  <2>5. rows' \in Seq(Position)  BY <2>1, <2>3, <2>4
  <2>6. AllWritten' /\ Sound(rows')  BY <2>5, WrittenIsSound DEF AllWritten
  <2>7. Position \subseteq Row  BY DEF Row
  <2>8. rows' \in Seq(Row)  BY <2>5, <2>7
  <2>9. Typed'  BY <2>1, <2>8 DEF RInv, Typed
  <2>10. Written'  BY <2>1, <2>6 DEF RInv, Written
  <2> QED  BY <2>9, <2>10 DEF RInv
<1>4. CASE TimedSync
  <2>1. /\ phase = "sync" /\ phase' \in {"idle", "setup"} /\ ~ Moving' /\ busy' = {}
        /\ UNCHANGED <<theta, base, star, rows>> /\ saved' \in {saved, Saved}
    BY <1>0, <1>4 DEF TimedSync, Moving
  <2>2. saved'.rows \in Seq(Row) /\ Sound(saved'.rows)
    BY <2>1, SavedIsSound DEF RInv, Typed, Written
  <2>3. AllWritten'  BY <1>0, <2>1 DEF AllWritten
  <2>4. Typed'  BY <2>1, <2>2 DEF RInv, Typed
  <2>5. Written'  BY <2>1, <2>2, <2>3 DEF RInv, Written
  <2> QED  BY <2>4, <2>5 DEF RInv
<1> QED  BY <1>1, <1>2, <1>3, <1>4 DEF RunStep

LEMMA BlankTypes ==
  /\ AllBlank \in [Walkers -> Row]
  /\ AllStay \in [Walkers -> [moves : BOOLEAN, to : Row]]
  /\ <<>> \in Seq(Row) /\ Sound(<<>>)
BY Sizes DEF AllBlank, AllStay, Stay, Row, Sound

LEMMA CrashWritten ==
  ASSUME IInv, RInv, Crash \/ CrashInSync PROVE RInv'
<1>1. NewProcess  BY DEF Crash, CrashInSync
<1>2. saved'.rows \in Seq(Row) /\ Sound(saved'.rows)
  <2>1. CASE Crash  BY <2>1 DEF Crash, RInv, Typed, Written
  <2>2. CASE CrashInSync
    <3>1. PICK w \in Len(saved.rows)..Len(rows) : saved' = Torn(w)  BY <2>2 DEF CrashInSync
    <3>2. w \in Int  BY DEF RInv, Typed
    <3> QED  BY <3>1, <3>2, TornIsSound
  <2> QED  BY <2>1, <2>2
<1>3. Typed'  BY <1>1, <1>2, BlankTypes DEF NewProcess, Typed
<1>4. Written'  BY <1>1, <1>2, BlankTypes DEF NewProcess, Written, Moving
<1> QED  BY <1>3, <1>4 DEF RInv

LEMMA RowsStep ==
  ASSUME MovesInPosition, IInv, Placed, Flags, RInv, [CrashNext]_vars PROVE RInv'
<1>1. CASE Program  BY <1>1, ProgramWritten
<1>2. CASE StartStep  BY <1>2, StartWritten
<1>3. CASE RunStep  BY <1>3, RunWritten
<1>4. ASSUME NEW k \in Walkers, ThreadStep(k) PROVE RInv'
  BY <1>4, ThreadWritten
<1>5. CASE Crash \/ CrashInSync  BY <1>5, CrashWritten
<1>6. CASE UNCHANGED vars
  <2> USE <1>6 DEF vars, runVars, loopVars, countVars, histVars, catVars
  <2>1. Typed'  BY DEF RInv, Typed
  <2>2. AllWritten' = AllWritten /\ Moving' = Moving  BY DEF AllWritten, Moving
  <2>3. Written'  BY <2>2 DEF RInv, Written
  <2> QED  BY <2>1, <2>3 DEF RInv
<1> QED  BY <1>1, <1>2, <1>3, <1>4, <1>5, <1>6 DEF CrashNext, Next

LEMMA InitRows == Init => RInv
<1> SUFFICES ASSUME Init PROVE RInv  OBVIOUS
<1>1. Typed  BY BlankTypes DEF Init, StartOfProcess, NoFile, Typed
<1>2. Written  BY BlankTypes DEF Init, StartOfProcess, NoFile, Written, Moving
<1> QED  BY <1>1, <1>2 DEF RInv

LEMMA AlwaysRows ==
  ASSUME MovesInPosition PROVE CrashSpec => []RInv
<1>1. IInv /\ Placed /\ Flags /\ RInv /\ [CrashNext]_vars => RInv'  BY RowsStep
<1> QED  BY InitRows, AlwaysPlaced, AlwaysFlags, <1>1, PTL DEF CrashSpec, CrashNext

(* Whatever a sync that was cut short left in the file, once start_run     *)
(* returns no row of the catalog is one that was never written: looking at *)
(* the last ensemble (ncm_fit_esmcmc.c:1123) is enough, since the rows     *)
(* that are missing are the last ones, however many ensembles they make.   *)
THEOREM NoBlankRow ==
  ASSUME MovesInPosition PROVE CrashSpec => []RowsValid
<1>1. RInv => RowsValid
  <2> SUFFICES ASSUME RInv, started, phase \in {"idle", "setup", "sync"}, NEW i \in 1..Len(rows)
               PROVE  rows[i] # Blank
    BY DEF RowsValid
  <2>1. AllWritten  BY DEF RInv, Written
  <2> QED  BY <2>1, BlankAssumption DEF AllWritten
<1> QED  BY AlwaysRows, <1>1, PTL

(* Only these steps and a death in a sync touch what such syncs wrote.     *)
LEMMA TornKept ==
  ASSUME Next \/ Crash \/ UNCHANGED vars, ~ Retry, ~ Reset PROVE torn' = torn
BY DEF Next, Program, StartStep, RunStep, ThreadStep, SetDataFile, AddRow, StartRun, EndRun, Run, Trim,
       DrawPoint, PointsDone, SyncPoints, Validate, Setup, NextHalf, Update, TimedSync, Propose, Decide,
       Crash, vars, histVars

LEMMA AlwaysTorn ==
  ASSUME MovesInPosition PROVE CrashSpec => [](torn \subseteq Row)
<1>1. Init => torn \subseteq Row  BY DEF Init
<1>2. RInv /\ torn \subseteq Row /\ [CrashNext]_vars => (torn \subseteq Row)'
  <2> SUFFICES ASSUME RInv, torn \subseteq Row, [CrashNext]_vars PROVE torn' \subseteq Row  OBVIOUS
  <2>1. CASE Retry \/ Reset  BY <2>1 DEF Retry, Reset
  <2>2. CASE CrashInSync
    <3>1. PICK w \in Len(saved.rows)..Len(rows) :
            torn' = torn \cup {rows[i] : i \in Len(saved.rows) + 1..w}
      BY <2>2 DEF CrashInSync
    <3>2. rows \in Seq(Row) /\ saved.rows \in Seq(Row)  BY DEF RInv, Typed
    <3>3. \A i \in Len(saved.rows) + 1..w : i \in 1..Len(rows)  BY <3>2
    <3> QED  BY <3>1, <3>2, <3>3
  <2>3. CASE (Next \/ Crash \/ UNCHANGED vars) /\ ~ Retry /\ ~ Reset
    <3>1. torn' = torn  BY <2>3, TornKept
    <3> QED  BY <3>1
  <2> QED  BY <2>1, <2>2, <2>3 DEF CrashNext
<1> QED  BY AlwaysRows, <1>1, <1>2, PTL DEF CrashSpec, CrashNext

(* The sampler keeps its types; the walkers are always at positions, or at *)
(* the blank ones that a new process starts with or a file may hold.       *)
THEOREM TypeCorrect ==
  ASSUME MovesInPosition PROVE CrashSpec => []TypeOK
<1>1. IInv /\ Flags /\ Plain /\ RInv /\ torn \subseteq Row => TypeOK
  <2> SUFFICES ASSUME IInv, Flags, Plain, RInv, torn \subseteq Row PROVE TypeOK  OBVIOUS
  <2>1. saved \in FileType
    <3>1. /\ saved = [rows |-> saved.rows, first |-> saved.first, stat |-> saved.stat]
          /\ saved.first \in Nat /\ saved.stat \in Nat \cup {None}
      BY FileFields DEF IInv, Control
    <3>2. saved.rows \in Seq(Row)  BY DEF RInv, Typed
    <3> QED  BY <3>1, <3>2 DEF FileType
  <2> QED  BY <2>1 DEF IInv, Control, Flags, Plain, RInv, Typed, TypeOK
<1> QED  BY Invariance, AlwaysFlags, AlwaysPlain, AlwaysRows, AlwaysTorn, <1>1, PTL

-----------------------------------------------------------------------------
(* The rows of the file and the state of the generator                     *)

(* A position tells the block it was computed from.                        *)
DrawnAsNamed ==
  /\ \A b \in Blocks : DrawnFrom(Prior(b)) = b
  /\ \A b \in Blocks : \A k \in Walkers : \A p, q \in Position : DrawnFrom(Move(b, k, p, q)) = b
  /\ \A p \in Own : DrawnFrom(p) = 0

(* A catalog with a file has the rows of the file.                         *)
IsPrefix(s, r) == Len(s) <= Len(r) /\ \A i \in 1..Len(s) : r[i] = s[i]

Kept == attached => IsPrefix(saved.rows, rows)

LEMMA JoinedPrefix ==
  ASSUME IsSeq(rows), NEW i \in 0..NWalkers
  PROVE  IsPrefix(rows, rows \o NewRows(i))
<1>1. Len(rows \o NewRows(i)) = Len(rows) + NWalkers - i /\ Len(rows) \in Nat
  BY Joined, SeqFacts, EmptyIsSeq
<1>2. NWalkers - i >= 0  BY Sizes
<1>3. Len(rows) <= Len(rows \o NewRows(i))  BY <1>1, <1>2, Sizes
<1> QED  BY <1>3, Joined DEF IsPrefix

LEMMA PrefixOfPrefix ==
  ASSUME NEW r, NEW s, NEW t, IsSeq(r), IsSeq(s), IsSeq(t), IsPrefix(r, s), IsPrefix(s, t)
  PROVE  IsPrefix(r, t)
<1>1. Len(r) \in Nat /\ Len(s) \in Nat /\ Len(t) \in Nat  BY SeqFacts
<1> QED  BY <1>1 DEF IsPrefix

LEMMA SelfPrefix ==
  ASSUME NEW r, IsSeq(r) PROVE IsPrefix(r, r)
BY SeqFacts DEF IsPrefix

(* The rows only grow, but where the file is written anew with them.       *)
LEMMA RowsGrow ==
  ASSUME IInv, Placed, Plain, [CrashNext]_vars
  PROVE  \/ attached' = FALSE
         \/ saved'.rows = rows'
         \/ attached' = attached /\ saved'.rows \in {rows, saved.rows} /\ IsPrefix(rows, rows')
<1> USE DEF confVars, runVars, loopVars, countVars, histVars, catVars
<1>0. IsSeq(rows) /\ Len(rows) \in Nat  BY CurIdIsInt DEF IInv, Control
<1>1. CASE SetDataFile
  <2>1. saved'.rows = rows'  BY <1>1 DEF SetDataFile
  <2> QED  BY <2>1
<1>2. CASE AddRow
  <2>1. PICK p \in Own : rows' = Append(rows, p)  BY <1>2 DEF AddRow
  <2>2. PICK S : rows \in Seq(S)  BY <1>0 DEF IsSeq
  <2>3. rows \in Seq(S \cup {p})  BY <2>2
  <2>4. IsPrefix(rows, rows')  BY <2>1, <2>3 DEF IsPrefix
  <2> QED  BY <1>2, <2>4 DEF AddRow
<1>3. CASE StartRun \/ EndRun \/ SyncPoints \/ TimedSync
  <2>1. rows' = rows /\ attached' = attached /\ saved' \in {saved, Saved}
    BY <1>3 DEF StartRun, EndRun, SyncPoints, TimedSync
  <2>2. Saved.rows \in {rows, saved.rows}  BY DEF Saved
  <2> QED  BY <1>0, <2>1, <2>2, SelfPrefix
<1>4. CASE Reset \/ Crash \/ CrashInSync
  BY <1>4 DEF Reset, Crash, CrashInSync, NewProcess
<1>5. CASE Retry \/ \E n \in 1..MaxEnsembles : Trim(n)
  BY <1>5 DEF Retry, RemoveLastEnsemble, Trim
<1>6. CASE PointsDone
  <2>1. curSampleId + 1 \in 0..NWalkers
    BY <1>0, <1>6, Sizes DEF PointsDone, IInv, Stages
  <2>2. IsPrefix(rows, rows')  BY <1>0, <1>6, <2>1, JoinedPrefix DEF PointsDone
  <2> QED  BY <1>6, <2>2 DEF PointsDone
<1>7. CASE Update
  <2>1. ki \in 0..NWalkers  BY Sizes DEF IInv, Control, Walkers
  <2>2. IsPrefix(rows, rows')  BY <1>0, <1>7, <2>1, JoinedPrefix DEF Update
  <2> QED  BY <1>7, <2>2 DEF Update
<1>8. CASE UNCHANGED catVars
  BY <1>0, <1>8, SelfPrefix
<1>9. ASSUME \/ \E n \in 1..MaxEnsembles : Run(n)
             \/ \E k \in Walkers : DrawPoint(k) \/ ThreadStep(k)
             \/ Validate \/ Setup \/ NextHalf \/ UNCHANGED vars
      PROVE  UNCHANGED catVars
  BY <1>9 DEF Run, DrawPoint, ThreadStep, Propose, Decide, Validate, Setup, NextHalf, vars
<1> QED  BY <1>1, <1>2, <1>3, <1>4, <1>5, <1>6, <1>7, <1>8, <1>9
         DEF CrashNext, Next, Program, StartStep, RunStep

LEMMA KeptStep ==
  ASSUME IInv, IInv', Placed, Plain, Kept, [CrashNext]_vars PROVE Kept'
<1>1. IsSeq(rows) /\ IsSeq(rows') /\ IsSeq(saved.rows)
  BY FileFields DEF IInv, Control
<1>2. CASE attached' = FALSE  BY <1>2 DEF Kept
<1>3. CASE saved'.rows = rows'  BY <1>1, <1>3, SelfPrefix DEF Kept
<1>4. CASE attached' = attached /\ saved'.rows \in {rows, saved.rows} /\ IsPrefix(rows, rows')
  BY <1>1, <1>4, PrefixOfPrefix DEF Kept
<1> QED  BY <1>2, <1>3, <1>4, RowsGrow

LEMMA AlwaysKept == CrashSpec => []Kept
<1>1. Init => Kept
  <2> SUFFICES ASSUME Init PROVE Kept  OBVIOUS
  <2>1. attached = FALSE  BY DEF Init, StartOfProcess
  <2> QED  BY <2>1 DEF Kept
<1>2. IInv /\ IInv' /\ Placed /\ Plain /\ Kept /\ [CrashNext]_vars => Kept'  BY KeptStep
<1> QED  BY Invariance, AlwaysPlaced, AlwaysPlain, <1>1, <1>2, PTL DEF CrashSpec, CrashNext

(* What is left when the last ensemble, or what there is of it, is removed. *)
LEMMA KeptIsLess ==
  ASSUME IInv, Len(rows) >= NWalkers
  PROVE  LET rest == Len(rows) % NWalkers
             kept == Len(rows) - (IF rest = 0 THEN NWalkers ELSE rest)
         IN  kept \in Int /\ 0 <= kept /\ kept <= Len(rows)
<1> DEFINE rest == Len(rows) % NWalkers
           kept == Len(rows) - (IF rest = 0 THEN NWalkers ELSE rest)
<1>1. Len(rows) \in Nat  BY CurIdIsInt DEF IInv
<1>2. rest \in Walkers  BY <1>1, Division DEF Walkers
<1>3. kept \in Int /\ 0 <= kept /\ kept <= Len(rows)
  BY <1>1, <1>2, Sizes DEF Walkers
<1> QED  BY <1>3

-----------------------------------------------------------------------------
(* Rows and the state of the generator                                     *)

(* A position that comes from a block drawn before the state g, or from a  *)
(* sync that was cut short.                                                *)
Drawn(p, g, T) == p \in T \/ DrawnFrom(p) \in 0..g

(* The rows a state of the generator comes with were drawn before it.      *)
Ahead(r, g, T) == \A i \in 1..Len(r) : r[i] # Blank => Drawn(r[i], g, T)

FileAhead(f, T) == f.stat # None => Ahead(f.rows, f.stat, T)

WalkersAhead(T) ==
  /\ phase = "points" => \A k \in Walkers : k >= Len(rows) /\ k \notin todo => Drawn(theta[k], rng, T)
  /\ Moving => \A k \in Walkers : Drawn(theta[k], rng, T)
  /\ \A k \in busy : Drawn(star[k].to, rng, T)

GenBut(T) == Ahead(rows, rng, T) /\ FileAhead(saved, T) /\ WalkersAhead(T)

Gen == \E T : T = torn /\ GenBut(T)

LEMMA AheadGrows ==
  ASSUME NEW r, NEW T, NEW g \in Nat, NEW h \in Nat, g <= h, Ahead(r, g, T)
  PROVE  Ahead(r, h, T)
<1>1. 0..g \subseteq 0..h  OBVIOUS
<1> QED  BY <1>1 DEF Ahead, Drawn

(* More positions come from syncs that were cut short.                     *)
LEMMA AheadBut ==
  ASSUME NEW r, NEW g, NEW T, NEW U, T \subseteq U, Ahead(r, g, T)
  PROVE  Ahead(r, g, U)
BY DEF Ahead, Drawn

(* They are those of the rows that are left.                               *)
LEMMA AheadOfLeft ==
  ASSUME NEW r, NEW g, NEW T, Ahead(r, g, T)
  PROVE  Ahead(r, g, T \cap {r[i] : i \in 1..Len(r)})
BY DEF Ahead, Drawn

LEMMA AheadDrawn ==
  ASSUME NEW r, NEW g, NEW T, \A i \in 1..Len(r) : Drawn(r[i], g, T)
  PROVE  Ahead(r, g, T)
BY DEF Ahead

LEMMA AheadOfNone == ASSUME NEW g, NEW T PROVE Ahead(<<>>, g, T)
BY DEF Ahead

LEMMA AheadWritten ==
  ASSUME NEW g, NEW T, AllWritten, Ahead(rows, g, T), NEW i \in 1..Len(rows)
  PROVE  Drawn(rows[i], g, T)
<1>1. \A j \in 1..Len(rows) : rows[j] # Blank  BY BlankAssumption DEF AllWritten
<1> QED  BY <1>1 DEF Ahead

LEMMA AheadAppended ==
  ASSUME NEW r, NEW s, IsSeq(r), IsSeq(s), IsPrefix(r, s), NEW g, NEW T, Ahead(r, g, T),
         \A i \in Len(r) + 1..Len(s) : s[i] # Blank => Drawn(s[i], g, T)
  PROVE  Ahead(s, g, T)
<1>1. Len(r) \in Nat /\ Len(s) \in Nat /\ Len(r) <= Len(s)  BY SeqFacts DEF IsPrefix
<1> SUFFICES ASSUME NEW i \in 1..Len(s), s[i] # Blank
             PROVE  Drawn(s[i], g, T)
  BY DEF Ahead
<1>2. CASE i > Len(r)
  <2>1. i \in Len(r) + 1..Len(s)  BY <1>1, <1>2
  <2> QED  BY <2>1
<1>3. CASE i <= Len(r)
  <2>1. i \in 1..Len(r) /\ s[i] = r[i]  BY <1>1, <1>3 DEF IsPrefix
  <2> QED  BY <2>1 DEF Ahead
<1> QED  BY <1>1, <1>2, <1>3

(* Rows are taken away.                                                    *)
LEMMA AheadCut ==
  ASSUME NEW r, IsSeq(r), NEW n \in Int, 0 <= n, n <= Len(r), NEW g, NEW T, Ahead(r, g, T)
  PROVE  Ahead(SubSeq(r, 1, n), g, T)
<1> DEFINE s == SubSeq(r, 1, n)
<1>1. Len(r) \in Nat  BY SeqFacts
<1>2. Len(s) = n - 1 + 1 /\ \A i \in 1..n - 1 + 1 : s[i] = r[1 + i - 1]  BY Cut
<1>3. Len(s) = n /\ \A i \in 1..n : s[i] = r[i]  BY <1>2
<1> HIDE DEF s
<1>4. ASSUME NEW i \in 1..Len(s), s[i] # Blank PROVE Drawn(s[i], g, T)
  <2>1. i \in 1..Len(r) /\ s[i] = r[i]  BY <1>1, <1>3
  <2> QED  BY <1>4, <2>1 DEF Ahead
<1> QED  BY <1>4 DEF Ahead, s

LEMMA SavedAhead ==
  ASSUME NEW T, Ahead(rows, rng, T), FileAhead(saved, T) PROVE FileAhead(Saved, T)
BY DEF FileAhead, Saved

(* What a sync that was cut short leaves.                                  *)
LEMMA AheadTorn ==
  ASSUME RInv, IsSeq(saved.rows), IsPrefix(saved.rows, rows), NEW w \in Len(saved.rows)..Len(rows),
         NEW g, NEW T, Ahead(saved.rows, g, T),
         \A i \in Len(saved.rows) + 1..w : rows[i] \in T
  PROVE  Ahead(Torn(w).rows, g, T)
<1> DEFINE n == Len(rows)
           l == Len(saved.rows)
           s == [i \in 1..n |-> IF i <= w THEN rows[i] ELSE Blank]
<1>1. n \in Nat /\ l \in Nat /\ l <= w /\ w <= n /\ w \in Int
  BY SeqFacts DEF RInv, Typed
<1>2. Torn(w).rows = s /\ Len(s) = n /\ IsSeq(s)
  <2>1. \A i \in 1..n : rows[i] \in Row  BY DEF RInv, Typed
  <2>2. s \in [1..n -> Row]  BY <2>1 DEF Row
  <2> HIDE DEF n, s
  <2>3. s \in Seq(Row) /\ DOMAIN s = 1..n  BY <1>1, <2>2, SeqDef
  <2>4. Len(s) = n /\ IsSeq(s)  BY <1>1, <2>3 DEF IsSeq
  <2> QED  BY <2>4 DEF Torn, n, s
<1>3. /\ \A i \in 1..n : i <= w => s[i] = rows[i]
      /\ \A i \in 1..n : i > w => s[i] = Blank
  BY <1>1
<1> HIDE DEF s
<1>4. IsPrefix(saved.rows, s)  BY <1>1, <1>2, <1>3 DEF IsPrefix
<1>5. ASSUME NEW i \in l + 1..Len(s), s[i] # Blank PROVE Drawn(s[i], g, T)
  <2>1. i \in 1..n /\ i <= w /\ i \in l + 1..w  BY <1>1, <1>2, <1>3, <1>5
  <2> QED  BY <1>3, <2>1 DEF Drawn
<1> QED  BY <1>2, <1>4, <1>5, AheadAppended

(* What the steps of the generator and of the threads do to the walkers,   *)
(* whichever positions come from syncs that were cut short.                *)
LEMMA ProgramAhead ==
  ASSUME DrawnAsNamed, IInv, IInv', Placed, RInv, NEW T, GenBut(T), Program
  PROVE  GenBut(T)'
<1> USE DEF confVars, runVars, loopVars, countVars, histVars, catVars, GenBut
<1>0. /\ busy = {} /\ ~ Moving /\ rng \in Nat /\ Len(rows) \in Nat /\ IsSeq(rows)
      /\ Ahead(rows, rng, T) /\ FileAhead(saved, T)
      /\ phase \in {"idle", "again"}
  <2>1. phase \in {"idle", "again"}
    <3>1. CASE StartRun  BY <3>1 DEF StartRun
    <3>2. CASE ~ StartRun
      BY <3>2 DEF Program, SetDataFile, AddRow, EndRun, Reset, Run, Trim
    <3> QED  BY <3>1, <3>2
  <2> QED  BY <2>1, CurIdIsInt DEF IInv, Stages, Control, Moving, GenBut
<1>1. CASE SetDataFile
  <2>1. phase' = "idle" /\ busy' = busy  BY <1>1 DEF SetDataFile
  <2>2. WalkersAhead(T)'  BY <1>0, <2>1 DEF WalkersAhead, Moving
  <2>3. CASE /\ saved' = [rows |-> rows, first |-> firstId, stat |-> IF rows = <<>> THEN saved.stat ELSE rng]
             /\ UNCHANGED <<rows, rng>>
    <3>1. CASE rows = <<>>  BY <1>0, <2>2, <2>3, <3>1, AheadOfNone DEF FileAhead
    <3>2. CASE rows # <<>>  BY <1>0, <2>2, <2>3, <3>2 DEF FileAhead
    <3> QED  BY <3>1, <3>2
  <2>4. CASE rows' = saved.rows /\ rng' = saved.stat /\ saved.stat # None /\ saved' = saved
    BY <1>0, <2>2, <2>4 DEF FileAhead
  <2> QED  BY <1>1, <2>3, <2>4 DEF SetDataFile
<1>2. CASE AddRow
  <2>1. /\ phase' = phase /\ phase = "idle" /\ busy' = busy /\ rng' = rng
        /\ saved' = saved \/ saved' = [rows |-> rows', first |-> firstId, stat |-> rng]
        /\ \A i \in 1..Len(rows) : rows[i] \in Own
    BY <1>2 DEF AddRow
  <2>2. PICK p \in Own : rows' = Append(rows, p)  BY <1>2 DEF AddRow
  <2>3. \A i \in 1..Len(rows') : rows'[i] \in Own
    <3>1. rows \in Seq(Row)  BY DEF RInv, Typed
    <3>2. rows \in Seq(Row \cup {p})  BY <3>1
    <3> QED  BY <2>1, <2>2, <3>2
  <2>4. 0 \in 0..rng  BY <1>0
  <2>5. \A i \in 1..Len(rows') : Drawn(rows'[i], rng', T)
    BY <2>1, <2>3, <2>4 DEF DrawnAsNamed, Drawn
  <2>6. Ahead(rows', rng', T)  BY <2>5, AheadDrawn
  <2>7. FileAhead(saved', T)  BY <1>0, <2>1, <2>6 DEF FileAhead
  <2>8. WalkersAhead(T)'  BY <1>0, <2>1 DEF WalkersAhead, Moving
  <2> QED  BY <2>6, <2>7, <2>8
<1>3. CASE StartRun
  <2>1. /\ busy' = busy /\ rows' = rows /\ rng' = rng /\ saved' = Saved
        /\ phase' \in {"points", "check"}
        /\ phase' = "points" => todo' = Len(rows)..NWalkers - 1
    BY <1>3 DEF StartRun
  <2>2. phase' = "points" => \A k \in Walkers : k >= Len(rows) => k \in todo'
    BY <1>0, <2>1, Sizes DEF Walkers
  <2>3. WalkersAhead(T)'  BY <1>0, <2>1, <2>2 DEF WalkersAhead, Moving
  <2> QED  BY <1>0, <2>1, <2>3, SavedAhead
<1>4. CASE EndRun
  <2>1. phase' = phase /\ phase = "idle" /\ busy' = busy /\ rows' = rows /\ rng' = rng /\ saved' = Saved
    BY <1>4 DEF EndRun
  <2> QED  BY <1>0, <2>1, SavedAhead DEF WalkersAhead, Moving
<1>5. CASE Reset
  <2>1. phase' = phase /\ phase = "idle" /\ busy' = busy /\ rows' = <<>> /\ rng' = rng
    BY <1>5 DEF Reset
  <2>2. saved' = saved \/ saved' = [rows |-> <<>>, first |-> saved.first, stat |-> saved.stat]
    <3>1. [saved EXCEPT !.rows = <<>>] = [rows |-> <<>>, first |-> saved.first, stat |-> saved.stat]
      BY FileFields DEF IInv, Control
    <3> QED  BY <1>5, <3>1 DEF Reset
  <2>3. FileAhead(saved', T)  BY <1>0, <2>2, AheadOfNone DEF FileAhead
  <2> QED  BY <1>0, <2>1, <2>3, AheadOfNone DEF WalkersAhead, Moving
<1>6. ASSUME NEW n \in 1..MaxEnsembles, Run(n)
      PROVE  GenBut(T)'
  <2>1. phase' = "setup" /\ busy' = busy /\ rows' = rows /\ rng' = rng /\ saved' = saved
    BY <1>6 DEF Run
  <2> QED  BY <1>0, <2>1 DEF WalkersAhead, Moving
<1>7. ASSUME NEW n \in 1..MaxEnsembles, Trim(n)
      PROVE  GenBut(T)'
  <2> DEFINE m == n * NWalkers + 1
  <2>1. /\ phase = "idle" /\ started /\ phase' = phase /\ busy' = busy /\ rng' = rng
        /\ rows' = SubSeq(rows, m, Len(rows)) /\ saved'.rows = rows' /\ saved'.stat = rng
    BY <1>7 DEF Trim
  <2>2. AllWritten  BY <2>1 DEF RInv, Written
  <2>3. \A i \in 1..Len(rows) : Drawn(rows[i], rng, T)  BY <1>0, <2>2, AheadWritten
  <2>4. m \in Int /\ 1 <= m  BY Product, BoundsAssumption
  <2> HIDE DEF m
  <2>5. ASSUME NEW i \in 1..Len(rows') PROVE Drawn(rows'[i], rng, T)
    <3>1. CASE m <= Len(rows) + 1
      <4>1. /\ Len(rows') = Len(rows) - m + 1
            /\ \A j \in 1..Len(rows) - m + 1 : rows'[j] = rows[m + j - 1]
        BY <1>0, <2>1, <2>4, <3>1, Cut
      <4>2. i \in 1..Len(rows) - m + 1 /\ m + i - 1 \in 1..Len(rows)  BY <1>0, <2>4, <4>1
      <4> QED  BY <2>3, <4>1, <4>2
    <3>2. CASE m > Len(rows) + 1
      <4>1. rows' = <<>>  BY <1>0, <2>1, <2>4, <3>2 DEF RInv, Typed
      <4> QED  BY <4>1
    <3> QED  BY <1>0, <2>4, <3>1, <3>2
  <2>6. Ahead(rows', rng, T)  BY <2>5, AheadDrawn
  <2> QED  BY <1>0, <2>1, <2>6 DEF FileAhead, WalkersAhead, Moving
<1> QED  BY <1>1, <1>2, <1>3, <1>4, <1>5, <1>6, <1>7 DEF Program

LEMMA StartAhead ==
  ASSUME DrawnAsNamed, IInv, IInv', Placed, RInv, NEW T, GenBut(T), StartStep
  PROVE  GenBut(T)'
<1> USE DEF confVars, runVars, loopVars, countVars, histVars, catVars, GenBut
<1>0. /\ busy = {} /\ ~ Moving /\ rng \in Nat /\ Len(rows) \in Nat /\ IsSeq(rows) /\ IsSeq(rows')
      /\ Ahead(rows, rng, T) /\ FileAhead(saved, T) /\ WalkersAhead(T)
      /\ phase \in {"points", "synced", "check"}
  <2>1. phase \in {"points", "synced", "check"}
    BY DEF StartStep, DrawPoint, PointsDone, SyncPoints, Validate, Retry
  <2> QED  BY <2>1, CurIdIsInt DEF IInv, Stages, Control, Moving, GenBut
<1>1. ASSUME NEW k \in Walkers, DrawPoint(k)
      PROVE  GenBut(T)'
  <2>1. /\ phase = "points" /\ phase' = phase /\ busy' = busy /\ rng' = rng + 1
        /\ UNCHANGED <<rows, saved>>
    BY <1>1 DEF DrawPoint
  <2>2. rng' \in Nat /\ rng <= rng' /\ rng' \in 0..rng' /\ 0..rng \subseteq 0..rng'  BY <1>0, <2>1
  <2>3. \/ /\ theta' = [theta EXCEPT ![k] = Prior(rng')] /\ DrawnFrom(Prior(rng')) = rng'
           /\ todo' = todo \ {k}
        \/ theta' = theta /\ todo' = todo
    BY <1>1 DEF DrawPoint, DrawnAsNamed
  <2>4. ASSUME NEW j \in Walkers, j >= Len(rows), j \notin todo'
        PROVE  Drawn(theta'[j], rng', T)
    <3>1. CASE j \notin todo
      <4>1. theta'[j] = theta[j] \/ (theta'[j] = Prior(rng') /\ DrawnFrom(Prior(rng')) = rng')
        BY <2>3 DEF RInv, Typed
      <4>2. Drawn(theta[j], rng, T)  BY <1>0, <2>1, <2>4, <3>1 DEF WalkersAhead
      <4> QED  BY <2>2, <4>1, <4>2 DEF Drawn
    <3>2. CASE j \in todo
      <4>1. j = k /\ theta'[j] = Prior(rng') /\ DrawnFrom(Prior(rng')) = rng'
        BY <2>3, <2>4, <3>2 DEF RInv, Typed
      <4> QED  BY <2>2, <4>1 DEF Drawn
    <3> QED  BY <3>1, <3>2
  <2>5. WalkersAhead(T)'  BY <1>0, <2>1, <2>4 DEF WalkersAhead, Moving
  <2>6. Ahead(rows, rng', T)  BY <1>0, <2>2, AheadGrows
  <2> QED  BY <1>0, <2>1, <2>5, <2>6
<1>2. CASE PointsDone
  <2>1. /\ phase = "points" /\ phase' = "synced" /\ busy' = busy /\ todo = {}
        /\ UNCHANGED <<theta, saved, rng>>
        /\ curSampleId = Len(rows) - 1 /\ Len(rows) < NWalkers
    BY <1>2 DEF PointsDone, IInv, Stages
  <2> DEFINE n == Len(rows)
  <2>2. rows' = rows \o NewRows(n) /\ n \in 0..NWalkers
    <3>1. curSampleId + 1 = n  BY <1>0, <2>1
    <3> QED  BY <1>0, <1>2, <2>1, <3>1, Sizes DEF PointsDone
  <2>3. /\ Len(rows') = n + NWalkers - n
        /\ \A k \in Walkers : k >= n => rows'[n + k - n + 1] = theta[k]
    <3> HIDE DEF n
    <3> QED  BY <1>0, <2>2, Joined DEF n
  <2>4. IsPrefix(rows, rows')  BY <1>0, <2>2, JoinedPrefix
  <2>5. ASSUME NEW i \in n + 1..Len(rows') PROVE Drawn(rows'[i], rng, T)
    <3> DEFINE k == i - 1
    <3>1. k \in Walkers /\ k >= n /\ n + k - n + 1 = i  BY <1>0, <2>1, <2>3, Sizes DEF Walkers
    <3>2. rows'[i] = theta[k]  BY <2>3, <3>1
    <3>3. Drawn(theta[k], rng, T)  BY <1>0, <2>1, <3>1 DEF WalkersAhead
    <3> QED  BY <3>2, <3>3
  <2>6. Ahead(rows', rng, T)  BY <1>0, <2>4, <2>5, AheadAppended
  <2>7. WalkersAhead(T)'  BY <1>0, <2>1 DEF WalkersAhead, Moving
  <2> QED  BY <1>0, <2>1, <2>6, <2>7
<1>3. CASE SyncPoints
  <2>1. /\ phase' \in {"check", "idle"} /\ busy' = busy /\ UNCHANGED <<rows, rng>> /\ saved' = Saved
    BY <1>3 DEF SyncPoints
  <2> QED  BY <1>0, <2>1, SavedAhead DEF WalkersAhead, Moving
<1>4. CASE Validate
  <2>1. phase' = "idle" /\ busy' = busy /\ UNCHANGED <<rows, rng, saved>>
    BY <1>4 DEF Validate
  <2> QED  BY <1>0, <2>1 DEF WalkersAhead, Moving
<1>5. CASE Retry
  <2> DEFINE rest == Len(rows) % NWalkers
             kept == Len(rows) - (IF rest = 0 THEN NWalkers ELSE rest)
  <2>1. /\ phase = "check" /\ phase' = "again" /\ busy' = busy /\ rng' = rng
        /\ rows' = SubSeq(rows, 1, kept) /\ saved'.rows = rows' /\ saved'.stat \in {None, rng}
    BY <1>5 DEF Retry, RemoveLastEnsemble
  <2>2. kept \in Int /\ 0 <= kept /\ kept <= Len(rows)
    BY <1>0, <2>1, KeptIsLess DEF IInv, Stages
  <2> HIDE DEF kept
  <2>3. Ahead(rows', rng, T)  BY <1>0, <2>1, <2>2, AheadCut
  <2> QED  BY <1>0, <2>1, <2>3 DEF FileAhead, WalkersAhead, Moving
<1> QED  BY <1>1, <1>2, <1>3, <1>4, <1>5 DEF StartStep

LEMMA RunAhead ==
  ASSUME DrawnAsNamed, IInv, IInv', Placed, RInv, NEW T, GenBut(T), RunStep
  PROVE  GenBut(T)'
<1> USE DEF confVars, runVars, loopVars, countVars, histVars, catVars, GenBut
<1>0. /\ started /\ AllWritten /\ rng \in Nat /\ Len(rows) \in Nat /\ IsSeq(rows) /\ IsSeq(rows')
      /\ Ahead(rows, rng, T) /\ FileAhead(saved, T) /\ WalkersAhead(T)
      /\ phase \in {"setup", "lower", "upper", "sync"} /\ (phase = "setup" \/ phase = "sync" => busy = {})
  <2>1. phase \in {"setup", "lower", "upper", "sync"}
    BY DEF RunStep, Setup, NextHalf, Update, TimedSync
  <2>2. started /\ (phase = "setup" \/ phase = "sync" => busy = {})
    BY <2>1 DEF Placed, IInv, Stages, Moving
  <2>3. AllWritten  BY <2>1, <2>2 DEF RInv, Written, Moving
  <2> QED  BY <2>1, <2>2, <2>3, CurIdIsInt DEF IInv, Control, GenBut
<1>1. CASE Setup
  <2>1. /\ phase = "setup" /\ phase' \in {"lower", "upper"} /\ busy = {} /\ rng' = rng + 1
        /\ UNCHANGED <<theta, busy, rows, saved>>
    BY <1>0, <1>1 DEF Setup
  <2>2. rng' \in Nat /\ rng <= rng' /\ 0..rng \subseteq 0..rng'  BY <1>0, <2>1
  <2>3. Held = theta /\ Aligned  BY <1>0, <2>1 DEF Held, Moving, Placed
  <2>4. ASSUME NEW k \in Walkers PROVE Drawn(theta[k], rng, T) /\ Drawn(theta[k], rng', T)
    <3>1. LastIndex(k) \in 1..Len(rows)  BY <2>3, LastRowIsThere DEF IInv, Aligned
    <3>2. theta[k] = rows[LastIndex(k)]  BY <2>3 DEF Aligned
    <3>3. Drawn(rows[LastIndex(k)], rng, T)  BY <1>0, <3>1, AheadWritten
    <3> QED  BY <2>2, <3>2, <3>3 DEF Drawn
  <2>5. WalkersAhead(T)'  BY <2>1, <2>2, <2>4 DEF WalkersAhead
  <2>6. Ahead(rows, rng', T)  BY <1>0, <2>2, AheadGrows
  <2> QED  BY <1>0, <2>1, <2>5, <2>6
<1>2. CASE NextHalf
  <2>1. phase = "lower" /\ phase' = "upper" /\ UNCHANGED <<theta, busy, star, rows, saved, rng>>
    BY <1>2 DEF NextHalf
  <2> QED  BY <1>0, <2>1 DEF WalkersAhead, Moving
<1>3. CASE Update
  <2>1. /\ phase = "upper" /\ phase' = "sync" /\ busy' = {} /\ UNCHANGED <<theta, saved, rng>>
        /\ rows' = rows \o NewRows(ki) /\ ki \in 0..NWalkers /\ Moving
    BY <1>3, Sizes DEF Update, Moving, IInv, Control, Walkers
  <2> DEFINE n == Len(rows)
  <2>2. /\ Len(rows') = n + NWalkers - ki
        /\ \A k \in Walkers : k >= ki => rows'[n + k - ki + 1] = theta[k]
    BY <1>0, <2>1, Joined
  <2>3. IsPrefix(rows, rows')  BY <1>0, <2>1, JoinedPrefix
  <2>4. ASSUME NEW i \in n + 1..Len(rows') PROVE Drawn(rows'[i], rng, T)
    <3> DEFINE k == i - 1 - n + ki
    <3>1. k \in Walkers /\ k >= ki /\ n + k - ki + 1 = i
      <4> HIDE DEF n
      <4>1. n \in Nat /\ i \in Int /\ n + 1 <= i /\ i <= n + NWalkers - ki  BY <1>0, <2>1, <2>2, Sizes DEF n
      <4> QED  BY <2>1, <4>1, Sizes DEF Walkers
    <3> HIDE DEF k
    <3>2. rows'[i] = theta[k]  BY <2>2, <3>1
    <3>3. Drawn(theta[k], rng, T)  BY <1>0, <2>1, <3>1 DEF WalkersAhead
    <3> QED  BY <3>2, <3>3
  <2>5. Ahead(rows', rng, T)  BY <1>0, <2>3, <2>4, AheadAppended
  <2>6. WalkersAhead(T)'  BY <2>1 DEF WalkersAhead, Moving
  <2> QED  BY <1>0, <2>1, <2>5, <2>6
<1>4. CASE TimedSync
  <2>1. phase' \in {"idle", "setup"} /\ busy' = {} /\ UNCHANGED <<rows, rng>> /\ saved' \in {saved, Saved}
    BY <1>0, <1>4 DEF TimedSync
  <2> QED  BY <1>0, <2>1, SavedAhead DEF WalkersAhead, Moving
<1> QED  BY <1>1, <1>2, <1>3, <1>4 DEF RunStep

LEMMA ThreadAhead ==
  ASSUME DrawnAsNamed, IInv, RInv, NEW T, GenBut(T), NEW k \in Walkers, ThreadStep(k)
  PROVE  GenBut(T)'
<1> USE DEF confVars, runVars, loopVars, countVars, histVars, catVars, GenBut
<1>0. /\ Moving /\ Moving' /\ phase' = phase /\ phase # "points" /\ busy \subseteq Walkers
      /\ UNCHANGED <<rows, rng, saved>> /\ rng \in Nat
      /\ Ahead(rows, rng, T) /\ FileAhead(saved, T) /\ WalkersAhead(T)
  <2>1. Moving /\ Moving' /\ phase' = phase /\ phase # "points" /\ UNCHANGED <<rows, rng, saved>>
    BY DEF ThreadStep, Propose, Decide, IInv, Stages, Moving
  <2> QED  BY <2>1, Sizes DEF IInv, Control, Loop, LoopRange, Moving, GenBut
<1>1. CASE Propose(k)
  <2>1. k \in todo /\ busy' = busy \cup {k} /\ theta' = theta  BY <1>1 DEF Propose
  <2> DEFINE partner == theta[Partner(rng, k)]
             step == [moves |-> Accepts(rng, k, theta[k], partner), to |-> Move(rng, k, theta[k], partner)]
  <2>2. star' = [star EXCEPT ![k] = step]  BY <1>1 DEF Propose
  <2>3. k \in LoopRange /\ rng \in Blocks  BY <1>0, <2>1 DEF IInv, Loop
  <2>4. Partner(rng, k) \in Walkers  BY <1>0, <2>3, PartnerInOtherHalf
  <2>5. theta[k] \in Position /\ partner \in Position  BY <1>0, <2>4 DEF RInv, Written
  <2>6. DrawnFrom(step.to) = rng  BY <2>3, <2>5 DEF DrawnAsNamed
  <2> HIDE DEF step
  <2>7. rng \in 0..rng  BY <1>0
  <2>8. ASSUME NEW j \in busy' PROVE Drawn(star'[j].to, rng, T)
    <3>1. CASE j = k  BY <2>2, <2>6, <2>7, <3>1 DEF RInv, Typed, Drawn
    <3>2. CASE j # k
      <4>1. j \in busy  BY <2>1, <3>2
      <4>2. star'[j] = star[j]  BY <1>0, <2>2, <3>2, <4>1 DEF RInv, Typed
      <4> QED  BY <1>0, <4>1, <4>2 DEF WalkersAhead
    <3> QED  BY <3>1, <3>2
  <2>9. WalkersAhead(T)'  BY <1>0, <2>1, <2>8 DEF WalkersAhead
  <2> QED  BY <1>0, <2>9
<1>2. CASE Decide(k)
  <2>1. /\ k \in busy /\ busy' = busy \ {k} /\ star' = [star EXCEPT ![k] = Stay]
        /\ theta' = [theta EXCEPT ![k] = star[k].to] \/ theta' = theta
    BY <1>2 DEF Decide
  <2>2. Drawn(star[k].to, rng, T)  BY <1>0, <2>1 DEF WalkersAhead
  <2>3. ASSUME NEW j \in Walkers PROVE Drawn(theta'[j], rng, T)
    <3>1. theta'[j] = theta[j] \/ theta'[j] = star[k].to  BY <2>1 DEF RInv, Typed
    <3>2. Drawn(theta[j], rng, T)  BY <1>0 DEF WalkersAhead
    <3> QED  BY <2>2, <3>1, <3>2
  <2>4. ASSUME NEW j \in busy' PROVE Drawn(star'[j].to, rng, T)
    <3>1. j \in busy /\ j # k  BY <2>1
    <3>2. star'[j] = star[j]  BY <1>0, <2>1, <3>1 DEF RInv, Typed
    <3> QED  BY <1>0, <3>1, <3>2 DEF WalkersAhead
  <2>5. WalkersAhead(T)'  BY <1>0, <2>3, <2>4 DEF WalkersAhead
  <2> QED  BY <1>0, <2>5
<1> QED  BY <1>1, <1>2 DEF ThreadStep

LEMMA CrashAhead ==
  ASSUME DrawnAsNamed, IInv, RInv, Kept, Gen, Crash \/ CrashInSync
  PROVE  Gen'
<1>1. PICK T : T = torn /\ GenBut(T)  BY DEF Gen
<1>2. PICK U : U = torn'  OBVIOUS
<1>3. /\ rows' = <<>> /\ phase' = "idle" /\ busy' = {}
  BY DEF Crash, CrashInSync, NewProcess
<1>4. FileAhead(saved, T)  BY <1>1 DEF GenBut
<1>5. FileAhead(saved', U)
  <2>1. CASE Crash
    <3>1. saved' = saved /\ U = T  BY <1>1, <1>2, <2>1 DEF Crash
    <3> QED  BY <1>4, <3>1
  <2>2. CASE CrashInSync
    <3>1. PICK w \in Len(saved.rows)..Len(rows) :
            /\ saved' = Torn(w)
            /\ torn' = torn \cup {rows[i] : i \in Len(saved.rows) + 1..w}
      BY <2>2 DEF CrashInSync
    <3>2. T \subseteq U /\ \A i \in Len(saved.rows) + 1..w : rows[i] \in U
      BY <1>1, <1>2, <3>1
    <3>3. IsSeq(saved.rows) /\ IsPrefix(saved.rows, rows)
      <4>1. IsSeq(saved.rows) /\ IsSeq(rows)  BY FileFields DEF IInv, Control
      <4>2. CASE saved.rows = <<>>
        <5>1. Len(saved.rows) = 0 /\ Len(rows) \in Nat  BY <4>1, <4>2, SeqFacts
        <5> QED  BY <4>1, <5>1 DEF IsPrefix
      <4> QED  BY <2>2, <4>1, <4>2 DEF CrashInSync, Kept
    <3>4. Torn(w).stat = saved.stat  BY DEF Torn
    <3>5. CASE saved.stat # None
      <4>1. Ahead(saved.rows, saved.stat, U)  BY <1>4, <3>2, <3>5, AheadBut DEF FileAhead
      <4>2. Ahead(Torn(w).rows, saved.stat, U)  BY <3>2, <3>3, <4>1, AheadTorn
      <4> QED  BY <3>1, <3>4, <4>2 DEF FileAhead
    <3> QED  BY <3>1, <3>4, <3>5 DEF FileAhead
  <2> QED  BY <2>1, <2>2
<1>6. WalkersAhead(U)'  BY <1>3 DEF WalkersAhead, Moving
<1>7. GenBut(U)'  BY <1>3, <1>5, <1>6, AheadOfNone DEF GenBut
<1> QED  BY <1>2, <1>7 DEF Gen

(* The rows that are removed were perhaps the last ones of such a sync.    *)
LEMMA RemovedAhead ==
  ASSUME DrawnAsNamed, IInv, IInv', Placed, RInv, Gen, Retry \/ Reset
  PROVE  Gen'
<1>1. PICK T : T = torn /\ GenBut(T)  BY DEF Gen
<1>2. PICK U : U = torn'  OBVIOUS
<1>3. GenBut(T)'  BY <1>1, ProgramAhead, StartAhead DEF Program, StartStep
<1>4. /\ phase' \in {"again", "idle"} /\ busy' = {}
  <2>1. busy = {}
    BY DEF Retry, Reset, IInv, Stages, Moving
  <2> QED  BY <2>1 DEF Retry, Reset, loopVars
<1>5. WalkersAhead(U)'  BY <1>4 DEF WalkersAhead, Moving
<1>6. Ahead(rows', rng', U) /\ FileAhead(saved', U)
  <2>1. CASE Retry
    <3>1. U = T \cap {rows'[i] : i \in 1..Len(rows')} /\ saved'.rows = rows'
      BY <1>1, <1>2, <2>1 DEF Retry, RemoveLastEnsemble
    <3>2. Ahead(rows', rng', T) /\ FileAhead(saved', T)  BY <1>3 DEF GenBut
    <3> QED  BY <3>1, <3>2, AheadOfLeft DEF FileAhead
  <2>2. CASE Reset /\ attached
    <3>1. rows' = <<>> /\ saved'.rows = <<>>
      <4>1. [saved EXCEPT !.rows = <<>>] = [rows |-> <<>>, first |-> saved.first, stat |-> saved.stat]
        BY FileFields DEF IInv, Control
      <4> QED  BY <2>2, <4>1 DEF Reset
    <3> QED  BY <3>1, AheadOfNone DEF FileAhead
  <2>3. CASE Reset /\ ~ attached
    <3>1. U = T  BY <1>1, <1>2, <2>3 DEF Reset
    <3> QED  BY <1>3, <3>1 DEF GenBut
  <2> QED  BY <2>1, <2>2, <2>3
<1>7. GenBut(U)'  BY <1>5, <1>6 DEF GenBut
<1> QED  BY <1>2, <1>7 DEF Gen

LEMMA GenStep ==
  ASSUME DrawnAsNamed, IInv, IInv', Placed, RInv, Kept, Gen, [CrashNext]_vars
  PROVE  Gen'
<1>1. CASE Crash \/ CrashInSync  BY <1>1, CrashAhead
<1>2. CASE Retry \/ Reset  BY <1>2, RemovedAhead
<1>3. CASE (Next \/ UNCHANGED vars) /\ ~ Retry /\ ~ Reset
  <2>1. PICK T : T = torn /\ GenBut(T)  BY DEF Gen
  <2>2. torn' = torn  BY <1>3, TornKept
  <2>3. ASSUME Program PROVE GenBut(T)'  BY <2>1, <2>3, ProgramAhead
  <2>4. ASSUME StartStep PROVE GenBut(T)'  BY <2>1, <2>4, StartAhead
  <2>5. ASSUME RunStep PROVE GenBut(T)'  BY <2>1, <2>5, RunAhead
  <2>6. ASSUME NEW k \in Walkers, ThreadStep(k) PROVE GenBut(T)'
    BY <2>1, <2>6, ThreadAhead
  <2>7. ASSUME UNCHANGED vars PROVE GenBut(T)'
    <3>1. UNCHANGED <<rows, rng, saved, phase, todo, busy, theta, star>>
      BY <2>7 DEF vars, runVars, loopVars, catVars
    <3> QED  BY <2>1, <3>1 DEF GenBut, WalkersAhead, Moving
  <2>8. GenBut(T)'  BY <1>3, <2>3, <2>4, <2>5, <2>6, <2>7 DEF Next
  <2> QED  BY <2>1, <2>2, <2>8 DEF Gen
<1> QED  BY <1>1, <1>2, <1>3 DEF CrashNext

(* Every row of a run that may go on was computed from a block that the    *)
(* generator drew before its present state, also when the run goes on      *)
(* after a crash, at any time, in a sync too.  Excepted are, until         *)
(* start_run removes them, the positions that a sync wrote to the file     *)
(* before it died without writing the generator                            *)
(* (ncm_mset_catalog.c:1768-1782).                                         *)
THEOREM RowsFromDrawnBlocks ==
  ASSUME MovesInPosition, DrawnAsNamed PROVE CrashSpec => []GeneratorAhead
<1>1. Init => Gen
  <2> SUFFICES ASSUME Init PROVE Gen  OBVIOUS
  <2>1. rows = <<>> /\ saved.rows = <<>> /\ phase = "idle" /\ busy = {}
    BY DEF Init, StartOfProcess, NoFile
  <2>2. WalkersAhead(torn)  BY <2>1 DEF WalkersAhead, Moving
  <2>3. GenBut(torn)  BY <2>1, <2>2, AheadOfNone DEF GenBut, FileAhead
  <2> QED  BY <2>3 DEF Gen
<1>2. IInv /\ IInv' /\ Placed /\ RInv /\ Kept /\ Gen /\ [CrashNext]_vars => Gen'
  BY GenStep
<1>3. RInv /\ Gen => GeneratorAhead
  <2> SUFFICES ASSUME RInv, Gen, started, phase \in {"idle", "setup", "sync"},
                      NEW i \in 1..Len(rows)
               PROVE  rows[i] \in torn \/ DrawnFrom(rows[i]) \in 0..rng
    BY DEF GeneratorAhead
  <2>1. AllWritten  BY DEF RInv, Written
  <2>2. Ahead(rows, rng, torn)  BY DEF Gen, GenBut
  <2> QED  BY <2>1, <2>2, AheadWritten DEF Drawn
<1> QED  BY AlwaysPlaced, AlwaysRows, AlwaysKept, <1>1, <1>2, <1>3, PTL
         DEF CrashSpec, CrashNext
=============================================================================
