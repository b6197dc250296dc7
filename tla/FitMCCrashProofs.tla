-------------------------- MODULE FitMCCrashProofs --------------------------
(***************************************************************************)
(* Proofs about FitMC when its process may die at any step, in a sync too, *)
(* and a new one resume from what the file holds, for any number of        *)
(* threads, data sets and realizations.  What they say is said of the rows *)
(* that are whole: those of a sync that was cut short before it saved the  *)
(* generator are drawn again.                                              *)
(***************************************************************************)
EXTENDS FitMCProofs

Apart(a, b) == a >= b + NData \/ b >= a + NData

(* The rows of s that are not in T.                                        *)
Left(s, T) == (1..Len(s)) \ T

(* The realizations of s, but for those in T, have no draw in common and   *)
(* used none from p on.                                                    *)
Spaced(s, p, T) ==
  /\ \A i \in Left(s, T) : s[i] + NData <= p
  /\ \A i, j \in Left(s, T) : i # j => Apart(s[i], s[j])

(* The torn rows of the catalog in memory.                                 *)
Memory == IF attached THEN torn ELSE {}

(* Torn rows are rows of the file, and an open file has the first rows of  *)
(* the catalog, but for what torn rows hold.                               *)
TornInv ==
  /\ torn \subseteq 1..Len(saved.rows)
  /\ attached => /\ Len(saved.rows) <= Len(rows)
                 /\ \A i \in 1..Len(saved.rows) : rows[i] = saved.rows[i]

(* Neither in memory, where the generator may be in the midst of a         *)
(* realization, nor in the file, which may have been written then.         *)
SpacedInv ==
  /\ Spaced(rows, Position, Memory)
  /\ Spaced(saved.rows, saved.stat, torn)
  /\ \A v \in InFlight :
       /\ row[v] + NData <= Position
       /\ \A i \in Left(rows, Memory) : Apart(row[v], rows[i])
       /\ \A w \in InFlight : v # w => Apart(row[v], row[w])

(* The realizations of s, but for those in T, follow one another, and p is *)
(* where the last ends.                                                    *)
Follows(s, p, T) ==
  /\ \A i, j \in Left(s, T) :
       i < j /\ (i + 1)..(j - 1) \cap Left(s, T) = {} => s[j] = s[i] + NData
  /\ \A i \in Left(s, T) : (\A j \in Left(s, T) : j <= i) => p = s[i] + NData

FollowsInv ==
  nthreads <= 1 => Follows(rows, rng, Memory) /\ Follows(saved.rows, saved.stat, torn)

CInv == Control /\ TornInv /\ SpacedInv /\ FollowsInv

-----------------------------------------------------------------------------
(* Sequences of realizations                                               *)

LEMMA EmptySpaced ==
  ASSUME NEW s, NEW T, Left(s, T) = {}
  PROVE  \A p : Spaced(s, p, T) /\ Follows(s, p, T)
BY DEF Spaced, Follows

LEMMA EmptyLeft == \A T : Left(<<>>, T) = {}
BY DEF Left

(* Only the rows that are not in T count.                                  *)
Agree(s, T, t, U) == Left(s, T) = Left(t, U) /\ \A i \in Left(s, T) : s[i] = t[i]

LEMMA AgreeSpaced ==
  ASSUME NEW s, NEW T, NEW t, NEW U, NEW p, Agree(s, T, t, U)
  PROVE  /\ Spaced(s, p, T) => Spaced(t, p, U)
         /\ Follows(s, p, T) => Follows(t, p, U)
BY DEF Agree, Spaced, Follows

LEMMA SpacedLater ==
  ASSUME NEW s \in Seq(Nat), NEW p \in Nat, NEW q \in Nat, NEW T, p <= q, Spaced(s, p, T)
  PROVE  Spaced(s, q, T)
<1>1. ASSUME NEW i \in Left(s, T) PROVE s[i] + NData <= q
  <2>1. s[i] \in Nat /\ NData \in Nat
    BY ParametersAssumption DEF Left
  <2>2. s[i] + NData <= p
    BY DEF Spaced
  <2>. QED BY <2>1, <2>2
<1>. QED BY <1>1 DEF Spaced

LEMMA ApartSym == \A a, b : Apart(a, b) => Apart(b, a)
BY DEF Apart

(* t is s and one row more, its n-th, which is not torn.                   *)
Longer(s, t, n, r, T) ==
  /\ t \in Seq(Nat) /\ Len(t) = n /\ t[n] = r
  /\ Left(t, T) = Left(s, T) \cup {n} /\ n \notin Left(s, T)
  /\ \A i \in Left(s, T) : t[i] = s[i] /\ i < n /\ i \in Nat

LEMMA AppendLeft ==
  ASSUME NEW s \in Seq(Nat), NEW r \in Nat, NEW t, t = Append(s, r), NEW T,
         T \subseteq 1..Len(s)
  PROVE  \E n \in Nat : Longer(s, t, n, r, T)
<1>1. PICK m \in Nat : m = Len(s)
  OBVIOUS
<1>2. PICK n \in Nat : n = m + 1
  OBVIOUS
<1>3. t \in Seq(Nat) /\ Len(t) = n /\ t[n] = r /\ \A i \in 1..m : t[i] = s[i]
  BY <1>1, <1>2
<1>4. 1..n = (1..m) \cup {n} /\ n \notin 1..m /\ \A i \in 1..m : i < n /\ i \in Nat
  BY <1>2
<1>5. Left(t, T) = Left(s, T) \cup {n} /\ n \notin Left(s, T) /\ Left(s, T) \subseteq 1..m
  BY <1>1, <1>3, <1>4 DEF Left
<1>. QED BY <1>3, <1>4, <1>5 DEF Longer

LEMMA AppendSpaced ==
  ASSUME NEW s \in Seq(Nat), NEW p \in Nat, NEW r \in Nat, NEW t, t = Append(s, r), NEW T,
         T \subseteq 1..Len(s),
         Spaced(s, p, T), r + NData <= p, \A i \in Left(s, T) : Apart(r, s[i])
  PROVE  Spaced(t, p, T)
<1>1. PICK n \in Nat : Longer(s, t, n, r, T)
  BY AppendLeft
<1>2. /\ t[n] = r /\ Left(t, T) = Left(s, T) \cup {n}
      /\ \A i \in Left(s, T) : t[i] = s[i]
  BY <1>1 DEF Longer
<1>3. ASSUME NEW i \in Left(t, T) PROVE t[i] + NData <= p
  BY <1>2 DEF Spaced
<1>4. ASSUME NEW i \in Left(t, T), NEW j \in Left(t, T), i # j PROVE Apart(t[i], t[j])
  BY <1>2, <1>4, ApartSym DEF Spaced
<1>. QED BY <1>3, <1>4 DEF Spaced

(* A realization drawn where the last one ends.                            *)
LEMMA AppendDrawn ==
  ASSUME NEW s \in Seq(Nat), NEW p \in Nat, NEW t, t = Append(s, p), NEW T,
         T \subseteq 1..Len(s)
  PROVE  /\ Spaced(s, p, T) => Spaced(t, p + NData, T)
         /\ Follows(s, p, T) => Follows(t, p + NData, T)
<1>0. NData \in Nat /\ p + NData \in Nat
  BY ParametersAssumption
<1>1. ASSUME Spaced(s, p, T) PROVE Spaced(t, p + NData, T)
  <2>1. \A i \in Left(s, T) : Apart(p, s[i])
    BY <1>1 DEF Spaced, Apart
  <2>2. p <= p + NData /\ p + NData <= p + NData
    BY <1>0
  <2>3. Spaced(s, p + NData, T)
    BY <1>0, <1>1, <2>2, SpacedLater
  <2>. QED BY <1>0, <2>1, <2>2, <2>3, AppendSpaced
<1>2. ASSUME Follows(s, p, T) PROVE Follows(t, p + NData, T)
  <2>1. PICK n \in Nat : Longer(s, t, n, p, T)
    BY AppendLeft
  <2>2. /\ t[n] = p /\ Left(t, T) = Left(s, T) \cup {n} /\ n \notin Left(s, T)
        /\ \A i \in Left(s, T) : t[i] = s[i] /\ i < n /\ i \in Nat
    BY <2>1 DEF Longer
  <2>3. ASSUME NEW i \in Left(t, T), NEW j \in Left(t, T), i < j,
               (i + 1)..(j - 1) \cap Left(t, T) = {}
        PROVE  t[j] = t[i] + NData
    <3>1. i \in Left(s, T) /\ i \in Nat /\ j \in Nat
      BY <2>2, <2>3
    <3>2. CASE j = n
      <4>1. ASSUME NEW k \in Left(s, T), k > i PROVE FALSE
        <5>1. k \in (i + 1)..(j - 1)
          BY <2>2, <3>1, <3>2, <4>1
        <5>. QED BY <2>2, <2>3, <5>1
      <4>2. \A k \in Left(s, T) : k <= i
        BY <2>2, <3>1, <4>1
      <4>3. p = s[i] + NData
        BY <1>2, <3>1, <4>2 DEF Follows
      <4>. QED BY <2>2, <3>1, <3>2, <4>3
    <3>3. CASE j # n
      <4>1. j \in Left(s, T) /\ (i + 1)..(j - 1) \cap Left(s, T) = {}
        BY <2>2, <2>3, <3>3
      <4>2. s[j] = s[i] + NData
        BY <1>2, <2>3, <3>1, <4>1 DEF Follows
      <4>. QED BY <2>2, <3>1, <4>1, <4>2
    <3>. QED BY <3>2, <3>3
  <2>4. ASSUME NEW i \in Left(t, T), \A j \in Left(t, T) : j <= i
        PROVE  p + NData = t[i] + NData
    <3>1. n <= i
      BY <2>2, <2>4
    <3>2. i = n
      BY <2>2, <3>1
    <3>. QED BY <2>2, <3>2
  <2>. QED BY <2>3, <2>4 DEF Follows
<1>. QED BY <1>1, <1>2

-----------------------------------------------------------------------------
(* The program, between runs and when it dies                              *)

LEMMA PositionBound == Control => Position \in Nat /\ Position <= rng
<1>. SUFFICES ASSUME Control PROVE Position \in Nat /\ Position <= rng
  OBVIOUS
<1>1. rng \in Nat
  BY DEF Control, TypeOK
<1>2. CASE resampleLock = None
  BY <1>1, <1>2 DEF Position
<1>3. CASE resampleLock # None
  <2>1. PICK w \in Workers : w = resampleLock
    BY <1>3 DEF Control, TypeOK
  <2>2. rng = row[w] + drawn[w] /\ row[w] \in Nat /\ drawn[w] \in 0..NData
    BY <2>1 DEF Control, LockInv, DrawInv, TypeOK
  <2>. QED BY <1>3, <2>1, <2>2, ParametersAssumption DEF Position
<1>. QED BY <1>2, <1>3

(* What memory and the file hold after a step of the program was in one or *)
(* the other before, or is nothing.                                        *)
Moved ==
  /\ nthreads' = nthreads
  /\ InFlight' = {} /\ Position' = rng'
  /\ \/ rows' = <<>>
     \/ rows' = rows /\ rng' = rng /\ Memory' = Memory /\ running # "mt"
     \/ rows' = saved.rows /\ rng' = saved.stat /\ Memory' = torn
  /\ \/ Left(saved'.rows, torn') = {}
     \/ Agree(saved.rows, torn, saved'.rows, torn') /\ saved'.stat = saved.stat
     \/ saved'.rows = rows /\ torn' = Memory /\ saved'.stat = rng /\ running # "mt"

LEMMA MovedKeeps ==
  ASSUME CInv, Control', Moved, TornInv'
  PROVE  CInv'
<1>1. running # "mt" => Position = rng
  BY RestFacts DEF CInv
<1>2. Spaced(rows', rng', Memory')
  BY <1>1, EmptySpaced, EmptyLeft DEF CInv, SpacedInv, Moved
<1>3. Spaced(saved'.rows, saved'.stat, torn')
  BY <1>1, EmptySpaced, AgreeSpaced DEF CInv, SpacedInv, Moved
<1>4. SpacedInv'
  BY <1>2, <1>3 DEF SpacedInv, Moved
<1>5. FollowsInv'
  <2>. SUFFICES ASSUME nthreads' <= 1
                PROVE  Follows(rows', rng', Memory') /\ Follows(saved'.rows, saved'.stat, torn')
    BY DEF FollowsInv
  <2>1. Follows(rows, rng, Memory) /\ Follows(saved.rows, saved.stat, torn)
    BY DEF CInv, FollowsInv, Moved
  <2>2. Follows(rows', rng', Memory')
    BY <2>1, EmptySpaced, EmptyLeft DEF Moved
  <2>3. Follows(saved'.rows, saved'.stat, torn')
    BY <2>1, EmptySpaced, AgreeSpaced DEF Moved
  <2>. QED BY <2>2, <2>3
<1>. QED BY <1>4, <1>5 DEF CInv

LEMMA AgreeSame == \A s, T : Agree(s, T, s, T)
BY DEF Agree

(* A sync gives the file the rows in memory.                               *)
LEMMA SavedIs ==
  ASSUME TornInv, NEW p, saved' \in {saved, Saved(rows', p)}, UNCHANGED <<attached, torn>>,
         Len(rows') >= Len(rows), \A i \in 1..Len(rows) : rows'[i] = rows[i],
         Len(rows') \in Nat, Len(rows) \in Nat, Len(saved.rows) \in Nat
  PROVE  /\ \/ saved'.rows = saved.rows /\ saved'.stat = saved.stat
            \/ saved'.rows = rows' /\ saved'.stat = p /\ torn = Memory
         /\ TornInv' /\ Memory' = Memory
<1>1. CASE saved' = saved
  <2>1. attached => \A i \in 1..Len(saved.rows) : i \in 1..Len(rows)
    BY DEF TornInv
  <2>. QED BY <1>1, <2>1 DEF TornInv, Memory
<1>2. CASE saved' # saved
  <2>1. /\ attached /\ Len(rows') > Len(saved.rows)
        /\ saved' = [rows |-> rows', first |-> firstId, stat |-> p]
    BY <1>2 DEF Saved
  <2>2. saved'.rows = rows' /\ saved'.stat = p
    BY <2>1
  <2>3. 1..Len(saved.rows) \subseteq 1..Len(rows')
    BY <2>1
  <2>4. TornInv'
    BY <2>2, <2>3 DEF TornInv
  <2>. QED BY <2>1, <2>2, <2>4 DEF Memory
<1>. QED BY <1>1, <1>2

LEMMA CatTypes ==
  ASSUME Control
  PROVE  /\ rows \in Seq(Nat) /\ Len(rows) \in Nat
         /\ saved.rows \in Seq(Nat) /\ Len(saved.rows) \in Nat
         /\ saved = [rows |-> saved.rows, first |-> saved.first, stat |-> saved.stat]
         /\ rng \in Nat /\ torn \subseteq Nat
<1>1. /\ rows \in Seq(Nat) /\ rng \in Nat /\ torn \subseteq Nat
      /\ saved \in [rows : Seq(Nat), first : Nat, stat : Nat \cup {None}]
  BY DEF Control, TypeOK
<1>. QED BY <1>1

LEMMA ProgramMoved ==
  ASSUME Control, TornInv, Program
  PROVE  Moved /\ TornInv'
<1>0. nthreads' = nthreads
  BY DEF Program, SetDataFile, StartRun, EndRun, Reset, SetFirstSampleId, Run, confVars
<1>1. CASE SetDataFile
  <2>1. /\ InFlight' = {} /\ Position' = rng' /\ running # "mt"
        /\ ~ attached /\ attached' = TRUE /\ torn' = torn /\ Memory = {} /\ Memory' = torn
    BY <1>1, SetDataFileControl DEF SetDataFile, histVars, Memory
  <2>2. CASE /\ saved.rows = <<>>
             /\ saved' = [rows |-> rows, first |-> firstId,
                          stat |-> IF rows = <<>> THEN saved.stat ELSE rng]
             /\ UNCHANGED <<rows, rng>>
    <3>1. torn = {}
      BY <2>2 DEF TornInv
    <3>2. saved'.rows = rows /\ (rows # <<>> => saved'.stat = rng)
      BY <2>2
    <3>3. TornInv'
      BY <2>1, <2>2, <3>1, <3>2, CatTypes DEF TornInv
    <3>4. \/ Left(saved'.rows, torn') = {}
          \/ saved'.rows = rows /\ torn' = Memory /\ saved'.stat = rng /\ running # "mt"
      BY <2>1, <3>1, <3>2, EmptyLeft
    <3>. QED BY <1>0, <2>1, <2>2, <3>1, <3>3, <3>4 DEF Moved
  <2>3. CASE Loaded /\ UNCHANGED saved
    <3>1. rows' = saved.rows /\ rng' = saved.stat
      BY <2>3 DEF Loaded
    <3>2. TornInv'
      BY <2>1, <2>3, <3>1, CatTypes DEF TornInv
    <3>. QED BY <1>0, <2>1, <2>3, <3>1, <3>2, AgreeSame DEF Moved
  <2>. QED BY <1>1, <2>2, <2>3 DEF SetDataFile
<1>2. ASSUME InFlight' = {}, Position' = rng', running # "mt",
             UNCHANGED <<rows, rng, attached, torn>>, saved' \in {saved, Saved(rows, rng)}
      PROVE  Moved /\ TornInv'
  <2>1. /\ \/ saved'.rows = saved.rows /\ saved'.stat = saved.stat
           \/ saved'.rows = rows /\ saved'.stat = rng /\ torn = Memory
        /\ TornInv' /\ Memory' = Memory
    <3>1. rows' = rows /\ saved' \in {saved, Saved(rows', rng)}
      BY <1>2
    <3>2. /\ Len(rows') >= Len(rows) /\ Len(rows') \in Nat /\ Len(rows) \in Nat
          /\ Len(saved.rows) \in Nat /\ \A i \in 1..Len(rows) : rows'[i] = rows[i]
      BY <3>1, CatTypes
    <3>. QED BY <1>2, <3>1, <3>2, SavedIs
  <2>. QED BY <1>0, <1>2, <2>1, AgreeSame DEF Moved
<1>3. CASE StartRun
  <2>1. InFlight' = {} /\ Position' = rng' /\ running # "mt"
    BY <1>3, StartRunControl
  <2>. QED BY <1>2, <1>3, <2>1 DEF StartRun, histVars
<1>4. CASE EndRun
  <2>1. InFlight' = {} /\ Position' = rng'
    BY <1>4, EndRunControl
  <2>. QED BY <1>2, <1>4, <2>1 DEF EndRun, histVars
<1>5. CASE Reset
  <2>1. InFlight' = {} /\ Position' = rng' /\ rows' = <<>> /\ ~ attached'
    BY <1>5, ResetControl DEF Reset
  <2>2. CASE attached
    <3>1. torn' = {} /\ saved' = [saved EXCEPT !.rows = <<>>]
      BY <1>5, <2>2 DEF Reset
    <3>2. saved'.rows = <<>>
      BY <3>1, CatTypes
    <3>. QED BY <1>0, <2>1, <3>1, <3>2, EmptyLeft DEF Moved, TornInv
  <2>3. CASE ~ attached
    <3>1. torn' = torn /\ saved' = saved
      BY <1>5, <2>3 DEF Reset
    <3>. QED BY <1>0, <2>1, <3>1, AgreeSame DEF Moved, TornInv
  <2>. QED BY <2>2, <2>3
<1>6. \A n \in 1..MaxN : n \in Nat
  BY BoundsAssumption
<1>7. ASSUME NEW id \in 1..MaxN, SetFirstSampleId(id) PROVE Moved /\ TornInv'
  <2>1. InFlight' = {} /\ Position' = rng'
    BY <1>6, <1>7, SetFirstSampleIdControl
  <2>2. UNCHANGED <<rows, rng, attached, torn>> /\ running # "mt"
    BY <1>7 DEF SetFirstSampleId, histVars
  <2>3. saved'.rows = saved.rows /\ saved'.stat = saved.stat
    <3>1. saved' = saved \/ saved' = [saved EXCEPT !.first = id]
      BY <1>7 DEF SetFirstSampleId
    <3>. QED BY <3>1, CatTypes
  <2>. QED BY <1>0, <2>1, <2>2, <2>3, AgreeSame DEF Moved, TornInv, Memory
<1>8. ASSUME NEW n \in 1..MaxN, Run(n) PROVE Moved /\ TornInv'
  <2>1. InFlight' = {} /\ Position' = rng'
    BY <1>6, <1>8, RunControl
  <2>2. UNCHANGED <<rows, rng, attached, torn, saved>> /\ running # "mt"
    BY <1>8 DEF Run, catVars
  <2>. QED BY <1>2, <2>1, <2>2
<1>. QED BY <1>1, <1>3, <1>4, <1>5, <1>7, <1>8 DEF Program

(* A new process starts as the first one did, but for the file.            *)
LEMMA NewProcessControl ==
  ASSUME Control, NewProcess, torn' \subseteq Nat,
         saved' \in [rows : Seq(Nat), first : Nat, stat : Nat \cup {None}]
  PROVE  Control' /\ InFlight' = {} /\ Position' = rng'
<1>1. nthreads' \in Threads /\ keepOrder' \in Orders
  BY DEF Control, TypeOK, NewProcess, confVars
<1>2. /\ pc' \in [Workers -> Location] /\ row' \in [Workers -> Nat]
      /\ index' \in [Workers -> Int]
  BY DEF NewProcess, AllIdle, Zero, Location
<1>3. drawn' \in [Workers -> 0..NData]
  BY ParametersAssumption DEF NewProcess, Zero
<1>4. /\ started' = FALSE /\ attached' = FALSE /\ running' = "no"
      /\ resampleLock' = None /\ updateLock' = None /\ rows' = <<>>
      /\ curSampleId' = -1 /\ writeIndex' = 0 /\ left' = 0 /\ rng' = 1 /\ firstId' = 0
      /\ asked' = 0
  BY DEF NewProcess
<1>5. /\ curSampleId' \in Int /\ curSampleId' >= -1
      /\ writeIndex' \in Nat /\ left' \in Nat /\ rng' \in Nat /\ firstId' \in Nat
      /\ asked' \in Nat
  BY <1>4
<1>6. rows' \in Seq(Nat)
  BY <1>4
<1>7. TypeOK'
  BY <1>1, <1>2, <1>3, <1>4, <1>5, <1>6 DEF TypeOK
<1>8. \A w \in Workers : pc'[w] = "idle" /\ drawn'[w] = 0
  BY DEF NewProcess, AllIdle, Zero
<1>9. LockInv' /\ DrawInv' /\ RunInv'
  BY <1>4, <1>5, <1>8, WorkersAssumption DEF LockInv, DrawInv, RunInv
<1>10. InFlight' = {} /\ Position' = rng'
  BY <1>4, <1>8 DEF InFlight, Position
<1>. QED BY <1>7, <1>9, <1>10 DEF Control

LEMMA CrashMoved ==
  ASSUME Control, TornInv, Crash
  PROVE  Control' /\ Moved /\ TornInv'
<1>1. NewProcess /\ saved' = saved /\ torn' = torn
  BY DEF Crash
<1>2. Control' /\ InFlight' = {} /\ Position' = rng'
  BY <1>1, NewProcessControl DEF Control, TypeOK
<1>3. rows' = <<>> /\ ~ attached' /\ nthreads' = nthreads
  BY <1>1 DEF NewProcess, confVars
<1>. QED BY <1>1, <1>2, <1>3, AgreeSame DEF Moved, TornInv

(* A sync that is cut short leaves the rows that were whole.               *)
LEMMA CrashInSyncMoved ==
  ASSUME Control, TornInv, CrashInSync
  PROVE  Control' /\ Moved /\ TornInv'
<1>0. PICK m \in Nat, n \in Nat : m = Len(saved.rows) /\ n = Len(rows)
  BY CatTypes
<1>1. /\ NewProcess /\ n > m
      /\ attached \/ saved.rows = <<>>
      /\ torn' = torn \cup (m + 1)..n
  BY <1>0 DEF CrashInSync
<1>2. PICK written \in m..n :
        saved' = [rows |-> [i \in 1..n |-> IF i <= written THEN rows[i] ELSE Blank],
                  first |-> firstId, stat |-> saved.stat]
  BY <1>0 DEF CrashInSync, Torn
<1>3. /\ saved'.rows = [i \in 1..n |-> IF i <= written THEN rows[i] ELSE Blank]
      /\ saved'.stat = saved.stat
  BY <1>2
<1>4. \A i \in 1..n : (IF i <= written THEN rows[i] ELSE Blank) \in Nat
  BY <1>0, CatTypes DEF Blank
<1>5. saved'.rows \in Seq(Nat) /\ Len(saved'.rows) = n
  BY <1>3, <1>4
<1>6. saved' \in [rows : Seq(Nat), first : Nat, stat : Nat \cup {None}]
  BY <1>2, <1>3, <1>5 DEF Control, TypeOK
<1>7. torn' \subseteq Nat
  BY <1>0, <1>1, CatTypes
<1>8. Control' /\ InFlight' = {} /\ Position' = rng'
  BY <1>1, <1>6, <1>7, NewProcessControl
<1>9. rows' = <<>> /\ ~ attached' /\ nthreads' = nthreads
  BY <1>1 DEF NewProcess, confVars
<1>10. torn \subseteq 1..m
  BY <1>0 DEF TornInv
<1>11. TornInv'
  BY <1>1, <1>5, <1>9, <1>10 DEF TornInv
<1>12. Left(saved'.rows, torn') = Left(saved.rows, torn)
  <2>1. (1..n) \ (torn \cup (m + 1)..n) = (1..m) \ torn
    BY <1>1
  <2>. QED BY <1>0, <1>1, <1>5, <2>1 DEF Left
<1>13. ASSUME NEW i \in Left(saved.rows, torn) PROVE saved.rows[i] = saved'.rows[i]
  <2>1. i \in 1..m /\ i \in 1..n /\ i <= written
    BY <1>0, <1>1 DEF Left
  <2>2. saved'.rows[i] = rows[i]
    BY <1>3, <2>1
  <2>3. attached
    BY <1>0, <1>1, <2>1
  <2>. QED BY <1>0, <2>1, <2>2, <2>3 DEF TornInv
<1>14. Agree(saved.rows, torn, saved'.rows, torn')
  BY <1>12, <1>13 DEF Agree
<1>. QED BY <1>3, <1>8, <1>9, <1>11, <1>14 DEF Moved

-----------------------------------------------------------------------------
(* The runs                                                                *)

(* A row is added, and the file may be synced.                             *)
LEMMA AddedRow ==
  ASSUME Control, TornInv, NEW r \in Nat, NEW p, rows' = Append(rows, r),
         saved' \in {saved, Saved(rows', p)}, UNCHANGED <<attached, torn>>
  PROVE  /\ \/ saved'.rows = saved.rows /\ saved'.stat = saved.stat
            \/ saved'.rows = rows' /\ saved'.stat = p /\ torn = Memory
         /\ TornInv' /\ Memory' = Memory /\ Memory \subseteq 1..Len(rows)
<1>1. PICK n \in Nat : n = Len(rows)
  BY CatTypes
<1>2. Len(rows') = n + 1 /\ \A i \in 1..n : rows'[i] = rows[i]
  BY <1>1, CatTypes
<1>3. Len(rows') >= Len(rows) /\ Len(rows') \in Nat
  BY <1>1, <1>2
<1>4. Memory \subseteq 1..Len(rows)
  BY <1>1, CatTypes DEF Memory, TornInv
<1>5. /\ Len(rows) \in Nat /\ Len(saved.rows) \in Nat
      /\ \A i \in 1..Len(rows) : rows'[i] = rows[i]
  BY <1>1, <1>2, CatTypes
<1>6. /\ \/ saved'.rows = saved.rows /\ saved'.stat = saved.stat
         \/ saved'.rows = rows' /\ saved'.stat = p /\ torn = Memory
      /\ TornInv' /\ Memory' = Memory
  BY <1>3, <1>5, SavedIs
<1>. QED BY <1>4, <1>6

LEMMA RealizeCInv ==
  ASSUME CInv, Realize
  PROVE  CInv'
<1>0. Control /\ TornInv
  BY DEF CInv
<1>1. Control' /\ InFlight' = {} /\ Position' = rng' /\ running = "single"
  BY <1>0, RealizeControl
<1>2. Position = rng
  BY <1>0, <1>1, RestFacts
<1>3. /\ rows' = Append(rows, rng) /\ rng' = rng + NData
      /\ saved' \in {saved, Saved(rows', rng')}
      /\ UNCHANGED <<nthreads, attached, torn>>
  BY DEF Realize, AddRow, confVars, histVars
<1>4. rows \in Seq(Nat) /\ rng \in Nat
  BY <1>0, CatTypes
<1>5. /\ \/ saved'.rows = saved.rows /\ saved'.stat = saved.stat
         \/ saved'.rows = rows' /\ saved'.stat = rng' /\ torn = Memory
      /\ TornInv' /\ Memory' = Memory /\ Memory \subseteq 1..Len(rows)
  BY <1>0, <1>3, <1>4, AddedRow
<1>6. /\ Spaced(rows', rng', Memory)
      /\ Follows(rows, rng, Memory) => Follows(rows', rng', Memory)
  BY <1>2, <1>3, <1>4, <1>5, AppendDrawn DEF CInv, SpacedInv
<1>7. Spaced(saved'.rows, saved'.stat, torn)
  BY <1>5, <1>6 DEF CInv, SpacedInv
<1>8. SpacedInv'
  BY <1>1, <1>3, <1>5, <1>6, <1>7 DEF SpacedInv
<1>9. FollowsInv'
  BY <1>3, <1>5, <1>6 DEF CInv, FollowsInv
<1>. QED BY <1>1, <1>5, <1>8, <1>9 DEF CInv

(* A multi-threaded run has more than one thread.                          *)
LEMMA ThreadsFollow ==
  ASSUME Control, running = "mt", UNCHANGED KeptByThreads
  PROVE  FollowsInv'
<1>1. nthreads > 1 /\ nthreads \in Nat /\ nthreads' = nthreads
  BY ParametersAssumption DEF Control, TypeOK, RunInv, KeptByThreads
<1>2. ~ (nthreads' <= 1)
  BY <1>1
<1>. QED BY <1>2 DEF FollowsInv

(* The realization drawn starts where all others had ended.                *)
LEMMA UnlockResampleCInv ==
  ASSUME CInv, NEW w \in Workers, UnlockResample(w)
  PROVE  CInv'
<1>1. /\ Control' /\ running = "mt" /\ UNCHANGED KeptByThreads
      /\ UNCHANGED <<rows, saved, row>>
      /\ w \notin InFlight /\ InFlight' = InFlight \cup {w}
      /\ Position = row[w] /\ Position' = row[w] + NData
  BY UnlockResampleControl DEF CInv
<1>2. /\ rows \in Seq(Nat) /\ NData \in Nat /\ \A v \in Workers : row[v] \in Nat
      /\ InFlight \subseteq Workers
  BY ParametersAssumption DEF CInv, Control, TypeOK, InFlight
<1>3. Memory' = Memory /\ torn' = torn /\ TornInv'
  BY <1>1 DEF KeptByThreads, Memory, TornInv, CInv
<1>4. Spaced(rows', Position', Memory')
  <2>1. row[w] \in Nat /\ row[w] + NData \in Nat /\ row[w] <= row[w] + NData
    BY <1>2
  <2>2. Spaced(rows, row[w], Memory)
    BY <1>1 DEF CInv, SpacedInv
  <2>3. Spaced(rows, row[w] + NData, Memory)
    BY <1>2, <2>1, <2>2, SpacedLater
  <2>. QED BY <1>1, <1>3, <2>3
<1>5. \A i \in Left(rows, Memory) : Apart(row[w], rows[i])
  BY <1>1 DEF CInv, SpacedInv, Spaced, Apart
<1>6. \A v \in InFlight : row[v] + NData <= row[w]
  BY <1>1 DEF CInv, SpacedInv
<1>7. \A v \in InFlight : row[v] + NData <= row[w] + NData
  BY <1>2, <1>6
<1>8. ASSUME NEW v \in InFlight'
      PROVE  /\ row'[v] + NData <= Position'
             /\ \A i \in Left(rows', Memory') : Apart(row'[v], rows'[i])
             /\ \A u \in InFlight' : v # u => Apart(row'[v], row'[u])
  <2>1. row'[v] + NData <= Position'
    BY <1>1, <1>2, <1>7
  <2>2. \A i \in Left(rows', Memory') : Apart(row'[v], rows'[i])
    BY <1>1, <1>3, <1>5 DEF CInv, SpacedInv
  <2>3. ASSUME NEW u \in InFlight', v # u PROVE Apart(row'[v], row'[u])
    <3>1. CASE v = w
      BY <1>1, <1>6, <2>3, <3>1 DEF Apart
    <3>2. CASE u = w
      BY <1>1, <1>6, <2>3, <3>2 DEF Apart
    <3>3. CASE v # w /\ u # w
      BY <1>1, <2>3, <3>3 DEF CInv, SpacedInv
    <3>. QED BY <3>1, <3>2, <3>3
  <2>. QED BY <2>1, <2>2, <2>3
<1>9. Spaced(saved'.rows, saved'.stat, torn')
  BY <1>1, <1>3 DEF CInv, SpacedInv
<1>10. SpacedInv'
  BY <1>4, <1>8, <1>9 DEF SpacedInv
<1>11. FollowsInv'
  BY <1>1, ThreadsFollow DEF CInv
<1>. QED BY <1>1, <1>3, <1>10, <1>11 DEF CInv

(* The file may be written while another thread draws.                     *)
LEMMA WriteCInv ==
  ASSUME CInv, NEW w \in Workers, Write(w)
  PROVE  CInv'
<1>1. /\ Control' /\ running = "mt" /\ UNCHANGED KeptByThreads
      /\ row[w] \in Nat
      /\ rows' = Append(rows, row[w])
      /\ saved' \in {saved, Saved(rows', rng)}
      /\ row' = row /\ rng' = rng
      /\ w \in InFlight /\ InFlight' = InFlight \ {w}
      /\ Position' = Position
  BY WriteControl DEF CInv
<1>2. rows \in Seq(Nat) /\ rows' \in Seq(Nat) /\ rng \in Nat
  BY <1>1, CatTypes DEF CInv, Control, TypeOK
<1>3. Position \in Nat /\ Position <= rng
  BY PositionBound DEF CInv
<1>4. /\ \/ saved'.rows = saved.rows /\ saved'.stat = saved.stat
         \/ saved'.rows = rows' /\ saved'.stat = rng /\ torn = Memory
      /\ TornInv' /\ Memory' = Memory /\ Memory \subseteq 1..Len(rows) /\ torn' = torn
  <2>1. UNCHANGED <<attached, torn>>
    BY <1>1 DEF KeptByThreads
  <2>. QED BY <1>1, <2>1, AddedRow DEF CInv
<1>5. Spaced(rows', Position, Memory)
  <2>1. /\ Spaced(rows, Position, Memory) /\ row[w] + NData <= Position
        /\ \A i \in Left(rows, Memory) : Apart(row[w], rows[i])
    BY <1>1 DEF CInv, SpacedInv
  <2>. QED BY <1>1, <1>2, <1>3, <1>4, <2>1, AppendSpaced
<1>6. Spaced(rows', rng, Memory)
  BY <1>2, <1>3, <1>5, SpacedLater
<1>7. Spaced(saved'.rows, saved'.stat, torn)
  BY <1>4, <1>6 DEF CInv, SpacedInv
<1>8. ASSUME NEW v \in InFlight'
      PROVE  /\ row'[v] + NData <= Position'
             /\ \A i \in Left(rows', Memory) : Apart(row'[v], rows'[i])
             /\ \A u \in InFlight' : v # u => Apart(row'[v], row'[u])
  <2>1. /\ v \in InFlight /\ v # w
        /\ row[v] + NData <= Position
        /\ \A i \in Left(rows, Memory) : Apart(row[v], rows[i])
        /\ \A u \in InFlight : v # u => Apart(row[v], row[u])
    BY <1>1 DEF CInv, SpacedInv
  <2>2. PICK n \in Nat : Longer(rows, rows', n, row[w], Memory)
    BY <1>1, <1>2, <1>4, AppendLeft
  <2>3. /\ rows'[n] = row[w] /\ Left(rows', Memory) = Left(rows, Memory) \cup {n}
        /\ \A i \in Left(rows, Memory) : rows'[i] = rows[i]
    BY <2>2 DEF Longer
  <2>4. \A i \in Left(rows', Memory) : Apart(row[v], rows'[i])
    BY <1>1, <2>1, <2>3
  <2>. QED BY <1>1, <2>1, <2>4
<1>9. SpacedInv'
  BY <1>1, <1>4, <1>5, <1>7, <1>8 DEF SpacedInv
<1>10. FollowsInv'
  BY <1>1, ThreadsFollow DEF CInv
<1>. QED BY <1>1, <1>4, <1>9, <1>10 DEF CInv

LEMMA SameSpaced ==
  ASSUME CInv, Control', UNCHANGED <<rows, saved, attached, torn>>, InFlight' = InFlight,
         Position' = Position, \A v \in InFlight : row'[v] = row[v], FollowsInv'
  PROVE  CInv'
<1>1. Memory' = Memory /\ TornInv'
  BY DEF Memory, TornInv, CInv
<1>. QED BY <1>1 DEF CInv, SpacedInv

LEMMA NextCInv ==
  ASSUME CInv, [Next \/ Crash \/ CrashInSync]_vars
  PROVE  CInv'
<1>0. Control /\ TornInv
  BY DEF CInv
<1>1. CASE Program
  BY <1>0, <1>1, ProgramControl, ProgramMoved, MovedKeeps
<1>2. CASE Crash
  BY <1>0, <1>2, CrashMoved, MovedKeeps
<1>3. CASE CrashInSync
  BY <1>0, <1>3, CrashInSyncMoved, MovedKeeps
<1>4. CASE Realize
  BY <1>4, RealizeCInv
<1>5. ASSUME UNCHANGED <<rows, saved, attached, torn, row, rng, nthreads>>,
             Control', InFlight' = InFlight, Position' = Position
      PROVE  CInv'
  <2>1. FollowsInv'
    BY <1>5 DEF CInv, FollowsInv, Memory
  <2>. QED BY <1>5, <2>1, SameSpaced
<1>6. CASE ReturnRun
  <2>1. Control' /\ InFlight' = InFlight /\ Position' = Position
    BY <1>0, <1>6, ReturnRunControl
  <2>2. UNCHANGED <<rows, saved, attached, torn, row, rng, nthreads>>
    BY <1>6 DEF ReturnRun, catVars, threadVars, confVars, histVars
  <2>. QED BY <1>5, <2>1, <2>2
<1>7. ASSUME NEW w \in Workers, ThreadStep(w) PROVE CInv'
  <2>1. CASE Control' /\ Quiet
    <3>1. FollowsInv'
      BY <1>0, <2>1, ThreadsFollow DEF Quiet
    <3>. QED BY <2>1, <3>1, SameSpaced DEF Quiet, KeptByThreads
  <2>. QED BY <1>0, <1>7, <2>1, ThreadSteps, UnlockResampleCInv, WriteCInv
<1>8. CASE UNCHANGED vars
  <2>1. Control' /\ InFlight' = InFlight /\ Position' = Position
    BY <1>0, <1>8, StutterControl
  <2>2. UNCHANGED <<rows, saved, attached, torn, row, rng, nthreads>>
    BY <1>8 DEF vars
  <2>. QED BY <1>5, <2>1, <2>2
<1>. QED BY <1>1, <1>2, <1>3, <1>4, <1>6, <1>7, <1>8 DEF Next, RunStep

-----------------------------------------------------------------------------
(* The theorems                                                            *)

LEMMA InitCInv == Init => CInv
<1>. SUFFICES ASSUME Init PROVE CInv
  OBVIOUS
<1>1. rows = <<>> /\ saved.rows = <<>> /\ InFlight = {} /\ torn = {} /\ ~ attached
  BY DEF Init, NoFile, AllIdle, InFlight
<1>2. TornInv
  BY <1>1 DEF TornInv
<1>. QED BY <1>1, <1>2, InitControl, EmptyLeft, EmptySpaced DEF CInv, SpacedInv, FollowsInv

(* The invariant holds wherever processes die, in a sync too.              *)
THEOREM CrashInvariance == TornSpec => []CInv
<1>1. Init => CInv
  BY InitCInv
<1>2. CInv /\ [Next \/ Crash \/ CrashInSync]_vars => CInv'
  BY NextCInv
<1>. QED BY <1>1, <1>2, PTL DEF TornSpec

(* No draw of the generator is used by two rows of the catalog, whichever  *)
(* of the threads is drawing when the file is written (ncm_fit_mc.c:740-   *)
(* 811), wherever the process dies and as often as a run is resumed, but   *)
(* for the rows of a sync that was cut short before it saved the generator *)
(* (ncm_mset_catalog.c:1765-1782).                                         *)
THEOREM DrawsUsedOnce == TornSpec => []NoDrawUsedTwice
<1>1. CInv => NoDrawUsedTwice
  BY DEF CInv, SpacedInv, Spaced, Left, Memory, Whole, Apart, NoDrawUsedTwice
<1>. QED BY <1>1, CrashInvariance, PTL

(* On one thread a run resumed after a death goes on with the realization  *)
(* that follows the last row whose sync was not cut short.                 *)
THEOREM ResumedInOrder == TornSpec => []ResumesInOrder
<1>1. CInv => ResumesInOrder
  BY DEF CInv, FollowsInv, Follows, Left, Memory, Whole, ResumesInOrder
<1>. QED BY <1>1, CrashInvariance, PTL

(* On one thread the file has, at every moment a process may die, the      *)
(* generator as it was right after the last row whose sync was not cut     *)
(* short (ncm_fit_mc.c:740-760).                                           *)
THEOREM FileContinues == TornSpec => []SavedContinues
<1>1. CInv => SavedContinues
  BY DEF CInv, FollowsInv, Follows, Left, WholeSaved, SavedContinues
<1>. QED BY <1>1, CrashInvariance, PTL
=============================================================================
