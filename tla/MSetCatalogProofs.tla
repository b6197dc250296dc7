------------------------- MODULE MSetCatalogProofs -------------------------
(***************************************************************************)
(* The catalog of MCMSetCatalog, with any files, draws, rows and burn-in:  *)
(* its ids are those of the rows there are, no sync can fail, memory and   *)
(* file agree, an interrupted run has the rows of one that was not, and    *)
(* opening a file joins it with what is in memory.                         *)
(*                                                                         *)
(* The proof follows the calls of the code from the inside.  What writing, *)
(* reading, inserting and prepending do to tables is said first by         *)
(* position and then by row id.  Rows are added to the chains and to the   *)
(* ensembles one after the other; what a list of them leaves follows from  *)
(* what one leaves (OneByOne), for types (AddRowsTyped) and for chains and *)
(* ensembles that are those of the rows (Whole).  Each half of sync only   *)
(* brings rows from one side to the other (Brings), which is transitive,   *)
(* so that all of sync does (Synced), and opening a file leaves each row   *)
(* its id (OpenedReady).  On this rest the parts of the invariant:         *)
(*   Kept        memory and the open file never come apart                 *)
(*   InOrderAll  memory and every file have the draws in order             *)
(*   Typed       no row is blank, in memory or in a file, and the chains   *)
(*               have the rows of their ids                                *)
(* Last comes the catalog of EditSpec, whose rows are also dropped.  Its   *)
(* memory and open file are Kept too, on any files; if there is one file   *)
(* it is a beginning of the memory, has the draws in order, and chains and *)
(* ensembles are those of the rows (Edited).                               *)
(***************************************************************************)
EXTENDS MCMSetCatalog, SequenceTheorems, FiniteSetTheorems, WellFoundedInduction, TLAPS

-----------------------------------------------------------------------------
(* Rows are added one after the other                                      *)

(* What holds of 0, and of n + 1 when it holds of n, holds of every n: a   *)
(* least number of which it did not would have one below.                  *)
LEMMA OneByOne ==
  ASSUME NEW T, 0 \in T, \A n \in Nat : n \in T => n + 1 \in T PROVE \A n \in Nat : n \in T
<1> SUFFICES ASSUME NEW m \in Nat, m \notin T PROVE FALSE  OBVIOUS
<1>1. PICK x \in Nat \ T : \A y \in Nat \ T : ~ (<<y, x>> \in OpToRel(<, Nat))
  <2>1. Nat \ T \in SUBSET Nat /\ Nat \ T # {}  OBVIOUS
  <2> QED  BY <2>1, NatLessThanWellFounded, WFMin
<1>2. x \in Nat /\ x # 0  OBVIOUS
<1>3. x - 1 \in Nat /\ x - 1 < x /\ (x - 1) + 1 = x  BY <1>2
<1>4. x - 1 \in T  BY <1>1, <1>2, <1>3 DEF OpToRel
<1> QED  BY <1>2, <1>3, <1>4

(* t is what there is after each of the rows.                              *)
AddsEach(s, first, rows, t) ==
  /\ t[0] = s
  /\ \A n \in 1..Len(rows) : t[n] = AddRow(t[n - 1], first + n - 1, rows[n])

(* The recursive function of AddRows is defined.                           *)
LEMMA AddRowsIs ==
  ASSUME NEW s, NEW first, NEW rows, Len(rows) \in Nat
  PROVE  \E t : /\ AddsEach(s, first, rows, t)
                /\ AddRows(s, first, rows) =
                     [ pstats |-> s.pstats \o rows, chains |-> t[Len(rows)].chains,
                       eStats |-> t[Len(rows)].eStats, eMean |-> t[Len(rows)].eMean ]
<1> DEFINE One(g, i) == IF i = 0 THEN s ELSE AddRow(g[i - 1], first + i - 1, rows[i])
           T == {n \in Nat : \E g : g = [i \in 0..n |-> One(g, i)]}
<1>1. 0 \in T
  <2> DEFINE g == [i \in 0..0 |-> s]
  <2>1. g = [i \in 0..0 |-> One(g, i)]  OBVIOUS
  <2> QED  BY <2>1
<1>2. ASSUME NEW n \in Nat, n \in T PROVE n + 1 \in T
  <2>1. PICK g : g = [i \in 0..n |-> One(g, i)]  BY <1>2
  <2> DEFINE h == [i \in 0..n + 1 |-> IF i = n + 1 THEN One(g, i) ELSE g[i]]
  <2>2. ASSUME NEW i \in 0..n + 1 PROVE h[i] = One(h, i)
    <3>1. i # 0 => h[i - 1] = g[i - 1]  OBVIOUS
    <3>2. One(h, i) = One(g, i)  BY <3>1
    <3>3. i \in 0..n => g[i] = One(g, i)  BY <2>1
    <3> QED  BY <3>2, <3>3
  <2>3. h = [i \in 0..n + 1 |-> h[i]]  OBVIOUS
  <2> HIDE DEF h
  <2>4. h = [i \in 0..n + 1 |-> One(h, i)]  BY <2>2, <2>3
  <2> QED  BY <2>4
<1>3. Len(rows) \in T
  <2> HIDE DEF T
  <2> QED  BY <1>1, <1>2, OneByOne
<1> DEFINE t == CHOOSE g : g = [i \in 0..Len(rows) |-> One(g, i)]
<1>4. t = [i \in 0..Len(rows) |-> One(t, i)]  BY <1>3
<1>5. AddRows(s, first, rows) =
        [ pstats |-> s.pstats \o rows, chains |-> t[Len(rows)].chains,
          eStats |-> t[Len(rows)].eStats, eMean |-> t[Len(rows)].eMean ]
  BY DEF AddRows
<1> HIDE DEF t
<1>6. AddsEach(s, first, rows, t)
  <2>1. ASSUME NEW i \in 0..Len(rows) PROVE t[i] = One(t, i)  BY <1>4
  <2> QED  BY <2>1 DEF AddsEach
<1> QED  BY <1>5, <1>6

(* f is what the sequences of ss make up, up to each of them.              *)
JoinsEach(ss, f) ==
  Len(ss) # 0 => /\ f[1] = ss[1]
                 /\ \A i \in 2..Len(ss) : f[i] = f[i - 1] \o ss[i]

LEMMA FlattenIs ==
  ASSUME NEW ss, Len(ss) \in Nat
  PROVE  \E f : JoinsEach(ss, f) /\ FlattenSeq(ss) = IF Len(ss) = 0 THEN ss ELSE f[Len(ss)]
<1> DEFINE One(g, i) == IF i = 1 THEN ss[i] ELSE g[i - 1] \o ss[i]
           T == {n \in Nat : \E g : g = [i \in 1..n |-> One(g, i)]}
<1>1. 0 \in T
  <2> DEFINE g == [i \in 1..0 |-> ss]
  <2>1. g = [i \in 1..0 |-> One(g, i)]  OBVIOUS
  <2> QED  BY <2>1
<1>2. ASSUME NEW n \in Nat, n \in T PROVE n + 1 \in T
  <2>1. PICK g : g = [i \in 1..n |-> One(g, i)]  BY <1>2
  <2> DEFINE h == [i \in 1..n + 1 |-> IF i = n + 1 THEN One(g, i) ELSE g[i]]
  <2>2. ASSUME NEW i \in 1..n + 1 PROVE h[i] = One(h, i)
    <3>1. i # 1 => h[i - 1] = g[i - 1]  OBVIOUS
    <3>2. One(h, i) = One(g, i)  BY <3>1
    <3>3. i \in 1..n => g[i] = One(g, i)  BY <2>1
    <3> QED  BY <3>2, <3>3
  <2>3. h = [i \in 1..n + 1 |-> h[i]]  OBVIOUS
  <2> HIDE DEF h
  <2>4. h = [i \in 1..n + 1 |-> One(h, i)]  BY <2>2, <2>3
  <2> HIDE DEF One
  <2> QED  BY <2>4
<1>3. Len(ss) \in T
  <2> HIDE DEF T
  <2> QED  BY <1>1, <1>2, OneByOne
<1> DEFINE t == CHOOSE g : g = [i \in 1..Len(ss) |-> One(g, i)]
<1>4. t = [i \in 1..Len(ss) |-> One(t, i)]  BY <1>3
<1>5. FlattenSeq(ss) = IF Len(ss) = 0 THEN ss ELSE t[Len(ss)]  BY DEF FlattenSeq
<1> HIDE DEF t
<1>6. JoinsEach(ss, t)
  <2>1. ASSUME NEW i \in 1..Len(ss) PROVE t[i] = One(t, i)  BY <1>4
  <2>2. Len(ss) # 0 => 1 \in 1..Len(ss)  OBVIOUS
  <2>3. ASSUME NEW i \in 2..Len(ss) PROVE i \in 1..Len(ss) /\ i # 1  OBVIOUS
  <2>4. Len(ss) # 0 => t[1] = ss[1]  BY <2>1, <2>2
  <2>5. ASSUME NEW i \in 2..Len(ss) PROVE t[i] = t[i - 1] \o ss[i]  BY <2>1, <2>3
  <2> QED  BY <2>4, <2>5 DEF JoinsEach
<1> QED  BY <1>5, <1>6

(* One more sequence comes after the others.                               *)
LEMMA FlattenAppend ==
  ASSUME NEW R, NEW ss \in Seq(Seq(R)), FlattenSeq(ss) \in Seq(R), NEW x \in Seq(R)
  PROVE  /\ FlattenSeq(Append(ss, x)) = FlattenSeq(ss) \o x
         /\ FlattenSeq(Append(ss, x)) \in Seq(R)
<1> DEFINE tt == Append(ss, x)
           n == Len(ss)
<1>1. /\ n \in Nat /\ Len(tt) = n + 1 /\ tt[n + 1] = x
      /\ \A i \in 1..n : tt[i] = ss[i]
  BY AppendProperties
<1> HIDE DEF tt
<1>2. PICK f : JoinsEach(ss, f) /\ FlattenSeq(ss) = IF n = 0 THEN ss ELSE f[n]
  BY <1>1, FlattenIs
<1>3. PICK g : JoinsEach(tt, g) /\ FlattenSeq(tt) = IF Len(tt) = 0 THEN tt ELSE g[Len(tt)]
  BY <1>1, FlattenIs
<1>4. FlattenSeq(tt) = g[n + 1]  BY <1>1, <1>3
<1>5. CASE n = 0
  <2>1. ss = <<>> /\ FlattenSeq(ss) = <<>>  BY <1>2, <1>5
  <2>2. g[n + 1] = x  BY <1>1, <1>3, <1>5 DEF JoinsEach
  <2> QED  BY <1>4, <2>1, <2>2 DEF tt
<1>6. CASE n # 0
  <2> DEFINE T == {i \in Nat : i + 1 \in 1..n => g[i + 1] = f[i + 1]}
  <2>1. 0 \in T
    <3>1. Len(ss) # 0 /\ Len(tt) # 0 /\ 1 \in 1..n  BY <1>1, <1>6
    <3>2. f[1] = ss[1] /\ g[1] = tt[1]  BY <1>2, <1>3, <3>1 DEF JoinsEach
    <3> QED  BY <1>1, <3>1, <3>2
  <2>2. ASSUME NEW i \in Nat, i \in T PROVE i + 1 \in T
    <3> SUFFICES ASSUME (i + 1) + 1 \in 1..n PROVE g[(i + 1) + 1] = f[(i + 1) + 1]  OBVIOUS
    <3> DEFINE k == (i + 1) + 1
    <3>1. k \in 2..n /\ k \in 2..Len(tt) /\ k - 1 = i + 1 /\ i + 1 \in 1..n  BY <1>1
    <3>2. g[i + 1] = f[i + 1]  BY <2>2, <3>1
    <3> HIDE DEF k
    <3>3. g[k] = g[k - 1] \o tt[k] /\ f[k] = f[k - 1] \o ss[k]
      <4>1. Len(ss) # 0 /\ Len(tt) # 0  BY <1>1, <1>6
      <4> QED  BY <1>2, <1>3, <3>1, <4>1 DEF JoinsEach
    <3>4. tt[k] = ss[k]  BY <1>1, <3>1
    <3> QED  BY <3>1, <3>2, <3>3, <3>4 DEF k
  <2>3. g[n] = f[n]
    <3>1. n - 1 \in Nat /\ (n - 1) + 1 = n  BY <1>1, <1>6
    <3>2. n - 1 \in T
      <4> HIDE DEF T
      <4> QED  BY <2>1, <2>2, <3>1, OneByOne
    <3> QED  BY <3>1, <3>2, <1>1, <1>6
  <2>4. g[n + 1] = g[(n + 1) - 1] \o tt[n + 1]
    <3>1. n + 1 \in 2..Len(tt) /\ Len(tt) # 0  BY <1>1, <1>6
    <3> QED  BY <1>3, <3>1 DEF JoinsEach
  <2>5. (n + 1) - 1 = n  BY <1>1
  <2>6. FlattenSeq(tt) = FlattenSeq(ss) \o x  BY <1>1, <1>2, <1>4, <1>6, <2>3, <2>4, <2>5
  <2> QED  BY <2>6 DEF tt
<1> QED  BY <1>5, <1>6

-----------------------------------------------------------------------------
(* The types of what is kept                                               *)

StatsOf(R) ==
  [ pstats : Seq(R), chains : [Chains -> Seq(R)], eStats : Seq(R), eMean : Seq(Seq(R)) ]

LEMMA ChainThere ==
  ASSUME NEW id \in Int PROVE id % NChains \in Chains
BY NChainsAssumption DEF Chains

(* The remainders come one after the other.                                *)
LEMMA NextRemainder ==
  ASSUME NEW id \in Int
  PROVE  (id + 1) % NChains = IF id % NChains = NChains - 1 THEN 0 ELSE (id % NChains) + 1
<1> DEFINE N == NChains
           q == id \div N
           r == id % N
<1>1. N \in Nat /\ N > 0  BY NChainsAssumption
<1>2. q \in Int /\ r \in 0..N - 1 /\ id = N * q + r  BY <1>1
<1> HIDE DEF N, q, r
<1>3. CASE r = N - 1
  <2>1. id + 1 = N * (q + 1) + 0  BY <1>1, <1>2, <1>3
  <2>2. (id + 1) % N = 0  BY <1>1, <1>2, <2>1
  <2> QED  BY <1>3, <2>2 DEF N, r
<1>4. CASE r # N - 1
  <2>1. id + 1 = N * q + (r + 1) /\ r + 1 \in 0..N - 1  BY <1>1, <1>2, <1>4
  <2>2. (id + 1) % N = r + 1  BY <1>1, <1>2, <2>1
  <2> QED  BY <1>4, <2>2 DEF N, r
<1> QED  BY <1>3, <1>4

(* v is u with a row more in its chain and in the ensemble that is filled, *)
(* or closed.                                                              *)
RowPut(u, id, row, v) ==
  LET full == Append(u.eStats, row)
  IN  NChains # 1 =>
        /\ v.chains = [u.chains EXCEPT ![id % NChains] = Append(@, row)]
        /\ ClosesEnsemble(id) => v.eMean = Append(u.eMean, full) /\ v.eStats = <<>>
        /\ ~ ClosesEnsemble(id) => v.eMean = u.eMean /\ v.eStats = full

(* One row.                                                                *)
LEMMA AddRowIs ==
  ASSUME NEW R, NEW s \in StatsOf(R), NEW id \in Int, NEW row \in R
  PROVE  AddRow(s, id, row) \in StatsOf(R) /\ RowPut(s, id, row, AddRow(s, id, row))
<1> DEFINE c == id % NChains
           chains == [s.chains EXCEPT ![c] = Append(@, row)]
           full == Append(s.eStats, row)
           added == [s EXCEPT !.chains = chains, !.eStats = full]
           y == AddRow(s, id, row)
<1>1. c \in Chains  BY ChainThere
<1>2. /\ s.pstats \in Seq(R) /\ s.chains \in [Chains -> Seq(R)]
      /\ s.eStats \in Seq(R) /\ s.eMean \in Seq(Seq(R))
  BY DEF StatsOf
<1>3. full \in Seq(R) /\ Append(s.eMean, full) \in Seq(Seq(R))
  <2>1. full \in Seq(R)  BY <1>2
  <2> HIDE DEF full
  <2> QED  BY <1>2, <2>1
<1>4. Append(s.chains[c], row) \in Seq(R)  BY <1>1, <1>2
<1>5. chains \in [Chains -> Seq(R)]  BY <1>1, <1>2, <1>4
<1>6. /\ AddRow(s, id, row) = IF NChains = 1 THEN s
                              ELSE IF ClosesEnsemble(id) THEN CloseEnsemble(added) ELSE added
  BY DEF AddRow
<1> HIDE DEF c, chains, full
<1>7. /\ added \in StatsOf(R) /\ added.chains = chains
      /\ added.eStats = full /\ added.eMean = s.eMean
  BY <1>2, <1>3, <1>5 DEF StatsOf
<1> HIDE DEF added
<1>8. LET z == CloseEnsemble(added)
      IN  /\ z \in StatsOf(R) /\ z.chains = chains
          /\ z.eStats = <<>> /\ z.eMean = Append(s.eMean, full)
  <2> DEFINE z == [added EXCEPT !.eMean = Append(s.eMean, full), !.eStats = <<>>]
  <2>1. CloseEnsemble(added) = z  BY <1>7 DEF CloseEnsemble
  <2>2. <<>> \in Seq(R)  OBVIOUS
  <2>3. /\ z \in StatsOf(R) /\ z.chains = chains
        /\ z.eStats = <<>> /\ z.eMean = Append(s.eMean, full)
    BY <1>3, <1>7, <2>2 DEF StatsOf
  <2> QED  BY <2>1, <2>3
<1> HIDE DEF y
<1>9. y = IF NChains = 1 THEN s
          ELSE IF ClosesEnsemble(id) THEN CloseEnsemble(added) ELSE added
  BY <1>6 DEF y
<1>10. CASE NChains = 1  BY <1>9, <1>10 DEF y, RowPut
<1>11. CASE NChains # 1 /\ ClosesEnsemble(id)
  <2>1. y = CloseEnsemble(added)  BY <1>9, <1>11
  <2> QED  BY <1>8, <1>11, <2>1 DEF chains, c, full, y, RowPut
<1>12. CASE NChains # 1 /\ ~ ClosesEnsemble(id)
  <2>1. y = added  BY <1>9, <1>12
  <2> QED  BY <1>7, <1>12, <2>1 DEF chains, c, full, y, RowPut
<1> QED  BY <1>10, <1>11, <1>12

(* A field of what there is after a row.                                   *)
LEMMA AddsEachTyped ==
  ASSUME NEW R, NEW s \in StatsOf(R), NEW first \in Int, NEW rows \in Seq(R),
         NEW t, AddsEach(s, first, rows, t)
  PROVE  \A n \in 0..Len(rows) : t[n] \in StatsOf(R)
<1> DEFINE T == {n \in Nat : n <= Len(rows) => t[n] \in StatsOf(R)}
<1>1. 0 \in T  BY DEF AddsEach
<1>2. ASSUME NEW n \in Nat, n \in T PROVE n + 1 \in T
  <2> SUFFICES ASSUME n + 1 <= Len(rows) PROVE t[n + 1] \in StatsOf(R)  OBVIOUS
  <2>1. n + 1 \in 1..Len(rows) /\ (n + 1) - 1 = n /\ n <= Len(rows)  OBVIOUS
  <2>2. t[n] \in StatsOf(R) /\ rows[n + 1] \in R  BY <1>2, <2>1
  <2> DEFINE id == first + (n + 1) - 1
             row == rows[n + 1]
             u == t[n]
  <2>3. t[n + 1] = AddRow(u, id, row)  BY <2>1 DEF AddsEach
  <2>4. id \in Int  OBVIOUS
  <2> HIDE DEF id, row, u
  <2>5. u \in StatsOf(R) /\ row \in R  BY <2>2 DEF u, row
  <2>6. AddRow(u, id, row) \in StatsOf(R)  BY <2>4, <2>5, AddRowIs
  <2> QED  BY <2>3, <2>6
<1>3. \A n \in Nat : n \in T
  <2> HIDE DEF T
  <2> QED  BY <1>1, <1>2, OneByOne
<1>4. \A n \in 0..Len(rows) : n \in Nat /\ n <= Len(rows)  OBVIOUS
<1> QED  BY <1>3, <1>4

LEMMA AddRowsTyped ==
  ASSUME NEW R, NEW s \in StatsOf(R), NEW first \in Int, NEW rows \in Seq(R)
  PROVE  AddRows(s, first, rows) \in StatsOf(R)
<1>1. Len(rows) \in Nat /\ Len(rows) \in 0..Len(rows)  OBVIOUS
<1>2. PICK t : /\ AddsEach(s, first, rows, t)
               /\ AddRows(s, first, rows) =
                    [ pstats |-> s.pstats \o rows, chains |-> t[Len(rows)].chains,
                      eStats |-> t[Len(rows)].eStats, eMean |-> t[Len(rows)].eMean ]
  BY <1>1, AddRowsIs
<1>3. t[Len(rows)] \in StatsOf(R)  BY <1>1, <1>2, AddsEachTyped
<1>4. s.pstats \o rows \in Seq(R)
  <2>1. s.pstats \in Seq(R)  BY DEF StatsOf
  <2> QED  BY <2>1
<1> HIDE DEF AddsEach
<1> QED  BY <1>2, <1>3, <1>4 DEF StatsOf

(* c is the chains after each of the rows is put in front of its own.      *)
PrependsEach(s, first, rows, c) ==
  /\ c[0] = s.chains
  /\ \A n \in 1..Len(rows) :
       c[n] = [c[n - 1] EXCEPT ![(first + n - 1) % NChains] = <<rows[n]>> \o @]

(* The recursive function of PrependRows is defined.                       *)
LEMMA PrependRowsIs ==
  ASSUME NEW s, NEW first, NEW rows, Len(rows) \in Nat
  PROVE  \E c : /\ PrependsEach(s, first, rows, c)
                /\ PrependRows(s, first, rows) =
                     [ pstats |-> rows \o s.pstats,
                       chains |-> IF NChains = 1 THEN s.chains ELSE c[Len(rows)],
                       eStats |-> s.eStats, eMean |-> s.eMean ]
<1> DEFINE Ahead(u, i) == [u EXCEPT ![(first + i - 1) % NChains] = <<rows[i]>> \o @]
           One(g, i) == IF i = 0 THEN s.chains ELSE Ahead(g[i - 1], i)
           T == {n \in Nat : \E g : g = [i \in 0..n |-> One(g, i)]}
<1>1. 0 \in T
  <2> DEFINE g == [i \in 0..0 |-> s.chains]
  <2>1. g = [i \in 0..0 |-> One(g, i)]  OBVIOUS
  <2> QED  BY <2>1
<1>2. ASSUME NEW n \in Nat, n \in T PROVE n + 1 \in T
  <2>1. PICK g : g = [i \in 0..n |-> One(g, i)]  BY <1>2
  <2> HIDE DEF Ahead
  <2> DEFINE h == [i \in 0..n + 1 |-> IF i = n + 1 THEN One(g, i) ELSE g[i]]
  <2>2. ASSUME NEW i \in 0..n + 1 PROVE h[i] = One(h, i)
    <3>1. i # 0 => h[i - 1] = g[i - 1]  OBVIOUS
    <3>2. One(h, i) = One(g, i)  BY <3>1
    <3>3. i \in 0..n => g[i] = One(g, i)  BY <2>1
    <3> HIDE DEF One
    <3> QED  BY <3>2, <3>3
  <2>3. h = [i \in 0..n + 1 |-> h[i]]  OBVIOUS
  <2> HIDE DEF h
  <2>4. h = [i \in 0..n + 1 |-> One(h, i)]  BY <2>2, <2>3
  <2> HIDE DEF One
  <2> QED  BY <2>4
<1>3. Len(rows) \in T
  <2> HIDE DEF T
  <2> QED  BY <1>1, <1>2, OneByOne
<1> DEFINE c == CHOOSE g : g = [i \in 0..Len(rows) |-> One(g, i)]
<1>4. c = [i \in 0..Len(rows) |-> One(c, i)]
  <2> HIDE DEF One
  <2> QED  BY <1>3
<1>5. PrependRows(s, first, rows) =
        [ pstats |-> rows \o s.pstats,
          chains |-> IF NChains = 1 THEN s.chains ELSE c[Len(rows)],
          eStats |-> s.eStats, eMean |-> s.eMean ]
  BY DEF PrependRows
<1> HIDE DEF c
<1>6. PrependsEach(s, first, rows, c)
  <2> HIDE DEF Ahead
  <2>1. ASSUME NEW i \in 0..Len(rows) PROVE c[i] = One(c, i)  BY <1>4
  <2>2. c[0] = s.chains  BY <2>1
  <2>3. ASSUME NEW i \in 1..Len(rows) PROVE c[i] = Ahead(c[i - 1], i)
    <3>1. i \in 0..Len(rows) /\ i # 0  OBVIOUS
    <3> QED  BY <2>1, <3>1
  <2> QED  BY <2>2, <2>3 DEF PrependsEach, Ahead
<1> QED  BY <1>5, <1>6

LEMMA PrependRowsTyped ==
  ASSUME NEW R, NEW s \in StatsOf(R), NEW first \in Int, NEW rows \in Seq(R)
  PROVE  PrependRows(s, first, rows) \in StatsOf(R)
<1>1. Len(rows) \in Nat /\ Len(rows) \in 0..Len(rows)  OBVIOUS
<1>2. PICK c : /\ PrependsEach(s, first, rows, c)
               /\ PrependRows(s, first, rows) =
                    [ pstats |-> rows \o s.pstats,
                      chains |-> IF NChains = 1 THEN s.chains ELSE c[Len(rows)],
                      eStats |-> s.eStats, eMean |-> s.eMean ]
  BY <1>1, PrependRowsIs
<1>3. /\ s.pstats \in Seq(R) /\ s.chains \in [Chains -> Seq(R)]
      /\ s.eStats \in Seq(R) /\ s.eMean \in Seq(Seq(R))
  BY DEF StatsOf
<1>4. c[Len(rows)] \in [Chains -> Seq(R)]
  <2> DEFINE T == {n \in Nat : n <= Len(rows) => c[n] \in [Chains -> Seq(R)]}
  <2>1. 0 \in T  BY <1>2, <1>3 DEF PrependsEach
  <2>2. ASSUME NEW n \in Nat, n \in T PROVE n + 1 \in T
    <3> SUFFICES ASSUME n + 1 <= Len(rows) PROVE c[n + 1] \in [Chains -> Seq(R)]  OBVIOUS
    <3>1. n + 1 \in 1..Len(rows) /\ (n + 1) - 1 = n /\ n <= Len(rows)  BY <1>1
    <3> DEFINE k == (first + (n + 1) - 1) % NChains
               row == <<rows[n + 1]>>
               u == c[n]
    <3>2. c[n + 1] = [u EXCEPT ![k] = row \o @]  BY <1>2, <3>1 DEF PrependsEach
    <3>3. k \in Chains
      <4>1. first + (n + 1) - 1 \in Int  OBVIOUS
      <4> QED  BY <4>1, ChainThere
    <3>4. u \in [Chains -> Seq(R)] /\ row \in Seq(R)  BY <2>2, <3>1
    <3> HIDE DEF k, row, u
    <3>5. row \o u[k] \in Seq(R)  BY <3>3, <3>4
    <3> QED  BY <3>2, <3>3, <3>4, <3>5
  <2>3. \A n \in Nat : n \in T
    <3> HIDE DEF T
    <3> QED  BY <2>1, <2>2, OneByOne
  <2> QED  BY <1>1, <2>3
<1>5. rows \o s.pstats \in Seq(R)  BY <1>3
<1> QED  BY <1>2, <1>3, <1>4, <1>5 DEF StatsOf

-----------------------------------------------------------------------------
(* Chains and ensembles                                                    *)

(* The ids of the rows of a chain, and those up to one.                    *)
ChainIds(p, first, c) == {id \in first..first + Len(p) - 1 : id % NChains = c}
UpTo(ids, id) == {j \in ids : j <= id}

OneChain(p, r, first, c) ==
  LET ids == ChainIds(p, first, c)
  IN  /\ Len(r) = Cardinality(ids)
      /\ \A id \in ids : r[Cardinality(UpTo(ids, id))] = p[id - first + 1]

LEMMA ChainByChain ==
  ASSUME NEW s, NEW first
  PROVE  ChainsInOrder(s, first) <=>
           (NChains > 1 => \A c \in Chains : OneChain(s.pstats, s.chains[c], first, c))
BY DEF ChainsInOrder, OneChain, IdsOfChain, ChainIds, UpTo

(* There are finitely many.                                                *)
LEMMA FewIds ==
  ASSUME NEW p \in Seq(Nat), NEW first \in Nat, NEW c
  PROVE  LET ids == ChainIds(p, first, c)
         IN  /\ IsFiniteSet(ids) /\ Cardinality(ids) \in Nat
             /\ \A id \in ids : Cardinality(UpTo(ids, id)) \in 1..Cardinality(ids)
<1> DEFINE ids == ChainIds(p, first, c)
<1>1. Len(p) \in Nat  OBVIOUS
<1>2. IsFiniteSet(first..first + Len(p) - 1)  BY <1>1, FS_Interval
<1>3. ids \subseteq first..first + Len(p) - 1  BY DEF ChainIds
<1>4. IsFiniteSet(ids)  BY <1>2, <1>3, FS_Subset
<1> HIDE DEF ids
<1>5. Cardinality(ids) \in Nat  BY <1>4, FS_CardinalityType
<1>6. ASSUME NEW id \in ids PROVE Cardinality(UpTo(ids, id)) \in 1..Cardinality(ids)
  <2> DEFINE u == UpTo(ids, id)
  <2>1. u \subseteq ids /\ id \in u
    <3>1. id \in Int  BY <1>1, <1>3
    <3> QED  BY <3>1 DEF UpTo
  <2> HIDE DEF u
  <2>2. IsFiniteSet(u) /\ Cardinality(u) <= Cardinality(ids)  BY <1>4, <2>1, FS_Subset
  <2>3. Cardinality(u) \in Nat /\ Cardinality(u) # 0  BY <2>1, <2>2, FS_CardinalityType, FS_EmptySet
  <2>4. Cardinality(u) \in 1..Cardinality(ids)  BY <1>5, <2>2, <2>3
  <2> QED  BY <2>4 DEF u
<1> QED  BY <1>4, <1>5, <1>6 DEF ids

(* The row that comes next is put at the end of its chain.                 *)
LEMMA ChainGrows ==
  ASSUME NEW p \in Seq(Nat), NEW r \in Seq(Nat), NEW first \in Nat, NEW c \in Chains,
         OneChain(p, r, first, c), NEW row \in Nat
  PROVE  LET id == first + Len(p)
         IN  OneChain(Append(p, row), IF id % NChains = c THEN Append(r, row) ELSE r, first, c)
<1> DEFINE id == first + Len(p)
           q == Append(p, row)
           ids == ChainIds(p, first, c)
           more == ChainIds(q, first, c)
           n == Cardinality(ids)
<1>1. /\ Len(p) \in Nat /\ q \in Seq(Nat) /\ Len(q) = Len(p) + 1 /\ q[Len(p) + 1] = row
      /\ \A i \in 1..Len(p) : q[i] = p[i]
  BY AppendProperties
<1> HIDE DEF q
<1>2. /\ IsFiniteSet(ids) /\ n \in Nat
      /\ \A j \in ids : Cardinality(UpTo(ids, j)) \in 1..n
  BY FewIds
<1>3. Len(r) = n /\ \A j \in ids : r[Cardinality(UpTo(ids, j))] = p[j - first + 1]
  BY DEF OneChain
<1>4. \A j \in ids : j \in Int /\ j < id /\ j - first + 1 \in 1..Len(p)
  BY <1>1 DEF ChainIds
<1>5. \A j : j \in more <=> j \in ids \/ (j = id /\ id % NChains = c)
  <2>1. \A j : j \in first..first + (Len(p) + 1) - 1 <=> j \in first..first + Len(p) - 1 \/ j = id
    BY <1>1
  <2>2. more = {j \in first..first + (Len(p) + 1) - 1 : j % NChains = c}  BY <1>1 DEF ChainIds
  <2> HIDE DEF id, more
  <2> QED  BY <2>1, <2>2 DEF ChainIds
<1>6. id \in Int /\ id \notin ids  BY <1>1, <1>4
<1>7. \A j \in ids : q[j - first + 1] = p[j - first + 1]  BY <1>1, <1>4
<1> DEFINE s == IF id % NChains = c THEN Append(r, row) ELSE r
<1>8. /\ Len(s) = Cardinality(more)
      /\ \A j \in more : s[Cardinality(UpTo(more, j))] = q[j - first + 1]
  <2>1. CASE id % NChains = c
    <3>1. more = ids \cup {id}  BY <1>5, <2>1
    <3>2. s = Append(r, row)  BY <2>1
    <3> HIDE DEF more, id, s, ids
    <3>3. Cardinality(more) = n + 1  BY <1>2, <1>6, <3>1, FS_AddElement
    <3>4. /\ Len(s) = n + 1 /\ s[n + 1] = row
          /\ \A i \in 1..n : s[i] = r[i]
      BY <1>3, <3>2, AppendProperties
    <3>5. ASSUME NEW j \in ids PROVE s[Cardinality(UpTo(more, j))] = q[j - first + 1]
      <4>1. UpTo(more, j) = UpTo(ids, j)  BY <1>4, <1>6, <3>1 DEF UpTo
      <4> QED  BY <1>2, <1>3, <1>7, <3>4, <4>1
    <3>6. s[Cardinality(UpTo(more, id))] = q[id - first + 1]
      <4>1. UpTo(more, id) = more  BY <1>4, <1>6, <3>1 DEF UpTo
      <4>2. id - first + 1 = Len(p) + 1  BY <1>1 DEF id
      <4> QED  BY <1>1, <3>3, <3>4, <4>1, <4>2
    <3> QED  BY <3>1, <3>3, <3>4, <3>5, <3>6
  <2>2. CASE id % NChains # c
    <3>1. more = ids  BY <1>5, <2>2
    <3>2. s = r  BY <2>2
    <3> HIDE DEF more, ids, s
    <3> QED  BY <1>3, <1>7, <3>1, <3>2
  <2> QED  BY <2>1, <2>2
<1> QED  BY <1>8 DEF OneChain, q

(* The rows p are those of the ensembles that were closed and of the one   *)
(* that is being filled, which lacks what the next id says.                *)
Ensembles(p, filling, closed, first) ==
  /\ FlattenSeq(closed) \in Seq(Nat) /\ p = FlattenSeq(closed) \o filling
  /\ \A t \in 2..Len(closed) : Len(closed[t]) = NChains
  /\ closed # <<>> => p # <<>> /\ Len(filling) = (first + Len(p) + 1) % NChains

LEMMA EnsemblesGrow ==
  ASSUME NEW p \in Seq(Nat), NEW filling \in Seq(Nat), NEW closed \in Seq(Seq(Nat)),
         NEW first \in Nat, Ensembles(p, filling, closed, first), NEW row \in Nat, NChains # 1
  PROVE  LET full == Append(filling, row)
         IN  IF ClosesEnsemble(first + Len(p))
             THEN Ensembles(Append(p, row), <<>>, Append(closed, full), first)
             ELSE Ensembles(Append(p, row), full, closed, first)
<1> DEFINE id == first + Len(p)
           q == Append(p, row)
           full == Append(filling, row)
           flat == FlattenSeq(closed)
           N == NChains
           m == (id + 1) % N
<1>1. N \in Nat /\ N > 1  BY NChainsAssumption
<1>2. /\ Len(p) \in Nat /\ Len(q) = Len(p) + 1 /\ q # <<>>
      /\ full \in Seq(Nat) /\ Len(full) = Len(filling) + 1 /\ Len(filling) \in Nat
  <2>1. /\ Len(p) \in Nat /\ q \in Seq(Nat) /\ Len(q) = Len(p) + 1
        /\ full \in Seq(Nat) /\ Len(full) = Len(filling) + 1 /\ Len(filling) \in Nat
    BY AppendProperties
  <2>2. Len(<<>>) = 0  OBVIOUS
  <2> HIDE DEF q, full
  <2>3. q # <<>>  BY <2>1, <2>2
  <2> QED  BY <2>1, <2>3
<1>3. flat \in Seq(Nat) /\ p = flat \o filling  BY DEF Ensembles
<1>4. q = flat \o full
  <2>1. q = p \o <<row>> /\ full = filling \o <<row>>  BY AppendIsConcat
  <2>2. (flat \o filling) \o <<row>> = flat \o (filling \o <<row>>)
    <3>1. <<row>> \in Seq(Nat)  OBVIOUS
    <3> HIDE DEF flat
    <3> QED  BY <1>3, <3>1, ConcatAssociative
  <2> HIDE DEF flat, q, full
  <2> QED  BY <1>3, <2>1, <2>2
<1>5. m \in 0..N - 1 /\ (id + 1 + 1) % N = IF m = N - 1 THEN 0 ELSE m + 1
  <2>1. id + 1 \in Int  BY <1>2
  <2>2. (id + 1) % NChains \in Chains  BY <2>1, ChainThere
  <2> HIDE DEF id
  <2> QED  BY <2>1, <2>2, NextRemainder DEF Chains
<1>6. first + Len(q) + 1 = id + 1 + 1 /\ first + Len(p) + 1 = id + 1  BY <1>2
<1>7. closed # <<>> => Len(filling) = m
  <2>1. closed # <<>> => Len(filling) = (first + Len(p) + 1) % N  BY DEF Ensembles
  <2> QED  BY <1>6, <2>1
<1>8. ClosesEnsemble(id) <=> m = N - 1
  <2>1. ClosesEnsemble(id) <=> m + 1 = N  BY DEF ClosesEnsemble
  <2> HIDE DEF m, N, id
  <2> QED  BY <1>1, <1>5, <2>1
<1>9. \A t \in 2..Len(closed) : Len(closed[t]) = N  BY DEF Ensembles
<1> HIDE DEF id, q, full, flat, N, m
<1>10. CASE ClosesEnsemble(id)
  <2> DEFINE more == Append(closed, full)
  <2>1. FlattenSeq(more) = flat \o full /\ FlattenSeq(more) \in Seq(Nat)
    BY <1>2, <1>3, FlattenAppend DEF flat
  <2>2. /\ Len(closed) \in Nat /\ Len(more) = Len(closed) + 1 /\ more[Len(closed) + 1] = full
        /\ \A t \in 1..Len(closed) : more[t] = closed[t]
    <3>1. closed \in Seq(Seq(Nat)) /\ full \in Seq(Nat)  BY <1>2
    <3> QED  BY <3>1, AppendProperties
  <2> HIDE DEF more
  <2>3. q = FlattenSeq(more) \o <<>>  BY <1>4, <2>1
  <2>4. ASSUME NEW t \in 2..Len(more) PROVE Len(more[t]) = N
    <3>1. CASE t \in 2..Len(closed)
      <4>1. t \in 1..Len(closed)  BY <2>2, <3>1
      <4>2. more[t] = closed[t]  BY <2>2, <4>1
      <4> QED  BY <1>9, <3>1, <4>2
    <3>2. CASE t = Len(closed) + 1
      <4>1. closed # <<>>  BY <2>2, <3>2
      <4>2. Len(full) = N  BY <1>1, <1>2, <1>5, <1>7, <1>8, <1>10, <4>1
      <4> QED  BY <2>2, <3>2, <4>2
    <3> QED  BY <2>2, <3>1, <3>2
  <2>5. Len(<<>>) = (first + Len(q) + 1) % N
    <3>1. (first + Len(q) + 1) % N = 0  BY <1>5, <1>6, <1>8, <1>10
    <3> QED  BY <3>1
  <2>6. Ensembles(q, <<>>, more, first)
    BY <1>2, <2>1, <2>3, <2>4, <2>5 DEF Ensembles, N
  <2> QED  BY <1>10, <2>6 DEF q, full, more, id
<1>11. CASE ~ ClosesEnsemble(id)
  <2>1. closed # <<>> => Len(full) = (first + Len(q) + 1) % N
    BY <1>2, <1>5, <1>6, <1>7, <1>8, <1>11
  <2>2. Ensembles(q, full, closed, first)
    BY <1>2, <1>3, <1>4, <1>9, <2>1 DEF Ensembles, N, flat
  <2> QED  BY <1>11, <2>2 DEF q, full, id
<1> QED  BY <1>10, <1>11

(* What is kept of the rows, the first of which has the id first.          *)
Whole(s, first) ==
  /\ s \in StatsOf(Nat)
  /\ NChains # 1 =>
       /\ \A c \in Chains : OneChain(s.pstats, s.chains[c], first, c)
       /\ Ensembles(s.pstats, s.eStats, s.eMean, first)

(* Whole is what the properties ask for.                                   *)
LEMMA WholeIs ==
  ASSUME NEW s, NEW first, Whole(s, first)
  PROVE  ChainsInOrder(s, first) /\ EnsemblesPartition(s)
<1>1. NChains > 1 => NChains # 1  OBVIOUS
<1>2. ChainsInOrder(s, first)  BY <1>1, ChainByChain DEF Whole
<1>3. EnsemblesPartition(s)
  BY <1>1 DEF Whole, Ensembles, EnsemblesPartition
<1> QED  BY <1>2, <1>3

(* u, with the rows p.                                                     *)
With(p, u) == [pstats |-> p, chains |-> u.chains, eStats |-> u.eStats, eMean |-> u.eMean]

LEMMA WholeGrows ==
  ASSUME NEW p \in Seq(Nat), NEW u \in StatsOf(Nat), NEW first \in Nat, Whole(With(p, u), first),
         NEW row \in Nat
  PROVE  Whole(With(Append(p, row), AddRow(u, first + Len(p), row)), first)
<1> DEFINE id == first + Len(p)
           v == AddRow(u, id, row)
           q == Append(p, row)
           full == Append(u.eStats, row)
<1>1. id \in Int /\ q \in Seq(Nat)  OBVIOUS
<1>2. /\ u.chains \in [Chains -> Seq(Nat)] /\ u.eStats \in Seq(Nat) /\ u.eMean \in Seq(Seq(Nat))
  BY DEF StatsOf
<1> HIDE DEF id
<1>3. v \in StatsOf(Nat) /\ RowPut(u, id, row, v)  BY <1>1, AddRowIs
<1> HIDE DEF v, q
<1>4. With(q, v) \in StatsOf(Nat)
  BY <1>1, <1>3 DEF StatsOf, With
<1>5. ASSUME NChains # 1, NEW c \in Chains PROVE OneChain(q, v.chains[c], first, c)
  <2>1. OneChain(p, u.chains[c], first, c)  BY <1>5 DEF Whole, With
  <2>2. u.chains[c] \in Seq(Nat)  BY <1>2
  <2>3. OneChain(q, IF id % NChains = c THEN Append(u.chains[c], row) ELSE u.chains[c], first, c)
    BY <2>1, <2>2, ChainGrows DEF id, q
  <2>4. v.chains[c] = IF id % NChains = c THEN Append(u.chains[c], row) ELSE u.chains[c]
    <3>1. v.chains = [u.chains EXCEPT ![id % NChains] = Append(@, row)]
      BY <1>3, <1>5 DEF RowPut
    <3> QED  BY <1>2, <3>1
  <2> QED  BY <2>3, <2>4
<1>6. ASSUME NChains # 1 PROVE Ensembles(q, v.eStats, v.eMean, first)
  <2>1. Ensembles(p, u.eStats, u.eMean, first)  BY <1>6 DEF Whole, With
  <2>2. IF ClosesEnsemble(id) THEN Ensembles(q, <<>>, Append(u.eMean, full), first)
                              ELSE Ensembles(q, full, u.eMean, first)
    BY <1>2, <1>6, <2>1, EnsemblesGrow DEF id, q
  <2>3. /\ ClosesEnsemble(id) => v.eMean = Append(u.eMean, full) /\ v.eStats = <<>>
        /\ ~ ClosesEnsemble(id) => v.eMean = u.eMean /\ v.eStats = full
    BY <1>3, <1>6 DEF RowPut
  <2> HIDE DEF full
  <2> QED  BY <2>2, <2>3
<1>7. Whole(With(q, v), first)  BY <1>4, <1>5, <1>6 DEF Whole, With
<1> QED  BY <1>7 DEF q, v, id

(* Rows added, whatever their number.                                      *)
LEMMA WholeAdded ==
  ASSUME NEW s, NEW first \in Nat, Whole(s, first), NEW rows \in Seq(Nat)
  PROVE  Whole(AddRows(s, first + Len(s.pstats), rows), first)
<1> DEFINE p == s.pstats
           next == first + Len(p)
           P(n) == p \o SubSeq(rows, 1, n)
<1>1. s \in StatsOf(Nat) /\ p \in Seq(Nat) /\ Len(p) \in Nat /\ next \in Int
  <2>1. s \in StatsOf(Nat) /\ p \in Seq(Nat)  BY DEF Whole, StatsOf
  <2> QED  BY <2>1
<1>2. Len(rows) \in Nat  OBVIOUS
<1>3. PICK t : /\ AddsEach(s, next, rows, t)
               /\ AddRows(s, next, rows) =
                    [ pstats |-> s.pstats \o rows, chains |-> t[Len(rows)].chains,
                      eStats |-> t[Len(rows)].eStats, eMean |-> t[Len(rows)].eMean ]
  BY <1>2, AddRowsIs
<1>4. \A n \in 0..Len(rows) : t[n] \in StatsOf(Nat)  BY <1>1, <1>3, AddsEachTyped
<1>5. ASSUME NEW n \in 0..Len(rows)
      PROVE  P(n) \in Seq(Nat) /\ Len(P(n)) = Len(p) + n
  <2> DEFINE r == SubSeq(rows, 1, n)
  <2>1. r \in Seq(Nat) /\ Len(r) = n
    <3>1. \A i \in 1..n : rows[i] \in Nat  BY <1>2
    <3> QED  BY <3>1, SubSeqProperties
  <2> HIDE DEF r
  <2>2. p \o r \in Seq(Nat) /\ Len(p \o r) = Len(p) + n  BY <1>1, <2>1, ConcatProperties
  <2> QED  BY <2>2 DEF r
<1>6. ASSUME NEW n \in Nat, n + 1 \in 1..Len(rows)
      PROVE  P(n + 1) = Append(P(n), rows[n + 1])
  <2>1. rows[n + 1] \in Nat /\ n \in 0..Len(rows)  BY <1>2, <1>6
  <2>2. SubSeq(rows, 1, n) \in Seq(Nat) /\ <<rows[n + 1]>> \in Seq(Nat)
    <3>1. \A i \in 1..n : rows[i] \in Nat  BY <1>2, <2>1
    <3> QED  BY <2>1, <3>1, SubSeqProperties
  <2>3. SubSeq(rows, 1, n + 1) = SubSeq(rows, 1, n) \o <<rows[n + 1]>>
    <3>1. SubSeq(rows, 1, n + 1) = Append(SubSeq(rows, 1, n), rows[n + 1])
      BY <1>2, <1>6
    <3> QED  BY <2>1, <2>2, <3>1, AppendIsConcat
  <2>4. p \o (SubSeq(rows, 1, n) \o <<rows[n + 1]>>) = (p \o SubSeq(rows, 1, n)) \o <<rows[n + 1]>>
    <3> DEFINE a == SubSeq(rows, 1, n)
               b == <<rows[n + 1]>>
    <3>1. p \in Seq(Nat) /\ a \in Seq(Nat) /\ b \in Seq(Nat)  BY <1>1, <2>2
    <3> HIDE DEF a, b, p
    <3>2. (p \o a) \o b = p \o (a \o b)  BY <3>1, ConcatAssociative, SMTT(30)
    <3> QED  BY <3>2 DEF a, b
  <2>5. P(n) \in Seq(Nat)  BY <1>5, <2>1
  <2>6. Append(P(n), rows[n + 1]) = P(n) \o <<rows[n + 1]>>
    <3> HIDE DEF P
    <3> QED  BY <2>1, <2>5, AppendIsConcat
  <2> QED  BY <2>3, <2>4, <2>6
<1> HIDE DEF P
<1> DEFINE T == {n \in Nat : n <= Len(rows) => Whole(With(P(n), t[n]), first)}
<1>7. 0 \in T
  <2>1. P(0) = p
    <3>1. SubSeq(rows, 1, 0) = <<>>  OBVIOUS
    <3> QED  BY <1>1, <3>1 DEF P
  <2>2. t[0] = s  BY <1>3 DEF AddsEach
  <2>3. With(p, s) = s  BY <1>1 DEF StatsOf, With
  <2> QED  BY <2>1, <2>2, <2>3
<1>8. ASSUME NEW n \in Nat, n \in T PROVE n + 1 \in T
  <2> SUFFICES ASSUME n + 1 <= Len(rows) PROVE Whole(With(P(n + 1), t[n + 1]), first)  OBVIOUS
  <2>1. n + 1 \in 1..Len(rows) /\ n \in 0..Len(rows) /\ n <= Len(rows) /\ (n + 1) - 1 = n
    BY <1>2
  <2>2. Whole(With(P(n), t[n]), first)  BY <1>8, <2>1
  <2>3. P(n) \in Seq(Nat) /\ t[n] \in StatsOf(Nat) /\ rows[n + 1] \in Nat
    BY <1>4, <1>5, <2>1
  <2>4. t[n + 1] = AddRow(t[n], next + (n + 1) - 1, rows[n + 1])
    BY <1>3, <2>1 DEF AddsEach
  <2>5. next + (n + 1) - 1 = first + Len(P(n))
    <3>1. Len(P(n)) = Len(p) + n  BY <1>5, <2>1
    <3> QED  BY <1>1, <3>1
  <2>6. P(n + 1) = Append(P(n), rows[n + 1])  BY <1>6, <2>1
  <2> DEFINE row == rows[n + 1]
             u == t[n]
             m == P(n)
  <2> HIDE DEF row, u, m
  <2>7. Whole(With(Append(m, row), AddRow(u, first + Len(m), row)), first)
    BY <2>2, <2>3, WholeGrows DEF m, u, row
  <2> QED  BY <2>4, <2>5, <2>6, <2>7 DEF m, u, row
<1>9. Whole(With(P(Len(rows)), t[Len(rows)]), first)
  <2> HIDE DEF T
  <2>1. Len(rows) \in T  BY <1>2, <1>7, <1>8, OneByOne
  <2> QED  BY <1>2, <2>1 DEF T
<1>10. P(Len(rows)) = p \o rows
  <2>1. SubSeq(rows, 1, Len(rows)) = rows  OBVIOUS
  <2> QED  BY <2>1 DEF P
<1> QED  BY <1>3, <1>9, <1>10 DEF With

(* There is nothing to keep of no rows ...                                 *)
LEMMA WholeEmpty == ASSUME NEW first \in Nat PROVE Whole(EmptyStats, first)
<1> DEFINE s == EmptyStats
<1>1. s.pstats = <<>> /\ s.eStats = <<>> /\ s.eMean = <<>> /\ s.chains = [c \in Chains |-> <<>>]
  BY DEF EmptyStats
<1>2. s \in StatsOf(Nat)  BY DEF EmptyStats, StatsOf
<1> HIDE DEF s
<1>3. ASSUME NEW c \in Chains PROVE OneChain(s.pstats, s.chains[c], first, c)
  <2>1. first..first + Len(s.pstats) - 1 = {}  BY <1>1
  <2>2. ChainIds(s.pstats, first, c) = {}  BY <2>1 DEF ChainIds
  <2>3. Cardinality({}) = 0  BY FS_EmptySet
  <2>4. s.chains[c] = <<>>  BY <1>1
  <2> QED  BY <2>2, <2>3, <2>4 DEF OneChain
<1>4. Ensembles(s.pstats, s.eStats, s.eMean, first)
  <2>1. FlattenSeq(<<>>) = <<>>
    <3>1. <<>> \in Seq(Seq(Nat)) /\ Len(<<>>) = 0  OBVIOUS
    <3> QED  BY <3>1, FlattenIs DEF JoinsEach
  <2>2. <<>> \o <<>> = <<>> /\ <<>> \in Seq(Nat) /\ 2..Len(<<>>) = {}  OBVIOUS
  <2> QED  BY <1>1, <2>1, <2>2 DEF Ensembles
<1> QED  BY <1>2, <1>3, <1>4 DEF Whole, s

(* ... so that their id does not matter.                                   *)
LEMMA WholeMoves ==
  ASSUME NEW s, NEW first \in Nat, Whole(s, first), Len(s.pstats) = 0, NEW id \in Nat
  PROVE  Whole(s, id)
<1>1. s \in StatsOf(Nat)  BY DEF Whole
<1>2. s.pstats = <<>>
  <2>1. s.pstats \in Seq(Nat)  BY <1>1 DEF StatsOf
  <2> QED  BY <2>1
<1>3. ASSUME NChains # 1, NEW c \in Chains PROVE OneChain(s.pstats, s.chains[c], id, c)
  <2>1. ASSUME NEW n \in Nat PROVE ChainIds(s.pstats, n, c) = {}
    <3>1. n..n + Len(s.pstats) - 1 = {}  BY <1>2
    <3> QED  BY <3>1 DEF ChainIds
  <2>2. OneChain(s.pstats, s.chains[c], first, c)  BY <1>3 DEF Whole
  <2> QED  BY <2>1, <2>2 DEF OneChain
<1>4. ASSUME NChains # 1 PROVE Ensembles(s.pstats, s.eStats, s.eMean, id)
  <2>1. Ensembles(s.pstats, s.eStats, s.eMean, first)  BY <1>4 DEF Whole
  <2> QED  BY <1>2, <2>1 DEF Ensembles
<1> QED  BY <1>1, <1>3, <1>4 DEF Whole

-----------------------------------------------------------------------------
(* The fields that a call changes                                          *)

CatalogFields ==
  {"stats", "first", "cur", "ffirst", "fcur", "burnin", "file", "rng", "inis", "smode"}
FileFields == {"rows", "first", "inis", "stat"}

(* The fields there are.                                                   *)
Shape(x) ==
  /\ DOMAIN x = {"c", "d"}
  /\ x.c = [k \in CatalogFields |-> x.c[k]] /\ x.d = [g \in Files |-> x.d[g]]

(* What is in a file.                                                      *)
IsRecord(r) == r = [k \in FileFields |-> r[k]]

AtFile(x) == x.c.file \in Files /\ IsRecord(x.d[x.c.file])

(* Everything but these fields of the catalog is as before.                *)
SameBut(x, y, K) == \A k \in CatalogFields \ K : y.c[k] = x.c[k]
SameFiles(x, y, F) == \A g \in Files \ F : y.d[g] = x.d[g]

(* Rows are written behind the burn-in of the open file.                   *)
LEMMA WriteFileIs ==
  ASSUME NEW x, Shape(x), AtFile(x), NEW at, NEW new
  PROVE  LET y == WriteFile(x, at, new)
             f == x.c.file
         IN  /\ Shape(y) /\ IsRecord(y.d[f])
             /\ y.c = x.c /\ SameFiles(x, y, {f})
             /\ y.d[f].rows = WriteRows(x.d[f].rows, at + x.c.burnin, new)
             /\ \A k \in FileFields \ {"rows"} : y.d[f][k] = x.d[f][k]
<1> DEFINE f == x.c.file
           rows == WriteRows(x.d[f].rows, at + x.c.burnin, new)
           y == [x EXCEPT !.d[f].rows = rows]
<1>1. f \in Files /\ "rows" \in FileFields  BY DEF AtFile, FileFields
<1>2. WriteFile(x, at, new) = y  BY DEF WriteFile
<1> HIDE DEF rows
<1>3. /\ Shape(y) /\ IsRecord(y.d[f])
      /\ y.c = x.c /\ SameFiles(x, y, {f})
      /\ y.d[f].rows = rows
      /\ \A k \in FileFields \ {"rows"} : y.d[f][k] = x.d[f][k]
  BY <1>1 DEF Shape, SameFiles, AtFile, IsRecord
<1> QED  BY <1>2, <1>3 DEF rows

(* What PutLast changes, and what it leaves alone.                         *)
LEMMA PutLastIs ==
  ASSUME NEW x, Shape(x), AtFile(x)
  PROVE  LET y == PutLast(x)
             f == x.c.file
             n == x.c.cur - x.c.fcur
             offset == x.c.fcur + 1 - x.c.ffirst
         IN  /\ Shape(y) /\ IsRecord(y.d[f])
             /\ SameBut(x, y, {"fcur"}) /\ SameFiles(x, y, {f})
             /\ y.c.fcur = x.c.cur
             /\ y.d[f].rows = WriteRows(InsertRows(x.d[f].rows, offset, n), offset + x.c.burnin,
                                        SubSeq(x.c.stats.pstats, offset + 1, offset + n))
             /\ y.d[f].first = x.d[f].first /\ y.d[f].inis = x.d[f].inis
             /\ y.d[f].stat = (IF x.c.rng = None THEN x.d[f].stat ELSE x.c.rng)
<1> DEFINE f == x.c.file
           n == x.c.cur - x.c.fcur
           offset == x.c.fcur + 1 - x.c.ffirst
           rows == InsertRows(x.d[f].rows, offset, n)
           room == [x EXCEPT !.d[f].rows = rows]
           new == SubSeq(x.c.stats.pstats, offset + 1, offset + n)
           w == WriteFile(room, offset, new)
           z == [w EXCEPT !.c.fcur = x.c.cur]
           y == [z EXCEPT !.d[f].stat = IF x.c.rng = None THEN @ ELSE x.c.rng]
<1>1. f \in Files /\ IsRecord(x.d[f])  BY DEF AtFile
<1>2. FileFields = {"rows", "first", "inis", "stat"} /\ "fcur" \in CatalogFields /\ "file" \in CatalogFields
      BY DEF FileFields, CatalogFields
<1>3. PutLast(x) = y  BY DEF PutLast
<1> HIDE DEF rows, new, offset
<1>4. /\ Shape(room) /\ room.c = x.c /\ IsRecord(room.d[f])
      /\ SameFiles(x, room, {f}) /\ room.d[f].rows = rows
      /\ \A k \in FileFields \ {"rows"} : room.d[f][k] = x.d[f][k]
  BY <1>1, <1>2 DEF Shape, SameFiles, IsRecord
<1>5. /\ Shape(w) /\ w.c = x.c /\ IsRecord(w.d[f])
      /\ SameFiles(x, w, {f}) /\ w.d[f].rows = WriteRows(rows, offset + x.c.burnin, new)
      /\ \A k \in FileFields \ {"rows"} : w.d[f][k] = x.d[f][k]
  <2> HIDE DEF room
  <2>1. AtFile(room)  BY <1>1, <1>4 DEF AtFile
  <2> QED  BY <1>1, <1>4, <2>1, WriteFileIs DEF SameFiles
<1> HIDE DEF w
<1>6. /\ Shape(z) /\ z.d = w.d /\ z.c.fcur = x.c.cur /\ SameBut(x, z, {"fcur"})
  BY <1>2, <1>5 DEF Shape, SameBut
<1> HIDE DEF z
<1>7. /\ Shape(y) /\ y.c = z.c /\ IsRecord(y.d[f]) /\ SameFiles(z, y, {f})
      /\ y.d[f].stat = (IF x.c.rng = None THEN x.d[f].stat ELSE x.c.rng)
      /\ \A k \in FileFields \ {"stat"} : y.d[f][k] = z.d[f][k]
  <2>1. y.c = z.c /\ DOMAIN y = {"c", "d"}  BY <1>6 DEF Shape
  <2>2. y.d = [g \in Files |-> y.d[g]] /\ SameFiles(z, y, {f})
    BY <1>1, <1>6 DEF Shape, SameFiles
  <2>3. Shape(y)  BY <1>6, <2>1, <2>2 DEF Shape
  <2>4. y.d[f] = [z.d[f] EXCEPT !.stat = IF x.c.rng = None THEN z.d[f].stat ELSE x.c.rng]
    BY <1>1, <1>6 DEF Shape
  <2>5. z.d[f] = w.d[f]  BY <1>6
  <2> HIDE DEF y
  <2>6. /\ IsRecord(y.d[f])
        /\ y.d[f].stat = (IF x.c.rng = None THEN z.d[f].stat ELSE x.c.rng)
        /\ \A k \in FileFields \ {"stat"} : y.d[f][k] = z.d[f][k]
    BY <1>2, <1>5, <2>4, <2>5 DEF IsRecord
  <2> QED  BY <1>2, <1>5, <2>1, <2>2, <2>3, <2>5, <2>6
<1> HIDE DEF y
<1> QED  BY <1>1, <1>2, <1>3, <1>5, <1>6, <1>7, SMTT(30) DEF SameFiles, SameBut, rows, new, offset

(* What PutFirst changes.                                                  *)
LEMMA PutFirstIs ==
  ASSUME NEW x, Shape(x), AtFile(x)
  PROVE  LET y == PutFirst(x)
             f == x.c.file
             n == x.c.ffirst - x.c.first
         IN  /\ Shape(y) /\ IsRecord(y.d[f])
             /\ SameBut(x, y, {"ffirst"}) /\ SameFiles(x, y, {f})
             /\ y.c.ffirst = x.c.first
             /\ y.d[f].rows = WriteRows(InsertRows(x.d[f].rows, 0, n), 0 + x.c.burnin,
                                        SubSeq(x.c.stats.pstats, 1, n))
             /\ y.d[f].first = x.c.first /\ y.d[f].stat = x.d[f].stat
             /\ y.d[f].inis = (IF x.c.rng = None THEN x.d[f].inis ELSE x.c.inis)
<1> DEFINE f == x.c.file
           n == x.c.ffirst - x.c.first
           rows == InsertRows(x.d[f].rows, 0, n)
           room == [x EXCEPT !.d[f].rows = rows]
           new == SubSeq(x.c.stats.pstats, 1, n)
           w == WriteFile(room, 0, new)
           z == [w EXCEPT !.c.ffirst = x.c.first]
           v == [z EXCEPT !.d[f].first = x.c.first]
           y == [v EXCEPT !.d[f].inis = IF x.c.rng = None THEN w.d[f].inis ELSE x.c.inis]
<1>1. f \in Files /\ IsRecord(x.d[f])  BY DEF AtFile
<1>2. FileFields = {"rows", "first", "inis", "stat"} /\ "ffirst" \in CatalogFields /\ "file" \in CatalogFields
      BY DEF FileFields, CatalogFields
<1>3. PutFirst(x) = y  BY DEF PutFirst
<1> HIDE DEF rows, new
<1>4. /\ Shape(room) /\ room.c = x.c /\ IsRecord(room.d[f])
      /\ SameFiles(x, room, {f}) /\ room.d[f].rows = rows
      /\ \A k \in FileFields \ {"rows"} : room.d[f][k] = x.d[f][k]
  BY <1>1, <1>2 DEF Shape, SameFiles, IsRecord
<1>5. /\ Shape(w) /\ w.c = x.c /\ IsRecord(w.d[f])
      /\ SameFiles(x, w, {f}) /\ w.d[f].rows = WriteRows(rows, 0 + x.c.burnin, new)
      /\ \A k \in FileFields \ {"rows"} : w.d[f][k] = x.d[f][k]
  <2> HIDE DEF room
  <2>1. AtFile(room)  BY <1>1, <1>4 DEF AtFile
  <2> QED  BY <1>1, <1>4, <2>1, WriteFileIs DEF SameFiles
<1> HIDE DEF w
<1>6. /\ Shape(z) /\ z.d = w.d /\ z.c.ffirst = x.c.first /\ SameBut(x, z, {"ffirst"})
  BY <1>2, <1>5 DEF Shape, SameBut
<1> HIDE DEF z
<1>7. /\ Shape(v) /\ v.c = z.c /\ IsRecord(v.d[f]) /\ SameFiles(z, v, {f})
      /\ v.d[f].first = x.c.first
      /\ \A k \in FileFields \ {"first"} : v.d[f][k] = z.d[f][k]
  <2>1. v.c = z.c /\ DOMAIN v = {"c", "d"}  BY <1>6 DEF Shape
  <2>2. v.d = [g \in Files |-> v.d[g]] /\ SameFiles(z, v, {f})
    BY <1>1, <1>6 DEF Shape, SameFiles
  <2>3. Shape(v)  BY <1>6, <2>1, <2>2 DEF Shape
  <2>4. v.d[f] = [z.d[f] EXCEPT !.first = x.c.first]
    BY <1>1, <1>6 DEF Shape
  <2>5. z.d[f] = w.d[f]  BY <1>6
  <2> HIDE DEF v
  <2>6. /\ IsRecord(v.d[f])
        /\ v.d[f].first = (x.c.first)
        /\ \A k \in FileFields \ {"first"} : v.d[f][k] = z.d[f][k]
    BY <1>2, <1>5, <2>4, <2>5 DEF IsRecord
  <2> QED  BY <1>2, <1>5, <2>1, <2>2, <2>3, <2>5, <2>6
<1> HIDE DEF v
<1>8. /\ Shape(y) /\ y.c = v.c /\ IsRecord(y.d[f]) /\ SameFiles(v, y, {f})
      /\ y.d[f].inis = (IF x.c.rng = None THEN w.d[f].inis ELSE x.c.inis)
      /\ \A k \in FileFields \ {"inis"} : y.d[f][k] = v.d[f][k]
  BY <1>1, <1>2, <1>7 DEF Shape, SameFiles, IsRecord
<1> HIDE DEF y
<1>9. y.c = z.c /\ SameBut(x, y, {"ffirst"}) /\ y.c.ffirst = x.c.first
  BY <1>6, <1>7, <1>8 DEF SameBut
<1>10. SameFiles(x, y, {f})
  <2> SUFFICES ASSUME NEW g \in Files, g # f PROVE y.d[g] = x.d[g]  BY DEF SameFiles
  <2>1. y.d[g] = v.d[g] /\ v.d[g] = z.d[g]  BY <1>7, <1>8 DEF SameFiles
  <2>2. z.d[g] = w.d[g] /\ w.d[g] = x.d[g]  BY <1>5, <1>6 DEF SameFiles
  <2> QED  BY <2>1, <2>2
<1>11. /\ y.d[f].rows = WriteRows(rows, 0 + x.c.burnin, new)
       /\ y.d[f].first = x.c.first /\ y.d[f].stat = x.d[f].stat
  <2>1. /\ {"rows", "stat"} \subseteq FileFields \ {"first", "inis"}
        /\ "stat" \in FileFields \ {"rows"} /\ "first" \in FileFields \ {"inis"}
    BY <1>2
  <2>2. y.d[f].first = v.d[f].first  BY <1>8, <2>1
  <2>3. y.d[f].rows = v.d[f].rows /\ v.d[f].rows = z.d[f].rows  BY <1>7, <1>8, <2>1
  <2>4. y.d[f].stat = v.d[f].stat /\ v.d[f].stat = z.d[f].stat  BY <1>7, <1>8, <2>1
  <2>5. z.d[f] = w.d[f] /\ w.d[f].stat = x.d[f].stat  BY <1>5, <1>6, <2>1
  <2> QED  BY <1>5, <1>7, <2>2, <2>3, <2>4, <2>5
<1>12. y.d[f].inis = (IF x.c.rng = None THEN x.d[f].inis ELSE x.c.inis)
  <2>1. "inis" \in FileFields \ {"rows"}  BY <1>2
  <2>2. w.d[f].inis = x.d[f].inis  BY <1>5, <2>1
  <2> QED  BY <1>8, <2>2
<1> QED  BY <1>3, <1>8, <1>9, <1>10, <1>11, <1>12 DEF rows, new

(* Rows are added after those in memory.                                   *)
LEMMA PostUpdateIs ==
  ASSUME NEW x, Shape(x), NEW rows
  PROVE  LET y == PostUpdate(x, rows)
         IN  /\ Shape(y) /\ y.d = x.d /\ SameBut(x, y, {"stats", "cur"})
             /\ y.c.stats = AddRows(x.c.stats, x.c.cur + 1, rows)
             /\ y.c.stats.pstats = x.c.stats.pstats \o rows
             /\ y.c.cur = x.c.cur + Len(rows)
<1> DEFINE stats == AddRows(x.c.stats, x.c.cur + 1, rows)
           z == [x EXCEPT !.c.stats = stats]
           y == [z EXCEPT !.c.cur = @ + Len(rows)]
<1>1. PostUpdate(x, rows) = y  BY DEF PostUpdate
<1>2. stats.pstats = x.c.stats.pstats \o rows  BY DEF AddRows
<1>3. {"stats", "cur"} \subseteq CatalogFields  BY DEF CatalogFields
<1> HIDE DEF stats
<1>4. Shape(z) /\ z.d = x.d /\ z.c.stats = stats /\ SameBut(x, z, {"stats"})
  BY <1>3 DEF Shape, SameBut
<1> HIDE DEF z
<1>5. Shape(y) /\ y.d = z.d /\ y.c.cur = z.c.cur + Len(rows) /\ SameBut(z, y, {"cur"})
  BY <1>3, <1>4 DEF Shape, SameBut
<1> HIDE DEF y
<1> QED  BY <1>1, <1>2, <1>3, <1>4, <1>5 DEF SameBut, stats

(* What GetFirst changes.                                                  *)
LEMMA GetFirstIs ==
  ASSUME NEW x, Shape(x)
  PROVE  LET y == GetFirst(x)
         IN  /\ Shape(y) /\ y.d = x.d /\ SameBut(x, y, {"stats", "first", "inis"})
             /\ y.c.stats = PrependRows(x.c.stats, x.c.ffirst, ReadFile(x, 1, x.c.first - x.c.ffirst))
             /\ y.c.stats.pstats = ReadFile(x, 1, x.c.first - x.c.ffirst) \o x.c.stats.pstats
             /\ y.c.first = x.c.ffirst
             /\ y.c.inis = (IF x.c.rng = None THEN x.c.inis ELSE x.d[x.c.file].inis)
<1> DEFINE new == ReadFile(x, 1, x.c.first - x.c.ffirst)
           stats == PrependRows(x.c.stats, x.c.ffirst, new)
           z == [x EXCEPT !.c.stats = stats]
           w == [z EXCEPT !.c.first = x.c.ffirst]
           y == [w EXCEPT !.c.inis = IF x.c.rng = None THEN @ ELSE x.d[x.c.file].inis]
<1>1. GetFirst(x) = y  BY DEF GetFirst
<1>2. stats.pstats = new \o x.c.stats.pstats  BY DEF PrependRows
<1>3. {"stats", "first", "inis"} \subseteq CatalogFields  BY DEF CatalogFields
<1> HIDE DEF stats
<1>4. Shape(z) /\ z.d = x.d /\ z.c.stats = stats /\ SameBut(x, z, {"stats"})
  BY <1>3 DEF Shape, SameBut
<1> HIDE DEF z
<1>5. Shape(w) /\ w.d = z.d /\ w.c.first = x.c.ffirst /\ SameBut(z, w, {"first"})
  BY <1>3, <1>4 DEF Shape, SameBut
<1> HIDE DEF w
<1>6. /\ Shape(y) /\ y.d = w.d /\ SameBut(w, y, {"inis"})
      /\ y.c.inis = (IF x.c.rng = None THEN w.c.inis ELSE x.d[x.c.file].inis)
  BY <1>3, <1>5 DEF Shape, SameBut
<1> HIDE DEF y
<1> QED  BY <1>1, <1>2, <1>3, <1>4, <1>5, <1>6 DEF SameBut, stats

(* What GetLast changes.                                                   *)
LEMMA GetLastIs ==
  ASSUME NEW x, Shape(x)
  PROVE  LET y == GetLast(x)
             n == x.c.fcur - x.c.cur
             new == ReadFile(x, x.c.cur + 1 - x.c.first + 1, n)
         IN  /\ Shape(y) /\ y.d = x.d /\ SameBut(x, y, {"stats", "cur", "rng"})
             /\ y.c.stats = AddRows(x.c.stats, x.c.cur + 1, new)
             /\ y.c.stats.pstats = x.c.stats.pstats \o new
             /\ y.c.cur = x.c.cur + Len(new)
             /\ y.c.rng = (IF x.c.rng = None THEN x.c.rng ELSE x.d[x.c.file].stat)
<1> DEFINE n == x.c.fcur - x.c.cur
           new == ReadFile(x, x.c.cur + 1 - x.c.first + 1, n)
           z == PostUpdate(x, new)
           y == [z EXCEPT !.c.rng = IF @ = None THEN @ ELSE x.d[x.c.file].stat]
<1>1. GetLast(x) = y  BY DEF GetLast
<1>2. {"rng", "stats", "cur"} \subseteq CatalogFields  BY DEF CatalogFields
<1> HIDE DEF new
<1>3. /\ Shape(z) /\ z.d = x.d /\ SameBut(x, z, {"stats", "cur"})
      /\ z.c.stats = AddRows(x.c.stats, x.c.cur + 1, new)
      /\ z.c.stats.pstats = x.c.stats.pstats \o new
      /\ z.c.cur = x.c.cur + Len(new)
  BY PostUpdateIs
<1> HIDE DEF z
<1>4. /\ Shape(y) /\ y.d = z.d /\ SameBut(z, y, {"rng"})
      /\ y.c.rng = (IF z.c.rng = None THEN z.c.rng ELSE x.d[x.c.file].stat)
  BY <1>2, <1>3 DEF Shape, SameBut
<1> HIDE DEF y
<1> QED  BY <1>1, <1>2, <1>3, <1>4 DEF SameBut, new


-----------------------------------------------------------------------------
(* Rows put into a table, or in front of it                                *)

(* A function on 1..n is a sequence of length n.                           *)
LEMMA FromOne ==
  ASSUME NEW n \in Nat, NEW s \in [1..n -> Nat] PROVE s \in Seq(Nat) /\ Len(s) = n
<1>1. s \in Seq(Nat)  BY SeqDef
<1>2. Len(s) \in Nat /\ DOMAIN s = 1..Len(s)  BY <1>1, LenProperties
<1> QED  BY <1>1, <1>2

(* Rows of two sequences joined.                                           *)
LEMMA Joined ==
  ASSUME NEW s \in Seq(Nat), NEW t \in Seq(Nat)
  PROVE  /\ s \o t \in Seq(Nat) /\ Len(s \o t) = Len(s) + Len(t)
         /\ \A i \in 1..Len(s) : (s \o t)[i] = s[i]
         /\ \A i \in Len(s) + 1..Len(s) + Len(t) : (s \o t)[i] = t[i - Len(s)]
<1>1. Len(s) \in Nat /\ Len(t) \in Nat  OBVIOUS
<1>2. /\ s \o t \in Seq(Nat) /\ Len(s \o t) = Len(s) + Len(t)
      /\ \A i \in 1..Len(s) + Len(t) :
           (s \o t)[i] = IF i <= Len(s) THEN s[i] ELSE t[i - Len(s)]
  BY ConcatProperties
<1> QED  BY <1>1, <1>2

(* A part of a sequence that lies within it.                               *)
LEMMA Cut ==
  ASSUME NEW s \in Seq(Nat), NEW m \in Nat, m > 0, NEW n \in Nat, n <= Len(s), m <= n + 1
  PROVE  /\ SubSeq(s, m, n) \in Seq(Nat) /\ Len(SubSeq(s, m, n)) = n - m + 1
         /\ \A i \in 1..n - m + 1 : SubSeq(s, m, n)[i] = s[m + i - 1]
<1>1. \A i \in m..n : s[i] \in Nat  OBVIOUS
<1> DEFINE t == SubSeq(s, m, n)
<1>2. /\ t \in Seq(Nat)
      /\ Len(t) = IF m <= n THEN n - m + 1 ELSE 0
      /\ \A i \in 1..n - m + 1 : t[i] = s[m + i - 1]
  BY <1>1, SubSeqProperties
<1> HIDE DEF t
<1>3. Len(t) = n - m + 1  BY <1>2
<1> QED  BY <1>2, <1>3 DEF t

(* Rows inserted, and then written where they were inserted.               *)
LEMMA Inserted ==
  ASSUME NEW rows \in Seq(Nat), NEW a \in Nat, a <= Len(rows), NEW new \in Seq(Nat)
  PROVE  LET out == WriteRows(InsertRows(rows, a, Len(new)), a, new)
         IN  /\ out \in Seq(Nat) /\ Len(out) = Len(rows) + Len(new)
             /\ \A i \in 1..a : out[i] = rows[i]
             /\ \A i \in a + 1..a + Len(new) : out[i] = new[i - a]
             /\ \A i \in a + Len(new) + 1..Len(rows) + Len(new) : out[i] = rows[i - Len(new)]
<1> DEFINE n == Len(new)
           low == SubSeq(rows, 1, a)
           mid == [i \in 1..n |-> Blank]
           high == SubSeq(rows, a + 1, Len(rows))
           both == low \o mid
           ins == both \o high
           out == WriteRows(ins, a, new)
<1>1. n \in Nat /\ Len(rows) \in Nat  OBVIOUS
<1>2. low \in Seq(Nat) /\ Len(low) = a /\ \A i \in 1..a : low[i] = rows[i]
  <2>1. /\ low \in Seq(Nat) /\ Len(low) = a - 1 + 1
        /\ \A i \in 1..a - 1 + 1 : low[i] = rows[1 + i - 1]
    BY Cut
  <2> HIDE DEF low
  <2>2. \A i \in 1..a : 1 + i - 1 = i /\ i \in 1..a - 1 + 1  OBVIOUS
  <2>3. Len(low) = a  BY <2>1
  <2>4. \A i \in 1..a : low[i] = rows[i]  BY <2>1, <2>2
  <2> QED  BY <2>1, <2>3, <2>4
<1>3. mid \in Seq(Nat) /\ Len(mid) = n
  <2>1. mid \in [1..n -> Nat]  BY DEF Blank
  <2> QED  BY <1>1, <2>1, FromOne
<1>4. /\ high \in Seq(Nat) /\ Len(high) = Len(rows) - a
      /\ \A i \in 1..Len(rows) - a : high[i] = rows[a + i]
  <2>1. /\ high \in Seq(Nat) /\ Len(high) = Len(rows) - (a + 1) + 1
        /\ \A i \in 1..Len(rows) - (a + 1) + 1 : high[i] = rows[(a + 1) + i - 1]
    BY <1>1, Cut
  <2> HIDE DEF high
  <2>2. Len(high) = Len(rows) - a  BY <1>1, <2>1
  <2>3. ASSUME NEW i \in 1..Len(rows) - a PROVE high[i] = rows[a + i]
    <3>1. i \in 1..Len(rows) - (a + 1) + 1 /\ (a + 1) + i - 1 = a + i  BY <1>1
    <3> QED  BY <2>1, <3>1
  <2> QED  BY <2>1, <2>2, <2>3
<1> HIDE DEF low, mid, high, n
<1>5. both \in Seq(Nat) /\ Len(both) = a + n /\ \A i \in 1..a : both[i] = low[i]
  BY <1>1, <1>2, <1>3, Joined
<1> HIDE DEF both
<1>6. /\ ins \in Seq(Nat) /\ Len(ins) = (a + n) + (Len(rows) - a)
      /\ \A i \in 1..a + n : ins[i] = both[i]
      /\ \A i \in (a + n) + 1..(a + n) + (Len(rows) - a) : ins[i] = high[i - (a + n)]
  <2>1. /\ ins \in Seq(Nat) /\ Len(ins) = Len(both) + Len(high)
        /\ \A i \in 1..Len(both) : ins[i] = both[i]
        /\ \A i \in Len(both) + 1..Len(both) + Len(high) : ins[i] = high[i - Len(both)]
    BY <1>4, <1>5, Joined
  <2> HIDE DEF ins
  <2> QED  BY <1>4, <1>5, <2>1
<1> HIDE DEF ins
<1>7. Len(ins) = Len(rows) + n  BY <1>1, <1>6
<1>8. out = [i \in 1..Len(rows) + n |->
               IF i > a /\ i <= a + n THEN new[i - a] ELSE ins[i]]
  <2> DEFINE end == a + Len(new)
             last == IF Len(ins) > end THEN Len(ins) ELSE end
             Old(i) == IF i <= Len(ins) THEN ins[i] ELSE Blank
  <2>1. out = [i \in 1..last |-> IF i > a /\ i <= end THEN new[i - a] ELSE Old(i)]
    BY DEF WriteRows
  <2>2. end = a + n  BY DEF n
  <2> HIDE DEF end
  <2>3. last = Len(rows) + n  BY <1>1, <1>7, <2>2
  <2>4. \A i \in 1..Len(rows) + n : Old(i) = ins[i]  BY <1>1, <1>7
  <2> HIDE DEF last, Old
  <2> QED  BY <2>1, <2>2, <2>3, <2>4
<1>9. ASSUME NEW i \in 1..a PROVE out[i] \in Nat /\ out[i] = rows[i]
  <2>1. i \in 1..Len(rows) + n /\ i \in 1..a + n /\ i \in 1..Len(rows)  BY <1>1
  <2>2. ins[i] = rows[i]  BY <1>2, <1>5, <1>6, <2>1
  <2>3. out[i] = ins[i]  BY <1>1, <1>8, <2>1
  <2> QED  BY <2>1, <2>2, <2>3
<1>10. ASSUME NEW i \in a + 1..a + n PROVE out[i] \in Nat /\ out[i] = new[i - a]
  BY <1>1, <1>8 DEF n
<1>11. ASSUME NEW i \in a + n + 1..Len(rows) + n PROVE out[i] \in Nat /\ out[i] = rows[i - n]
  <2>1. ins[i] = high[i - (a + n)]  BY <1>1, <1>6
  <2>2. i - (a + n) \in 1..Len(rows) - a  BY <1>1
  <2>3. high[i - (a + n)] = rows[a + (i - (a + n))]  BY <1>4, <2>2
  <2>4. out[i] = ins[i]  BY <1>1, <1>8
  <2> QED  BY <1>1, <2>1, <2>2, <2>3, <2>4
<1>12. out \in [1..Len(rows) + n -> Nat]
  <2>1. ASSUME NEW i \in 1..Len(rows) + n PROVE out[i] \in Nat
    <3>1. i \in 1..a \/ i \in a + 1..a + n \/ i \in a + n + 1..Len(rows) + n  BY <1>1
    <3> QED  BY <3>1, <1>9, <1>10, <1>11
  <2> QED  BY <1>8, <2>1
<1>13. out \in Seq(Nat) /\ Len(out) = Len(rows) + n
  <2>1. Len(rows) + n \in Nat  BY <1>1
  <2> HIDE DEF out
  <2> QED  BY <1>12, <2>1, FromOne
<1> HIDE DEF out
<1>14. out = WriteRows(InsertRows(rows, a, Len(new)), a, new)
  BY DEF InsertRows, out, ins, both, low, mid, high, n
<1> QED  BY <1>9, <1>10, <1>11, <1>13, <1>14 DEF n

(* In front of the rows.                                                   *)
LEMMA InsertedFirst ==
  ASSUME NEW rows \in Seq(Nat), NEW new \in Seq(Nat)
  PROVE  LET out == WriteRows(InsertRows(rows, 0, Len(new)), 0, new)
         IN  /\ out \in Seq(Nat) /\ Len(out) = Len(rows) + Len(new)
             /\ \A i \in 1..Len(new) : out[i] = new[i]
             /\ \A i \in Len(new) + 1..Len(rows) + Len(new) : out[i] = rows[i - Len(new)]
<1>1. PICK a \in Nat : a = 0  OBVIOUS
<1> DEFINE out == WriteRows(InsertRows(rows, a, Len(new)), a, new)
<1>2. Len(rows) \in Nat /\ Len(new) \in Nat  OBVIOUS
<1>3. a <= Len(rows)  BY <1>1, <1>2
<1>4. /\ out \in Seq(Nat) /\ Len(out) = Len(rows) + Len(new)
      /\ \A i \in a + 1..a + Len(new) : out[i] = new[i - a]
      /\ \A i \in a + Len(new) + 1..Len(rows) + Len(new) : out[i] = rows[i - Len(new)]
  BY <1>3, Inserted, SMTT(30)
<1> HIDE DEF out
<1>5. ASSUME NEW i \in 1..Len(new) PROVE out[i] = new[i]
  <2>1. i - a = i /\ i \in a + 1..a + Len(new)  BY <1>1, <1>2
  <2> QED  BY <1>4, <2>1
<1>6. ASSUME NEW i \in Len(new) + 1..Len(rows) + Len(new) PROVE out[i] = rows[i - Len(new)]
  <2>1. i \in a + Len(new) + 1..Len(rows) + Len(new)  BY <1>1, <1>2
  <2> QED  BY <1>4, <2>1
<1>7. out = WriteRows(InsertRows(rows, 0, Len(new)), 0, new)  BY <1>1 DEF out
<1> QED  BY <1>4, <1>5, <1>6, <1>7

(* There are so many rows.                                                 *)
Has(s, n) == s \in Seq(Nat) /\ n <= Len(s)
HasExactly(s, n) == s \in Seq(Nat) /\ n = Len(s)

Extends(s, r, p, k, n) ==
  /\ s \in Seq(Nat) /\ Len(s) = Len(r) + n
  /\ \A i \in 1..k : s[i] = r[i]
  /\ \A i \in k + 1..k + n : s[i] = p[i]

(* After k rows, those that follow the first k of another sequence.        *)
LEMMA Extended ==
  ASSUME NEW r, NEW p, NEW k \in Nat, NEW n \in Nat, Has(r, k), Has(p, k + n)
  PROVE  Extends(WriteRows(InsertRows(r, k, n), k, SubSeq(p, k + 1, k + n)), r, p, k, n)
<1> DEFINE new == SubSeq(p, k + 1, k + n)
           out == WriteRows(InsertRows(r, k, Len(new)), k, new)
<1>1. PICK m \in Nat, l \in Nat : m = k + 1 /\ l = k + n  OBVIOUS
<1>2. /\ new \in Seq(Nat) /\ Len(new) = l - m + 1
      /\ \A i \in 1..l - m + 1 : new[i] = p[m + i - 1]
  <2> HIDE DEF new
  <2>1. new = SubSeq(p, m, l) /\ m > 0 /\ l <= Len(p) /\ m <= l + 1  BY <1>1 DEF new, Has
  <2>2. p \in Seq(Nat)  BY DEF Has
  <2> QED  BY <2>1, <2>2, Cut
<1> HIDE DEF new
<1>3. Len(new) = n /\ \A i \in 1..n : new[i] = p[k + i]
  <2>1. \A i \in 1..n : m + i - 1 = k + i /\ i \in 1..l - m + 1  BY <1>1
  <2>2. Len(new) = n  BY <1>1, <1>2
  <2>3. \A i \in 1..n : new[i] = p[k + i]  BY <1>2, <2>1
  <2> QED  BY <2>2, <2>3
<1>4. /\ out \in Seq(Nat) /\ Len(out) = Len(r) + Len(new)
      /\ \A i \in 1..k : out[i] = r[i]
      /\ \A i \in k + 1..k + Len(new) : out[i] = new[i - k]
  <2>1. new \in Seq(Nat)  BY <1>2
  <2>2. r \in Seq(Nat) /\ k <= Len(r)  BY DEF Has
  <2> QED  BY <2>1, <2>2, Inserted, ZenonT(60)
<1>5. out = WriteRows(InsertRows(r, k, n), k, SubSeq(p, k + 1, k + n))
  BY <1>3 DEF new
<1> HIDE DEF out
<1>6. ASSUME NEW i \in k + 1..k + n PROVE out[i] = p[i]
  <2>1. i - k \in 1..n /\ k + (i - k) = i  OBVIOUS
  <2>2. out[i] = new[i - k]  BY <1>3, <1>4
  <2> QED  BY <1>3, <2>1, <2>2
<1>7. Len(out) = Len(r) + n  BY <1>3, <1>4
<1> QED  BY <1>4, <1>5, <1>6, <1>7 DEF Extends

-----------------------------------------------------------------------------
(* The same by ids: rows p are those of a to b, rows r those of c to d     *)

(* After e others, the rows of s are those with the ids from a to b.       *)
Spans(s, e, a, b) == s \in Seq(Nat) /\ Len(s) = e + (b - a + 1)

At(s, e, a, id) == s[e + (id - a + 1)]

(* n rows of r, the first of which has the number k after e others.        *)
ReadRows(r, e, k, n) == [i \in 1..n |-> r[e + k + i - 1]]

(* From the id l to the id h, s has the rows of t.                         *)
Same(s, e, a, t, f, c, l, h) == \A id \in l..h : At(s, e, a, id) = At(t, f, c, id)

(* Rows of memory before those of the file are put before them.            *)
LEMMA IdsPutFirst ==
  ASSUME NEW a \in Nat, NEW b \in Int, NEW c \in Nat, NEW d \in Int,
         a < c, c - 1 <= b, c - 1 <= d, NEW p, Spans(p, 0, a, b), NEW r, Spans(r, 0, c, d)
  PROVE  LET out == WriteRows(InsertRows(r, 0, c - a), 0, SubSeq(p, 1, c - a))
         IN  /\ Spans(out, 0, a, d)
             /\ Same(out, 0, a, p, 0, a, a, c - 1) /\ Same(out, 0, a, r, 0, c, c, d)
<1> DEFINE new == SubSeq(p, 1, c - a)
           out == WriteRows(InsertRows(r, 0, Len(new)), 0, new)
<1>0. Len(p) = b - a + 1 /\ Len(r) = d - c + 1
  <2>1. Len(p) = 0 + (b - a + 1) /\ Len(r) = 0 + (d - c + 1)  BY DEF Spans
  <2> QED  BY <2>1
<1>1. p \in Seq(Nat) /\ r \in Seq(Nat)  BY DEF Spans
<1>2. PICK n \in Nat : n = c - a  OBVIOUS
<1>3. n <= Len(p) /\ 1 <= n + 1  BY <1>0, <1>2
<1>4. new \in Seq(Nat) /\ Len(new) = n /\ \A i \in 1..n : new[i] = p[i]
  <2> HIDE DEF new
  <2>1. new = SubSeq(p, 1, n)  BY <1>2 DEF new
  <2>2. /\ new \in Seq(Nat) /\ Len(new) = n - 1 + 1
        /\ \A i \in 1..n - 1 + 1 : new[i] = p[1 + i - 1]
    BY <1>1, <1>3, <2>1, Cut
  <2>3. \A i \in 1..n : 1 + i - 1 = i /\ i \in 1..n - 1 + 1  OBVIOUS
  <2>4. Len(new) = n  BY <2>2
  <2>5. \A i \in 1..n : new[i] = p[i]  BY <2>2, <2>3
  <2> QED  BY <2>2, <2>4, <2>5
<1> HIDE DEF new
<1>5. /\ out \in Seq(Nat) /\ Len(out) = Len(r) + Len(new)
      /\ \A i \in 1..Len(new) : out[i] = new[i]
      /\ \A i \in Len(new) + 1..Len(r) + Len(new) : out[i] = r[i - Len(new)]
  <2>1. new \in Seq(Nat)  BY <1>4
  <2> QED  BY <1>1, <2>1, InsertedFirst
<1>6. out = WriteRows(InsertRows(r, 0, c - a), 0, SubSeq(p, 1, c - a))
  <2>1. Len(new) = c - a  BY <1>2, <1>4
  <2> QED  BY <2>1 DEF new
<1> HIDE DEF out
<1>7. Spans(out, 0, a, d)
  <2>1. Len(out) = Len(r) + n  BY <1>4, <1>5
  <2>2. Len(out) = 0 + (d - a + 1)  BY <1>0, <1>2, <2>1
  <2> QED  BY <1>5, <2>2 DEF Spans
<1>8. ASSUME NEW id \in a..c - 1 PROVE At(out, 0, a, id) = At(p, 0, a, id)
  <2>1. PICK i \in 1..n : i = 0 + (id - a + 1)  BY <1>2
  <2>2. out[i] = p[i]  BY <1>4, <1>5
  <2> QED  BY <2>1, <2>2 DEF At
<1>9. ASSUME NEW id \in c..d PROVE At(out, 0, a, id) = At(r, 0, c, id)
  <2>1. PICK i \in n + 1..Len(r) + n : i = 0 + (id - a + 1)
    <3>1. 0 + (id - a + 1) \in n + 1..Len(r) + n  BY <1>0, <1>2
    <3> QED  BY <3>1
  <2>2. out[i] = r[i - n]  BY <1>4, <1>5
  <2>3. i - n = 0 + (id - c + 1)  BY <1>2, <2>1
  <2> QED  BY <2>1, <2>2, <2>3 DEF At
<1> QED  BY <1>6, <1>7, <1>8, <1>9 DEF Same

(* Rows of memory after those of the file are put after them.              *)
LEMMA IdsPutLast ==
  ASSUME NEW a \in Nat, NEW b \in Int, NEW d \in Int, a - 1 <= d, d < b,
         NEW p, Spans(p, 0, a, b), NEW r, Spans(r, 0, a, d)
  PROVE  LET k == d + 1 - a
             out == WriteRows(InsertRows(r, k, b - d), k, SubSeq(p, k + 1, k + (b - d)))
         IN  /\ Spans(out, 0, a, b)
             /\ Same(out, 0, a, r, 0, a, a, d) /\ Same(out, 0, a, p, 0, a, d + 1, b)
<1>1. PICK n \in Nat : n = b - d  OBVIOUS
<1>2. PICK k \in Nat : k = d + 1 - a  OBVIOUS
<1>3. Len(r) = d - a + 1 /\ Len(p) = b - a + 1
  <2>1. Len(p) = 0 + (b - a + 1) /\ Len(r) = 0 + (d - a + 1)  BY DEF Spans
  <2> QED  BY <2>1
<1>4. Has(r, k) /\ Has(p, k + n)
  <2>1. k <= Len(r) /\ k + n <= Len(p)  BY <1>1, <1>2, <1>3
  <2> QED  BY <2>1 DEF Has, Spans
<1> DEFINE out == WriteRows(InsertRows(r, k, n), k, SubSeq(p, k + 1, k + n))
<1>5. Extends(out, r, p, k, n)  BY <1>4, Extended
<1>6. out = WriteRows(InsertRows(r, d + 1 - a, b - d), d + 1 - a,
                      SubSeq(p, (d + 1 - a) + 1, (d + 1 - a) + (b - d)))
  BY <1>1, <1>2 DEF out
<1> HIDE DEF out
<1>7. Spans(out, 0, a, b)
  <2>1. Len(out) = Len(r) + n  BY <1>5 DEF Extends
  <2>2. Len(out) = 0 + (b - a + 1)  BY <1>1, <1>3, <2>1
  <2> QED  BY <1>5, <2>2 DEF Spans, Extends
<1>8. ASSUME NEW id \in a..d PROVE At(out, 0, a, id) = At(r, 0, a, id)
  <2>1. PICK i \in 1..k : i = 0 + (id - a + 1)  BY <1>2
  <2>2. out[i] = r[i]  BY <1>5 DEF Extends
  <2> QED  BY <2>1, <2>2 DEF At
<1>9. ASSUME NEW id \in d + 1..b PROVE At(out, 0, a, id) = At(p, 0, a, id)
  <2>1. PICK i \in k + 1..k + n : i = 0 + (id - a + 1)  BY <1>1, <1>2
  <2>2. out[i] = p[i]  BY <1>5 DEF Extends
  <2> QED  BY <2>1, <2>2 DEF At
<1> QED  BY <1>6, <1>7, <1>8, <1>9 DEF Same

(* Rows of the file before those in memory are got.                        *)
LEMMA IdsGetFirst ==
  ASSUME NEW a \in Nat, NEW b \in Int, NEW c \in Nat, NEW d \in Int,
         c < a, a - 1 <= d, a - 1 <= b, NEW e \in Nat,
         NEW p, Spans(p, 0, a, b), NEW r, Spans(r, e, c, d)
  PROVE  LET out == ReadRows(r, e, 1, a - c) \o p
         IN  /\ Spans(out, 0, c, b)
             /\ Same(out, 0, c, r, e, c, c, a - 1) /\ Same(out, 0, c, p, 0, a, a, b)
<1> DEFINE new == ReadRows(r, e, 1, a - c)
<1>0. Len(p) = b - a + 1 /\ Len(r) = e + (d - c + 1)
  <2>1. Len(p) = 0 + (b - a + 1) /\ Len(r) = e + (d - c + 1)  BY DEF Spans
  <2> QED  BY <2>1
<1>p. p \in Seq(Nat) /\ r \in Seq(Nat)  BY DEF Spans
<1>1. PICK n \in Nat : n = a - c  OBVIOUS
<1>2. e + n <= Len(r)  BY <1>0, <1>1
<1>3. new = [i \in 1..n |-> r[e + i]]
  <2>1. \A i \in 1..n : e + 1 + i - 1 = e + i  OBVIOUS
  <2> QED  BY <1>1, <2>1 DEF ReadRows
<1> HIDE DEF new
<1>4. new \in [1..n -> Nat]
  <2>1. \A i \in 1..n : e + i \in 1..Len(r)  BY <1>2
  <2>2. \A i \in 1..n : r[e + i] \in Nat  BY <1>p, <2>1, ElementOfSeq
  <2> QED  BY <1>3, <2>2
<1>5. new \in Seq(Nat) /\ Len(new) = n  BY <1>4, FromOne
<1> DEFINE out == new \o p
<1>6. /\ out \in Seq(Nat) /\ Len(out) = Len(new) + Len(p)
      /\ \A i \in 1..Len(new) : out[i] = new[i]
      /\ \A i \in Len(new) + 1..Len(new) + Len(p) : out[i] = p[i - Len(new)]
  BY <1>p, <1>5, Joined
<1> HIDE DEF out
<1>7. Spans(out, 0, c, b)
  <2>1. Len(out) = n + Len(p)  BY <1>5, <1>6
  <2>2. Len(out) = 0 + (b - c + 1)  BY <1>0, <1>1, <2>1
  <2> QED  BY <1>6, <2>2 DEF Spans
<1>8. ASSUME NEW id \in c..a - 1 PROVE At(out, 0, c, id) = At(r, e, c, id)
  <2>1. PICK i \in 1..n : i = 0 + (id - c + 1) /\ e + i = e + (id - c + 1)  BY <1>1
  <2>2. out[i] = new[i]  BY <1>5, <1>6
  <2>3. new[i] = r[e + i]  BY <1>3
  <2> QED  BY <2>1, <2>2, <2>3 DEF At
<1>9. ASSUME NEW id \in a..b PROVE At(out, 0, c, id) = At(p, 0, a, id)
  <2>1. PICK i \in n + 1..n + Len(p) : i = 0 + (id - c + 1)
    <3>1. 0 + (id - c + 1) \in n + 1..n + Len(p)  BY <1>0, <1>1
    <3> QED  BY <3>1
  <2>2. out[i] = p[i - n]  BY <1>5, <1>6
  <2>3. i - n = 0 + (id - a + 1)  BY <1>1, <2>1
  <2> QED  BY <2>1, <2>2, <2>3 DEF At
<1> QED  BY <1>7, <1>8, <1>9 DEF out, new, Same

(* Rows of the file after those in memory are got.                         *)
LEMMA IdsGetLast ==
  ASSUME NEW a \in Nat, NEW b \in Int, NEW d \in Int, a - 1 <= b, b < d, NEW e \in Nat,
         NEW p, Spans(p, 0, a, b), NEW r, Spans(r, e, a, d)
  PROVE  LET new == ReadRows(r, e, b + 1 - a + 1, d - b)
             out == p \o new
         IN  /\ Spans(out, 0, a, d) /\ HasExactly(new, d - b)
             /\ Same(out, 0, a, p, 0, a, a, b) /\ Same(out, 0, a, r, e, a, b + 1, d)
<1> DEFINE new == ReadRows(r, e, b + 1 - a + 1, d - b)
<1>0. Len(p) = b - a + 1 /\ Len(r) = e + (d - a + 1)
  <2>1. Len(p) = 0 + (b - a + 1) /\ Len(r) = e + (d - a + 1)  BY DEF Spans
  <2> QED  BY <2>1
<1>p. p \in Seq(Nat) /\ r \in Seq(Nat)  BY DEF Spans
<1>1. PICK n \in Nat : n = d - b  OBVIOUS
<1>2. PICK k \in Nat : k = e + (b - a + 1)  OBVIOUS
<1>3. k + n = Len(r)  BY <1>0, <1>1, <1>2
<1>4. new = [i \in 1..n |-> r[k + i]]
  <2>1. \A i \in 1..n : e + (b + 1 - a + 1) + i - 1 = k + i  BY <1>2
  <2> QED  BY <1>1, <2>1 DEF ReadRows
<1> HIDE DEF new
<1>5. new \in [1..n -> Nat]
  <2>1. \A i \in 1..n : k + i \in 1..Len(r)  BY <1>3
  <2>2. \A i \in 1..n : r[k + i] \in Nat  BY <1>p, <2>1, ElementOfSeq
  <2> QED  BY <1>4, <2>2
<1>6. new \in Seq(Nat) /\ Len(new) = n  BY <1>5, FromOne
<1> DEFINE out == p \o new
<1>7. /\ out \in Seq(Nat) /\ Len(out) = Len(p) + Len(new)
      /\ \A i \in 1..Len(p) : out[i] = p[i]
      /\ \A i \in Len(p) + 1..Len(p) + Len(new) : out[i] = new[i - Len(p)]
  BY <1>p, <1>6, Joined
<1> HIDE DEF out
<1>8. Spans(out, 0, a, d)
  <2>1. Len(out) = Len(p) + n  BY <1>6, <1>7
  <2>2. Len(out) = 0 + (d - a + 1)  BY <1>0, <1>1, <2>1
  <2> QED  BY <1>7, <2>2 DEF Spans
<1>9. ASSUME NEW id \in a..b PROVE At(out, 0, a, id) = At(p, 0, a, id)
  <2>1. PICK i \in 1..Len(p) : i = 0 + (id - a + 1)
    <3>1. 0 + (id - a + 1) \in 1..Len(p)  BY <1>0
    <3> QED  BY <3>1
  <2>2. out[i] = p[i]  BY <1>7
  <2> QED  BY <2>1, <2>2 DEF At
<1>10. ASSUME NEW id \in b + 1..d PROVE At(out, 0, a, id) = At(r, e, a, id)
  <2>0. PICK m \in Nat : m = Len(p)  BY <1>p
  <2>1. PICK i \in m + 1..m + n : i = 0 + (id - a + 1)
    <3>1. 0 + (id - a + 1) \in m + 1..m + n  BY <1>0, <1>1, <2>0
    <3> QED  BY <3>1
  <2>2. out[i] = new[i - m]  BY <1>6, <1>7, <2>0
  <2>3. new[i - m] = r[k + (i - m)]  BY <1>4
  <2>4. k + (i - m) = e + (id - a + 1)  BY <1>0, <1>2, <2>0, <2>1
  <2> QED  BY <2>1, <2>2, <2>3, <2>4 DEF At
<1>11. HasExactly(new, d - b)  BY <1>1, <1>6 DEF HasExactly
<1> QED  BY <1>8, <1>9, <1>10, <1>11 DEF out, new, Same


-----------------------------------------------------------------------------
(* What a row id has in memory and in the open file                        *)

MemRows(x) == x.c.stats.pstats
FileRows(x) == x.d[x.c.file].rows

IsFile(r) ==
  /\ IsRecord(r)
  /\ r.rows \in Seq(Nat) /\ r.first \in Nat /\ r.inis \in RngState /\ r.stat \in RngState

(* A file is not the mark of a file that does not exist.                   *)
LEMMA IsFileThere ==
  ASSUME NEW r, IsFile(r) PROVE r # None
<1>1. r \in FileRecord  BY DEF IsFile, IsRecord, FileFields, FileRecord, RngState
<1> QED  BY <1>1, NoneAssumption

(* The ids of the rows in memory are those of the catalog.                 *)
MemOK(x) ==
  /\ Shape(x)
  /\ x.c.first \in Nat /\ x.c.cur \in Int /\ x.c.first - 1 <= x.c.cur
  /\ x.c.burnin \in Nat /\ x.c.rng \in RngState /\ x.c.inis \in RngState
  /\ Spans(MemRows(x), 0, x.c.first, x.c.cur)

(* The same of the open file.                                              *)
FileOK(x) ==
  /\ x.c.file \in Files /\ IsFile(x.d[x.c.file])
  /\ x.c.ffirst \in Nat /\ x.c.fcur \in Int /\ x.c.ffirst - 1 <= x.c.fcur
  /\ Spans(FileRows(x), x.c.burnin, x.c.ffirst, x.c.fcur)
  /\ x.d[x.c.file].first = x.c.ffirst

InMem(x, id) == id \in x.c.first..x.c.cur
InFile(x, id) == id \in x.c.ffirst..x.c.fcur
Mem(x, id) == At(MemRows(x), 0, x.c.first, id)
Fil(x, id) == At(FileRows(x), x.c.burnin, x.c.ffirst, id)

(* Nothing is lost, changed or made up from x to y: each side keeps its    *)
(* rows, and has got none but rows of the other.                           *)
BringsId(x, y, id) ==
  /\ InMem(y, id) \/ InFile(y, id) => InMem(x, id) \/ InFile(x, id)
  /\ InMem(x, id) => InMem(y, id) /\ Mem(y, id) = Mem(x, id)
  /\ InFile(x, id) => InFile(y, id) /\ Fil(y, id) = Fil(x, id)
  /\ InMem(y, id) /\ ~ InMem(x, id) => Mem(y, id) = Fil(x, id)
  /\ InFile(y, id) /\ ~ InFile(x, id) => Fil(y, id) = Mem(x, id)

Brings(x, y) == \A id \in Int : BringsId(x, y, id)

(* Nothing happens ...                                                     *)
LEMMA BringsItself == \A x : Brings(x, x)
BY DEF Brings, BringsId

(* ... or one thing after the other.                                       *)
LEMMA BringsOn ==
  ASSUME NEW x, NEW y, NEW z, Brings(x, y), Brings(y, z) PROVE Brings(x, z)
<1> SUFFICES ASSUME NEW id \in Int PROVE BringsId(x, z, id)  BY DEF Brings
<1>1. BringsId(x, y, id) /\ BringsId(y, z, id)  BY DEF Brings
<1> QED  BY <1>1 DEF BringsId

(* Chains and ensembles of x are those of its rows: so are those of y.     *)
StaysWhole(x, y) == Whole(x.c.stats, x.c.first) => Whole(y.c.stats, y.c.first)

(* Rows that follow those in memory go into chains and ensembles.          *)
LEMMA AddedStaysWhole ==
  ASSUME NEW x, MemOK(x), NEW rows \in Seq(Nat), NEW y, y.c.first = x.c.first,
         y.c.stats = AddRows(x.c.stats, x.c.cur + 1, rows)
  PROVE  StaysWhole(x, y)
<1>1. PICK a \in Nat, b \in Int : a = x.c.first /\ b = x.c.cur /\ a - 1 <= b  BY DEF MemOK
<1>2. Len(x.c.stats.pstats) = 0 + (b - a + 1)  BY <1>1 DEF MemOK, Spans, MemRows
<1>3. b + 1 = a + Len(x.c.stats.pstats)  BY <1>1, <1>2
<1>4. ASSUME Whole(x.c.stats, a) PROVE Whole(AddRows(x.c.stats, b + 1, rows), a)
  BY <1>1, <1>3, <1>4, WholeAdded
<1> QED  BY <1>1, <1>4 DEF StaysWhole

(* Memory precedes the file.                                               *)
LEMMA PutFirstOK ==
  ASSUME NEW x, MemOK(x), FileOK(x), Meet(x.c), x.c.burnin = 0, x.c.ffirst > x.c.first
  PROVE  LET y == PutFirst(x)
             f == x.c.file
         IN  /\ MemOK(y) /\ FileOK(y) /\ Brings(x, y)
             /\ SameBut(x, y, {"ffirst"}) /\ SameFiles(x, y, {f})
             /\ y.c.ffirst = x.c.first
             /\ y.d[f].stat = x.d[f].stat
             /\ y.d[f].inis = (IF x.c.rng = None THEN x.d[f].inis ELSE x.c.inis)
<1> DEFINE y == PutFirst(x)
           f == x.c.file
           p == MemRows(x)
           r == FileRows(x)
           out == y.d[f].rows
<1>1. Shape(x) /\ AtFile(x)  BY DEF MemOK, FileOK, IsFile, AtFile
<1>2. /\ Shape(y) /\ IsRecord(y.d[f])
      /\ SameBut(x, y, {"ffirst"}) /\ SameFiles(x, y, {f})
      /\ y.c.ffirst = x.c.first
      /\ out = WriteRows(InsertRows(r, 0, x.c.ffirst - x.c.first), 0 + x.c.burnin,
                         SubSeq(p, 1, x.c.ffirst - x.c.first))
      /\ y.d[f].first = x.c.first /\ y.d[f].stat = x.d[f].stat
      /\ y.d[f].inis = (IF x.c.rng = None THEN x.d[f].inis ELSE x.c.inis)
  BY <1>1, PutFirstIs DEF FileRows, MemRows
<1> HIDE DEF y
<1>3. /\ y.c.stats = x.c.stats /\ y.c.first = x.c.first /\ y.c.cur = x.c.cur
      /\ y.c.fcur = x.c.fcur /\ y.c.burnin = x.c.burnin /\ y.c.file = f
      /\ y.c.rng = x.c.rng /\ y.c.inis = x.c.inis
  BY <1>2 DEF SameBut, CatalogFields
<1>4. PICK a \in Nat, b \in Int, c \in Nat, d \in Int :
         a = x.c.first /\ b = x.c.cur /\ c = x.c.ffirst /\ d = x.c.fcur
  BY DEF MemOK, FileOK
<1>5. a < c /\ c - 1 <= b /\ c - 1 <= d /\ a - 1 <= b
  BY <1>4 DEF FileOK, MemOK, Meet
<1>6. Spans(p, 0, a, b) /\ Spans(r, 0, c, d)
  BY <1>4 DEF MemOK, FileOK
<1> HIDE DEF p, r, out
<1>7. out = WriteRows(InsertRows(r, 0, c - a), 0, SubSeq(p, 1, c - a))
  BY <1>2, <1>4
<1>8. Spans(out, 0, a, d) /\ Same(out, 0, a, p, 0, a, a, c - 1) /\ Same(out, 0, a, r, 0, c, c, d)
  BY <1>5, <1>6, <1>7, IdsPutFirst
<1>9. MemOK(y)
  BY <1>2, <1>3 DEF MemOK, MemRows
<1>10. FileRows(y) = out /\ MemRows(y) = p
  BY <1>3 DEF FileRows, MemRows, out, p
<1>11. FileOK(y)
  <2>1. IsFile(y.d[f])
    BY <1>2, <1>8 DEF MemOK, FileOK, IsFile, out, Spans
  <2>2. y.c.ffirst = a /\ y.c.fcur = d /\ y.c.burnin = 0 /\ y.d[f].first = a
    BY <1>2, <1>3, <1>4
  <2>3. a - 1 <= d  BY <1>5
  <2>4. y.c.file \in Files  BY <1>3 DEF FileOK
  <2> QED  BY <1>3, <1>8, <1>10, <2>1, <2>2, <2>3, <2>4 DEF FileOK
<1>12. ASSUME NEW id \in Int PROVE BringsId(x, y, id)
  <2>1. /\ InMem(x, id) <=> id \in a..b
        /\ InFile(x, id) <=> id \in c..d
        /\ InMem(y, id) <=> id \in a..b
        /\ InFile(y, id) <=> id \in a..d
    BY <1>2, <1>3, <1>4 DEF InMem, InFile
  <2>2. /\ Mem(x, id) = At(p, 0, a, id) /\ Fil(x, id) = At(r, 0, c, id)
        /\ Mem(y, id) = At(p, 0, a, id) /\ Fil(y, id) = At(out, 0, a, id)
    BY <1>2, <1>3, <1>4, <1>10 DEF Mem, Fil, p, r
  <2>3. CASE id \in a..c - 1
    <3>1. Fil(y, id) = Mem(x, id)  BY <1>8, <2>2, <2>3 DEF Same
    <3>2. id \in a..b /\ id \notin c..d  BY <1>5, <2>3
    <3> QED  BY <2>1, <2>2, <3>1, <3>2 DEF BringsId
  <2>4. CASE id \in c..d
    <3>1. Fil(y, id) = Fil(x, id)  BY <1>8, <2>2, <2>4 DEF Same
    <3>2. id \in a..d  BY <1>5, <2>4
    <3> QED  BY <2>1, <2>2, <2>4, <3>1, <3>2 DEF BringsId
  <2>5. CASE id \notin a..d
    <3>1. id \notin c..d  BY <1>5, <2>5
    <3> QED  BY <2>1, <2>2, <2>5, <3>1 DEF BringsId
  <2>6. id \in a..c - 1 \/ id \in c..d \/ id \notin a..d  BY <1>5
  <2> QED  BY <2>3, <2>4, <2>5, <2>6
<1> QED  BY <1>2, <1>9, <1>11, <1>12 DEF y, Brings

(* The file precedes memory.                                               *)
LEMMA GetFirstOK ==
  ASSUME NEW x, MemOK(x), FileOK(x), Meet(x.c), x.c.ffirst < x.c.first
  PROVE  LET y == GetFirst(x)
         IN  /\ MemOK(y) /\ FileOK(y) /\ Brings(x, y)
             /\ SameBut(x, y, {"stats", "first", "inis"}) /\ y.d = x.d
             /\ y.c.first = x.c.ffirst
             /\ y.c.inis = (IF x.c.rng = None THEN x.c.inis ELSE x.d[x.c.file].inis)
<1> DEFINE y == GetFirst(x)
           f == x.c.file
           p == MemRows(x)
           r == FileRows(x)
           out == MemRows(y)
<1>1. Shape(x)  BY DEF MemOK
<1>2. /\ Shape(y) /\ y.d = x.d /\ SameBut(x, y, {"stats", "first", "inis"})
      /\ out = ReadFile(x, 1, x.c.first - x.c.ffirst) \o p
      /\ y.c.first = x.c.ffirst
      /\ y.c.inis = (IF x.c.rng = None THEN x.c.inis ELSE x.d[f].inis)
  BY <1>1, GetFirstIs DEF MemRows
<1> HIDE DEF y
<1>3. /\ y.c.cur = x.c.cur /\ y.c.ffirst = x.c.ffirst
      /\ y.c.fcur = x.c.fcur /\ y.c.burnin = x.c.burnin /\ y.c.file = f
      /\ y.c.rng = x.c.rng
  BY <1>2 DEF SameBut, CatalogFields
<1>4. PICK a \in Nat, b \in Int, c \in Nat, d \in Int, e \in Nat :
         /\ a = x.c.first /\ b = x.c.cur /\ c = x.c.ffirst /\ d = x.c.fcur
         /\ e = x.c.burnin
  BY DEF MemOK, FileOK
<1>5. c < a /\ a - 1 <= d /\ a - 1 <= b /\ c - 1 <= d
  BY <1>4 DEF FileOK, MemOK, Meet
<1>6. Spans(p, 0, a, b) /\ Spans(r, e, c, d)
  BY <1>4 DEF MemOK, FileOK
<1>7. out = ReadRows(r, e, 1, a - c) \o p
  BY <1>2, <1>4 DEF ReadFile, ReadRows, FileRows
<1> HIDE DEF p, r, out
<1>8. Spans(out, 0, c, b) /\ Same(out, 0, c, r, e, c, c, a - 1) /\ Same(out, 0, c, p, 0, a, a, b)
  BY <1>5, <1>6, <1>7, IdsGetFirst
<1>9. MemOK(y)
  <2>1. y.c.inis \in RngState  BY <1>2 DEF MemOK, FileOK, IsFile
  <2>2. /\ y.c.first = c /\ y.c.cur = b /\ c - 1 <= b
        /\ y.c.burnin \in Nat /\ y.c.rng \in RngState
    BY <1>2, <1>3, <1>4, <1>5, SMTT(30) DEF MemOK
  <2> QED  BY <1>2, <1>8, <2>1, <2>2 DEF MemOK, out
<1>10. FileRows(y) = r
  BY <1>2, <1>3 DEF FileRows, r
<1>11. FileOK(y)
  BY <1>2, <1>3, <1>10 DEF FileOK, r
<1>12. ASSUME NEW id \in Int PROVE BringsId(x, y, id)
  <2>1. /\ InMem(x, id) <=> id \in a..b
        /\ InFile(x, id) <=> id \in c..d
        /\ InMem(y, id) <=> id \in c..b
        /\ InFile(y, id) <=> id \in c..d
    BY <1>2, <1>3, <1>4 DEF InMem, InFile
  <2>2. /\ Mem(x, id) = At(p, 0, a, id) /\ Fil(x, id) = At(r, e, c, id)
        /\ Mem(y, id) = At(out, 0, c, id) /\ Fil(y, id) = At(r, e, c, id)
    BY <1>2, <1>3, <1>4, <1>10 DEF Mem, Fil, p, r, out
  <2>3. CASE id \in c..a - 1
    <3>1. Mem(y, id) = Fil(x, id)  BY <1>8, <2>2, <2>3 DEF Same
    <3>2. id \in c..d /\ id \notin a..b  BY <1>5, <2>3
    <3> QED  BY <2>1, <2>2, <3>1, <3>2 DEF BringsId
  <2>4. CASE id \in a..b
    <3>1. Mem(y, id) = Mem(x, id)  BY <1>8, <2>2, <2>4 DEF Same
    <3>2. id \in c..b  BY <1>5, <2>4
    <3> QED  BY <2>1, <2>2, <2>4, <3>1, <3>2 DEF BringsId
  <2>5. CASE id \notin c..b
    <3>1. id \notin a..b  BY <1>5, <2>5
    <3> QED  BY <2>1, <2>2, <2>5, <3>1 DEF BringsId
  <2>6. id \in c..a - 1 \/ id \in a..b \/ id \notin c..b  BY <1>5
  <2> QED  BY <2>3, <2>4, <2>5, <2>6
<1> QED  BY <1>2, <1>9, <1>11, <1>12 DEF y, Brings

(* Memory goes further than the file.                                      *)
LEMMA PutLastOK ==
  ASSUME NEW x, MemOK(x), FileOK(x), x.c.burnin = 0, x.c.ffirst = x.c.first, x.c.fcur < x.c.cur
  PROVE  LET y == PutLast(x)
             f == x.c.file
         IN  /\ MemOK(y) /\ FileOK(y) /\ Brings(x, y)
             /\ SameBut(x, y, {"fcur"}) /\ SameFiles(x, y, {f})
             /\ y.c.fcur = x.c.cur
             /\ y.d[f].inis = x.d[f].inis
             /\ y.d[f].stat = (IF x.c.rng = None THEN x.d[f].stat ELSE x.c.rng)
<1> DEFINE y == PutLast(x)
           f == x.c.file
           p == MemRows(x)
           r == FileRows(x)
           out == y.d[f].rows
           k == x.c.fcur + 1 - x.c.ffirst
           n == x.c.cur - x.c.fcur
<1>1. Shape(x) /\ AtFile(x)  BY DEF MemOK, FileOK, IsFile, AtFile
<1>2. /\ Shape(y) /\ IsRecord(y.d[f])
      /\ SameBut(x, y, {"fcur"}) /\ SameFiles(x, y, {f})
      /\ y.c.fcur = x.c.cur
      /\ out = WriteRows(InsertRows(r, k, n), k + x.c.burnin, SubSeq(p, k + 1, k + n))
      /\ y.d[f].first = x.d[f].first /\ y.d[f].inis = x.d[f].inis
      /\ y.d[f].stat = (IF x.c.rng = None THEN x.d[f].stat ELSE x.c.rng)
  BY <1>1, PutLastIs DEF FileRows, MemRows
<1> HIDE DEF y
<1>3. /\ y.c.stats = x.c.stats /\ y.c.first = x.c.first /\ y.c.cur = x.c.cur
      /\ y.c.ffirst = x.c.ffirst /\ y.c.burnin = x.c.burnin /\ y.c.file = f
      /\ y.c.rng = x.c.rng /\ y.c.inis = x.c.inis
  BY <1>2 DEF SameBut, CatalogFields
<1>4. PICK a \in Nat, b \in Int, d \in Int :
         a = x.c.first /\ b = x.c.cur /\ a = x.c.ffirst /\ d = x.c.fcur
  BY DEF MemOK, FileOK
<1>5. a - 1 <= d /\ d < b /\ a - 1 <= b
  BY <1>4 DEF FileOK, MemOK
<1>6. Spans(p, 0, a, b) /\ Spans(r, 0, a, d)
  BY <1>4 DEF MemOK, FileOK
<1>7. out = WriteRows(InsertRows(r, d + 1 - a, b - d), d + 1 - a,
                      SubSeq(p, (d + 1 - a) + 1, (d + 1 - a) + (b - d)))
  <2> HIDE DEF p, r, out
  <2>1. k = d + 1 - a /\ n = b - d  BY <1>4
  <2>2. k + x.c.burnin = k  BY <2>1
  <2> HIDE DEF k, n
  <2> QED  BY <1>2, <2>1, <2>2
<1> HIDE DEF p, r, out
<1>8. Spans(out, 0, a, b) /\ Same(out, 0, a, r, 0, a, a, d) /\ Same(out, 0, a, p, 0, a, d + 1, b)
  BY <1>5, <1>6, <1>7, IdsPutLast
<1>9. MemOK(y)
  BY <1>2, <1>3 DEF MemOK, MemRows
<1>10. FileRows(y) = out /\ MemRows(y) = p
  BY <1>3 DEF FileRows, MemRows, out, p
<1>11. FileOK(y)
  <2>1. IsFile(y.d[f])
    BY <1>2, <1>8 DEF MemOK, FileOK, IsFile, out, Spans
  <2>2. y.c.ffirst = a /\ y.c.fcur = b /\ y.c.burnin = 0 /\ y.d[f].first = a
    BY <1>2, <1>3, <1>4 DEF FileOK
  <2>3. a - 1 <= b  BY <1>5
  <2>4. y.c.file \in Files  BY <1>3 DEF FileOK
  <2> QED  BY <1>3, <1>8, <1>10, <2>1, <2>2, <2>3, <2>4 DEF FileOK
<1>12. ASSUME NEW id \in Int PROVE BringsId(x, y, id)
  <2>1. /\ InMem(x, id) <=> id \in a..b
        /\ InFile(x, id) <=> id \in a..d
        /\ InMem(y, id) <=> id \in a..b
        /\ InFile(y, id) <=> id \in a..b
    BY <1>2, <1>3, <1>4 DEF InMem, InFile
  <2>2. /\ Mem(x, id) = At(p, 0, a, id) /\ Fil(x, id) = At(r, 0, a, id)
        /\ Mem(y, id) = At(p, 0, a, id) /\ Fil(y, id) = At(out, 0, a, id)
    BY <1>2, <1>3, <1>4, <1>10 DEF Mem, Fil, p, r
  <2>3. CASE id \in a..d
    <3>1. Fil(y, id) = Fil(x, id)  BY <1>8, <2>2, <2>3 DEF Same
    <3>2. id \in a..b  BY <1>5, <2>3
    <3> QED  BY <2>1, <2>2, <2>3, <3>1, <3>2 DEF BringsId
  <2>4. CASE id \in d + 1..b
    <3>1. Fil(y, id) = Mem(x, id)  BY <1>8, <2>2, <2>4 DEF Same
    <3>2. id \in a..b /\ id \notin a..d  BY <1>5, <2>4
    <3> QED  BY <2>1, <2>2, <3>1, <3>2 DEF BringsId
  <2>5. CASE id \notin a..b
    <3>1. id \notin a..d  BY <1>5, <2>5
    <3> QED  BY <2>1, <2>2, <2>5, <3>1 DEF BringsId
  <2>6. id \in a..d \/ id \in d + 1..b \/ id \notin a..b  BY <1>5
  <2> QED  BY <2>3, <2>4, <2>5, <2>6
<1> QED  BY <1>2, <1>9, <1>11, <1>12 DEF y, Brings

(* The file goes further than memory.                                      *)
LEMMA GetLastOK ==
  ASSUME NEW x, MemOK(x), FileOK(x), x.c.ffirst = x.c.first, x.c.cur < x.c.fcur
  PROVE  LET y == GetLast(x)
         IN  /\ MemOK(y) /\ FileOK(y) /\ Brings(x, y)
             /\ SameBut(x, y, {"stats", "cur", "rng"}) /\ y.d = x.d
             /\ StaysWhole(x, y) /\ y.c.cur = x.c.fcur
             /\ y.c.rng = (IF x.c.rng = None THEN x.c.rng ELSE x.d[x.c.file].stat)
<1> DEFINE y == GetLast(x)
           f == x.c.file
           p == MemRows(x)
           r == FileRows(x)
           out == MemRows(y)
           new == ReadFile(x, x.c.cur + 1 - x.c.first + 1, x.c.fcur - x.c.cur)
<1>1. Shape(x)  BY DEF MemOK
<1>2. /\ Shape(y) /\ y.d = x.d /\ SameBut(x, y, {"stats", "cur", "rng"})
      /\ out = p \o new /\ y.c.stats = AddRows(x.c.stats, x.c.cur + 1, new)
      /\ y.c.cur = x.c.cur + Len(new)
      /\ y.c.rng = (IF x.c.rng = None THEN x.c.rng ELSE x.d[f].stat)
  BY <1>1, GetLastIs DEF MemRows
<1> HIDE DEF y
<1>3. /\ y.c.first = x.c.first /\ y.c.ffirst = x.c.ffirst
      /\ y.c.fcur = x.c.fcur /\ y.c.burnin = x.c.burnin /\ y.c.file = f
      /\ y.c.inis = x.c.inis
  BY <1>2 DEF SameBut, CatalogFields
<1>4. PICK a \in Nat, b \in Int, d \in Int, e \in Nat :
         /\ a = x.c.first /\ b = x.c.cur /\ a = x.c.ffirst /\ d = x.c.fcur
         /\ e = x.c.burnin
  BY DEF MemOK, FileOK
<1>5. a - 1 <= b /\ b < d /\ a - 1 <= d
  BY <1>4 DEF FileOK, MemOK
<1>6. Spans(p, 0, a, b) /\ Spans(r, e, a, d)
  BY <1>4 DEF MemOK, FileOK
<1>7. new = ReadRows(r, e, b + 1 - a + 1, d - b)
  BY <1>4 DEF ReadFile, ReadRows, FileRows
<1> HIDE DEF p, r, out, new
<1>a. out = p \o new  BY <1>2
<1>b. /\ Spans(out, 0, a, d) /\ HasExactly(new, d - b)
      /\ Same(out, 0, a, p, 0, a, a, b) /\ Same(out, 0, a, r, e, a, b + 1, d)
  BY <1>a, <1>5, <1>6, <1>7, IdsGetLast
<1>8. /\ Spans(out, 0, a, d) /\ b + Len(new) = d
      /\ Same(out, 0, a, p, 0, a, a, b) /\ Same(out, 0, a, r, e, a, b + 1, d)
  BY <1>b DEF HasExactly
<1>9. MemOK(y)
  <2>1. y.c.rng \in RngState  BY <1>2 DEF MemOK, FileOK, IsFile
  <2>2. /\ y.c.first = a /\ y.c.cur = d /\ a - 1 <= d
        /\ y.c.burnin \in Nat /\ y.c.inis \in RngState
    BY <1>2, <1>3, <1>4, <1>5, <1>8 DEF MemOK
  <2> QED  BY <1>2, <1>8, <2>1, <2>2 DEF MemOK, out
<1>10. FileRows(y) = r
  BY <1>2, <1>3 DEF FileRows, r
<1>11. FileOK(y)
  BY <1>2, <1>3, <1>10 DEF FileOK, r
<1>12. ASSUME NEW id \in Int PROVE BringsId(x, y, id)
  <2>1. /\ InMem(x, id) <=> id \in a..b
        /\ InFile(x, id) <=> id \in a..d
        /\ InMem(y, id) <=> id \in a..d
        /\ InFile(y, id) <=> id \in a..d
    BY <1>2, <1>3, <1>4, <1>8 DEF InMem, InFile
  <2>2. /\ Mem(x, id) = At(p, 0, a, id) /\ Fil(x, id) = At(r, e, a, id)
        /\ Mem(y, id) = At(out, 0, a, id) /\ Fil(y, id) = At(r, e, a, id)
    BY <1>2, <1>3, <1>4, <1>10 DEF Mem, Fil, p, r, out
  <2>3. CASE id \in a..b
    <3>1. Mem(y, id) = Mem(x, id)  BY <1>8, <2>2, <2>3 DEF Same
    <3>2. id \in a..d  BY <1>5, <2>3
    <3> QED  BY <2>1, <2>2, <2>3, <3>1, <3>2 DEF BringsId
  <2>4. CASE id \in b + 1..d
    <3>1. Mem(y, id) = Fil(x, id)  BY <1>8, <2>2, <2>4 DEF Same
    <3>2. id \in a..d /\ id \notin a..b  BY <1>5, <2>4
    <3> QED  BY <2>1, <2>2, <3>1, <3>2 DEF BringsId
  <2>5. CASE id \notin a..d
    <3>1. id \notin a..b  BY <1>5, <2>5
    <3> QED  BY <2>1, <2>2, <2>5, <3>1 DEF BringsId
  <2>6. id \in a..b \/ id \in b + 1..d \/ id \notin a..d  BY <1>5
  <2> QED  BY <2>3, <2>4, <2>5, <2>6
<1>13. y.c.cur = x.c.fcur  BY <1>2, <1>4, <1>8
<1>14. StaysWhole(x, y)
  <2>1. new \in Seq(Nat)  BY <1>b DEF HasExactly
  <2> QED  BY <1>2, <1>3, <2>1, AddedStaysWhole
<1> QED  BY <1>2, <1>9, <1>11, <1>12, <1>13, <1>14 DEF y, Brings


-----------------------------------------------------------------------------
(* What sync does, and that it can                                         *)

SyncFields == {"stats", "first", "cur", "ffirst", "fcur", "rng", "inis"}

(* No row has to be written behind a burn-in.                              *)
MayWrite(x) ==
  x.c.burnin = 0 \/ (x.c.ffirst = x.c.first /\ x.c.cur <= x.c.fcur)

Ready(x) == MemOK(x) /\ FileOK(x) /\ Meet(x.c) /\ MayWrite(x)

(* The first rows are together, and the rest is as it was.                 *)
FirstSynced(x, y) ==
  /\ MemOK(y) /\ FileOK(y) /\ Brings(x, y)
  /\ SameBut(x, y, {"stats", "first", "ffirst", "inis"})
  /\ SameFiles(x, y, {x.c.file})
  /\ y.c.ffirst = y.c.first
  /\ y.d[x.c.file].stat = x.d[x.c.file].stat
  /\ x.c.ffirst = x.c.first => y = x

(* First the beginnings are brought together ...                           *)
LEMMA SyncFirstOK ==
  ASSUME NEW x, Ready(x) PROVE FirstSynced(x, SyncFirst(x))
<1>0. MemOK(x) /\ FileOK(x) /\ Meet(x.c) /\ MayWrite(x)  BY DEF Ready
<1>n. x.c.first \in Nat /\ x.c.ffirst \in Nat  BY <1>0 DEF MemOK, FileOK
<1>1. CASE x.c.ffirst > x.c.first
  <2> DEFINE y == PutFirst(x)
  <2>1. SyncFirst(x) = y  BY <1>1 DEF SyncFirst
  <2>2. x.c.burnin = 0 /\ x.c.ffirst # x.c.first  BY <1>0, <1>1, <1>n DEF MayWrite
  <2>3. /\ MemOK(y) /\ FileOK(y) /\ Brings(x, y)
        /\ SameBut(x, y, {"ffirst"}) /\ SameFiles(x, y, {x.c.file})
        /\ y.c.ffirst = x.c.first
        /\ y.d[x.c.file].stat = x.d[x.c.file].stat
    BY <1>0, <1>1, <2>2, PutFirstOK
  <2> HIDE DEF y
  <2>4. SameBut(x, y, {"stats", "first", "ffirst", "inis"}) /\ y.c.first = x.c.first
    BY <2>3 DEF SameBut, CatalogFields
  <2> QED  BY <2>1, <2>2, <2>3, <2>4 DEF FirstSynced
<1>2. CASE x.c.ffirst < x.c.first
  <2> DEFINE y == GetFirst(x)
  <2>1. SyncFirst(x) = y  BY <1>2, <1>n DEF SyncFirst
  <2>2. x.c.ffirst # x.c.first  BY <1>2, <1>n
  <2>3. /\ MemOK(y) /\ FileOK(y) /\ Brings(x, y)
        /\ SameBut(x, y, {"stats", "first", "inis"}) /\ y.d = x.d
        /\ y.c.first = x.c.ffirst
    BY <1>0, <1>2, GetFirstOK
  <2> HIDE DEF y
  <2>4. SameBut(x, y, {"stats", "first", "ffirst", "inis"}) /\ y.c.ffirst = x.c.ffirst
    BY <2>3 DEF SameBut, CatalogFields
  <2> QED  BY <2>1, <2>2, <2>3, <2>4 DEF FirstSynced, SameFiles
<1>3. CASE x.c.ffirst = x.c.first
  <2>1. SyncFirst(x) = x  BY <1>3, <1>n DEF SyncFirst
  <2> QED  BY <1>0, <1>3, <2>1, BringsItself DEF FirstSynced, SameBut, SameFiles
<1> QED  BY <1>1, <1>2, <1>3, <1>n

LastSynced(x, y) ==
  LET f == x.c.file
  IN  /\ MemOK(y) /\ FileOK(y) /\ Brings(x, y) /\ StaysWhole(x, y)
      /\ SameBut(x, y, {"stats", "cur", "fcur", "rng"})
      /\ SameFiles(x, y, {f})
      /\ y.c.fcur = y.c.cur
      /\ x.c.fcur <= x.c.cur => y.c.cur = x.c.cur /\ y.c.stats = x.c.stats
      /\ x.c.cur <= x.c.fcur => y.c.cur = x.c.fcur /\ y.d = x.d
      /\ y.d[f].inis = x.d[f].inis
      /\ y.c.rng = (IF x.c.fcur > x.c.cur /\ x.c.rng # None THEN x.d[f].stat ELSE x.c.rng)
      /\ y.d[f].stat = (IF x.c.fcur < x.c.cur /\ x.c.rng # None THEN x.c.rng ELSE x.d[f].stat)

(* ... and then the ends.                                                  *)
LEMMA SyncLastOK ==
  ASSUME NEW x, MemOK(x), FileOK(x), x.c.ffirst = x.c.first,
         x.c.burnin = 0 \/ x.c.cur <= x.c.fcur
  PROVE  LastSynced(x, SyncLast(x))
<1>n. x.c.cur \in Int /\ x.c.fcur \in Int  BY DEF MemOK, FileOK
<1> DEFINE f == x.c.file
<1>1. CASE x.c.fcur < x.c.cur
  <2> DEFINE y == PutLast(x)
  <2>1. SyncLast(x) = y  BY <1>1 DEF SyncLast
  <2>2. /\ x.c.burnin = 0 /\ ~ (x.c.cur <= x.c.fcur)
        /\ ~ (x.c.fcur > x.c.cur)
    BY <1>1, <1>n
  <2>3. /\ MemOK(y) /\ FileOK(y) /\ Brings(x, y)
        /\ SameBut(x, y, {"fcur"}) /\ SameFiles(x, y, {f})
        /\ y.c.fcur = x.c.cur
        /\ y.d[f].inis = x.d[f].inis
        /\ y.d[f].stat = (IF x.c.rng = None THEN x.d[f].stat ELSE x.c.rng)
    BY <1>1, <2>2, PutLastOK
  <2> HIDE DEF y
  <2>4. /\ SameBut(x, y, {"stats", "cur", "fcur", "rng"})
        /\ y.c.cur = x.c.cur /\ y.c.stats = x.c.stats /\ y.c.rng = x.c.rng
        /\ StaysWhole(x, y)
    BY <2>3 DEF SameBut, CatalogFields, StaysWhole
  <2> QED  BY <1>1, <2>1, <2>2, <2>3, <2>4 DEF LastSynced
<1>2. CASE x.c.cur < x.c.fcur
  <2> DEFINE y == GetLast(x)
  <2>1. SyncLast(x) = y  BY <1>2, <1>n DEF SyncLast
  <2>2. ~ (x.c.fcur <= x.c.cur) /\ x.c.fcur > x.c.cur /\ ~ (x.c.fcur < x.c.cur)
    BY <1>2, <1>n
  <2>3. /\ MemOK(y) /\ FileOK(y) /\ Brings(x, y)
        /\ SameBut(x, y, {"stats", "cur", "rng"}) /\ y.d = x.d
        /\ StaysWhole(x, y) /\ y.c.cur = x.c.fcur
        /\ y.c.rng = (IF x.c.rng = None THEN x.c.rng ELSE x.d[f].stat)
    BY <1>2, GetLastOK
  <2> HIDE DEF y
  <2>4. SameBut(x, y, {"stats", "cur", "fcur", "rng"}) /\ y.c.fcur = x.c.fcur
    BY <2>3 DEF SameBut, CatalogFields
  <2> QED  BY <2>1, <2>2, <2>3, <2>4 DEF LastSynced, SameFiles
<1>3. CASE x.c.cur = x.c.fcur
  <2>1. SyncLast(x) = x  BY <1>3, <1>n DEF SyncLast
  <2>2. ~ (x.c.fcur < x.c.cur) /\ ~ (x.c.fcur > x.c.cur)  BY <1>3, <1>n
  <2> QED  BY <1>3, <2>1, <2>2, BringsItself DEF LastSynced, SameBut, SameFiles, StaysWhole
<1> QED  BY <1>1, <1>2, <1>3, <1>n

(* Memory and file have all the rows of both.                              *)
Synced(x, y) ==
  LET f == x.c.file
  IN  /\ MemOK(y) /\ FileOK(y) /\ Brings(x, y)
      /\ SameBut(x, y, SyncFields) /\ SameFiles(x, y, {f})
      /\ y.c.ffirst = y.c.first /\ y.c.fcur = y.c.cur
      /\ y.c.rng = (IF x.c.fcur > x.c.cur /\ x.c.rng # None THEN x.d[f].stat ELSE x.c.rng)
      /\ y.d[f].stat = (IF x.c.fcur < x.c.cur /\ x.c.rng # None THEN x.c.rng ELSE x.d[f].stat)
      /\ x.c.ffirst = x.c.first =>
           /\ y.c.first = x.c.first /\ y.c.inis = x.c.inis /\ y.d[f].inis = x.d[f].inis
           /\ StaysWhole(x, y)
           /\ x.c.fcur <= x.c.cur => y.c.cur = x.c.cur /\ y.c.stats = x.c.stats
           /\ x.c.cur <= x.c.fcur => y.c.cur = x.c.fcur /\ y.d = x.d

(* The whole of sync.                                                      *)
LEMMA SyncOK ==
  ASSUME NEW x, Ready(x) PROVE Synced(x, Sync(x))
<1> DEFINE f == x.c.file
           z == SyncFirst(x)
           y == SyncLast(z)
<1>1. Sync(x) = y  BY NoneAssumption DEF Sync, Ready, FileOK
<1>2. FirstSynced(x, z)  BY SyncFirstOK
<1> HIDE DEF z
<1>3. /\ z.c.file = f /\ z.c.cur = x.c.cur /\ z.c.fcur = x.c.fcur
      /\ z.c.burnin = x.c.burnin /\ z.c.rng = x.c.rng
  BY <1>2 DEF FirstSynced, SameBut, CatalogFields
<1>4. LastSynced(z, y)
  <2>1. z.c.burnin = 0 \/ z.c.cur <= z.c.fcur  BY <1>3 DEF Ready, MayWrite
  <2>2. MemOK(z) /\ FileOK(z) /\ z.c.ffirst = z.c.first  BY <1>2 DEF FirstSynced
  <2> QED  BY <2>1, <2>2, SyncLastOK
<1> HIDE DEF y
<1>5. SameBut(x, y, SyncFields)
  <2> SUFFICES ASSUME NEW k \in CatalogFields \ SyncFields PROVE y.c[k] = x.c[k]
    BY DEF SameBut
  <2>1. k \in CatalogFields /\ k \notin SyncFields  OBVIOUS
  <2>2. z.c[k] = x.c[k]
    <3>1. SameBut(x, z, {"stats", "first", "ffirst", "inis"})  BY <1>2 DEF FirstSynced
    <3> QED  BY <2>1, <3>1 DEF SameBut, SyncFields
  <2>3. y.c[k] = z.c[k]
    <3>1. SameBut(z, y, {"stats", "cur", "fcur", "rng"})  BY <1>4 DEF LastSynced
    <3> QED  BY <2>1, <3>1 DEF SameBut, SyncFields
  <2> QED  BY <2>2, <2>3
<1>6. SameFiles(x, y, {f})
  BY <1>2, <1>3, <1>4 DEF FirstSynced, LastSynced, SameFiles
<1>7. Brings(x, y)
  BY <1>2, <1>4, BringsOn DEF FirstSynced, LastSynced
<1>8. y.c.first = z.c.first /\ y.c.ffirst = z.c.ffirst /\ y.c.inis = z.c.inis
  BY <1>4 DEF LastSynced, SameBut, CatalogFields
<1>9. MemOK(y) /\ FileOK(y) /\ y.c.ffirst = y.c.first /\ y.c.fcur = y.c.cur
  BY <1>2, <1>4, <1>8 DEF FirstSynced, LastSynced
<1>10. /\ y.c.rng = (IF x.c.fcur > x.c.cur /\ x.c.rng # None THEN x.d[f].stat ELSE x.c.rng)
       /\ y.d[f].stat = (IF x.c.fcur < x.c.cur /\ x.c.rng # None THEN x.c.rng ELSE x.d[f].stat)
  <2>1. z.d[f].stat = x.d[f].stat  BY <1>2 DEF FirstSynced
  <2>2. /\ y.c.rng = (IF z.c.fcur > z.c.cur /\ z.c.rng # None THEN z.d[f].stat ELSE z.c.rng)
        /\ y.d[f].stat = (IF z.c.fcur < z.c.cur /\ z.c.rng # None THEN z.c.rng ELSE z.d[f].stat)
    BY <1>3, <1>4 DEF LastSynced
  <2> QED  BY <1>3, <2>1, <2>2
<1>11. ASSUME x.c.ffirst = x.c.first
       PROVE  /\ y.c.first = x.c.first /\ y.c.inis = x.c.inis /\ y.d[f].inis = x.d[f].inis
              /\ StaysWhole(x, y)
              /\ x.c.fcur <= x.c.cur => y.c.cur = x.c.cur /\ y.c.stats = x.c.stats
              /\ x.c.cur <= x.c.fcur => y.c.cur = x.c.fcur /\ y.d = x.d
  <2>1. z = x  BY <1>2, <1>11 DEF FirstSynced
  <2> QED  BY <1>4, <1>8, <2>1 DEF LastSynced
<1> QED  BY <1>1, <1>5, <1>6, <1>7, <1>9, <1>10, <1>11 DEF Synced


-----------------------------------------------------------------------------
(* The inductive invariant                                                 *)

AllFiles(x) == \A g \in Files : x.d[g] = None \/ IsFile(x.d[g])

(* The open file has no rows but those in memory.                          *)
FileBehind(x) ==
  /\ FileOK(x) /\ x.c.ffirst = x.c.first /\ x.c.fcur <= x.c.cur
  /\ x.c.burnin # 0 => x.c.fcur = x.c.cur

(* Memory and the open file never come apart.                              *)
Kept(x) ==
  /\ MemOK(x) /\ AllFiles(x)
  /\ x.c.file \in Files \cup {None}
  /\ x.c.ffirst = x.c.first
  /\ x.c.file # None => FileBehind(x)

(* A file of a run that always starts at its first realization.            *)
FileInOrder(r) ==
  /\ r.first = 0
  /\ \A i \in 1..Len(r.rows) : r.rows[i] = i
  /\ r.inis \in {None, 0} /\ r.stat \in {None, Len(r.rows)}
  /\ Len(r.rows) # 0 => r.inis # None /\ r.stat # None

(* The catalog of such a run.                                              *)
MemInOrder(x) ==
  /\ x.c.first = 0
  /\ \A i \in 1..Len(MemRows(x)) : MemRows(x)[i] = x.c.burnin + i
  /\ x.c.inis \in {None, 0} /\ (x.c.rng # None => x.c.inis # None)
  /\ x.c.burnin = 0 => /\ x.c.rng \in {None, Len(MemRows(x))}
                       /\ Len(MemRows(x)) # 0 => x.c.rng # None

(* The program and the open file both have a generator, or neither has.    *)
OneRng(x) ==
  x.c.file # None => (x.c.rng # None <=> x.d[x.c.file].inis # None)

InOrderAll(x) ==
  /\ MemInOrder(x)
  /\ \A g \in Files : x.d[g] # None => FileInOrder(x.d[g])
  /\ OneRng(x)


(* While they are kept together a sync can be made.                        *)
LEMMA KeptReady ==
  ASSUME NEW x, Kept(x), x.c.file # None PROVE Ready(x)
<1>1. MemOK(x) /\ FileOK(x) /\ x.c.ffirst = x.c.first /\ x.c.fcur <= x.c.cur
      /\ (x.c.burnin # 0 => x.c.fcur = x.c.cur)
  BY DEF Kept, FileBehind
<1>2. /\ x.c.first \in Nat /\ x.c.cur \in Int /\ x.c.first - 1 <= x.c.cur
      /\ x.c.fcur \in Int /\ x.c.ffirst - 1 <= x.c.fcur
  BY <1>1 DEF MemOK, FileOK
<1>3. Meet(x.c)  BY <1>1, <1>2 DEF Meet
<1>4. MayWrite(x)  BY <1>1, <1>2 DEF MayWrite
<1> QED  BY <1>1, <1>3, <1>4 DEF Ready

(* A sync, when a file was opened or at any other time.                    *)
LEMMA SyncKept ==
  ASSUME NEW x, Ready(x), AllFiles(x), NEW y, Synced(x, y)
  PROVE  Kept(y) /\ y.c.file = x.c.file /\ y.c.burnin = x.c.burnin
<1>1. y.c.file = x.c.file /\ y.c.burnin = x.c.burnin
  BY DEF Synced, SameBut, SyncFields, CatalogFields
<1>2. MemOK(y) /\ FileOK(y) /\ y.c.ffirst = y.c.first /\ y.c.fcur = y.c.cur
  BY DEF Synced
<1>3. FileBehind(y)
  <2>1. y.c.cur \in Int  BY <1>2 DEF MemOK
  <2>2. y.c.fcur <= y.c.cur  BY <1>2, <2>1
  <2> QED  BY <1>2, <2>2 DEF FileBehind
<1>4. AllFiles(y)
  <2> SUFFICES ASSUME NEW g \in Files PROVE y.d[g] = None \/ IsFile(y.d[g])  BY DEF AllFiles
  <2>1. CASE g = x.c.file  BY <1>1, <1>2, <2>1 DEF FileOK
  <2>2. CASE g # x.c.file
    <3>1. y.d[g] = x.d[g]  BY <2>2 DEF Synced, SameFiles
    <3> QED  BY <3>1 DEF AllFiles
  <2> QED  BY <2>1, <2>2
<1>5. y.c.file \in Files  BY <1>1 DEF Ready, FileOK
<1> QED  BY <1>1, <1>2, <1>3, <1>4, <1>5 DEF Kept

(* What sync reads comes with a state of the generator.                    *)
HasState(x) == x.c.fcur > x.c.cur /\ x.c.rng # None => x.d[x.c.file].stat # None

(* Each row sync copies lands at the position of its draw.                 *)
LEMMA SyncInOrder ==
  ASSUME NEW x, Ready(x), InOrderAll(x), HasState(x), NEW y, Synced(x, y)
  PROVE  InOrderAll(y)
<1> DEFINE f == x.c.file
           p == MemRows(x)
           r == FileRows(x)
           q == MemRows(y)
           s == FileRows(y)
<1>0. MemOK(x) /\ FileOK(x) /\ MayWrite(x) /\ MemOK(y) /\ FileOK(y) /\ f \in Files /\ f # None
  BY NoneAssumption DEF Ready, Synced, FileOK
<1>1. y.c.file = f /\ y.c.burnin = x.c.burnin
  BY DEF Synced, SameBut, SyncFields, CatalogFields
<1>2. FileInOrder(x.d[f]) /\ MemInOrder(x) /\ (x.c.rng # None <=> x.d[f].inis # None)
  <2>1. x.d[f] # None  BY <1>0, IsFileThere DEF FileOK
  <2> QED  BY <1>0, <2>1 DEF InOrderAll, OneRng
<1>3. x.c.first = 0 /\ x.c.ffirst = 0
  BY <1>0, <1>2 DEF FileOK, FileInOrder, MemInOrder
<1>4. /\ y.c.first = 0 /\ y.c.ffirst = 0 /\ y.c.fcur = y.c.cur
      /\ y.c.inis = x.c.inis /\ y.d[f].inis = x.d[f].inis
      /\ x.c.fcur <= x.c.cur => y.c.cur = x.c.cur /\ y.c.stats = x.c.stats
      /\ x.c.cur <= x.c.fcur => y.c.cur = x.c.fcur /\ y.d = x.d
      /\ y.c.rng = (IF x.c.fcur > x.c.cur /\ x.c.rng # None THEN x.d[f].stat ELSE x.c.rng)
      /\ y.d[f].stat = (IF x.c.fcur < x.c.cur /\ x.c.rng # None THEN x.c.rng ELSE x.d[f].stat)
  BY <1>3 DEF Synced
<1>5. PICK e \in Nat, b \in Int, d \in Int, h \in Int :
         e = x.c.burnin /\ b = x.c.cur /\ d = x.c.fcur /\ h = y.c.cur
  BY <1>0 DEF MemOK, FileOK
<1>6. /\ p \in Seq(Nat) /\ Len(p) = b + 1 /\ r \in Seq(Nat) /\ Len(r) = e + (d + 1)
      /\ q \in Seq(Nat) /\ Len(q) = h + 1 /\ s \in Seq(Nat) /\ Len(s) = e + (h + 1)
  <2>1. /\ Spans(p, 0, 0, b) /\ Spans(r, e, 0, d) /\ Spans(q, 0, 0, h) /\ Spans(s, e, 0, h)
    BY <1>0, <1>1, <1>3, <1>4, <1>5 DEF MemOK, FileOK
  <2> HIDE DEF p, q, r, s
  <2> QED  BY <2>1 DEF Spans
<1>7. /\ \A i \in 1..b + 1 : p[i] = e + i
      /\ \A i \in 1..e + (d + 1) : r[i] = i
  BY <1>2, <1>5, <1>6 DEF MemInOrder, FileInOrder, FileRows
<1>8. ASSUME NEW id \in Int
      PROVE  /\ InMem(x, id) <=> id \in 0..b
             /\ InFile(x, id) <=> id \in 0..d
             /\ InMem(y, id) <=> id \in 0..h
             /\ InFile(y, id) <=> id \in 0..h
             /\ Mem(x, id) = p[id + 1] /\ Fil(x, id) = r[e + (id + 1)]
             /\ Mem(y, id) = q[id + 1] /\ Fil(y, id) = s[e + (id + 1)]
             /\ BringsId(x, y, id)
  <2>1. BringsId(x, y, id)  BY DEF Synced, Brings
  <2>2. /\ InMem(x, id) <=> id \in 0..b
        /\ InFile(x, id) <=> id \in 0..d
        /\ InMem(y, id) <=> id \in 0..h
        /\ InFile(y, id) <=> id \in 0..h
    BY <1>3, <1>4, <1>5 DEF InMem, InFile
  <2>3. 0 + (id - 0 + 1) = id + 1 /\ e + (id - 0 + 1) = e + (id + 1)  OBVIOUS
  <2> HIDE DEF p, q, r, s
  <2>4. /\ Mem(x, id) = At(p, 0, 0, id) /\ Fil(x, id) = At(r, e, 0, id)
        /\ Mem(y, id) = At(q, 0, 0, id) /\ Fil(y, id) = At(s, e, 0, id)
    BY <1>1, <1>3, <1>4, <1>5 DEF Mem, Fil, p, q, r, s
  <2> QED  BY <2>1, <2>2, <2>3, <2>4 DEF At
<1> HIDE DEF p, q, r, s
<1>9. ASSUME NEW i \in 1..Len(q) PROVE q[i] = e + i
  <2>1. PICK id \in Int : id \in 0..h /\ i = id + 1
    <3>1. i - 1 \in Int /\ i - 1 \in 0..h /\ i = (i - 1) + 1  BY <1>6
    <3> QED  BY <3>1
  <2>b. /\ InMem(x, id) <=> id \in 0..b
        /\ InFile(x, id) <=> id \in 0..d
        /\ InMem(y, id) <=> id \in 0..h
        /\ Mem(x, id) = p[id + 1] /\ Fil(x, id) = r[e + (id + 1)]
        /\ Mem(y, id) = q[id + 1] /\ BringsId(x, y, id)
    BY <1>8
  <2>2. InMem(y, id) /\ Mem(y, id) = q[i]  BY <2>b, <2>1
  <2>3. CASE InMem(x, id)
    <3>1. Mem(y, id) = Mem(x, id)  BY <2>b, <2>3 DEF BringsId
    <3>2. i \in 1..b + 1 /\ Mem(x, id) = p[i]  BY <2>b, <2>1, <2>3
    <3> QED  BY <1>7, <2>2, <3>1, <3>2
  <2>4. CASE ~ InMem(x, id)
    <3>1. Mem(y, id) = Fil(x, id) /\ InFile(x, id)  BY <2>b, <2>2, <2>4 DEF BringsId
    <3>2. e + i \in 1..e + (d + 1) /\ Fil(x, id) = r[e + i]  BY <2>b, <2>1, <3>1
    <3> QED  BY <1>7, <2>2, <3>1, <3>2
  <2> QED  BY <2>3, <2>4
<1>10. ASSUME NEW i \in 1..Len(s) PROVE s[i] = i
  <2>1. CASE b <= d
    <3>1. s = r  BY <1>1, <1>4, <1>5, <2>1 DEF s, r, FileRows
    <3> QED  BY <1>6, <1>7, <3>1
  <2>2. CASE d < b
    <3>1. e = 0  BY <1>0, <1>5, <2>2 DEF MayWrite
    <3>2. PICK id \in Int : id \in 0..h /\ i = e + (id + 1)
      <4>1. i - 1 \in Int /\ i - 1 \in 0..h /\ i = e + ((i - 1) + 1)  BY <1>6, <3>1
      <4> QED  BY <4>1
    <3>b. /\ InMem(x, id) <=> id \in 0..b
          /\ InFile(x, id) <=> id \in 0..d
          /\ InFile(y, id) <=> id \in 0..h
          /\ Mem(x, id) = p[id + 1] /\ Fil(x, id) = r[e + (id + 1)]
          /\ Fil(y, id) = s[e + (id + 1)] /\ BringsId(x, y, id)
      BY <1>8
    <3>3. InFile(y, id) /\ Fil(y, id) = s[i]  BY <3>b, <3>2
    <3>4. CASE InFile(x, id)
      <4>1. Fil(y, id) = Fil(x, id)  BY <3>b, <3>4 DEF BringsId
      <4>2. i \in 1..e + (d + 1) /\ Fil(x, id) = r[i]  BY <3>b, <3>2, <3>4
      <4> QED  BY <1>7, <3>3, <4>1, <4>2
    <3>5. CASE ~ InFile(x, id)
      <4>1. Fil(y, id) = Mem(x, id) /\ InMem(x, id)  BY <3>b, <3>3, <3>5 DEF BringsId
      <4>2. id + 1 \in 1..b + 1 /\ i = id + 1 /\ Mem(x, id) = p[id + 1]
        BY <3>b, <3>1, <3>2, <4>1
      <4> QED  BY <1>7, <3>1, <3>3, <4>1, <4>2
    <3> QED  BY <3>4, <3>5
  <2> QED  BY <1>5, <2>1, <2>2
<1>11. MemInOrder(y)
  <2>1. y.c.inis \in {None, 0} /\ (x.c.rng # None => y.c.inis # None)
    BY <1>2, <1>4 DEF MemInOrder
  <2>2. y.c.rng # None => x.c.rng # None  BY <1>4
  <2>3. ASSUME y.c.burnin = 0
        PROVE  /\ y.c.rng \in {None, Len(q)}
               /\ Len(q) # 0 => y.c.rng # None
    <3>0. /\ e = 0 /\ x.c.rng \in {None, b + 1} /\ (b + 1 # 0 => x.c.rng # None)
          /\ x.d[f].stat \in {None, d + 1} /\ (d + 1 # 0 => x.d[f].inis # None)
      <4>1. e = 0 /\ x.c.burnin = 0  BY <1>1, <1>5, <2>3
      <4>2. Len(MemRows(x)) = b + 1  BY <1>6 DEF p
      <4>3. x.c.rng \in {None, b + 1} /\ (b + 1 # 0 => x.c.rng # None)
        BY <1>2, <4>1, <4>2 DEF MemInOrder
      <4>4. Len(x.d[f].rows) = d + 1  BY <1>5, <1>6, <4>1 DEF r, FileRows
      <4>5. x.d[f].stat \in {None, d + 1} /\ (d + 1 # 0 => x.d[f].inis # None)
        BY <1>2, <4>4 DEF FileInOrder
      <4> QED  BY <4>1, <4>3, <4>5
    <3>1. CASE d > b /\ x.c.rng # None
      <4>1. y.c.rng = x.d[f].stat /\ h = d /\ b <= d /\ y.c.rng # None
        BY <1>4, <1>5, <3>1 DEF HasState
      <4> QED  BY <1>6, <3>0, <4>1
    <3>2. CASE d > b /\ x.c.rng = None
      <4>1. b + 1 = 0 /\ d + 1 = 0  BY <1>2, <3>0, <3>2
      <4> QED  BY <3>2, <4>1
    <3>3. CASE d <= b
      <4>1. y.c.rng = x.c.rng /\ h = b  BY <1>4, <1>5, <3>3
      <4> QED  BY <1>6, <3>0, <4>1
    <3> QED  BY <1>5, <3>1, <3>2, <3>3
  <2> QED  BY <1>1, <1>4, <1>5, <1>9, <2>1, <2>2, <2>3 DEF MemInOrder, q
<1>12. FileInOrder(y.d[f])
  <2>1. y.d[f].first = 0  BY <1>0, <1>1, <1>4 DEF FileOK
  <2>2. y.d[f].inis \in {None, 0}  BY <1>2, <1>4 DEF FileInOrder
  <2>3. CASE b <= d
    <3>1. y.d[f] = x.d[f]  BY <1>4, <1>5, <2>3
    <3> QED  BY <1>2, <3>1
  <2>4. CASE d < b
    <3>1. e = 0 /\ h = b /\ d <= b  BY <1>0, <1>4, <1>5, <2>4 DEF MayWrite
    <3>2. Len(p) # 0
      <4>1. d + 1 >= 0  BY <1>6, <3>1
      <4> QED  BY <1>6, <2>4, <4>1
    <3>3. x.c.rng # None /\ x.c.rng = b + 1
      BY <1>2, <1>5, <1>6, <3>1, <3>2 DEF MemInOrder, p
    <3>4. y.d[f].stat = b + 1 /\ y.d[f].inis # None
      BY <1>2, <1>4, <1>5, <2>4, <3>3
    <3>5. Len(s) = b + 1 /\ b + 1 # None  BY <1>6, <3>1, <3>3
    <3> QED  BY <1>1, <1>10, <2>1, <2>2, <3>4, <3>5 DEF FileInOrder, s, FileRows
  <2> QED  BY <1>5, <2>3, <2>4
<1>13. y.c.rng # None <=> y.d[f].inis # None
  <2>1. y.c.rng # None <=> x.c.rng # None
    BY <1>0, <1>4, <1>5 DEF HasState
  <2> QED  BY <1>2, <1>4, <2>1
<1>14. ASSUME NEW g \in Files, y.d[g] # None PROVE FileInOrder(y.d[g])
  <2>1. CASE g = f  BY <1>12, <2>1
  <2>2. CASE g # f
    <3>1. y.d[g] = x.d[g]  BY <2>2 DEF Synced, SameFiles
    <3> QED  BY <1>14, <3>1 DEF InOrderAll
  <2> QED  BY <2>1, <2>2
<1> QED  BY <1>1, <1>11, <1>13, <1>14 DEF InOrderAll, OneRng


-----------------------------------------------------------------------------
(* Closing and opening                                                     *)

FileFieldsOfMem == {"file", "ffirst", "fcur", "smode"}

(* Changes that do not concern memory.                                     *)
LEMMA MemKeeps ==
  ASSUME NEW x, MemOK(x), NEW y, Shape(y), SameBut(x, y, FileFieldsOfMem)
  PROVE  /\ MemOK(y) /\ MemRows(y) = MemRows(x) /\ y.c.burnin = x.c.burnin
         /\ y.c.rng = x.c.rng /\ y.c.first = x.c.first /\ y.c.cur = x.c.cur
         /\ MemInOrder(x) => MemInOrder(y)
<1>1. /\ y.c.first = x.c.first /\ y.c.cur = x.c.cur /\ y.c.burnin = x.c.burnin
      /\ y.c.rng = x.c.rng /\ y.c.inis = x.c.inis /\ y.c.stats = x.c.stats
  BY DEF SameBut, FileFieldsOfMem, CatalogFields
<1>2. MemRows(y) = MemRows(x)  BY <1>1 DEF MemRows
<1>3. MemOK(y)  BY <1>1, <1>2 DEF MemOK
<1>4. MemInOrder(x) => MemInOrder(y)  BY <1>1, <1>2 DEF MemInOrder
<1> QED  BY <1>1, <1>2, <1>3, <1>4

(* Before it is closed a file gets the rows it lacks.                      *)
Closed(x, w) ==
  /\ Kept(w) /\ w.c.file = None
  /\ SameBut(x, w, {"fcur", "file"}) /\ SameFiles(x, w, {x.c.file})
  /\ InOrderAll(x) => InOrderAll(w)

(* At any other time than opening sync only adds rows to the file.         *)
LEMMA SyncKeeps ==
  ASSUME NEW x, Kept(x)
  PROVE  LET y == Sync(x)
         IN  /\ Kept(y) /\ y.c.file = x.c.file
             /\ SameBut(x, y, {"fcur"}) /\ SameFiles(x, y, {x.c.file})
             /\ InOrderAll(x) => InOrderAll(y)
<1> DEFINE y == Sync(x)
<1>1. CASE x.c.file = None
  <2>1. y = x  BY <1>1 DEF Sync
  <2> QED  BY <2>1 DEF SameBut, SameFiles
<1>2. CASE x.c.file # None
  <2>1. Ready(x) /\ Synced(x, y)  BY <1>2, KeptReady, SyncOK
  <2> HIDE DEF y
  <2>2. AllFiles(x) /\ FileBehind(x)  BY <1>2 DEF Kept
  <2>3. Kept(y) /\ y.c.file = x.c.file /\ y.c.burnin = x.c.burnin  BY <2>1, <2>2, SyncKept
  <2>4. x.c.ffirst = x.c.first /\ x.c.fcur <= x.c.cur /\ ~ (x.c.fcur > x.c.cur)
    <3>1. x.c.ffirst = x.c.first /\ x.c.fcur <= x.c.cur  BY <2>2 DEF FileBehind
    <3>2. x.c.cur \in Int /\ x.c.fcur \in Int  BY <2>1 DEF Ready, MemOK, FileOK
    <3> QED  BY <3>1, <3>2
  <2>5. InOrderAll(x) => InOrderAll(y)
    BY <2>1, <2>4, SyncInOrder DEF HasState
  <2>6. /\ y.c.first = x.c.first /\ y.c.inis = x.c.inis /\ y.c.cur = x.c.cur
        /\ y.c.stats = x.c.stats /\ y.c.rng = x.c.rng /\ y.c.ffirst = y.c.first
        /\ SameBut(x, y, SyncFields) /\ SameFiles(x, y, {x.c.file})
    BY <2>1, <2>4 DEF Synced
  <2>7. SameBut(x, y, {"fcur"})
    BY <2>4, <2>6 DEF SameBut, SyncFields, CatalogFields
  <2> QED  BY <2>3, <2>5, <2>6, <2>7 DEF y
<1> QED  BY <1>1, <1>2

(* A file that is closed has every row.                                    *)
LEMMA CloseOK ==
  ASSUME NEW x, Kept(x) PROVE Closed(x, Close(x))
<1> DEFINE y == Sync(x)
           w == [y EXCEPT !.c.file = None]
<1>1. /\ Kept(y) /\ y.c.file = x.c.file
      /\ SameBut(x, y, {"fcur"}) /\ SameFiles(x, y, {x.c.file})
      /\ InOrderAll(x) => InOrderAll(y)
  BY SyncKeeps
<1>2. Close(x) = w  BY DEF Close
<1> HIDE DEF y
<1>3. Shape(y) /\ MemOK(y)  BY <1>1 DEF Kept, MemOK
<1>4. Shape(w) /\ w.d = y.d /\ w.c.file = None /\ SameBut(y, w, {"file"})
  BY <1>3 DEF Shape, SameBut, CatalogFields
<1> HIDE DEF w
<1>5. SameBut(y, w, FileFieldsOfMem) /\ w.c.ffirst = y.c.ffirst
  BY <1>4 DEF SameBut, FileFieldsOfMem, CatalogFields
<1>6. MemOK(w) /\ w.c.first = y.c.first /\ (MemInOrder(y) => MemInOrder(w))
  BY <1>3, <1>4, <1>5, MemKeeps
<1>7. Kept(w)  BY <1>1, <1>4, <1>5, <1>6 DEF Kept, AllFiles
<1>8. InOrderAll(x) => InOrderAll(w)  BY <1>1, <1>4, <1>6 DEF InOrderAll, OneRng
<1>9. SameBut(x, w, {"fcur", "file"})  BY <1>1, <1>4 DEF SameBut
<1>10. SameFiles(x, w, {x.c.file})  BY <1>1, <1>4 DEF SameFiles
<1> QED  BY <1>2, <1>4, <1>7, <1>8, <1>9, <1>10 DEF Closed

(* The generators of the program and of the file.                          *)
RngSynced(z, v) ==
  LET f == z.c.file
      read == z.d[f].inis # None /\ z.c.rng = None
      write == z.d[f].inis = None /\ z.c.rng # None
  IN  /\ MemOK(v) /\ FileOK(v)
      /\ SameBut(z, v, {"rng", "inis"}) /\ SameFiles(z, v, {f})
      /\ \A k \in FileFields \ {"inis"} : v.d[f][k] = z.d[f][k]
      /\ v.c.rng = (IF read THEN z.d[f].inis ELSE z.c.rng)
      /\ v.c.inis = (IF read THEN z.d[f].inis ELSE z.c.inis)
      /\ v.d[f].inis = (IF write THEN z.c.inis ELSE z.d[f].inis)

(* Only the generator and its first state are touched.                     *)
LEMMA SyncRngOK ==
  ASSUME NEW z, MemOK(z), FileOK(z) PROVE RngSynced(z, SyncRng(z))
<1> DEFINE f == z.c.file
           v == SyncRng(z)
<1>1. Shape(z) /\ f \in Files /\ IsFile(z.d[f])  BY DEF MemOK, FileOK
<1>2. z.c.inis \in RngState /\ z.d[f].inis \in RngState  BY <1>1 DEF MemOK, IsFile
<1>f. {"rng", "inis"} \subseteq CatalogFields /\ FileFields = {"rows", "first", "inis", "stat"}
  BY DEF CatalogFields, FileFields
<1>3. /\ Shape(v) /\ IsRecord(v.d[f])
      /\ SameBut(z, v, {"rng", "inis"}) /\ SameFiles(z, v, {f})
      /\ \A k \in FileFields \ {"inis"} : v.d[f][k] = z.d[f][k]
      /\ v.c.rng = (IF z.d[f].inis # None /\ z.c.rng = None THEN z.d[f].inis ELSE z.c.rng)
      /\ v.c.inis = (IF z.d[f].inis # None /\ z.c.rng = None THEN z.d[f].inis ELSE z.c.inis)
      /\ v.d[f].inis = (IF z.d[f].inis = None /\ z.c.rng # None THEN z.c.inis ELSE z.d[f].inis)
  <2>0. IsRecord(z.d[f])  BY <1>1 DEF IsFile
  <2>1. CASE z.d[f].inis # None /\ z.c.rng = None
    <3> DEFINE y == [z EXCEPT !.c.rng = z.d[f].inis, !.c.inis = z.d[f].inis]
    <3>1. v = y  BY <2>1 DEF SyncRng
    <3>2. /\ Shape(y) /\ y.d = z.d /\ y.c.rng = z.d[f].inis /\ y.c.inis = z.d[f].inis
          /\ SameBut(z, y, {"rng", "inis"})
      BY <1>1, <1>f DEF Shape, SameBut
    <3> HIDE DEF y, v
    <3> QED  BY <2>0, <2>1, <3>1, <3>2 DEF SameFiles
  <2>2. CASE z.d[f].inis = None /\ z.c.rng # None
    <3> DEFINE y == [z EXCEPT !.d[f].inis = z.c.inis]
    <3>1. v = y  BY <2>2 DEF SyncRng
    <3>2. /\ Shape(y) /\ y.c = z.c /\ IsRecord(y.d[f]) /\ y.d[f].inis = z.c.inis
          /\ SameFiles(z, y, {f})
          /\ \A k \in FileFields \ {"inis"} : y.d[f][k] = z.d[f][k]
      BY <1>1, <1>f, <2>0 DEF Shape, SameFiles, IsRecord
    <3> HIDE DEF y, v
    <3> QED  BY <2>2, <3>1, <3>2 DEF SameBut
  <2>3. CASE ~ (z.d[f].inis # None /\ z.c.rng = None) /\ ~ (z.d[f].inis = None /\ z.c.rng # None)
    <3>1. v = z  BY <2>3 DEF SyncRng
    <3> HIDE DEF v
    <3> QED  BY <1>1, <2>0, <2>3, <3>1 DEF SameBut, SameFiles
  <2> QED  BY <2>1, <2>2, <2>3
<1> HIDE DEF v
<1>4. /\ v.c.first = z.c.first /\ v.c.cur = z.c.cur /\ v.c.ffirst = z.c.ffirst
      /\ v.c.fcur = z.c.fcur /\ v.c.burnin = z.c.burnin /\ v.c.file = f
      /\ v.c.stats = z.c.stats
      /\ v.d[f].rows = z.d[f].rows /\ v.d[f].first = z.d[f].first /\ v.d[f].stat = z.d[f].stat
  BY <1>3 DEF SameBut, CatalogFields, FileFields
<1>5. MemOK(v)
  <2>1. v.c.rng \in RngState /\ v.c.inis \in RngState  BY <1>2, <1>3 DEF MemOK
  <2>2. MemRows(v) = MemRows(z)  BY <1>4 DEF MemRows
  <2> QED  BY <1>3, <1>4, <2>1, <2>2 DEF MemOK
<1>6. FileOK(v)
  <2>1. FileRows(v) = FileRows(z)  BY <1>4 DEF FileRows
  <2>2. IsFile(v.d[f])  BY <1>1, <1>2, <1>3, <1>4 DEF IsFile
  <2> QED  BY <1>4, <2>1, <2>2 DEF FileOK
<1> QED  BY <1>3, <1>5, <1>6 DEF RngSynced, v


(* The ids of the file f behind the burn-in, whether it is open or not.    *)
RowsLeft(x, f) == Len(x.d[f].rows) - x.c.burnin
InFileOf(x, f, id) == id \in x.d[f].first..x.d[f].first + RowsLeft(x, f) - 1
FilOf(x, f, id) == At(x.d[f].rows, x.c.burnin, x.d[f].first, id)

(* z is x with the file f open, before anything is read or written: every  *)
(* row has the id it had.                                                  *)
OpenedFile(x, f, z) ==
  /\ MemOK(z) /\ FileOK(z) /\ z.c.file = f
  /\ SameBut(x, z, {"file", "ffirst", "fcur", "first", "cur"}) /\ SameFiles(x, z, {f})
  /\ IsEmpty(x.c) => z.c.ffirst = z.c.first /\ z.c.cur <= z.c.fcur

(* ... and f existed.                                                      *)
SameId(x, f, z, id) ==
  /\ InMem(z, id) <=> InMem(x, id)
  /\ InMem(x, id) => Mem(z, id) = Mem(x, id)
  /\ InFile(z, id) <=> InFileOf(x, f, id)
  /\ InFileOf(x, f, id) => Fil(z, id) = FilOf(x, f, id)

SameIds(x, f, z) ==
  /\ z.d[f].rows = x.d[f].rows /\ z.d[f].inis = x.d[f].inis /\ z.d[f].stat = x.d[f].stat
  /\ x.c.first = 0 /\ x.d[f].first = 0 => z.c.first = 0 /\ z.d[f].first = 0
  /\ \A id \in Int : SameId(x, f, z, id)

(* A new file has the first id of the catalog.                             *)
LEMMA CreateFileOK ==
  ASSUME NEW x, MemOK(x), x.c.burnin = 0, NEW f \in Files
  PROVE  LET z == CreateFile(x, f)
         IN  /\ OpenedFile(x, f, z) /\ z.c.first = x.c.first
             /\ z.d[f] = [rows |-> <<>>, first |-> x.c.first, inis |-> None, stat |-> None]
<1> DEFINE new == [rows |-> <<>>, first |-> x.c.first, inis |-> None, stat |-> None]
           z == [x EXCEPT !.c.file = f, !.c.ffirst = x.c.first, !.c.fcur = x.c.first - 1,
                          !.d[f] = new]
<1>1. CreateFile(x, f) = z  BY DEF CreateFile
<1> HIDE DEF new
<1>2. Shape(x) /\ {"file", "ffirst", "fcur", "first", "cur"} \subseteq CatalogFields
  BY DEF MemOK, CatalogFields
<1>3. /\ Shape(z) /\ z.d[f] = new /\ SameFiles(x, z, {f})
      /\ z.c.file = f /\ z.c.ffirst = x.c.first /\ z.c.fcur = x.c.first - 1
      /\ SameBut(x, z, {"file", "ffirst", "fcur"})
  BY <1>2 DEF Shape, SameFiles, SameBut
<1> HIDE DEF z
<1>4. SameBut(x, z, FileFieldsOfMem) /\ SameBut(x, z, {"file", "ffirst", "fcur", "first", "cur"})
  BY <1>3 DEF SameBut, FileFieldsOfMem
<1>5. MemOK(z) /\ z.c.burnin = 0 /\ z.c.first = x.c.first /\ z.c.cur = x.c.cur
  BY <1>3, <1>4, MemKeeps
<1>6. x.c.first \in Nat /\ x.c.cur \in Int  BY DEF MemOK
<1>7. FileOK(z)
  <2>1. IsFile(new)
    BY <1>6 DEF new, IsFile, IsRecord, FileFields, RngState
  <2>2. Spans(FileRows(z), z.c.burnin, z.c.ffirst, z.c.fcur)
    <3>1. FileRows(z) = <<>>  BY <1>3 DEF FileRows, new
    <3>2. 0 = z.c.burnin + (z.c.fcur - z.c.ffirst + 1)  BY <1>3, <1>5, <1>6
    <3> QED  BY <3>1, <3>2 DEF Spans
  <2>3. z.c.ffirst \in Nat /\ z.c.fcur \in Int /\ z.c.ffirst - 1 <= z.c.fcur
    BY <1>3, <1>6
  <2>4. new.first = x.c.first  BY DEF new
  <2> QED  BY <1>3, <2>1, <2>2, <2>3, <2>4 DEF FileOK
<1>8. IsEmpty(x.c) => z.c.ffirst = z.c.first /\ z.c.cur <= z.c.fcur
  BY <1>3, <1>5, <1>6 DEF IsEmpty
<1> QED  BY <1>1, <1>3, <1>4, <1>5, <1>7, <1>8 DEF OpenedFile, new

(* What opening a file that exists changes.                                *)
LEMMA OpenFileIs ==
  ASSUME NEW x, Shape(x), NEW f \in Files, IsRecord(x.d[f])
  PROVE  LET z == OpenFile(x, f)
             a == x.c.first
             c == x.d[f].first
             n == RowsLeft(x, f)
             ff == IF c # a /\ n = 0 THEN a ELSE c
             follow == c # a /\ n # 0 /\ IsEmpty(x.c)
         IN  /\ Shape(z) /\ IsRecord(z.d[f]) /\ SameFiles(x, z, {f})
             /\ SameBut(x, z, {"file", "ffirst", "fcur", "first", "cur"})
             /\ z.c.file = f /\ z.c.ffirst = ff /\ z.c.fcur = ff + n - 1
             /\ z.c.first = (IF follow THEN c ELSE a)
             /\ z.c.cur = (IF follow THEN c - 1 ELSE x.c.cur)
             /\ z.d[f].first = ff
             /\ z.d[f].rows = x.d[f].rows /\ z.d[f].inis = x.d[f].inis
             /\ z.d[f].stat = x.d[f].stat
<1> DEFINE a == x.c.first
           c == x.d[f].first
           n == RowsLeft(x, f)
           ff == IF c # a /\ n = 0 THEN a ELSE c
           follow == c # a /\ n # 0 /\ IsEmpty(x.c)
           z == [x EXCEPT !.c.file = f, !.c.ffirst = ff, !.c.fcur = ff + n - 1,
                          !.c.first = IF follow THEN c ELSE @,
                          !.c.cur = IF follow THEN c - 1 ELSE @,
                          !.d[f].first = ff]
<1>1. OpenFile(x, f) = z  BY DEF OpenFile, RowsLeft
<1>2. /\ {"file", "ffirst", "fcur", "first", "cur"} \subseteq CatalogFields
      /\ FileFields = {"rows", "first", "inis", "stat"}
  BY DEF CatalogFields, FileFields
<1> HIDE DEF ff
<1>3. /\ Shape(z) /\ IsRecord(z.d[f]) /\ SameFiles(x, z, {f})
      /\ SameBut(x, z, {"file", "ffirst", "fcur", "first", "cur"})
      /\ z.c.file = f /\ z.c.ffirst = ff /\ z.c.fcur = ff + n - 1
      /\ z.c.first = (IF follow THEN c ELSE a)
      /\ z.c.cur = (IF follow THEN c - 1 ELSE x.c.cur)
      /\ z.d[f].first = ff
      /\ z.d[f].rows = x.d[f].rows /\ z.d[f].inis = x.d[f].inis
      /\ z.d[f].stat = x.d[f].stat
  <2> HIDE DEF follow
  <2>1. /\ Shape(z) /\ SameFiles(x, z, {f})
        /\ SameBut(x, z, {"file", "ffirst", "fcur", "first", "cur"})
    BY <1>2, ZenonT(60) DEF Shape, SameFiles, SameBut
  <2>2. /\ z.c.file = f /\ z.c.ffirst = ff /\ z.c.fcur = ff + n - 1
        /\ z.c.first = (IF follow THEN c ELSE a)
        /\ z.c.cur = (IF follow THEN c - 1 ELSE x.c.cur)
    BY <1>2 DEF Shape
  <2>3. z.d[f] = [x.d[f] EXCEPT !.first = ff]  BY DEF Shape
  <2>4. /\ IsRecord(z.d[f]) /\ z.d[f].first = ff
        /\ z.d[f].rows = x.d[f].rows /\ z.d[f].inis = x.d[f].inis
        /\ z.d[f].stat = x.d[f].stat
    <3> HIDE DEF z
    <3> QED  BY <1>2, <2>3 DEF IsRecord
  <2> QED  BY <2>1, <2>2, <2>4
<1> HIDE DEF z, follow
<1> QED  BY <1>1, <1>3 DEF ff, follow

(* No row gets another id.                                                 *)
LEMMA OpenFileOK ==
  ASSUME NEW x, MemOK(x), NEW f \in Files, IsFile(x.d[f]), RowsLeft(x, f) >= 0
  PROVE  LET z == OpenFile(x, f) IN OpenedFile(x, f, z) /\ SameIds(x, f, z)
<1>1. PICK a \in Nat, b \in Int, c \in Nat, n \in Nat, e \in Nat :
         /\ a = x.c.first /\ b = x.c.cur /\ c = x.d[f].first /\ n = RowsLeft(x, f)
         /\ e = x.c.burnin
  <2>1. x.c.first \in Nat /\ x.c.cur \in Int /\ x.d[f].first \in Nat /\ x.c.burnin \in Nat
    BY DEF MemOK, IsFile
  <2>2. Len(x.d[f].rows) \in Nat  BY DEF IsFile
  <2>3. RowsLeft(x, f) \in Nat  BY <2>1, <2>2 DEF RowsLeft
  <2> QED  BY <2>1, <2>3
<1> DEFINE z == OpenFile(x, f)
           ff == IF c # a /\ n = 0 THEN a ELSE c
           follow == c # a /\ n # 0 /\ IsEmpty(x.c)
           p == MemRows(x)
           r == x.d[f].rows
<1>2. /\ Shape(z) /\ IsRecord(z.d[f]) /\ SameFiles(x, z, {f})
      /\ SameBut(x, z, {"file", "ffirst", "fcur", "first", "cur"})
      /\ z.c.file = f /\ z.c.ffirst = ff /\ z.c.fcur = ff + n - 1
      /\ z.c.first = (IF follow THEN c ELSE a)
      /\ z.c.cur = (IF follow THEN c - 1 ELSE x.c.cur)
      /\ z.d[f].first = ff
      /\ z.d[f].rows = r /\ z.d[f].inis = x.d[f].inis
      /\ z.d[f].stat = x.d[f].stat
  <2>1. Shape(x) /\ IsRecord(x.d[f])  BY DEF MemOK, IsFile
  <2> DEFINE a1 == x.c.first
             c1 == x.d[f].first
             n1 == RowsLeft(x, f)
             ff1 == IF c1 # a1 /\ n1 = 0 THEN a1 ELSE c1
             follow1 == c1 # a1 /\ n1 # 0 /\ IsEmpty(x.c)
  <2>2. /\ Shape(z) /\ IsRecord(z.d[f]) /\ SameFiles(x, z, {f})
        /\ SameBut(x, z, {"file", "ffirst", "fcur", "first", "cur"})
        /\ z.c.file = f /\ z.c.ffirst = ff1 /\ z.c.fcur = ff1 + n1 - 1
        /\ z.c.first = (IF follow1 THEN c1 ELSE a1)
        /\ z.c.cur = (IF follow1 THEN c1 - 1 ELSE x.c.cur)
        /\ z.d[f].first = ff1
        /\ z.d[f].rows = r /\ z.d[f].inis = x.d[f].inis
        /\ z.d[f].stat = x.d[f].stat
    BY <2>1, OpenFileIs
  <2>3. a1 = a /\ c1 = c /\ n1 = n  BY <1>1
  <2> HIDE DEF z, a1, c1, n1
  <2> QED  BY <2>2, <2>3
<1> HIDE DEF z
<1>3. /\ z.c.stats = x.c.stats /\ z.c.burnin = e /\ z.c.rng = x.c.rng /\ z.c.inis = x.c.inis
  BY <1>1, <1>2 DEF SameBut, CatalogFields
<1>4. a - 1 <= b /\ Spans(p, 0, a, b) /\ x.c.rng \in RngState /\ x.c.inis \in RngState
  BY <1>1 DEF MemOK
<1>5. IsEmpty(x.c) => b = a - 1  BY <1>1, <1>4 DEF IsEmpty
<1>6. PICK a2 \in Nat, b2 \in Int, c2 \in Nat, d2 \in Int :
         a2 = z.c.first /\ b2 = z.c.cur /\ c2 = z.c.ffirst /\ d2 = z.c.fcur
  <2>1. ff \in Nat  OBVIOUS
  <2>2. ff + n - 1 \in Int  BY <2>1
  <2> HIDE DEF ff, follow
  <2>3. z.c.ffirst \in Nat /\ z.c.fcur \in Int  BY <1>2, <2>1, <2>2
  <2>4. z.c.first \in Nat  BY <1>2
  <2>5. z.c.cur \in Int  BY <1>1, <1>2
  <2> QED  BY <2>3, <2>4, <2>5
<1>7. /\ c2 = ff /\ d2 = ff + n - 1
      /\ \/ follow /\ a2 = c /\ b2 = c - 1 /\ b = a - 1
         \/ ~ follow /\ a2 = a /\ b2 = b
  BY <1>1, <1>2, <1>5, <1>6
<1> HIDE DEF p, r
<1>8. Spans(p, 0, a2, b2) /\ a2 - 1 <= b2
  <2>1. p \in Seq(Nat) /\ Len(p) = 0 + (b - a + 1)  BY <1>4 DEF Spans
  <2> HIDE DEF ff, follow
  <2>2. Len(p) = 0 + (b2 - a2 + 1) /\ a2 - 1 <= b2
    <3>1. CASE a2 = c /\ b2 = c - 1 /\ b = a - 1
      <4>1. b - a + 1 = 0 /\ b2 - a2 + 1 = 0  BY <3>1
      <4> QED  BY <2>1, <3>1, <4>1
    <3>2. CASE a2 = a /\ b2 = b
      BY <1>4, <2>1, <3>2
    <3> QED  BY <1>7, <3>1, <3>2
  <2> QED  BY <2>1, <2>2 DEF Spans
<1>9. Spans(r, e, c2, d2) /\ c2 - 1 <= d2
  <2>1. r \in Seq(Nat)  BY DEF IsFile, r
  <2>2. n = Len(r) - e  BY <1>1 DEF RowsLeft, r
  <2>3. Len(r) \in Nat  BY <2>1
  <2>4. Len(r) = e + (d2 - c2 + 1) /\ c2 - 1 <= d2  BY <1>7, <2>2, <2>3
  <2> QED  BY <2>1, <2>4 DEF Spans
<1> HIDE DEF ff, follow
<1>10. MemOK(z)
  <2>1. MemRows(z) = p  BY <1>3 DEF MemRows, p
  <2> QED  BY <1>2, <1>3, <1>4, <1>6, <1>8, <2>1 DEF MemOK
<1>11. FileOK(z)
  <2>1. FileRows(z) = r  BY <1>2 DEF FileRows
  <2>2. z.d[f].first = c2  BY <1>2, <1>7
  <2>3. IsFile(z.d[f])  BY <1>2, <1>6, <2>2 DEF IsFile, r
  <2> QED  BY <1>2, <1>3, <1>6, <1>9, <2>1, <2>2, <2>3 DEF FileOK
<1>12. IsEmpty(x.c) => z.c.ffirst = z.c.first /\ z.c.cur <= z.c.fcur
  <2>1. ASSUME IsEmpty(x.c) PROVE a2 = c2 /\ b2 <= d2
    BY <2>1, <1>5, <1>7 DEF ff, follow
  <2> QED  BY <1>6, <2>1
<1>13. x.c.first = 0 /\ x.d[f].first = 0 => z.c.first = 0 /\ z.d[f].first = 0
  BY <1>1, <1>2, <1>6, <1>7 DEF ff, follow
<1>14. ASSUME NEW id \in Int
       PROVE  SameId(x, f, z, id)
  <2>1. /\ InMem(z, id) <=> id \in a2..b2
        /\ InMem(x, id) <=> id \in a..b
        /\ InFile(z, id) <=> id \in c2..d2
        /\ InFileOf(x, f, id) <=> id \in c..c + n - 1
    BY <1>1, <1>6 DEF InMem, InFile, InFileOf
  <2>2. /\ Mem(z, id) = At(p, 0, a2, id) /\ Mem(x, id) = At(p, 0, a, id)
        /\ Fil(z, id) = At(r, e, c2, id) /\ FilOf(x, f, id) = At(r, e, c, id)
    BY <1>1, <1>2, <1>3, <1>6 DEF Mem, Fil, FilOf, p, r, MemRows, FileRows
  <2>3. /\ id \in a2..b2 <=> id \in a..b
        /\ id \in a..b => a2 = a
    BY <1>7
  <2>4. /\ id \in c2..d2 <=> id \in c..c + n - 1
        /\ id \in c..c + n - 1 => c2 = c
    BY <1>7 DEF ff
  <2> QED  BY <2>1, <2>2, <2>3, <2>4 DEF SameId
<1> QED  BY <1>2, <1>10, <1>11, <1>12, <1>13, <1>14 DEF z, r, OpenedFile, SameIds


(* v is w with the file f open, as sync finds it.                          *)
OpenedReady(w, f, v) ==
  /\ MemOK(v) /\ FileOK(v) /\ AllFiles(v) /\ MayWrite(v)
  /\ v.c.file = f /\ v.c.burnin = w.c.burnin /\ SameFiles(w, v, {f})
  /\ InOrderAll(w) => InOrderAll(v)
  /\ w.d[f] # None => \A id \in Int : SameId(w, f, v, id)

(* No row is touched with the generator.                                   *)
LEMMA RngSyncedIds ==
  ASSUME NEW z, NEW v, RngSynced(z, v), NEW w, NEW f, NEW id, z.c.file = f, SameId(w, f, z, id)
  PROVE  SameId(w, f, v, id)
<1>1. /\ v.c.first = z.c.first /\ v.c.cur = z.c.cur /\ v.c.ffirst = z.c.ffirst
      /\ v.c.fcur = z.c.fcur /\ v.c.burnin = z.c.burnin /\ v.c.file = f
      /\ v.c.stats = z.c.stats /\ v.d[f].rows = z.d[f].rows
  BY DEF RngSynced, SameBut, CatalogFields, FileFields
<1>2. /\ InMem(v, id) <=> InMem(z, id)
      /\ InFile(v, id) <=> InFile(z, id)
      /\ Mem(v, id) = Mem(z, id) /\ Fil(v, id) = Fil(z, id)
  BY <1>1 DEF InMem, InFile, Mem, Fil, MemRows, FileRows
<1> QED  BY <1>2 DEF SameId

(* The generator starts at the first draw.                                 *)
LEMMA RngSyncedInOrder ==
  ASSUME NEW z, NEW v, RngSynced(z, v), NEW f \in Files, z.c.file = f,
         MemInOrder(z), FileInOrder(z.d[f])
  PROVE  MemInOrder(v) /\ FileInOrder(v.d[f]) /\ OneRng(v)
<1>1. /\ v.c.first = z.c.first /\ v.c.burnin = z.c.burnin /\ v.c.file = f
      /\ v.c.stats = z.c.stats /\ v.d[f].rows = z.d[f].rows
      /\ v.d[f].first = z.d[f].first /\ v.d[f].stat = z.d[f].stat
  BY DEF RngSynced, SameBut, CatalogFields, FileFields
<1> DEFINE read == z.d[f].inis # None /\ z.c.rng = None
           write == z.d[f].inis = None /\ z.c.rng # None
<1>2. /\ v.c.rng = (IF read THEN z.d[f].inis ELSE z.c.rng)
      /\ v.c.inis = (IF read THEN z.d[f].inis ELSE z.c.inis)
      /\ v.d[f].inis = (IF write THEN z.c.inis ELSE z.d[f].inis)
  BY DEF RngSynced
<1>3. z.d[f].inis \in {None, 0} /\ z.c.inis \in {None, 0} /\ (z.c.rng # None => z.c.inis # None)
  BY DEF FileInOrder, MemInOrder
<1>4. v.c.inis \in {None, 0} /\ (v.c.rng # None => v.c.inis # None)
  BY <1>2, <1>3
<1>5. MemRows(v) = MemRows(z)  BY <1>1 DEF MemRows
<1>6. MemInOrder(v)
  <2>1. ASSUME z.c.burnin = 0
        PROVE  /\ v.c.rng \in {None, Len(MemRows(z))}
               /\ Len(MemRows(z)) # 0 => v.c.rng # None
    <3>1. z.c.rng \in {None, Len(MemRows(z))} /\ (Len(MemRows(z)) # 0 => z.c.rng # None)
      BY <2>1 DEF MemInOrder
    <3> QED  BY <1>2, <1>3, <3>1
  <2> QED  BY <1>1, <1>4, <1>5, <2>1 DEF MemInOrder
<1>7. v.d[f].inis \in {None, 0} /\ (z.d[f].inis # None => v.d[f].inis # None)
  BY <1>2, <1>3
<1>8. FileInOrder(v.d[f])  BY <1>1, <1>7 DEF FileInOrder
<1>9. v.c.rng # None <=> v.d[f].inis # None  BY <1>2, <1>3
<1> QED  BY <1>1, <1>6, <1>8, <1>9 DEF OneRng

(* A file was created, or opened, and the generators compared.             *)
LEMMA OpenOK ==
  ASSUME NEW w, Kept(w), w.c.file = None, NEW f \in Files, CanOpen(w, f),
         w.c.burnin # 0 => w.d[f] # None /\ IsEmpty(w.c)
  PROVE  OpenedReady(w, f, Open(w, f))
<1> DEFINE z == IF w.d[f] = None THEN CreateFile(w, f) ELSE OpenFile(w, f)
           v == SyncRng(z)
<1>1. Open(w, f) = v  BY DEF Open
<1>0. MemOK(w) /\ AllFiles(w) /\ w.c.burnin \in Nat  BY DEF Kept, MemOK
<1>2. OpenedFile(w, f, z)
  <2>1. CASE w.d[f] = None
    <3>1. w.c.burnin = 0  BY <2>1
    <3> QED  BY <1>0, <2>1, <3>1, CreateFileOK
  <2>2. CASE w.d[f] # None
    <3>1. IsFile(w.d[f])  BY <1>0, <2>2 DEF AllFiles
    <3>2. Len(w.d[f].rows) >= w.c.burnin  BY <2>2 DEF CanOpen
    <3>3. RowsLeft(w, f) >= 0  BY <1>0, <3>1, <3>2 DEF RowsLeft, IsFile
    <3> QED  BY <1>0, <2>2, <3>1, <3>3, OpenFileOK
  <2> QED  BY <2>1, <2>2
<1>3. w.d[f] # None => SameIds(w, f, z)
  <2>1. SUFFICES ASSUME w.d[f] # None PROVE SameIds(w, f, z)  OBVIOUS
  <2>2. IsFile(w.d[f])  BY <1>0, <2>1 DEF AllFiles
  <2>3. Len(w.d[f].rows) >= w.c.burnin  BY <2>1 DEF CanOpen
  <2>4. RowsLeft(w, f) >= 0  BY <1>0, <2>2, <2>3 DEF RowsLeft, IsFile
  <2> QED  BY <1>0, <2>1, <2>2, <2>4, OpenFileOK
<1>4. w.d[f] = None =>
        /\ z.c.first = w.c.first
        /\ z.d[f] = [rows |-> <<>>, first |-> w.c.first, inis |-> None, stat |-> None]
  <2>1. SUFFICES ASSUME w.d[f] = None
                 PROVE  /\ z.c.first = w.c.first
                        /\ z.d[f] = [rows |-> <<>>, first |-> w.c.first, inis |-> None, stat |-> None]
    OBVIOUS
  <2>2. w.c.burnin = 0  BY <2>1
  <2> QED  BY <1>0, <2>1, <2>2, CreateFileOK
<1> HIDE DEF z
<1>5. MemOK(z) /\ FileOK(z) /\ z.c.file = f  BY <1>2 DEF OpenedFile
<1>6. RngSynced(z, v)  BY <1>5, SyncRngOK
<1> HIDE DEF v
<1>7. /\ z.c.burnin = w.c.burnin /\ z.c.stats = w.c.stats /\ z.c.rng = w.c.rng
      /\ z.c.inis = w.c.inis
  BY <1>2 DEF OpenedFile, SameBut, CatalogFields
<1>8. /\ v.c.burnin = z.c.burnin /\ v.c.file = f /\ v.c.first = z.c.first
      /\ v.c.ffirst = z.c.ffirst /\ v.c.cur = z.c.cur /\ v.c.fcur = z.c.fcur
      /\ SameFiles(w, v, {f}) /\ MemOK(v) /\ FileOK(v)
  BY <1>2, <1>5, <1>6 DEF OpenedFile, RngSynced, SameBut, SameFiles, CatalogFields
<1>9. AllFiles(v)
  <2> SUFFICES ASSUME NEW g \in Files PROVE v.d[g] = None \/ IsFile(v.d[g])  BY DEF AllFiles
  <2>1. CASE g = f  BY <1>8, <2>1 DEF FileOK
  <2>2. CASE g # f
    <3>1. v.d[g] = w.d[g]  BY <1>8, <2>2 DEF SameFiles
    <3> QED  BY <1>0, <3>1 DEF AllFiles
  <2> QED  BY <2>1, <2>2
<1>10. MayWrite(v)
  BY <1>2, <1>7, <1>8 DEF MayWrite, OpenedFile
<1>11. ASSUME InOrderAll(w) PROVE InOrderAll(v)
  <2>1. MemInOrder(w) /\ (w.d[f] # None => FileInOrder(w.d[f]))  BY <1>11 DEF InOrderAll
  <2>2. z.c.first = 0 /\ FileInOrder(z.d[f])
    <3>1. CASE w.d[f] = None
      <4>1. /\ z.d[f].rows = <<>> /\ z.d[f].first = 0 /\ z.d[f].inis = None
            /\ z.d[f].stat = None /\ z.c.first = 0
        BY <1>4, <2>1, <3>1 DEF MemInOrder
      <4> QED  BY <4>1 DEF FileInOrder
    <3>2. CASE w.d[f] # None
      <4>1. SameIds(w, f, z) /\ FileInOrder(w.d[f]) /\ w.c.first = 0 /\ w.d[f].first = 0
        BY <1>3, <2>1, <3>2 DEF MemInOrder, FileInOrder
      <4> QED  BY <4>1 DEF SameIds, FileInOrder
    <3> QED  BY <3>1, <3>2
  <2>3. MemRows(z) = MemRows(w)  BY <1>7 DEF MemRows
  <2>4. MemInOrder(z)  BY <1>7, <2>1, <2>2, <2>3 DEF MemInOrder
  <2>5. MemInOrder(v) /\ FileInOrder(v.d[f]) /\ OneRng(v)
    BY <1>5, <1>6, <2>2, <2>4, RngSyncedInOrder
  <2>6. ASSUME NEW g \in Files, v.d[g] # None PROVE FileInOrder(v.d[g])
    <3>1. CASE g = f  BY <2>5, <3>1
    <3>2. CASE g # f
      <4>1. v.d[g] = w.d[g]  BY <1>8, <3>2 DEF SameFiles
      <4> QED  BY <1>11, <2>6, <4>1 DEF InOrderAll
    <3> QED  BY <3>1, <3>2
  <2> QED  BY <2>5, <2>6 DEF InOrderAll
<1>12. ASSUME w.d[f] # None, NEW id \in Int PROVE SameId(w, f, v, id)
  <2>1. SameId(w, f, z, id)  BY <1>3, <1>12 DEF SameIds
  <2> QED  BY <1>5, <1>6, <2>1, RngSyncedIds
<1> QED  BY <1>1, <1>7, <1>8, <1>9, <1>10, <1>11, <1>12 DEF OpenedReady


(* In y memory and the file f have the rows either of them had in x.       *)
JoinedId(x, f, y, id) ==
  /\ InMem(y, id) <=> InMem(x, id) \/ InFileOf(x, f, id)
  /\ InMem(x, id) => Mem(y, id) = Mem(x, id)
  /\ InFileOf(x, f, id) => Fil(y, id) = FilOf(x, f, id)
  /\ InFileOf(x, f, id) /\ ~ InMem(x, id) => Mem(y, id) = FilOf(x, f, id)
  /\ InMem(x, id) /\ ~ InFileOf(x, f, id) => Fil(y, id) = Mem(x, id)

JoinedAt(x, f, y) ==
  /\ MemOK(y) /\ FileOK(y) /\ y.c.file = f /\ y.c.burnin = x.c.burnin
  /\ IsFile(x.d[f]) /\ RowsLeft(x, f) >= 0
  /\ y.c.ffirst = y.c.first /\ y.c.fcur = y.c.cur
  /\ \A id \in Int : JoinedId(x, f, y, id)

(* ncm_mset_catalog_set_file: close, open, sync.                           *)
LEMMA SetFileOK ==
  ASSUME NEW x, Kept(x), NEW f \in Files \cup {None}, x.c.file # f, CanSetFile(x, f),
         x.c.burnin # 0 /\ f # None => x.d[f] # None /\ IsEmpty(x.c)
  PROVE  LET y == SetFile(x, f)
         IN  /\ Kept(y) /\ y.c.burnin = x.c.burnin /\ y.c.file = f
             /\ InOrderAll(x) => InOrderAll(y)
             /\ f # None /\ x.d[f] # None => JoinedAt(x, f, y)
<1> DEFINE w == Close(x)
<1>1. Closed(x, w)  BY CloseOK
<1>2. CASE f = None
  <2>1. SetFile(x, f) = w  BY <1>2 DEF SetFile
  <2> HIDE DEF w
  <2>2. w.c.burnin = x.c.burnin  BY <1>1 DEF Closed, SameBut, CatalogFields
  <2> QED  BY <1>1, <1>2, <2>1, <2>2 DEF Closed
<1>3. CASE f # None
  <2> DEFINE v == Open(w, f)
             y == Sync(v)
  <2>1. SetFile(x, f) = y /\ CanOpen(w, f) /\ CanSync(v) /\ f \in Files
    BY <1>3 DEF SetFile, CanSetFile
  <2> HIDE DEF w
  <2>2. Kept(w) /\ w.c.file = None /\ (InOrderAll(x) => InOrderAll(w))  BY <1>1 DEF Closed
  <2>3. /\ w.c.burnin = x.c.burnin /\ w.c.first = x.c.first /\ w.c.cur = x.c.cur
        /\ w.c.stats = x.c.stats /\ w.d[f] = x.d[f]
    BY <1>1, <2>1 DEF Closed, SameBut, SameFiles, CatalogFields
  <2>4. w.c.burnin # 0 => w.d[f] # None /\ IsEmpty(w.c)
    BY <1>3, <2>3 DEF IsEmpty
  <2>5. OpenedReady(w, f, v)  BY <2>1, <2>2, <2>4, OpenOK
  <2> HIDE DEF v
  <2>6. v.c.file = f /\ v.c.file # None /\ v.c.burnin = x.c.burnin
    BY <1>3, <2>3, <2>5 DEF OpenedReady
  <2>7. Meet(v.c) /\ HasState(v)  BY <2>1, <2>6 DEF CanSync, HasState
  <2>8. Ready(v) /\ AllFiles(v)  BY <2>5, <2>7 DEF OpenedReady, Ready
  <2>9. Synced(v, y)  BY <2>8, SyncOK
  <2> HIDE DEF y
  <2>10. Kept(y) /\ y.c.file = f /\ y.c.burnin = x.c.burnin
    BY <2>6, <2>8, <2>9, SyncKept
  <2>11. InOrderAll(x) => InOrderAll(y)
    BY <2>2, <2>5, <2>7, <2>8, <2>9, SyncInOrder DEF OpenedReady
  <2>12. ASSUME x.d[f] # None PROVE JoinedAt(x, f, y)
    <3>1. ASSUME NEW id \in Int PROVE JoinedId(x, f, y, id)
      <4>1. SameId(w, f, v, id)  BY <2>3, <2>5, <2>12 DEF OpenedReady
      <4>2. BringsId(v, y, id)  BY <2>9 DEF Synced, Brings
      <4>3. y.c.first = y.c.ffirst /\ y.c.cur = y.c.fcur  BY <2>9 DEF Synced
      <4>4. InMem(y, id) <=> InFile(y, id)  BY <4>3 DEF InMem, InFile
      <4>5. /\ InMem(w, id) <=> InMem(x, id)
            /\ Mem(w, id) = Mem(x, id)
            /\ InFileOf(w, f, id) <=> InFileOf(x, f, id)
            /\ FilOf(w, f, id) = FilOf(x, f, id)
        BY <2>3 DEF InMem, Mem, MemRows, InFileOf, FilOf, RowsLeft
      <4> QED  BY <4>1, <4>2, <4>4, <4>5 DEF SameId, BringsId, JoinedId
    <3>2. IsFile(x.d[f]) /\ x.c.burnin \in Nat  BY <2>1, <2>12 DEF Kept, AllFiles, MemOK
    <3>3. Len(x.d[f].rows) >= x.c.burnin  BY <2>1, <2>3, <2>12 DEF CanOpen
    <3>4. RowsLeft(x, f) >= 0  BY <3>2, <3>3 DEF RowsLeft, IsFile
    <3> QED  BY <2>9, <2>10, <3>1, <3>2, <3>4 DEF JoinedAt, Synced
  <2> QED  BY <2>1, <2>10, <2>11, <2>12
<1> QED  BY <1>2, <1>3

-----------------------------------------------------------------------------
(* The other calls                                                         *)

(* A generator is given to a catalog that is empty.                        *)
LEMMA SetRngOK ==
  ASSUME NEW x, Kept(x), x.c.rng = None, IsEmpty(x.c)
  PROVE  LET z == [x EXCEPT !.c.rng = 0, !.c.inis = 0]
             y == IF x.c.file = None THEN z ELSE SyncRng(z)
         IN  /\ Kept(y) /\ y.c.burnin = x.c.burnin /\ y.c.file = x.c.file
             /\ InOrderAll(x) => InOrderAll(y)
<1> DEFINE z == [x EXCEPT !.c.rng = 0, !.c.inis = 0]
<1>0. MemOK(x) /\ Shape(x) /\ 0 # None  BY NoneAssumption DEF Kept, MemOK
<1>1. /\ Shape(z) /\ z.d = x.d /\ z.c.rng = 0 /\ z.c.inis = 0 /\ SameBut(x, z, {"rng", "inis"})
  BY <1>0 DEF Shape, SameBut, CatalogFields
<1> HIDE DEF z
<1>2. /\ z.c.first = x.c.first /\ z.c.cur = x.c.cur /\ z.c.ffirst = x.c.ffirst
      /\ z.c.fcur = x.c.fcur /\ z.c.burnin = x.c.burnin /\ z.c.file = x.c.file
      /\ z.c.stats = x.c.stats
  BY <1>1 DEF SameBut, CatalogFields
<1>3. MemRows(z) = MemRows(x) /\ FileRows(z) = FileRows(x)  BY <1>1, <1>2 DEF MemRows, FileRows
<1>4. MemOK(z)  BY <1>0, <1>1, <1>2, <1>3 DEF MemOK, RngState
<1>5. FileBehind(x) => FileBehind(z)  BY <1>1, <1>2, <1>3 DEF FileBehind, FileOK
<1>6. Kept(z)  BY <1>1, <1>2, <1>4, <1>5 DEF Kept, AllFiles
<1>7. ASSUME InOrderAll(x) PROVE MemInOrder(z)
  <2>1. MemInOrder(x)  BY <1>7 DEF InOrderAll
  <2>2. ASSUME x.c.burnin = 0 PROVE Len(MemRows(x)) = 0
    <3>1. Len(MemRows(x)) # 0 => x.c.rng # None  BY <2>1, <2>2 DEF MemInOrder
    <3> QED  BY <3>1
  <2> QED  BY <1>0, <1>1, <1>2, <1>3, <2>1, <2>2 DEF MemInOrder
<1>8. CASE x.c.file = None
  <2>1. InOrderAll(x) => InOrderAll(z)
    BY <1>1, <1>2, <1>7, <1>8 DEF InOrderAll, OneRng
  <2> QED  BY <1>2, <1>6, <1>8, <2>1 DEF z
<1>9. CASE x.c.file # None
  <2> DEFINE f == x.c.file
             y == SyncRng(z)
  <2>1. MemOK(z) /\ FileOK(z) /\ FileBehind(z) /\ z.c.file = f /\ f \in Files
    BY <1>2, <1>6, <1>9 DEF Kept, FileBehind, FileOK
  <2>2. RngSynced(z, y)  BY <2>1, SyncRngOK
  <2> HIDE DEF y
  <2>3. /\ MemOK(y) /\ FileOK(y) /\ SameFiles(z, y, {f})
        /\ y.c.burnin = z.c.burnin /\ y.c.file = f /\ y.c.first = z.c.first
        /\ y.c.ffirst = z.c.ffirst /\ y.c.cur = z.c.cur /\ y.c.fcur = z.c.fcur
    BY <2>1, <2>2 DEF RngSynced, SameBut, CatalogFields
  <2>4. FileBehind(y)  BY <2>1, <2>3 DEF FileBehind
  <2>5. AllFiles(y)
    <3> SUFFICES ASSUME NEW g \in Files PROVE y.d[g] = None \/ IsFile(y.d[g])  BY DEF AllFiles
    <3>1. CASE g = f  BY <2>3, <3>1 DEF FileOK
    <3>2. CASE g # f
      <4>1. y.d[g] = z.d[g]  BY <2>3, <3>2 DEF SameFiles
      <4> QED  BY <1>6, <4>1 DEF Kept, AllFiles
    <3> QED  BY <3>1, <3>2
  <2>6. Kept(y)
    <3>1. y.c.ffirst = y.c.first  BY <2>4 DEF FileBehind
    <3> QED  BY <2>1, <2>3, <2>4, <2>5, <3>1 DEF Kept
  <2>7. ASSUME InOrderAll(x) PROVE InOrderAll(y)
    <3>1. x.d[f] # None  BY <1>1, <2>1, IsFileThere DEF FileOK
    <3>2. FileInOrder(z.d[f])  BY <1>1, <2>1, <2>7, <3>1 DEF InOrderAll
    <3>3. MemInOrder(y) /\ FileInOrder(y.d[f]) /\ OneRng(y)
      BY <1>7, <2>1, <2>2, <2>7, <3>2, RngSyncedInOrder
    <3>4. ASSUME NEW g \in Files, y.d[g] # None PROVE FileInOrder(y.d[g])
      <4>1. CASE g = f  BY <3>3, <4>1
      <4>2. CASE g # f
        <5>1. y.d[g] = x.d[g]  BY <1>1, <2>3, <4>2 DEF SameFiles
        <5> QED  BY <2>7, <3>4, <5>1 DEF InOrderAll
      <4> QED  BY <4>1, <4>2
    <3> QED  BY <3>3, <3>4 DEF InOrderAll
  <2> QED  BY <1>2, <1>9, <2>3, <2>6, <2>7 DEF y, z
<1> QED  BY <1>8, <1>9


(* In z the row of the next draw of x is added after the others.           *)
RowAdded(x, z) ==
  /\ Shape(z) /\ z.d = x.d /\ SameBut(x, z, {"stats", "cur", "rng"})
  /\ z.c.cur = x.c.cur + 1 /\ z.c.rng = x.c.rng + 1
  /\ z.c.stats = AddRows(x.c.stats, x.c.cur + 1, <<x.c.rng + 1>>)
  /\ MemRows(z) \in Seq(Nat) /\ Len(MemRows(z)) = Len(MemRows(x)) + 1
  /\ \A i \in 1..Len(MemRows(x)) : MemRows(z)[i] = MemRows(x)[i]
  /\ MemRows(z)[Len(MemRows(x)) + 1] = x.c.rng + 1

LEMMA AddIs ==
  ASSUME NEW x, MemOK(x), x.c.rng # None
  PROVE  /\ RowAdded(x, PostUpdate([x EXCEPT !.c.rng = @ + 1], <<x.c.rng + 1>>))
         /\ x.c.rng + 1 \in Nat
<1> DEFINE w == [x EXCEPT !.c.rng = x.c.rng + 1]
           one == <<x.c.rng + 1>>
           z == PostUpdate(w, one)
<1>0. Shape(x)  BY DEF MemOK
<1>r. PICK k \in Nat : k = x.c.rng + 1
  <2>1. x.c.rng \in Nat  BY DEF MemOK, RngState
  <2> QED  BY <2>1
<1>1. Shape(w) /\ w.d = x.d /\ w.c.rng = k /\ SameBut(x, w, {"rng"})
  BY <1>0, <1>r DEF Shape, SameBut, CatalogFields
<1>2. z = PostUpdate([x EXCEPT !.c.rng = @ + 1], <<x.c.rng + 1>>)  OBVIOUS
<1> HIDE DEF w
<1>3. /\ Shape(z) /\ z.d = w.d /\ SameBut(w, z, {"stats", "cur"})
      /\ z.c.stats = AddRows(w.c.stats, w.c.cur + 1, one)
      /\ z.c.stats.pstats = w.c.stats.pstats \o one
      /\ z.c.cur = w.c.cur + Len(one)
  BY <1>1, PostUpdateIs
<1> HIDE DEF z
<1>4. /\ SameBut(x, z, {"stats", "cur", "rng"}) /\ z.c.rng = k /\ z.d = x.d
      /\ w.c.stats = x.c.stats /\ w.c.cur = x.c.cur
  BY <1>1, <1>3 DEF SameBut, CatalogFields
<1> DEFINE p == MemRows(x)
           q == MemRows(z)
<1>5. p \in Seq(Nat)  BY DEF MemOK, Spans
<1>6. one \in Seq(Nat) /\ Len(one) = 1 /\ one[1] = k
  <2>1. one = <<k>>  BY <1>r
  <2> QED  BY <2>1
<1>7. q = p \o one /\ z.c.cur = x.c.cur + 1
  BY <1>3, <1>4, <1>6 DEF MemRows
<1> HIDE DEF p, q, one
<1>8. /\ q \in Seq(Nat) /\ Len(q) = Len(p) + 1
      /\ \A i \in 1..Len(p) : q[i] = p[i]
      /\ q[Len(p) + 1] = k
  <2>1. /\ q \in Seq(Nat) /\ Len(q) = Len(p) + Len(one)
        /\ \A i \in 1..Len(p) : q[i] = p[i]
        /\ \A i \in Len(p) + 1..Len(p) + Len(one) : q[i] = one[i - Len(p)]
    BY <1>5, <1>6, <1>7, Joined
  <2>2. Len(p) \in Nat  BY <1>5
  <2>3. q[Len(p) + 1] = one[1]  BY <1>6, <2>1, <2>2
  <2> QED  BY <1>6, <2>1, <2>3
<1>9. RowAdded(x, z)
  <2>1. z.c.stats = AddRows(x.c.stats, x.c.cur + 1, <<x.c.rng + 1>>)  BY <1>3, <1>4 DEF one
  <2> QED  BY <1>r, <1>3, <1>4, <1>7, <1>8, <2>1 DEF RowAdded, p, q
<1> QED  BY <1>r, <1>2, <1>9

(* The row of the next draw is added.                                      *)
LEMMA AddOK ==
  ASSUME NEW x, Kept(x), x.c.rng # None, x.c.burnin = 0
  PROVE  LET z == PostUpdate([x EXCEPT !.c.rng = @ + 1], <<x.c.rng + 1>>)
         IN  /\ Kept(z) /\ z.c.burnin = 0 /\ z.c.file = x.c.file
             /\ InOrderAll(x) => InOrderAll(z)
<1> DEFINE z == PostUpdate([x EXCEPT !.c.rng = @ + 1], <<x.c.rng + 1>>)
           p == MemRows(x)
           q == MemRows(z)
<1>0. MemOK(x) /\ Shape(x)  BY DEF Kept, MemOK
<1>1. RowAdded(x, z) /\ x.c.rng + 1 \in Nat  BY <1>0, AddIs
<1>r. PICK k \in Nat : k = x.c.rng + 1  BY <1>1
<1> HIDE DEF z
<1>3. Shape(z) /\ z.d = x.d /\ SameBut(x, z, {"stats", "cur", "rng"})  BY <1>1 DEF RowAdded
<1>4. /\ z.c.first = x.c.first /\ z.c.ffirst = x.c.ffirst /\ z.c.fcur = x.c.fcur
      /\ z.c.burnin = 0 /\ z.c.file = x.c.file /\ z.c.rng = k /\ z.c.inis = x.c.inis
      /\ z.d = x.d
  BY <1>1, <1>r, <1>3 DEF RowAdded, SameBut, CatalogFields
<1>5. p \in Seq(Nat) /\ Len(p) = 0 + (x.c.cur - x.c.first + 1)
  BY <1>0 DEF MemOK, Spans
<1>7. z.c.cur = x.c.cur + 1  BY <1>1 DEF RowAdded
<1>8. /\ q \in Seq(Nat) /\ Len(q) = Len(p) + 1
      /\ \A i \in 1..Len(p) : q[i] = p[i]
      /\ q[Len(p) + 1] = k
  BY <1>1, <1>r DEF RowAdded
<1> HIDE DEF p, q
<1>9. PICK a \in Nat, b \in Int : a = x.c.first /\ b = x.c.cur /\ a - 1 <= b
  BY <1>0 DEF MemOK
<1>10. MemOK(z)
  <2>1. Spans(q, 0, a, b + 1)
    <3>0. Len(p) = 0 + (b - a + 1)  BY <1>5, <1>9
    <3>1. Len(q) = 0 + ((b + 1) - a + 1)
      <4>1. Len(q) = Len(p) + 1  BY <1>8
      <4> QED  BY <3>0, <4>1
    <3> QED  BY <1>8, <3>1 DEF Spans
  <2>2. z.c.first = a /\ z.c.cur = b + 1 /\ a - 1 <= b + 1  BY <1>4, <1>7, <1>9
  <2>3. z.c.rng \in RngState /\ z.c.inis \in RngState /\ z.c.burnin \in Nat
    BY <1>0, <1>4 DEF MemOK, RngState
  <2> QED  BY <1>3, <2>1, <2>2, <2>3 DEF MemOK, q
<1>11. ASSUME x.c.file # None PROVE FileBehind(z)
  <2>1. FileBehind(x)  BY <1>11 DEF Kept
  <2>2. FileRows(z) = FileRows(x)  BY <1>4 DEF FileRows
  <2>3. FileOK(z)  BY <1>4, <2>1, <2>2 DEF FileBehind, FileOK
  <2>4. z.c.fcur <= z.c.cur
    <3>1. x.c.fcur \in Int /\ x.c.fcur <= x.c.cur  BY <2>1 DEF FileBehind, FileOK
    <3> QED  BY <1>4, <1>7, <1>9, <3>1
  <2> QED  BY <1>4, <2>1, <2>3, <2>4 DEF FileBehind
<1>12. Kept(z)  BY <1>4, <1>10, <1>11 DEF Kept, AllFiles
<1>13. ASSUME InOrderAll(x) PROVE InOrderAll(z)
  <2>1. MemInOrder(x)  BY <1>13 DEF InOrderAll
  <2>2. k = Len(p) + 1
    <3>1. x.c.rng = Len(p)  BY <2>1 DEF MemInOrder, p
    <3> QED  BY <1>r, <3>1
  <2>3. ASSUME NEW i \in 1..Len(q) PROVE q[i] = 0 + i
    <3>0. \A j \in 1..Len(p) : p[j] = 0 + j  BY <2>1 DEF MemInOrder, p
    <3>1. Len(p) \in Nat  BY <1>5
    <3>2. CASE i \in 1..Len(p)  BY <1>8, <3>0, <3>2
    <3>3. CASE i = Len(p) + 1  BY <1>8, <2>2, <3>1, <3>3
    <3> QED  BY <1>8, <3>1, <3>2, <3>3
  <2>4. k # None /\ z.c.rng \in {None, Len(q)}  BY <1>4, <1>8, <2>2, NoneAssumption
  <2>5. MemInOrder(z)
    BY <1>4, <2>1, <2>3, <2>4 DEF MemInOrder, q
  <2>6. OneRng(z)  BY <1>4, <1>13, <2>4 DEF InOrderAll, OneRng
  <2> QED  BY <1>4, <1>13, <2>5, <2>6 DEF InOrderAll
<1> QED  BY <1>4, <1>12, <1>13 DEF z

(* v is x with another first id, before the sync that ends the call.       *)
Moved(x, v) ==
  /\ Kept(v) /\ v.c.burnin = 0 /\ v.c.file = x.c.file
  /\ v.c.stats = x.c.stats /\ v.c.smode = x.c.smode /\ v.c.fcur \in Int
  /\ \A g \in Files : v.d[g] # None => x.d[g] # None /\ v.d[g].rows = x.d[g].rows

(* An empty catalog, and its empty file, move to another first id.         *)
LEMMA SetFirstIdIs ==
  ASSUME NEW x, Kept(x), x.c.burnin = 0, NEW id \in Nat, id # x.c.first, CanSetFirstId(x, id)
  PROVE  \E v : Moved(x, v) /\ SetFirstId(x, id) = Sync(v)
<1> DEFINE w == [x EXCEPT !.c.first = id, !.c.cur = id - 1, !.c.ffirst = id, !.c.fcur = id - 1]
<1>0. MemOK(x) /\ Shape(x)  BY DEF Kept, MemOK
<1>1. /\ Shape(w) /\ w.d = x.d
      /\ w.c.first = id /\ w.c.cur = id - 1 /\ w.c.ffirst = id /\ w.c.fcur = id - 1
      /\ SameBut(x, w, {"first", "cur", "ffirst", "fcur"})
  BY <1>0 DEF Shape, SameBut, CatalogFields
<1>2. SetFirstId(x, id) = IF w.c.file = None THEN w ELSE Sync([w EXCEPT !.d[w.c.file].first = id])
  BY DEF SetFirstId
<1> HIDE DEF w
<1>3. /\ w.c.stats = x.c.stats /\ w.c.burnin = 0 /\ w.c.file = x.c.file
      /\ w.c.rng = x.c.rng /\ w.c.inis = x.c.inis /\ w.c.smode = x.c.smode
  BY <1>1 DEF SameBut, CatalogFields
<1>4. PICK a \in Nat, b \in Int : a = x.c.first /\ b = x.c.cur /\ b = a - 1
  BY <1>0 DEF MemOK, CanSetFirstId, IsEmpty
<1>5. MemOK(w)
  <2>1. MemRows(w) = MemRows(x)  BY <1>3 DEF MemRows
  <2>2. MemRows(x) \in Seq(Nat) /\ Len(MemRows(x)) = 0
    <3>1. MemRows(x) \in Seq(Nat) /\ Len(MemRows(x)) = 0 + (b - a + 1)
      BY <1>0, <1>4 DEF MemOK, Spans
    <3>2. 0 + (b - a + 1) = 0  BY <1>4
    <3> QED  BY <3>1, <3>2
  <2>3. Spans(MemRows(w), 0, w.c.first, w.c.cur)  BY <1>1, <2>1, <2>2 DEF Spans
  <2> QED  BY <1>0, <1>1, <1>3, <2>3 DEF MemOK
<1>6. CASE w.c.file = None
  <2>1. Kept(w)  BY <1>1, <1>3, <1>5, <1>6 DEF Kept, AllFiles
  <2>2. SetFirstId(x, id) = Sync(w)  BY <1>2, <1>6 DEF Sync
  <2>3. Moved(x, w)  BY <1>1, <1>3, <2>1 DEF Moved
  <2> QED  BY <2>2, <2>3
<1>7. CASE w.c.file # None
  <2> DEFINE f == w.c.file
             v == [w EXCEPT !.d[f].first = id]
  <2>0. FileBehind(x) /\ FileOK(x) /\ f \in Files /\ IsFile(x.d[f]) /\ AllFiles(x)
    BY <1>3, <1>7 DEF Kept, FileBehind, FileOK
  <2>1. /\ Shape(v) /\ v.c = w.c /\ SameFiles(w, v, {f})
        /\ v.d[f] = [w.d[f] EXCEPT !.first = id]
    BY <1>1, <2>0 DEF Shape, SameFiles
  <2> HIDE DEF v
  <2>2. IsFile(v.d[f]) /\ v.d[f].rows = x.d[f].rows /\ v.d[f].first = id
    BY <1>1, <2>0, <2>1, ZenonT(60) DEF IsFile, IsRecord, FileFields
  <2>3. x.d[f].rows \in Seq(Nat) /\ Len(x.d[f].rows) = 0
    <3>1. x.d[f].rows \in Seq(Nat) /\ Len(x.d[f].rows) = 0 + (x.c.fcur - x.c.ffirst + 1)
      BY <1>3, <2>0 DEF FileOK, Spans, FileRows
    <3>2. x.c.fcur = b /\ x.c.ffirst = a  BY <1>4 DEF CanSetFirstId
    <3> QED  BY <1>4, <3>1, <3>2
  <2>4. MemOK(v)
    <3>1. MemRows(v) = MemRows(w)  BY <2>1 DEF MemRows
    <3> QED  BY <1>5, <2>1, <3>1 DEF MemOK
  <2>5. FileOK(v)
    <3>1. FileRows(v) = x.d[f].rows  BY <2>1, <2>2 DEF FileRows
    <3>2. Spans(FileRows(v), v.c.burnin, v.c.ffirst, v.c.fcur)
      <4>1. 0 = v.c.burnin + (v.c.fcur - v.c.ffirst + 1)  BY <1>1, <1>3, <2>1
      <4> QED  BY <2>3, <3>1, <4>1 DEF Spans
    <3>3. v.c.ffirst \in Nat /\ v.c.fcur \in Int /\ v.c.ffirst - 1 <= v.c.fcur
      BY <1>1, <2>1
    <3> QED  BY <1>1, <2>0, <2>1, <2>2, <3>2, <3>3 DEF FileOK
  <2>6. FileBehind(v)
    BY <1>1, <1>3, <2>1, <2>5 DEF FileBehind
  <2>7. AllFiles(v)
    <3> SUFFICES ASSUME NEW g \in Files PROVE v.d[g] = None \/ IsFile(v.d[g])  BY DEF AllFiles
    <3>1. CASE g = f  BY <2>2, <3>1
    <3>2. CASE g # f
      <4>1. v.d[g] = x.d[g]  BY <1>1, <2>1, <3>2 DEF SameFiles
      <4> QED  BY <2>0, <4>1 DEF AllFiles
    <3> QED  BY <3>1, <3>2
  <2>8. Kept(v)
    <3>1. v.c.ffirst = v.c.first  BY <1>1, <2>1
    <3> QED  BY <2>0, <2>1, <2>4, <2>6, <2>7, <3>1 DEF Kept
  <2>9. ASSUME NEW g \in Files, v.d[g] # None PROVE x.d[g] # None /\ v.d[g].rows = x.d[g].rows
    <3>1. CASE g = f  BY <2>0, <2>2, <3>1, IsFileThere
    <3>2. CASE g # f  BY <1>1, <2>1, <2>9, <3>2 DEF SameFiles
    <3> QED  BY <3>1, <3>2
  <2>10. Moved(x, v)  BY <1>1, <1>3, <2>1, <2>8, <2>9 DEF Moved
  <2>11. SetFirstId(x, id) = Sync(v)  BY <1>2, <1>7 DEF v
  <2> QED  BY <2>10, <2>11
<1> QED  BY <1>6, <1>7

LEMMA SetFirstIdOK ==
  ASSUME NEW x, Kept(x), x.c.burnin = 0, NEW id \in Nat, id # x.c.first, CanSetFirstId(x, id)
  PROVE  LET y == SetFirstId(x, id)
         IN  Kept(y) /\ y.c.burnin = 0 /\ y.c.file = x.c.file
<1>1. PICK v : Moved(x, v) /\ SetFirstId(x, id) = Sync(v)  BY SetFirstIdIs
<1>2. Kept(v) /\ v.c.burnin = 0 /\ v.c.file = x.c.file  BY <1>1 DEF Moved
<1>3. Kept(Sync(v)) /\ SameBut(v, Sync(v), {"fcur"})  BY <1>2, SyncKeeps
<1>4. Sync(v).c.burnin = 0 /\ Sync(v).c.file = x.c.file
  BY <1>2, <1>3 DEF SameBut, CatalogFields
<1> QED  BY <1>1, <1>3, <1>4

(* An empty catalog gets a burn-in.                                        *)
LEMMA SetBurninOK ==
  ASSUME NEW x, Kept(x), x.c.file = None, IsEmpty(x.c), NEW n \in Nat \ {0}
  PROVE  LET y == [x EXCEPT !.c.burnin = n]
         IN  Kept(y) /\ y.c.file = x.c.file /\ (InOrderAll(x) => InOrderAll(y))
<1> DEFINE y == [x EXCEPT !.c.burnin = n]
<1>0. MemOK(x) /\ Shape(x)  BY DEF Kept, MemOK
<1>1. Shape(y) /\ y.d = x.d /\ y.c.burnin = n /\ SameBut(x, y, {"burnin"})
  BY <1>0 DEF Shape, SameBut, CatalogFields
<1> HIDE DEF y
<1>2. /\ y.c.first = x.c.first /\ y.c.cur = x.c.cur /\ y.c.ffirst = x.c.ffirst
      /\ y.c.fcur = x.c.fcur /\ y.c.file = None /\ y.c.rng = x.c.rng
      /\ y.c.inis = x.c.inis /\ y.c.stats = x.c.stats
  BY <1>1 DEF SameBut, CatalogFields
<1>3. MemRows(y) = MemRows(x)  BY <1>2 DEF MemRows
<1>4. MemOK(y)  BY <1>0, <1>1, <1>2, <1>3 DEF MemOK
<1>5. Kept(y)  BY <1>1, <1>2, <1>4 DEF Kept, AllFiles
<1>6. Len(MemRows(x)) = 0
  <2>1. PICK a \in Nat, b \in Int : a = x.c.first /\ b = x.c.cur /\ b = a - 1
    BY <1>0 DEF MemOK, IsEmpty
  <2>2. Len(MemRows(x)) = 0 + (b - a + 1)  BY <1>0, <2>1 DEF MemOK, Spans
  <2> QED  BY <2>1, <2>2, SMTT(30)
<1>7. ASSUME InOrderAll(x) PROVE InOrderAll(y)
  <2>1. MemInOrder(y)
    BY <1>1, <1>2, <1>3, <1>6, <1>7 DEF InOrderAll, MemInOrder
  <2> QED  BY <1>1, <1>2, <1>7, <2>1 DEF InOrderAll, OneRng
<1> QED  BY <1>2, <1>5, <1>7 DEF y

(* A new process, with the files it finds.                                 *)
LEMMA NewOK ==
  ASSUME NEW d, d = [g \in Files |-> d[g]], \A g \in Files : d[g] = None \/ IsFile(d[g])
  PROVE  LET x == [c |-> NewCatalog, d |-> d]
         IN  /\ Kept(x) /\ x.c.burnin = 0
             /\ (\A g \in Files : d[g] # None => FileInOrder(d[g])) => InOrderAll(x)
<1> DEFINE x == [c |-> NewCatalog, d |-> d]
<1>1. /\ x.c.stats.pstats = <<>> /\ x.c.first = 0 /\ x.c.cur = -1 /\ x.c.ffirst = 0
      /\ x.c.fcur = -1 /\ x.c.burnin = 0 /\ x.c.file = None /\ x.c.rng = None
      /\ x.c.inis = None /\ x.d = d
  BY DEF NewCatalog, EmptyStats
<1>2. Shape(x)  BY DEF Shape, NewCatalog, CatalogFields
<1> HIDE DEF x
<1>3. MemOK(x)
  <2>1. Spans(MemRows(x), 0, 0, -1)  BY <1>1 DEF MemRows, Spans
  <2> QED  BY <1>1, <1>2, <2>1 DEF MemOK, RngState
<1>4. Kept(x)  BY <1>1, <1>3 DEF Kept, AllFiles
<1>5. ASSUME \A g \in Files : d[g] # None => FileInOrder(d[g]) PROVE InOrderAll(x)
  BY <1>1, <1>5 DEF InOrderAll, MemInOrder, OneRng, MemRows
<1> QED  BY <1>1, <1>4, <1>5 DEF x


-----------------------------------------------------------------------------
(* The invariant is one                                                    *)

(* The pair of what a pair has.                                            *)
LEMMA NowIs ==
  ASSUME NEW x
  PROVE  LET y == [c |-> x.c, d |-> x.d]
         IN  /\ Kept(x) => Kept(y)
             /\ InOrderAll(x) => InOrderAll(y)
             /\ \A w, f : JoinedAt(w, f, x) => JoinedAt(w, f, y)
<1> DEFINE y == [c |-> x.c, d |-> x.d]
<1>1. y.c = x.c /\ y.d = x.d /\ DOMAIN y = {"c", "d"}  OBVIOUS
<1> HIDE DEF y
<1>2. MemRows(y) = MemRows(x) /\ FileRows(y) = FileRows(x)  BY <1>1 DEF MemRows, FileRows
<1>3. MemOK(x) => MemOK(y)  BY <1>1, <1>2 DEF MemOK, Shape
<1>4. FileOK(x) => FileOK(y)  BY <1>1, <1>2 DEF FileOK
<1>5. Kept(x) => Kept(y)  BY <1>1, <1>3, <1>4 DEF Kept, AllFiles, FileBehind
<1>6. InOrderAll(x) => InOrderAll(y)  BY <1>1, <1>2 DEF InOrderAll, MemInOrder, OneRng
<1>7. ASSUME NEW w, NEW f, JoinedAt(w, f, x) PROVE JoinedAt(w, f, y)
  <2>1. ASSUME NEW id \in Int PROVE JoinedId(w, f, y, id)
    <3>1. /\ InMem(y, id) <=> InMem(x, id)
          /\ Mem(y, id) = Mem(x, id) /\ Fil(y, id) = Fil(x, id)
      BY <1>1, <1>2 DEF InMem, Mem, Fil
    <3>2. JoinedId(w, f, x, id)  BY <1>7 DEF JoinedAt
    <3> QED  BY <3>1, <3>2 DEF JoinedId
  <2> QED  BY <1>1, <1>3, <1>4, <1>7, <2>1 DEF JoinedAt
<1> QED  BY <1>5, <1>6, <1>7 DEF y

(* The state after a call.                                                 *)
LEMMA AfterIs ==
  ASSUME NEW x, Becomes(x)
  PROVE  /\ mcat'.burnin = x.c.burnin /\ mcat'.file = x.c.file
         /\ Kept(x) => Kept(Now')
         /\ InOrderAll(x) => InOrderAll(Now')
         /\ \A w, f : JoinedAt(w, f, x) => JoinedAt(w, f, Now')
<1>1. Now' = [c |-> x.c, d |-> x.d] /\ mcat' = x.c  BY DEF Now, Becomes
<1> QED  BY <1>1, NowIs

(* The catalog is as it must be, and so is what a step makes of it.        *)
KeptStep ==
  /\ Kept(Now')
  /\ mcat'.burnin = mcat.burnin
  /\ InOrderAll(Now) => InOrderAll(Now')

(* The calls, as steps.                                                    *)
LEMMA SetFileStep ==
  ASSUME Kept(Now), NEW f \in Files \cup {None}, CallSetFile(f),
         mcat.burnin # 0 /\ f # None => disk[f] # None /\ IsEmpty(mcat)
  PROVE  /\ KeptStep /\ mcat'.file = f
         /\ f # None /\ disk[f] # None => JoinedAt(Now, f, Now')
<1> DEFINE y == SetFile(Now, f)
<1>1. Now.c = mcat /\ Now.d = disk  BY DEF Now
<1>2. Now.c.file # f /\ CanSetFile(Now, f) /\ Becomes(y)  BY <1>1 DEF CallSetFile
<1>3. /\ Kept(y) /\ y.c.burnin = Now.c.burnin /\ y.c.file = f
      /\ InOrderAll(Now) => InOrderAll(y)
      /\ f # None /\ Now.d[f] # None => JoinedAt(Now, f, y)
  BY <1>1, <1>2, SetFileOK
<1> HIDE DEF y
<1> QED  BY <1>1, <1>2, <1>3, AfterIs DEF KeptStep

LEMMA SetRngStep ==
  ASSUME Kept(Now), CallSetRng PROVE KeptStep /\ mcat'.file = mcat.file
<1> DEFINE z == [Now EXCEPT !.c.rng = 0, !.c.inis = 0]
           y == IF Now.c.file = None THEN z ELSE SyncRng(z)
<1>1. Now.c = mcat /\ Now.d = disk  BY DEF Now
<1>2. Now.c.rng = None /\ IsEmpty(Now.c) /\ Becomes(y)  BY <1>1 DEF CallSetRng
<1>3. /\ Kept(y) /\ y.c.burnin = Now.c.burnin /\ y.c.file = Now.c.file
      /\ InOrderAll(Now) => InOrderAll(y)
  BY <1>2, SetRngOK
<1> HIDE DEF y
<1> QED  BY <1>1, <1>2, <1>3, AfterIs DEF KeptStep

LEMMA AddStep ==
  ASSUME Kept(Now), CallAdd, mcat.burnin = 0 PROVE KeptStep /\ mcat'.file = mcat.file
<1> DEFINE z == PostUpdate([Now EXCEPT !.c.rng = @ + 1], <<Now.c.rng + 1>>)
           y == Sync(z)
<1>1. Now.c = mcat /\ Now.d = disk  BY DEF Now
<1>2. Now.c.rng # None /\ (Becomes(z) \/ Becomes(y))  BY <1>1 DEF CallAdd
<1>3. /\ Kept(z) /\ z.c.burnin = 0 /\ z.c.file = Now.c.file
      /\ InOrderAll(Now) => InOrderAll(z)
  BY <1>1, <1>2, AddOK
<1> HIDE DEF z
<1>4. Kept(y) /\ y.c.burnin = 0 /\ y.c.file = z.c.file /\ (InOrderAll(z) => InOrderAll(y))
  <2>1. Kept(y) /\ SameBut(z, y, {"fcur"}) /\ (InOrderAll(z) => InOrderAll(y))
    BY <1>3, SyncKeeps
  <2> HIDE DEF y
  <2> QED  BY <1>3, <2>1 DEF SameBut, CatalogFields
<1> HIDE DEF y
<1> QED  BY <1>1, <1>2, <1>3, <1>4, AfterIs DEF KeptStep

LEMMA SyncStep ==
  ASSUME Kept(Now), CallSync PROVE KeptStep /\ mcat'.file = mcat.file
<1> DEFINE y == Sync(Now)
<1>1. Now.c = mcat /\ Now.d = disk  BY DEF Now
<1>2. Becomes(y)  BY DEF CallSync
<1>3. Kept(y) /\ SameBut(Now, y, {"fcur"}) /\ (InOrderAll(Now) => InOrderAll(y))
  BY SyncKeeps
<1> HIDE DEF y
<1>4. y.c.burnin = Now.c.burnin /\ y.c.file = Now.c.file  BY <1>3 DEF SameBut, CatalogFields
<1> QED  BY <1>1, <1>2, <1>3, <1>4, AfterIs DEF KeptStep

LEMMA SyncModeStep ==
  ASSUME Kept(Now), NEW m, CallSetSyncMode(m) PROVE KeptStep /\ mcat'.file = mcat.file
<1> DEFINE y == Now'
<1>1. Now.c = mcat /\ Now.d = disk  BY DEF Now
<1>2. y.c = [mcat EXCEPT !.smode = m] /\ y.d = disk /\ DOMAIN y = {"c", "d"} /\ y.c = mcat'
  BY DEF CallSetSyncMode, Now
<1> HIDE DEF y
<1>3. MemOK(Now) /\ Shape(Now)  BY DEF Kept, MemOK
<1>4. Shape(y) /\ SameBut(Now, y, {"smode"})
  BY <1>1, <1>2, <1>3 DEF Shape, SameBut, CatalogFields
<1>5. SameBut(Now, y, FileFieldsOfMem)  BY <1>4 DEF SameBut, FileFieldsOfMem
<1>6. /\ MemOK(y) /\ MemRows(y) = MemRows(Now) /\ y.c.burnin = Now.c.burnin
      /\ MemInOrder(Now) => MemInOrder(y)
  BY <1>3, <1>4, <1>5, MemKeeps
<1>7. /\ y.c.first = Now.c.first /\ y.c.cur = Now.c.cur /\ y.c.ffirst = Now.c.ffirst
      /\ y.c.fcur = Now.c.fcur /\ y.c.file = Now.c.file /\ y.c.rng = Now.c.rng
  BY <1>4 DEF SameBut, CatalogFields
<1>8. FileRows(y) = FileRows(Now) /\ y.d = Now.d  BY <1>1, <1>2, <1>7 DEF FileRows
<1>9. FileBehind(Now) => FileBehind(y)  BY <1>6, <1>7, <1>8 DEF FileBehind, FileOK
<1>10. Kept(y)  BY <1>6, <1>7, <1>8, <1>9 DEF Kept, AllFiles
<1>11. InOrderAll(Now) => InOrderAll(y)  BY <1>6, <1>7, <1>8 DEF InOrderAll, OneRng
<1> QED  BY <1>1, <1>2, <1>6, <1>7, <1>10, <1>11 DEF KeptStep, y

LEMMA RestartStep ==
  ASSUME Kept(Now), Restart
  PROVE  Kept(Now') /\ mcat'.burnin = 0 /\ mcat'.file = None /\ (InOrderAll(Now) => InOrderAll(Now'))
<1> DEFINE y == [c |-> NewCatalog, d |-> disk]
<1>1. Now' = y /\ mcat' = y.c /\ Now.d = disk  BY DEF Now, Restart
<1>2. disk = [g \in Files |-> disk[g]] /\ \A g \in Files : disk[g] = None \/ IsFile(disk[g])
  BY <1>1 DEF Kept, MemOK, Shape, AllFiles
<1>n. y.c.file = None  BY DEF NewCatalog
<1>3. /\ Kept(y) /\ y.c.burnin = 0
      /\ (\A g \in Files : disk[g] # None => FileInOrder(disk[g])) => InOrderAll(y)
  BY <1>2, NewOK
<1> HIDE DEF y
<1> QED  BY <1>1, <1>3, <1>n DEF InOrderAll

(* Whatever happens in the life of a run.                                  *)
LEMMA LifeStep ==
  ASSUME Kept(Now), NEW files \in SUBSET Files, NEW adds, Life(files, adds),
         adds => mcat.burnin = 0,
         mcat.burnin # 0 => \A f \in files : disk[f] # None /\ IsEmpty(mcat)
  PROVE  /\ Kept(Now') /\ (mcat.burnin = 0 => mcat'.burnin = 0)
         /\ InOrderAll(Now) => InOrderAll(Now')
         /\ \A f \in Files :
              mcat.file # f /\ mcat'.file = f /\ disk[f] # None => JoinedAt(Now, f, Now')
<1>0. None \notin Files  BY NoneAssumption
<1>1. CASE \E f \in files \cup {None} : CallSetFile(f)
  <2>1. PICK f \in files \cup {None} : CallSetFile(f)  BY <1>1
  <2>2. /\ KeptStep /\ mcat'.file = f
        /\ f # None /\ disk[f] # None => JoinedAt(Now, f, Now')
    BY <2>1, SetFileStep
  <2> QED  BY <1>0, <2>2 DEF KeptStep
<1>2. CASE CallSetRng  BY <1>2, SetRngStep DEF KeptStep
<1>3. CASE CallSync  BY <1>3, SyncStep DEF KeptStep
<1>4. CASE Restart  BY <1>0, <1>4, RestartStep
<1>5. CASE adds /\ CallAdd  BY <1>5, AddStep DEF KeptStep
<1>6. CASE \E m \in SyncMode : CallSetSyncMode(m)  BY <1>6, SyncModeStep DEF KeptStep
<1> QED  BY <1>1, <1>2, <1>3, <1>4, <1>5, <1>6 DEF Life


(* Memory and file are kept together; but for a run in parts, everything   *)
(* is in the order of the draws.                                           *)
MCIInv ==
  /\ usage \in {"run", "split", "analysis"}
  /\ Kept(Now)
  /\ usage # "analysis" => mcat.burnin = 0
  /\ usage # "split" => InOrderAll(Now)

(* It holds of a program that starts ...                                   *)
LEMMA NewInvariant == MCInit => MCIInv
<1> SUFFICES ASSUME MCInit PROVE MCIInv  OBVIOUS
<1>1. Now = [c |-> NewCatalog, d |-> disk] /\ disk = [f \in Files |-> None]
  BY DEF MCInit, Init, Now
<1>2. disk = [g \in Files |-> disk[g]] /\ \A g \in Files : disk[g] = None  BY <1>1
<1>3. Kept(Now) /\ Now.c.burnin = 0 /\ InOrderAll(Now)  BY <1>1, <1>2, NewOK
<1>4. mcat.burnin = 0  BY <1>3 DEF Now
<1> QED  BY <1>3, <1>4 DEF MCIInv, MCInit

LEMMA SetFirstIdStep ==
  ASSUME Kept(Now), mcat.burnin = 0, NEW id \in Nat, CallSetFirstId(id)
  PROVE  Kept(Now') /\ mcat'.burnin = 0 /\ mcat'.file = mcat.file
<1> DEFINE y == SetFirstId(Now, id)
<1>1. Now.c = mcat  BY DEF Now
<1>2. id # Now.c.first /\ CanSetFirstId(Now, id) /\ Becomes(y)  BY <1>1 DEF CallSetFirstId
<1>3. Kept(y) /\ y.c.burnin = 0 /\ y.c.file = Now.c.file  BY <1>1, <1>2, SetFirstIdOK
<1> HIDE DEF y
<1> QED  BY <1>1, <1>2, <1>3, AfterIs

LEMMA SetBurninStep ==
  ASSUME Kept(Now), NEW n \in Nat \ {0}, IsEmpty(mcat), CallSetBurnin(n)
  PROVE  Kept(Now') /\ mcat'.file = mcat.file /\ (InOrderAll(Now) => InOrderAll(Now'))
<1> DEFINE y == [Now EXCEPT !.c.burnin = n]
<1>1. Now.c = mcat /\ Now.d = disk  BY DEF Now
<1>2. Now.c.file = None /\ IsEmpty(Now.c)  BY <1>1 DEF CallSetBurnin
<1>3. Becomes(y)  BY DEF CallSetBurnin, Becomes, Now
<1>4. Kept(y) /\ y.c.file = Now.c.file /\ (InOrderAll(Now) => InOrderAll(y))
  BY <1>2, SetBurninOK
<1> HIDE DEF y
<1> QED  BY <1>1, <1>3, <1>4, AfterIs

(* Which file is opened, and with what.                                    *)
Opening ==
  \A f \in Files : mcat.file # f /\ mcat'.file = f /\ disk[f] # None => JoinedAt(Now, f, Now')

(* ... and every step keeps it.                                            *)
LEMMA StepInvariant ==
  ASSUME MCIInv, [MCNext]_<<vars, usage>> PROVE MCIInv' /\ Opening
<1>0. Kept(Now) /\ (usage # "split" => InOrderAll(Now)) /\ (usage # "analysis" => mcat.burnin = 0)
  BY DEF MCIInv
<1>f. None \notin Files /\ MaxLength \in Nat  BY NoneAssumption, BoundsAssumption
<1>s. ASSUME usage' = usage, Kept(Now'), usage # "analysis" => mcat'.burnin = 0,
             usage # "split" => InOrderAll(Now')
      PROVE  MCIInv'
  BY <1>s DEF MCIInv
<1>1. CASE UNCHANGED <<vars, usage>>
  <2>1. mcat' = mcat /\ disk' = disk /\ usage' = usage /\ Now' = Now  BY <1>1 DEF vars, Now
  <2> QED  BY <1>0, <1>s, <2>1 DEF Opening
<1>2. CASE usage' = usage /\ usage # "analysis" /\ RunNext
  <2>1. mcat.burnin = 0  BY <1>0, <1>2
  <2> QED  BY <1>0, <1>2, <1>s, <2>1, LifeStep DEF RunNext, Opening
<1>3. CASE usage' = usage /\ usage = "split" /\ \E id \in 0..MaxLength : CallSetFirstId(id)
  <2>1. PICK id \in Nat : CallSetFirstId(id)  BY <1>3, <1>f
  <2>2. Kept(Now') /\ mcat'.burnin = 0 /\ mcat'.file = mcat.file
    BY <1>0, <1>3, <2>1, SetFirstIdStep
  <2> QED  BY <1>3, <1>s, <2>2 DEF Opening
<1>4. CASE usage' = usage /\ usage = "analysis" /\ AnalysisNext
  <2> DEFINE exist == {f \in Files : disk[f] # None /\ IsEmpty(mcat)}
             files == IF mcat.burnin = 0 THEN Files ELSE exist
  <2>1. CASE Life(files, mcat.burnin = 0)
    <3>1. files \in SUBSET Files  OBVIOUS
    <3>2. mcat.burnin # 0 => \A f \in files : disk[f] # None /\ IsEmpty(mcat)  OBVIOUS
    <3> HIDE DEF files
    <3>3. /\ Kept(Now') /\ (InOrderAll(Now) => InOrderAll(Now')) /\ Opening
      BY <1>0, <2>1, <3>1, <3>2, LifeStep DEF Opening
    <3> QED  BY <1>0, <1>4, <1>s, <3>3
  <2>2. CASE \E n \in 1..MaxLength : mcat.rng = None /\ IsEmpty(mcat) /\ CallSetBurnin(n)
    <3>1. PICK n \in Nat \ {0} : IsEmpty(mcat) /\ CallSetBurnin(n)  BY <1>f, <2>2
    <3>2. Kept(Now') /\ mcat'.file = mcat.file /\ (InOrderAll(Now) => InOrderAll(Now'))
      BY <1>0, <3>1, SetBurninStep
    <3> QED  BY <1>0, <1>4, <1>s, <3>2 DEF Opening
  <2> QED  BY <1>4, <2>1, <2>2 DEF AnalysisNext
<1> QED  BY <1>1, <1>2, <1>3, <1>4 DEF MCNext, SplitNext

(* The invariant of the three ways to use a catalog.                       *)
THEOREM MCInvariant == MCSpec => []MCIInv
<1>1. MCInit => MCIInv  BY NewInvariant
<1>2. MCIInv /\ [MCNext]_<<vars, usage>> => MCIInv'  BY StepInvariant
<1> QED  BY <1>1, <1>2, PTL DEF MCSpec

(* While memory and file are kept together the ids are those of the rows   *)
(* there are ...                                                           *)
LEMMA KeptMatch == ASSUME Kept(Now) PROVE IdsMatch
<1>0. Now.c = mcat /\ Now.d = disk  BY DEF Now
<1>1. Len(mcat.stats.pstats) = mcat.cur - mcat.first + 1
  <2>1. Len(mcat.stats.pstats) = 0 + (mcat.cur - mcat.first + 1)
    BY <1>0 DEF Kept, MemOK, Spans, MemRows
  <2>2. mcat.cur \in Int /\ mcat.first \in Nat  BY <1>0 DEF Kept, MemOK
  <2> QED  BY <2>1, <2>2
<1>2. ASSUME Opened
      PROVE  /\ Len(OpenRows) = mcat.burnin + mcat.fcur - mcat.ffirst + 1
             /\ disk[mcat.file].first = mcat.ffirst
  <2>1. FileOK(Now)  BY <1>0, <1>2 DEF Opened, Kept, FileBehind
  <2>2. Len(OpenRows) = mcat.burnin + (mcat.fcur - mcat.ffirst + 1)
    BY <1>0, <2>1 DEF FileOK, Spans, FileRows, OpenRows
  <2>3. mcat.burnin \in Nat /\ mcat.fcur \in Int /\ mcat.ffirst \in Nat
    BY <1>0, <2>1 DEF Kept, MemOK, FileOK
  <2>4. disk[mcat.file].first = mcat.ffirst  BY <1>0, <2>1 DEF FileOK
  <2> QED  BY <2>2, <2>3, <2>4
<1>3. mcat.first = mcat.ffirst  BY <1>0 DEF Kept
<1> QED  BY <1>1, <1>2, <1>3 DEF IdsMatch

(* ... and a sync cannot fail.                                             *)
LEMMA KeptSyncs == ASSUME Kept(Now) PROVE SyncCannotFail
<1> SUFFICES ASSUME Now.c.file # None PROVE CanSync(Now)  BY DEF SyncCannotFail, CanSync
<1>1. Ready(Now) /\ FileBehind(Now)  BY KeptReady DEF Kept
<1>2. Meet(Now.c) /\ Now.c.fcur <= Now.c.cur /\ Now.c.fcur \in Int /\ Now.c.cur \in Int
  BY <1>1 DEF Ready, FileBehind, MemOK, FileOK
<1>3. ~ (Now.c.fcur > Now.c.cur)  BY <1>2
<1> QED  BY <1>2, <1>3 DEF CanSync

(* The ids the catalog keeps are always those of the rows in memory and in *)
(* the table (ncm_mset_catalog.c: first_id, cur_id, file_first_id,         *)
(* file_cur_id), so that sync never reads or writes outside of either.     *)
THEOREM IdsAlwaysMatch == MCSpec => []IdsMatch
<1>1. MCIInv => IdsMatch  BY KeptMatch DEF MCIInv
<1> QED  BY <1>1, MCInvariant, PTL

(* No sync aborts: with a file open the two ranges of ids meet, and what   *)
(* must be read comes with a state of the generator.                       *)
THEOREM SyncNeverFails == MCSpec => []SyncCannotFail
<1>1. MCIInv => SyncCannotFail  BY KeptSyncs DEF MCIInv
<1> QED  BY <1>1, MCInvariant, PTL

(* A row that memory and the open file both have is the same in both, in a *)
(* run that is interrupted and resumed on any of its files, and in a file  *)
(* that is loaded with a burn-in.                                          *)
THEOREM RowsAlwaysAgree == MCSpec => []MCRowsAgree
<1>1. MCIInv => MCRowsAgree
  <2> SUFFICES ASSUME Kept(Now), InOrderAll(Now), Opened,
                      NEW id \in (mcat.first..mcat.cur) \cap (mcat.ffirst..mcat.fcur)
               PROVE  OpenRows[mcat.burnin + id - mcat.ffirst + 1]
                        = mcat.stats.pstats[id - mcat.first + 1]
    BY DEF MCIInv, MCRowsAgree, RowsAgree
  <2>0. Now.c = mcat /\ Now.d = disk  BY DEF Now
  <2>1. MemOK(Now) /\ FileOK(Now) /\ IsFile(disk[mcat.file]) /\ mcat.file \in Files
    BY <2>0 DEF Kept, FileBehind, FileOK, Opened
  <2>2. MemInOrder(Now) /\ FileInOrder(disk[mcat.file])
    BY <2>0, <2>1, IsFileThere DEF InOrderAll
  <2>3. mcat.first = 0 /\ mcat.ffirst = 0  BY <2>0, <2>2 DEF MemInOrder, Kept
  <2>4. PICK e \in Nat, b \in Int, d \in Int : e = mcat.burnin /\ b = mcat.cur /\ d = mcat.fcur
    BY <2>0, <2>1 DEF MemOK, FileOK
  <2>5. Len(mcat.stats.pstats) = b + 1 /\ Len(OpenRows) = e + (d + 1)
    <3>1. Spans(mcat.stats.pstats, 0, 0, b) /\ Spans(OpenRows, e, 0, d)
      BY <2>0, <2>1, <2>3, <2>4 DEF MemOK, FileOK, MemRows, FileRows, OpenRows
    <3> QED  BY <3>1 DEF Spans
  <2>6. id \in 0..b /\ id \in 0..d  BY <2>3, <2>4
  <2>7. OpenRows[e + id + 1] = e + id + 1
    <3>1. e + id + 1 \in 1..e + (d + 1)  BY <2>6
    <3> QED  BY <2>2, <2>5, <3>1 DEF FileInOrder, OpenRows
  <2>8. mcat.stats.pstats[id + 1] = e + (id + 1)
    <3>1. id + 1 \in 1..b + 1  BY <2>6
    <3> QED  BY <2>0, <2>2, <2>4, <2>5, <3>1 DEF MemInOrder, MemRows
  <2>9. mcat.burnin + id - mcat.ffirst + 1 = e + id + 1 /\ id - mcat.first + 1 = id + 1
    BY <2>3, <2>4, <2>6
  <2> QED  BY <2>6, <2>7, <2>8, <2>9
<1> QED  BY <1>1, MCInvariant, PTL

(* A run interrupted and resumed any number of times has the draws in      *)
(* order, none missing and none twice, and its generator is right after    *)
(* the last.                                                               *)
THEOREM NeverInterrupted == MCSpec => []MCUninterrupted
<1>1. MCIInv => MCUninterrupted
  <2> SUFFICES ASSUME Kept(Now), InOrderAll(Now), mcat.burnin = 0 PROVE Uninterrupted
    BY DEF MCIInv, MCUninterrupted
  <2>0. Now.c = mcat  BY DEF Now
  <2>1. MemInOrder(Now)  BY DEF InOrderAll
  <2>2. ASSUME NEW i \in 1..Len(mcat.stats.pstats) PROVE mcat.stats.pstats[i] = i
    <3>1. mcat.stats.pstats[i] = 0 + i  BY <2>0, <2>1, <2>2 DEF MemInOrder, MemRows
    <3>2. Len(mcat.stats.pstats) \in Nat  BY <2>0 DEF Kept, MemOK, Spans, MemRows
    <3> QED  BY <3>1, <3>2
  <2>3. mcat.rng # None => mcat.rng = Len(mcat.stats.pstats)
    BY <2>0, <2>1 DEF MemInOrder, MemRows
  <2> QED  BY <2>2, <2>3 DEF Uninterrupted
<1> QED  BY <1>1, MCInvariant, PTL


(* What is said of ids, said of the positions in the tables.               *)
LEMMA JoinedIsJoins ==
  ASSUME MemOK(Now), NEW f \in Files, JoinedAt(Now, f, Now') PROVE Joins(f)
<1>1. PICK x, y : x = Now /\ y = Now'  OBVIOUS
<1>2. /\ x.c = mcat /\ x.d = disk /\ y.c = mcat' /\ y.d = disk'  BY <1>1 DEF Now
<1>3. /\ MemOK(x) /\ MemOK(y) /\ FileOK(y) /\ y.c.file = f /\ y.c.burnin = x.c.burnin
      /\ IsFile(x.d[f]) /\ RowsLeft(x, f) >= 0
      /\ y.c.ffirst = y.c.first /\ y.c.fcur = y.c.cur
      /\ \A id \in Int : JoinedId(x, f, y, id)
  BY <1>1 DEF JoinedAt
<1> DEFINE mem == mcat.stats.pstats
           rows == disk[f].rows
           file == SubSeq(rows, mcat.burnin + 1, Len(rows))
           mem2 == mcat'.stats.pstats
           rows2 == disk'[f].rows
           file2 == SubSeq(rows2, mcat.burnin + 1, Len(rows2))
           first2 == mcat'.first
           ids == Ids(mem, mcat.first)
           fids == Ids(file, disk[f].first)
<1>4. PICK e \in Nat, a \in Nat, b \in Int, c \in Nat, n \in Nat, a2 \in Nat, b2 \in Int :
         /\ e = mcat.burnin /\ a = mcat.first /\ b = mcat.cur /\ c = disk[f].first
         /\ n = RowsLeft(x, f) /\ a2 = first2 /\ b2 = mcat'.cur
  <2>1. x.c.burnin \in Nat /\ x.c.first \in Nat /\ x.c.cur \in Int /\ x.d[f].first \in Nat
    BY <1>3 DEF MemOK, IsFile
  <2>2. Len(x.d[f].rows) \in Nat  BY <1>3 DEF IsFile
  <2>3. RowsLeft(x, f) \in Nat  BY <1>3, <2>1, <2>2 DEF RowsLeft
  <2>4. y.c.first \in Nat /\ y.c.cur \in Int  BY <1>3 DEF MemOK
  <2> QED  BY <1>2, <2>1, <2>3, <2>4
<1>5. /\ mem \in Seq(Nat) /\ Len(mem) = 0 + (b - a + 1)
      /\ mem2 \in Seq(Nat) /\ Len(mem2) = 0 + (b2 - a2 + 1)
      /\ rows2 \in Seq(Nat) /\ Len(rows2) = e + (b2 - a2 + 1) /\ a2 - 1 <= b2
  <2>1. Spans(mem, 0, a, b) /\ Spans(mem2, 0, a2, b2) /\ Spans(rows2, e, a2, b2) /\ a2 - 1 <= b2
    BY <1>2, <1>3, <1>4 DEF MemOK, FileOK, MemRows, FileRows
  <2> HIDE DEF mem, mem2, rows2
  <2> QED  BY <2>1 DEF Spans
<1>6. rows \in Seq(Nat) /\ Len(rows) = e + n
  <2>1. rows \in Seq(Nat)  BY <1>2, <1>3 DEF IsFile
  <2>2. n = Len(rows) - e  BY <1>2, <1>4 DEF RowsLeft
  <2>3. Len(rows) \in Nat  BY <2>1
  <2> QED  BY <2>1, <2>2, <2>3
<1> HIDE DEF mem, mem2, rows, rows2
<1>7. ASSUME NEW s \in Seq(Nat), NEW k \in Nat, Len(s) = e + k
      PROVE  LET t == SubSeq(s, mcat.burnin + 1, Len(s))
             IN  Len(t) = k /\ \A i \in 1..k : t[i] = s[e + i]
  <2>1. PICK m \in Nat, l \in Nat : m = e + 1 /\ l = Len(s)  OBVIOUS
  <2> DEFINE t == SubSeq(s, m, l)
  <2>2. m > 0 /\ l <= Len(s) /\ m <= l + 1  BY <1>7, <2>1
  <2>3. /\ Len(t) = l - m + 1
        /\ \A i \in 1..l - m + 1 : t[i] = s[m + i - 1]
    BY <2>2, Cut
  <2>4. t = SubSeq(s, mcat.burnin + 1, Len(s))  BY <1>4, <2>1
  <2> HIDE DEF t
  <2>5. l - m + 1 = k  BY <1>7, <2>1
  <2>6. \A i \in 1..k : m + i - 1 = e + i  BY <2>1
  <2>7. Len(t) = k /\ \A i \in 1..k : t[i] = s[e + i]  BY <2>3, <2>5, <2>6
  <2> QED  BY <2>4, <2>7
<1>8. Len(file) = n /\ \A i \in 1..n : file[i] = rows[e + i]
  BY <1>6, <1>7
<1>9. PICK k \in Nat : k = b2 - a2 + 1  BY <1>5
<1>10. Len(file2) = k /\ \A i \in 1..k : file2[i] = rows2[e + i]
  <2>1. Len(rows2) = e + k  BY <1>5, <1>9
  <2> QED  BY <1>5, <1>7, <2>1
<1> HIDE DEF file, file2
<1>11. ASSUME NEW id \in Int
       PROVE  /\ id \in ids <=> InMem(x, id)
              /\ id \in fids <=> InFileOf(x, f, id)
              /\ id \in Ids(mem2, first2) <=> InMem(y, id)
              /\ id \in Ids(file2, first2) <=> InMem(y, id)
              /\ Mem(x, id) = mem[id - mcat.first + 1]
              /\ InFileOf(x, f, id) => FilOf(x, f, id) = file[id - disk[f].first + 1]
              /\ Mem(y, id) = mem2[id - first2 + 1]
              /\ InMem(y, id) => Fil(y, id) = file2[id - first2 + 1]
  <2>1. /\ InMem(x, id) <=> id \in a..b
        /\ InFileOf(x, f, id) <=> id \in c..c + n - 1
        /\ InMem(y, id) <=> id \in a2..b2
    BY <1>2, <1>4 DEF InMem, InFileOf
  <2>2. /\ ids = a..a + Len(mem) - 1 /\ fids = c..c + n - 1
        /\ Ids(mem2, first2) = a2..a2 + Len(mem2) - 1
        /\ Ids(file2, first2) = a2..a2 + k - 1
    BY <1>4, <1>8, <1>10 DEF Ids
  <2>3. a + Len(mem) - 1 = b /\ a2 + Len(mem2) - 1 = b2 /\ a2 + k - 1 = b2
    BY <1>5, <1>9
  <2>4. /\ Mem(x, id) = mem[0 + (id - a + 1)] /\ Mem(y, id) = mem2[0 + (id - a2 + 1)]
        /\ FilOf(x, f, id) = rows[e + (id - c + 1)] /\ Fil(y, id) = rows2[e + (id - a2 + 1)]
    BY <1>2, <1>3, <1>4 DEF Mem, Fil, FilOf, At, MemRows, FileRows, mem, mem2, rows, rows2
  <2>5. 0 + (id - a + 1) = id - a + 1 /\ 0 + (id - a2 + 1) = id - a2 + 1  OBVIOUS
  <2>6. id \in c..c + n - 1 => rows[e + (id - c + 1)] = file[id - c + 1]
    <3>1. id \in c..c + n - 1 => id - c + 1 \in 1..n  OBVIOUS
    <3> QED  BY <1>8, <3>1
  <2>7. id \in a2..b2 => rows2[e + (id - a2 + 1)] = file2[id - a2 + 1]
    <3>1. id \in a2..b2 => id - a2 + 1 \in 1..k  BY <1>9
    <3> QED  BY <1>10, <3>1
  <2> QED  BY <1>4, <2>1, <2>2, <2>3, <2>4, <2>5, <2>6, <2>7
<1>12. /\ ids \subseteq Int /\ fids \subseteq Int
       /\ Ids(mem2, first2) \subseteq Int /\ Ids(file2, first2) \subseteq Int
  BY <1>4, <1>5, <1>8, <1>10 DEF Ids
<1> HIDE DEF ids, fids, first2
<1>13. ASSUME NEW id \in Int PROVE InMem(y, id) <=> id \in ids \cup fids
  BY <1>3, <1>11 DEF JoinedId
<1>14. Ids(mem2, first2) = ids \cup fids /\ Ids(file2, first2) = ids \cup fids
  BY <1>11, <1>12, <1>13
<1>15. Carries(mem2, first2, mem, mcat.first, ids)
  BY <1>3, <1>11, <1>12 DEF JoinedId, Carries
<1>16. Carries(mem2, first2, file, disk[f].first, fids \ ids)
  BY <1>3, <1>11, <1>12 DEF JoinedId, Carries
<1>17. Carries(file2, first2, file, disk[f].first, fids)
  BY <1>3, <1>11, <1>12 DEF JoinedId, Carries
<1>18. Carries(file2, first2, mem, mcat.first, ids \ fids)
  BY <1>3, <1>11, <1>12 DEF JoinedId, Carries
<1> QED  BY <1>14, <1>15, <1>16, <1>17, <1>18
         DEF Joins, mem, mem2, file, file2, rows, rows2, ids, fids, first2

(* Opening a file that exists gives memory and file all the rows of both,  *)
(* each at its id, and loses or moves none, also in a run in parts.        *)
THEOREM OpeningJoins == MCSpec => OpenJoins
<1>1. MCIInv /\ [MCNext]_<<vars, usage>>
        => [\A f \in Files : mcat.file # f /\ mcat'.file = f /\ disk[f] # None => Joins(f)]_vars
  <2> SUFFICES ASSUME MCIInv, [MCNext]_<<vars, usage>>, NEW f \in Files,
                      mcat.file # f, mcat'.file = f, disk[f] # None
               PROVE  Joins(f)
    OBVIOUS
  <2>1. Opening  BY StepInvariant
  <2>2. JoinedAt(Now, f, Now')  BY <2>1 DEF Opening
  <2>3. MemOK(Now)  BY DEF MCIInv, Kept
  <2> QED  BY <2>2, <2>3, JoinedIsJoins
<1> QED  BY <1>1, MCInvariant, PTL DEF MCSpec, OpenJoins

-----------------------------------------------------------------------------
(* What the chains hold, also of rows that are put before those there are  *)

(* The rows of r are those of q, the first of which has the id first, with *)
(* these ids, each once.                                                   *)
HeldBy(q, r, first, ids) ==
  \E f \in [1..Len(r) -> ids] :
    /\ \A k, l \in 1..Len(r) : f[k] = f[l] => k = l
    /\ \A id \in ids : \E k \in 1..Len(r) : f[k] = id
    /\ \A k \in 1..Len(r) : r[k] = q[f[k] - first + 1]

Holding(s, first) ==
  NChains # 1 => \A c \in Chains : HeldBy(s.pstats, s.chains[c], first, ChainIds(s.pstats, first, c))

(* Holding is what the property asks for.                                  *)
LEMMA HoldingIs ==
  ASSUME NEW s, NEW first, Holding(s, first) PROVE ChainsHold(s, first)
<1> SUFFICES ASSUME NChains > 1, NEW c \in Chains
             PROVE  \E f \in Bijection(1..Len(s.chains[c]), IdsOfChain(s, first, c)) :
                      \A k \in 1..Len(s.chains[c]) :
                        s.chains[c][k] = s.pstats[f[k] - first + 1]
  BY DEF ChainsHold
<1> DEFINE D == 1..Len(s.chains[c])
           ids == IdsOfChain(s, first, c)
<1>1. NChains # 1  OBVIOUS
<1>2. HeldBy(s.pstats, s.chains[c], first, ids)
  BY <1>1 DEF Holding, IdsOfChain, ChainIds
<1>3. PICK f \in [D -> ids] : /\ \A k, l \in D : f[k] = f[l] => k = l
                              /\ \A id \in ids : \E k \in D : f[k] = id
                              /\ \A k \in D : s.chains[c][k] = s.pstats[f[k] - first + 1]
  BY <1>2 DEF HeldBy
<1> HIDE DEF D, ids
<1>4. f \in Bijection(D, ids)  BY <1>3 DEF Bijection, Injection, Surjection, IsInjective
<1> QED  BY <1>3, <1>4 DEF D, ids

(* A row more, at either end of the chain.                                 *)
LEMMA HeldMore ==
  ASSUME NEW R, NEW q, NEW r \in Seq(R), NEW first, NEW ids, HeldBy(q, r, first, ids),
         NEW id, id \notin ids, NEW row \in R, row = q[id - first + 1]
  PROVE  /\ HeldBy(q, Append(r, row), first, ids \cup {id})
         /\ HeldBy(q, <<row>> \o r, first, ids \cup {id})
<1> DEFINE n == Len(r)
           more == ids \cup {id}
<1>1. n \in Nat  OBVIOUS
<1>2. PICK f \in [1..n -> ids] : /\ \A k, l \in 1..n : f[k] = f[l] => k = l
                                 /\ \A j \in ids : \E k \in 1..n : f[k] = j
                                 /\ \A k \in 1..n : r[k] = q[f[k] - first + 1]
  BY DEF HeldBy
<1>3. HeldBy(q, Append(r, row), first, more)
  <2> DEFINE s == Append(r, row)
             g == [k \in 1..n + 1 |-> IF k = n + 1 THEN id ELSE f[k]]
  <2>1. /\ Len(s) = n + 1 /\ s[n + 1] = row /\ \A k \in 1..n : s[k] = r[k]
    BY AppendProperties
  <2>2. \A k \in 1..n + 1 : k = n + 1 \/ k \in 1..n  BY <1>1
  <2>3. /\ n + 1 \in 1..n + 1 /\ g[n + 1] = id
        /\ \A k \in 1..n : k \in 1..n + 1 /\ k # n + 1 /\ g[k] = f[k] /\ f[k] \in ids
    BY <1>1, <1>2
  <2>4. g \in [1..n + 1 -> more]  BY <2>2, <2>3
  <2> HIDE DEF g, s, n
  <2>5. \A k, l \in 1..n + 1 : g[k] = g[l] => k = l  BY <1>2, <2>2, <2>3
  <2>6. \A j \in more : \E k \in 1..n + 1 : g[k] = j  BY <1>2, <2>3
  <2>7. \A k \in 1..n + 1 : s[k] = q[g[k] - first + 1]  BY <1>2, <2>1, <2>2, <2>3
  <2> HIDE DEF more
  <2>8. HeldBy(q, s, first, more)  BY <2>1, <2>4, <2>5, <2>6, <2>7 DEF HeldBy
  <2> QED  BY <2>8 DEF s
<1>4. HeldBy(q, <<row>> \o r, first, more)
  <2> DEFINE s == <<row>> \o r
             g == [k \in 1..n + 1 |-> IF k = 1 THEN id ELSE f[k - 1]]
  <2>1. /\ Len(s) = n + 1 /\ s[1] = row /\ \A k \in 1..n : s[k + 1] = r[k]
    <3> DEFINE one == <<row>>
    <3>1. one \in Seq(R) /\ Len(one) = 1 /\ one[1] = row  OBVIOUS
    <3> HIDE DEF one
    <3>2. /\ Len(one \o r) = Len(one) + Len(r)
          /\ \A k \in 1..Len(one) + Len(r) :
               (one \o r)[k] = IF k <= Len(one) THEN one[k] ELSE r[k - Len(one)]
      BY <3>1, ConcatProperties
    <3>3. /\ Len(one \o r) = n + 1 /\ (one \o r)[1] = row
          /\ \A k \in 1..n : (one \o r)[k + 1] = r[k]
      BY <1>1, <3>1, <3>2
    <3> QED  BY <3>3 DEF one
  <2>2. \A k \in 1..n + 1 : k = 1 \/ (k - 1 \in 1..n /\ k = (k - 1) + 1)  BY <1>1
  <2>3. /\ 1 \in 1..n + 1 /\ g[1] = id
        /\ \A k \in 1..n : k + 1 \in 1..n + 1 /\ k + 1 # 1 /\ g[k + 1] = f[k] /\ f[k] \in ids
    BY <1>1, <1>2
  <2>4. \A k \in 1..n + 1 : g[k] \in more  BY <2>2, <2>3
  <2>5. g \in [1..n + 1 -> more]  BY <2>4
  <2> HIDE DEF g, s, n
  <2>6. \A k, l \in 1..n + 1 : g[k] = g[l] => k = l
    <3> SUFFICES ASSUME NEW k \in 1..n + 1, NEW l \in 1..n + 1, g[k] = g[l] PROVE k = l
      OBVIOUS
    <3>1. CASE k = 1 /\ l = 1  BY <3>1
    <3>2. CASE k = 1 /\ l # 1
      <4>1. PICK j \in 1..n : l = j + 1  BY <2>2, <3>2
      <4> QED  BY <2>3, <3>2, <4>1
    <3>3. CASE k # 1 /\ l = 1
      <4>1. PICK j \in 1..n : k = j + 1  BY <2>2, <3>3
      <4> QED  BY <2>3, <3>3, <4>1
    <3>4. CASE k # 1 /\ l # 1
      <4>1. PICK i \in 1..n : k = i + 1  BY <2>2, <3>4
      <4>2. PICK j \in 1..n : l = j + 1  BY <2>2, <3>4
      <4>3. f[i] = f[j]  BY <2>3, <4>1, <4>2
      <4> QED  BY <1>2, <4>1, <4>2, <4>3
    <3> QED  BY <3>1, <3>2, <3>3, <3>4
  <2>7. \A j \in more : \E k \in 1..n + 1 : g[k] = j  BY <1>2, <2>3
  <2>8. \A k \in 1..n + 1 : s[k] = q[g[k] - first + 1]
    <3> SUFFICES ASSUME NEW k \in 1..n + 1 PROVE s[k] = q[g[k] - first + 1]  OBVIOUS
    <3>1. CASE k = 1  BY <2>1, <2>3, <3>1
    <3>2. CASE k # 1
      <4>1. PICK j \in 1..n : k = j + 1  BY <2>2, <3>2
      <4> QED  BY <1>2, <2>1, <2>3, <4>1
    <3> QED  BY <3>1, <3>2
  <2> HIDE DEF more
  <2>9. HeldBy(q, s, first, more)  BY <2>1, <2>5, <2>6, <2>7, <2>8 DEF HeldBy
  <2> QED  BY <2>9 DEF s
<1> QED  BY <1>3, <1>4

(* The ids stay, and so do the rows at them.                               *)
LEMMA HeldStays ==
  ASSUME NEW p, NEW q, NEW r, NEW a, NEW b, NEW ids, HeldBy(p, r, a, ids),
         \A id \in ids : q[id - b + 1] = p[id - a + 1]
  PROVE  HeldBy(q, r, b, ids)
BY DEF HeldBy

(* Rows added, whatever their number.                                      *)
LEMMA HoldingAdded ==
  ASSUME NEW R, NEW s \in StatsOf(R), NEW first \in Nat, Holding(s, first), NEW rows \in Seq(R)
  PROVE  Holding(AddRows(s, first + Len(s.pstats), rows), first)
<1> SUFFICES ASSUME NChains # 1, NEW c \in Chains
             PROVE  LET v == AddRows(s, first + Len(s.pstats), rows)
                    IN  HeldBy(v.pstats, v.chains[c], first, ChainIds(v.pstats, first, c))
  BY DEF Holding
<1> DEFINE p == s.pstats
           q == p \o rows
           next == first + Len(p)
           ids(n) == {id \in first..first + Len(p) + n - 1 : id % NChains = c}
<1>1. p \in Seq(R) /\ Len(p) \in Nat /\ Len(rows) \in Nat /\ next \in Int
  <2>1. p \in Seq(R)  BY DEF StatsOf
  <2> QED  BY <2>1
<1>2. PICK t : /\ AddsEach(s, next, rows, t)
               /\ AddRows(s, next, rows) =
                    [ pstats |-> s.pstats \o rows, chains |-> t[Len(rows)].chains,
                      eStats |-> t[Len(rows)].eStats, eMean |-> t[Len(rows)].eMean ]
  BY <1>1, AddRowsIs
<1>3. \A n \in 0..Len(rows) : t[n] \in StatsOf(R)  BY <1>1, <1>2, AddsEachTyped
<1>4. /\ Len(q) = Len(p) + Len(rows)
      /\ \A i \in 1..Len(p) : q[i] = p[i]
      /\ \A i \in 1..Len(rows) : q[Len(p) + i] = rows[i]
  <2> HIDE DEF p
  <2>1. /\ Len(p \o rows) = Len(p) + Len(rows)
        /\ \A i \in 1..Len(p) + Len(rows) :
             (p \o rows)[i] = IF i <= Len(p) THEN p[i] ELSE rows[i - Len(p)]
    BY <1>1, ConcatProperties
  <2> QED  BY <1>1, <2>1
<1> DEFINE T == {n \in Nat : n <= Len(rows) => HeldBy(q, t[n].chains[c], first, ids(n))}
<1>5. 0 \in T
  <2>1. t[0] = s  BY <1>2 DEF AddsEach
  <2>2. ids(0) = ChainIds(p, first, c)  BY <1>1 DEF ChainIds
  <2>3. HeldBy(p, s.chains[c], first, ids(0))  BY <2>2 DEF Holding
  <2>4. \A id \in ids(0) : q[id - first + 1] = p[id - first + 1]
    <3> SUFFICES ASSUME NEW id \in ids(0) PROVE q[id - first + 1] = p[id - first + 1]  OBVIOUS
    <3>1. id \in first..first + Len(p) - 1  BY <1>1
    <3>2. id - first + 1 \in 1..Len(p)  BY <1>1, <3>1
    <3> HIDE DEF ids, q, p
    <3> QED  BY <1>4, <3>2
  <2> HIDE DEF ids, p, q
  <2>5. HeldBy(q, s.chains[c], first, ids(0))  BY <2>3, <2>4, HeldStays
  <2> QED  BY <2>1, <2>5
<1>6. ASSUME NEW n \in Nat, n \in T PROVE n + 1 \in T
  <2> HIDE DEF ids, q, p
  <2> SUFFICES ASSUME n + 1 <= Len(rows) PROVE HeldBy(q, t[n + 1].chains[c], first, ids(n + 1))
    OBVIOUS
  <2> USE DEF ids, q, p
  <2> DEFINE id == next + n
             row == rows[n + 1]
             u == t[n]
             v == t[n + 1]
  <2>1. n + 1 \in 1..Len(rows) /\ n \in 0..Len(rows) /\ n <= Len(rows) /\ (n + 1) - 1 = n
    BY <1>1
  <2>2. HeldBy(q, u.chains[c], first, ids(n))  BY <1>6, <2>1
  <2>3. u \in StatsOf(R) /\ row \in R /\ id \in Int /\ next + (n + 1) - 1 = id
    BY <1>1, <1>3, <2>1
  <2>4. v = AddRow(u, id, row)
    <3>1. t[n + 1] = AddRow(t[(n + 1) - 1], next + (n + 1) - 1, rows[n + 1])
      BY <1>2, <2>1 DEF AddsEach
    <3> HIDE DEF next
    <3> QED  BY <2>1, <2>3, <3>1
  <2>5. row = q[id - first + 1]
    <3>1. id - first + 1 = Len(p) + (n + 1)
      <4>1. PICK k \in Nat : k = Len(p)  BY <1>1
      <4>2. id = first + k + n  BY <4>1
      <4> HIDE DEF id, p
      <4> QED  BY <4>1, <4>2
    <3> HIDE DEF q, p, id
    <3> QED  BY <1>4, <2>1, <3>1
  <2>6. id \notin ids(n)
    <3>1. \A j \in ids(n) : j < id  BY <1>1
    <3> HIDE DEF ids, id
    <3> QED  BY <2>3, <3>1
  <2>7. ids(n + 1) = IF id % NChains = c THEN ids(n) \cup {id} ELSE ids(n)
    <3>1. \A j : j \in first..first + Len(p) + (n + 1) - 1
                   <=> j \in first..first + Len(p) + n - 1 \/ j = id
      BY <1>1
    <3> HIDE DEF next, p, id
    <3> QED  BY <3>1
  <2> HIDE DEF ids, q, id, row, u, v
  <2>8. v.chains = [u.chains EXCEPT ![id % NChains] = Append(@, row)]
    <3>1. RowPut(u, id, row, v)  BY <2>3, <2>4, AddRowIs
    <3> QED  BY <3>1 DEF RowPut
  <2>9. u.chains \in [Chains -> Seq(R)]  BY <2>3 DEF StatsOf
  <2>10. CASE id % NChains = c
    <3>1. v.chains[c] = Append(u.chains[c], row)  BY <2>8, <2>9, <2>10
    <3>2. u.chains[c] \in Seq(R)  BY <2>9
    <3>3. HeldBy(q, Append(u.chains[c], row), first, ids(n) \cup {id})
      BY <2>2, <2>3, <2>5, <2>6, <3>2, HeldMore
    <3> QED  BY <2>7, <2>10, <3>1, <3>3 DEF v
  <2>11. CASE id % NChains # c
    <3>1. v.chains[c] = u.chains[c]  BY <2>8, <2>9, <2>11
    <3> QED  BY <2>2, <2>7, <2>11, <3>1 DEF v
  <2> QED  BY <2>10, <2>11
<1>7. Len(rows) \in T
  <2> HIDE DEF T
  <2> QED  BY <1>1, <1>5, <1>6, OneByOne
<1>8. ids(Len(rows)) = ChainIds(q, first, c)
  <2>1. first + Len(p) + Len(rows) - 1 = first + Len(q) - 1  BY <1>1, <1>4
  <2> HIDE DEF p, q
  <2> QED  BY <2>1 DEF ChainIds
<1> HIDE DEF ids
<1>9. HeldBy(q, t[Len(rows)].chains[c], first, ChainIds(q, first, c))  BY <1>1, <1>7, <1>8
<1> DEFINE v == AddRows(s, next, rows)
<1>10. v.pstats = q /\ v.chains = t[Len(rows)].chains  BY <1>2
<1> HIDE DEF v, q
<1>11. HeldBy(v.pstats, v.chains[c], first, ChainIds(v.pstats, first, c))  BY <1>9, <1>10
<1> QED  BY <1>11 DEF v

(* Rows of a file put before those in memory, whatever their number.       *)
LEMMA HoldingPrepended ==
  ASSUME NEW R, NEW s \in StatsOf(R), NEW first \in Nat, Holding(s, first), NEW rows \in Seq(R),
         NEW ahead \in Nat, ahead + Len(rows) = first
  PROVE  Holding(PrependRows(s, ahead, rows), ahead)
<1> SUFFICES ASSUME NChains # 1, NEW c \in Chains
             PROVE  LET v == PrependRows(s, ahead, rows)
                    IN  HeldBy(v.pstats, v.chains[c], ahead, ChainIds(v.pstats, ahead, c))
  BY DEF Holding
<1> DEFINE p == s.pstats
           q == rows \o p
           m == Len(rows)
           olds == {id \in first..first + Len(p) - 1 : id % NChains = c}
           news(n) == {id \in ahead..ahead + n - 1 : id % NChains = c}
           ids(n) == olds \cup news(n)
<1>1. p \in Seq(R) /\ Len(p) \in Nat /\ m \in Nat /\ s.chains \in [Chains -> Seq(R)]
  <2>1. p \in Seq(R) /\ s.chains \in [Chains -> Seq(R)]  BY DEF StatsOf
  <2> QED  BY <2>1
<1>2. PICK t : /\ PrependsEach(s, ahead, rows, t)
               /\ PrependRows(s, ahead, rows) =
                    [ pstats |-> rows \o s.pstats,
                      chains |-> IF NChains = 1 THEN s.chains ELSE t[Len(rows)],
                      eStats |-> s.eStats, eMean |-> s.eMean ]
  BY <1>1, PrependRowsIs
<1>3. /\ Len(q) = m + Len(p)
      /\ \A i \in 1..m : q[i] = rows[i]
      /\ \A i \in 1..Len(p) : q[m + i] = p[i]
  <2> HIDE DEF p
  <2>1. /\ Len(rows \o p) = Len(rows) + Len(p)
        /\ \A i \in 1..Len(rows) + Len(p) :
             (rows \o p)[i] = IF i <= Len(rows) THEN rows[i] ELSE p[i - Len(rows)]
    BY <1>1, ConcatProperties
  <2> QED  BY <1>1, <2>1
<1> DEFINE T == {n \in Nat : n <= m => /\ t[n] \in [Chains -> Seq(R)]
                                       /\ HeldBy(q, t[n][c], ahead, ids(n))}
<1>4. 0 \in T
  <2>1. t[0] = s.chains  BY <1>2 DEF PrependsEach
  <2>2. ids(0) = ChainIds(p, first, c)
    <3>1. ahead..ahead + 0 - 1 = {}  OBVIOUS
    <3>2. news(0) = {}  BY <3>1
    <3> HIDE DEF news
    <3> QED  BY <3>2 DEF ChainIds
  <2>3. HeldBy(p, s.chains[c], first, ids(0))  BY <2>2 DEF Holding
  <2>4. \A id \in ids(0) : q[id - ahead + 1] = p[id - first + 1]
    <3> SUFFICES ASSUME NEW id \in ids(0) PROVE q[id - ahead + 1] = p[id - first + 1]  OBVIOUS
    <3>1. id \in first..first + Len(p) - 1  BY <2>2 DEF ChainIds
    <3>2. id - first + 1 \in 1..Len(p) /\ id - ahead + 1 = m + (id - first + 1)
      <4>1. PICK k \in Nat : k = Len(p)  BY <1>1
      <4>2. id \in first..first + k - 1 /\ m \in Nat /\ ahead + m = first  BY <1>1, <3>1, <4>1
      <4> HIDE DEF p, m, ids
      <4> QED  BY <4>1, <4>2
    <3> HIDE DEF ids, q, p
    <3> QED  BY <1>3, <3>2
  <2> HIDE DEF ids, p, q
  <2>5. HeldBy(q, s.chains[c], ahead, ids(0))  BY <2>3, <2>4, HeldStays
  <2> QED  BY <1>1, <2>1, <2>5
<1>5. ASSUME NEW n \in Nat, n \in T PROVE n + 1 \in T
  <2> HIDE DEF ids, q, p, m
  <2> SUFFICES ASSUME n + 1 <= m
               PROVE  /\ t[n + 1] \in [Chains -> Seq(R)]
                      /\ HeldBy(q, t[n + 1][c], ahead, ids(n + 1))
    OBVIOUS
  <2> USE DEF ids, q, p, m
  <2> DEFINE id == ahead + n
             k == id % NChains
             row == rows[n + 1]
             u == t[n]
             v == t[n + 1]
  <2>1. n + 1 \in 1..m /\ n <= m /\ (n + 1) - 1 = n /\ ahead + (n + 1) - 1 = id /\ id \in Int
    BY <1>1
  <2>2. u \in [Chains -> Seq(R)] /\ HeldBy(q, u[c], ahead, ids(n))  BY <1>5, <2>1
  <2>3. row \in R /\ <<row>> \in Seq(R)  BY <2>1
  <2>4. v = [u EXCEPT ![k] = <<row>> \o @]
    <3>1. t[n + 1] = [t[(n + 1) - 1] EXCEPT ![(ahead + (n + 1) - 1) % NChains]
                                               = <<rows[n + 1]>> \o @]
      BY <1>2, <2>1 DEF PrependsEach
    <3> HIDE DEF id
    <3> QED  BY <2>1, <3>1
  <2>5. row = q[id - ahead + 1]
    <3>1. id - ahead + 1 = n + 1  OBVIOUS
    <3> HIDE DEF q, id
    <3> QED  BY <1>3, <2>1, <3>1
  <2>6. id \notin ids(n)
    <3>1. id \notin news(n)  OBVIOUS
    <3>2. id \notin olds  BY <1>1, <2>1
    <3> HIDE DEF news, olds
    <3> QED  BY <3>1, <3>2
  <2>7. ids(n + 1) = IF id % NChains = c THEN ids(n) \cup {id} ELSE ids(n)
    <3>1. \A j : j \in ahead..ahead + (n + 1) - 1 <=> j \in ahead..ahead + n - 1 \/ j = id
      OBVIOUS
    <3> HIDE DEF id, olds
    <3>2. news(n + 1) = IF id % NChains = c THEN news(n) \cup {id} ELSE news(n)  BY <3>1
    <3> HIDE DEF news
    <3> QED  BY <3>2
  <2>8. k \in Chains  BY <2>1, ChainThere
  <2> HIDE DEF ids, q, row, u, v
  <2>9. /\ v \in [Chains -> Seq(R)]
        /\ v[c] = IF k = c THEN <<row>> \o u[c] ELSE u[c]
    <3> HIDE DEF k
    <3>1. <<row>> \o u[k] \in Seq(R)  BY <2>2, <2>3, <2>8
    <3> QED  BY <2>2, <2>4, <2>8, <3>1
  <2>10. HeldBy(q, v[c], ahead, ids(n + 1))
    <3>1. CASE k = c
      <4>1. u[c] \in Seq(R)  BY <2>2
      <4> HIDE DEF id
      <4>2. HeldBy(q, <<row>> \o u[c], ahead, ids(n) \cup {id})
        BY <2>2, <2>3, <2>5, <2>6, <4>1, HeldMore
      <4> QED  BY <2>7, <2>9, <3>1, <4>2
    <3>2. CASE k # c  BY <2>2, <2>7, <2>9, <3>2
    <3> QED  BY <3>1, <3>2
  <2> QED  BY <2>9, <2>10 DEF v
<1>6. m \in T
  <2> HIDE DEF T, m
  <2> QED  BY <1>1, <1>4, <1>5, OneByOne
<1>7. ids(m) = ChainIds(q, ahead, c)
  <2>1. \A j : j \in ahead..ahead + Len(q) - 1
                 <=> j \in first..first + Len(p) - 1 \/ j \in ahead..ahead + m - 1
    BY <1>1, <1>3
  <2> HIDE DEF p, q, m
  <2> QED  BY <2>1 DEF ChainIds
<1> HIDE DEF ids
<1>8. HeldBy(q, t[Len(rows)][c], ahead, ChainIds(q, ahead, c))  BY <1>1, <1>6, <1>7
<1> QED  BY <1>2, <1>8

(* The chains of no row hold none, wherever the catalog starts.            *)
LEMMA HoldingNone ==
  ASSUME NEW s, NEW a, NEW b \in Int, Len(s.pstats) = 0, a \in Int, Holding(s, a)
  PROVE  Holding(s, b)
<1> SUFFICES ASSUME NChains # 1, NEW c \in Chains
             PROVE  HeldBy(s.pstats, s.chains[c], b, ChainIds(s.pstats, b, c))
  BY DEF Holding
<1>1. ChainIds(s.pstats, a, c) = {} /\ ChainIds(s.pstats, b, c) = {}
  <2>1. a..a + Len(s.pstats) - 1 = {} /\ b..b + Len(s.pstats) - 1 = {}  OBVIOUS
  <2> QED  BY <2>1 DEF ChainIds
<1>2. HeldBy(s.pstats, s.chains[c], a, {})  BY <1>1 DEF Holding
<1>3. HeldBy(s.pstats, s.chains[c], b, {})  BY <1>2, HeldStays
<1> QED  BY <1>1, <1>3

LEMMA HoldingEmpty == ASSUME NEW first \in Int PROVE Holding(EmptyStats, first)
<1> DEFINE s == EmptyStats
<1>1. s.pstats = <<>> /\ s.chains = [c \in Chains |-> <<>>]  BY DEF EmptyStats
<1> HIDE DEF s
<1>2. ASSUME NEW c \in Chains
      PROVE  HeldBy(s.pstats, s.chains[c], first, ChainIds(s.pstats, first, c))
  <2>1. first..first + Len(s.pstats) - 1 = {}  BY <1>1
  <2>2. ChainIds(s.pstats, first, c) = {} /\ s.chains[c] = <<>> /\ 1..Len(<<>>) = {}
    BY <1>1, <2>1 DEF ChainIds
  <2> DEFINE f == [k \in 1..Len(<<>>) |-> 0]
  <2>3. f \in [1..Len(<<>>) -> {}]  BY <2>2
  <2> QED  BY <2>2, <2>3 DEF HeldBy
<1>3. Holding(s, first)  BY <1>2 DEF Holding
<1> QED  BY <1>3 DEF s

-----------------------------------------------------------------------------
(* The types                                                               *)

(* What memory and the open file keep are rows that were computed, not the *)
(* blanks that are inserted before they are written, and the chains hold   *)
(* those in memory.                                                        *)
RowsTyped(x) ==
  /\ x.c.stats \in StatsOf(Row) /\ FileRows(x) \in Seq(Row)
  /\ Holding(x.c.stats, x.c.first)

Typed(x) ==
  /\ x.c.stats \in StatsOf(Row) /\ Holding(x.c.stats, x.c.first)
  /\ x.c.fcur \in Int /\ x.c.smode \in SyncMode
  /\ \A g \in Files : x.d[g] # None => x.d[g].rows \in Seq(Row)

(* A row that is written is one of those in memory.                        *)
LEMMA BroughtRows ==
  ASSUME NEW x, MemOK(x), FileOK(x), x.c.burnin = 0, RowsTyped(x),
         NEW y, FileOK(y), y.c.burnin = 0, Brings(x, y)
  PROVE  FileRows(y) \in Seq(Row)
<1> DEFINE p == MemRows(x)
           r == FileRows(x)
           s == FileRows(y)
<1>1. PICK a \in Nat, b \in Int, c \in Nat, d \in Int, h \in Nat, k \in Int :
        /\ a = x.c.first /\ b = x.c.cur /\ c = x.c.ffirst /\ d = x.c.fcur
        /\ h = y.c.ffirst /\ k = y.c.fcur
  BY DEF MemOK, FileOK
<1>2. /\ p \in Seq(Row) /\ Len(p) = 0 + (b - a + 1) /\ r \in Seq(Row) /\ Len(r) = 0 + (d - c + 1)
      /\ s \in Seq(Nat) /\ Len(s) = 0 + (k - h + 1)
  BY <1>1 DEF MemOK, FileOK, Spans, RowsTyped, StatsOf, MemRows
<1> HIDE DEF p, r, s
<1>3. ASSUME NEW i \in 1..Len(s) PROVE s[i] \in Row
  <2>1. PICK id \in Int : id = h + i - 1  BY <1>2
  <2>2. id \in h..k /\ 0 + (id - h + 1) = i  BY <1>2, <2>1
  <2>3. InFile(y, id) /\ Fil(y, id) = s[i]
    BY <1>1, <2>2 DEF InFile, Fil, At, s
  <2>4. BringsId(x, y, id)  BY DEF Brings
  <2>5. CASE InFile(x, id)
    <3>1. id \in c..d  BY <1>1, <2>5 DEF InFile
    <3>2. 0 + (id - c + 1) \in 1..Len(r)  BY <1>2, <3>1
    <3>3. Fil(x, id) = r[0 + (id - c + 1)]  BY <1>1 DEF Fil, At, r
    <3>4. r[0 + (id - c + 1)] \in Row  BY <1>2, <3>2
    <3> QED  BY <2>3, <2>4, <2>5, <3>3, <3>4 DEF BringsId
  <2>6. CASE ~ InFile(x, id)
    <3>1. InMem(x, id) /\ Fil(y, id) = Mem(x, id)  BY <2>3, <2>4, <2>6 DEF BringsId
    <3>2. id \in a..b  BY <1>1, <3>1 DEF InMem
    <3>3. 0 + (id - a + 1) \in 1..Len(p)  BY <1>2, <3>2
    <3>4. Mem(x, id) = p[0 + (id - a + 1)]  BY <1>1 DEF Mem, At, p
    <3>5. p[0 + (id - a + 1)] \in Row  BY <1>2, <3>3
    <3> QED  BY <2>3, <3>1, <3>4, <3>5
  <2> QED  BY <2>5, <2>6
<1>4. s \in Seq(Row)  BY <1>2, <1>3
<1> QED  BY <1>4 DEF s

(* A row that is read is one of the file.                                  *)
LEMMA ReadTyped ==
  ASSUME NEW x, FileOK(x), x.c.burnin \in Nat, FileRows(x) \in Seq(Row), NEW k \in Nat \ {0}, NEW n \in Nat,
         k + n - 1 <= x.c.fcur - x.c.ffirst + 1
  PROVE  ReadFile(x, k, n) \in Seq(Row)
<1> DEFINE r == FileRows(x)
           new == ReadFile(x, k, n)
<1>1. PICK e \in Nat, c \in Nat, d \in Int : e = x.c.burnin /\ c = x.c.ffirst /\ d = x.c.fcur
  BY DEF FileOK
<1>2. r \in Seq(Row) /\ Len(r) = e + (d - c + 1) /\ k + n - 1 <= d - c + 1
  BY <1>1 DEF FileOK, Spans
<1>3. new = [i \in 1..n |-> r[e + k + i - 1]]  BY <1>1 DEF ReadFile, FileRows
<1> HIDE DEF new, r
<1>4. ASSUME NEW i \in 1..n PROVE r[e + k + i - 1] \in Row
  <2>1. k \in Nat /\ k > 0  OBVIOUS
  <2>2. e + k + i - 1 \in 1..Len(r)  BY <1>2, <2>1
  <2> QED  BY <1>2, <2>2
<1>5. new \in [1..n -> Row]  BY <1>3, <1>4
<1>6. new \in Seq(Row)  BY <1>5
<1> QED  BY <1>6 DEF new

(* The id of the next row is that behind those in memory.                  *)
LEMMA NextId ==
  ASSUME NEW x, MemOK(x)
  PROVE  x.c.first \in Nat /\ x.c.cur + 1 = x.c.first + Len(x.c.stats.pstats)
<1>1. /\ x.c.first \in Nat /\ x.c.cur \in Int
      /\ Len(x.c.stats.pstats) = 0 + (x.c.cur - x.c.first + 1)
  BY DEF MemOK, Spans, MemRows
<1> QED  BY <1>1

LEMMA SyncFirstTyped ==
  ASSUME NEW x, Ready(x), RowsTyped(x) PROVE RowsTyped(SyncFirst(x))
<1>0. MemOK(x) /\ FileOK(x) /\ MayWrite(x) /\ Meet(x.c) /\ Shape(x)  BY DEF Ready, MemOK
<1>n. x.c.first \in Nat /\ x.c.ffirst \in Nat  BY <1>0 DEF MemOK, FileOK
<1>1. CASE x.c.ffirst > x.c.first
  <2> DEFINE y == PutFirst(x)
  <2>1. SyncFirst(x) = y  BY <1>1 DEF SyncFirst
  <2>2. x.c.burnin = 0  BY <1>0, <1>1, <1>n DEF MayWrite
  <2>3. FileOK(y) /\ Brings(x, y) /\ SameBut(x, y, {"ffirst"})
    BY <1>0, <1>1, <2>2, PutFirstOK
  <2> HIDE DEF y
  <2>4. y.c.stats = x.c.stats /\ y.c.first = x.c.first /\ y.c.burnin = 0
    BY <2>2, <2>3 DEF SameBut, CatalogFields
  <2>5. FileRows(y) \in Seq(Row)  BY <1>0, <2>2, <2>3, <2>4, BroughtRows
  <2> QED  BY <2>1, <2>4, <2>5 DEF RowsTyped
<1>2. CASE x.c.ffirst < x.c.first
  <2> DEFINE y == GetFirst(x)
             n == x.c.first - x.c.ffirst
             new == ReadFile(x, 1, n)
  <2>1. SyncFirst(x) = y  BY <1>2, <1>n DEF SyncFirst
  <2>2. /\ y.d = x.d /\ SameBut(x, y, {"stats", "first", "inis"})
        /\ y.c.stats = PrependRows(x.c.stats, x.c.ffirst, new) /\ y.c.first = x.c.ffirst
    BY <1>0, GetFirstIs
  <2> HIDE DEF y
  <2>3. n \in Nat /\ 1 + n - 1 <= x.c.fcur - x.c.ffirst + 1 /\ 1 \in Nat \ {0}
    <3>1. PICK a \in Nat, c \in Nat, d \in Int :
            a = x.c.first /\ c = x.c.ffirst /\ d = x.c.fcur /\ d >= a - 1
      BY <1>0 DEF MemOK, FileOK, Ready, Meet
    <3> QED  BY <1>2, <3>1
  <2>4. new \in Seq(Row) /\ Len(new) = n
    <3> HIDE DEF n
    <3>1. x.c.burnin \in Nat  BY <1>0 DEF MemOK
    <3>2. Len(new) = n  BY <2>3 DEF ReadFile
    <3> QED  BY <1>0, <2>3, <3>1, <3>2, ReadTyped DEF RowsTyped
  <2> HIDE DEF new
  <2>7. Holding(y.c.stats, y.c.first)
    <3>1. x.c.ffirst + Len(new) = x.c.first  BY <1>n, <2>4
    <3>2. x.c.stats \in StatsOf(Row) /\ Holding(x.c.stats, x.c.first)  BY DEF RowsTyped
    <3> QED  BY <1>n, <2>2, <2>4, <3>1, <3>2, HoldingPrepended
  <2>5. y.c.stats \in StatsOf(Row)
    <3>1. x.c.ffirst \in Int  BY <1>n
    <3>2. x.c.stats \in StatsOf(Row)  BY DEF RowsTyped
    <3> QED  BY <2>2, <2>4, <3>1, <3>2, PrependRowsTyped
  <2>6. FileRows(y) = FileRows(x)  BY <2>2 DEF FileRows, SameBut, CatalogFields
  <2> QED  BY <2>1, <2>5, <2>6, <2>7 DEF RowsTyped
<1>3. CASE x.c.ffirst = x.c.first
  <2>1. SyncFirst(x) = x  BY <1>3, <1>n DEF SyncFirst
  <2> QED  BY <2>1
<1> QED  BY <1>1, <1>2, <1>3, <1>n

LEMMA SyncLastTyped ==
  ASSUME NEW x, MemOK(x), FileOK(x), x.c.ffirst = x.c.first,
         x.c.burnin = 0 \/ x.c.cur <= x.c.fcur, RowsTyped(x)
  PROVE  RowsTyped(SyncLast(x))
<1>n. x.c.cur \in Int /\ x.c.fcur \in Int /\ Shape(x)  BY DEF MemOK, FileOK
<1>1. CASE x.c.fcur < x.c.cur
  <2> DEFINE y == PutLast(x)
  <2>1. SyncLast(x) = y  BY <1>1 DEF SyncLast
  <2>2. x.c.burnin = 0  BY <1>1, <1>n
  <2>3. FileOK(y) /\ Brings(x, y) /\ SameBut(x, y, {"fcur"})
    BY <1>1, <2>2, PutLastOK
  <2> HIDE DEF y
  <2>4. y.c.stats = x.c.stats /\ y.c.first = x.c.first /\ y.c.burnin = 0
    BY <2>2, <2>3 DEF SameBut, CatalogFields
  <2>5. FileRows(y) \in Seq(Row)  BY <2>2, <2>3, <2>4, BroughtRows
  <2> QED  BY <2>1, <2>4, <2>5 DEF RowsTyped
<1>2. CASE x.c.cur < x.c.fcur
  <2> DEFINE y == GetLast(x)
             k == x.c.cur + 1 - x.c.first + 1
             n == x.c.fcur - x.c.cur
             new == ReadFile(x, k, n)
  <2>1. SyncLast(x) = y  BY <1>2, <1>n DEF SyncLast
  <2>2. /\ y.d = x.d /\ SameBut(x, y, {"stats", "cur", "rng"})
        /\ y.c.stats = AddRows(x.c.stats, x.c.cur + 1, new)
    BY <1>n, GetLastIs
  <2> HIDE DEF y
  <2>3. k \in Nat \ {0} /\ n \in Nat /\ k + n - 1 <= x.c.fcur - x.c.ffirst + 1
    <3>1. PICK a \in Nat, b \in Int, d \in Int :
            a = x.c.first /\ a = x.c.ffirst /\ b = x.c.cur /\ d = x.c.fcur /\ a - 1 <= b
      BY DEF MemOK, FileOK
    <3>2. d - b \in Nat /\ b + 1 - a + 1 \in Nat /\ b + 1 - a + 1 > 0  BY <1>2, <3>1
    <3>3. (b + 1 - a + 1) + (d - b) - 1 = d - a + 1  BY <3>1
    <3>4. (b + 1 - a + 1) + (d - b) - 1 <= d - a + 1  BY <3>1, <3>3
    <3> QED  BY <3>1, <3>2, <3>4
  <2>4. new \in Seq(Row)
    <3> HIDE DEF n, k
    <3>1. x.c.burnin \in Nat  BY DEF MemOK
    <3> QED  BY <2>3, <3>1, ReadTyped DEF RowsTyped
  <2> HIDE DEF new
  <2>5. y.c.stats \in StatsOf(Row)
    <3>1. x.c.cur + 1 \in Int  BY <1>n
    <3>2. x.c.stats \in StatsOf(Row)  BY DEF RowsTyped
    <3> QED  BY <2>2, <2>4, <3>1, <3>2, AddRowsTyped
  <2>6. FileRows(y) = FileRows(x) /\ y.c.first = x.c.first
    BY <2>2 DEF FileRows, SameBut, CatalogFields
  <2>7. Holding(y.c.stats, y.c.first)
    <3>1. x.c.stats \in StatsOf(Row) /\ Holding(x.c.stats, x.c.first)  BY DEF RowsTyped
    <3>2. x.c.first \in Nat /\ x.c.cur + 1 = x.c.first + Len(x.c.stats.pstats)  BY NextId
    <3> QED  BY <2>2, <2>4, <2>6, <3>1, <3>2, HoldingAdded
  <2> QED  BY <2>1, <2>5, <2>6, <2>7 DEF RowsTyped
<1>3. CASE x.c.cur = x.c.fcur
  <2>1. SyncLast(x) = x  BY <1>3, <1>n DEF SyncLast
  <2> QED  BY <2>1
<1> QED  BY <1>1, <1>2, <1>3, <1>n

(* Sync leaves no blank.                                                   *)
LEMMA SyncTyped ==
  ASSUME NEW x, Ready(x), Typed(x) PROVE Typed(Sync(x))
<1> DEFINE f == x.c.file
           z == SyncFirst(x)
           y == SyncLast(z)
<1>1. Sync(x) = y  BY NoneAssumption DEF Sync, Ready, FileOK
<1>2. RowsTyped(x)
  BY IsFileThere DEF Typed, RowsTyped, Ready, FileOK, FileRows
<1>3. RowsTyped(z)  BY <1>2, SyncFirstTyped
<1>4. FirstSynced(x, z)  BY SyncFirstOK
<1>5. Synced(x, y)  BY <1>1, SyncOK
<1> HIDE DEF z
<1>6. RowsTyped(y)
  <2>1. z.c.burnin = x.c.burnin /\ z.c.cur = x.c.cur /\ z.c.fcur = x.c.fcur
    BY <1>4 DEF FirstSynced, SameBut, CatalogFields
  <2>2. z.c.burnin = 0 \/ z.c.cur <= z.c.fcur  BY <2>1 DEF Ready, MayWrite
  <2>3. MemOK(z) /\ FileOK(z) /\ z.c.ffirst = z.c.first  BY <1>4 DEF FirstSynced
  <2> QED  BY <1>3, <2>2, <2>3, SyncLastTyped
<1> HIDE DEF y
<1>7. y.c.file = f /\ y.c.smode = x.c.smode /\ y.c.fcur \in Int
  BY <1>5 DEF Synced, SameBut, SyncFields, CatalogFields, FileOK
<1>8. ASSUME NEW g \in Files, y.d[g] # None PROVE y.d[g].rows \in Seq(Row)
  <2>1. CASE g = f  BY <1>6, <1>7, <2>1 DEF RowsTyped, FileRows
  <2>2. CASE g # f
    <3>1. y.d[g] = x.d[g]  BY <1>5, <2>2 DEF Synced, SameFiles
    <3> QED  BY <1>8, <3>1 DEF Typed
  <2> QED  BY <2>1, <2>2
<1> QED  BY <1>1, <1>6, <1>7, <1>8 DEF Typed, RowsTyped

(* ... nor does closing,                                                   *)
LEMMA SyncKeepsTyped ==
  ASSUME NEW x, Kept(x), Typed(x) PROVE Typed(Sync(x))
<1>1. CASE x.c.file = None
  <2>1. Sync(x) = x  BY <1>1 DEF Sync
  <2> QED  BY <2>1
<1>2. CASE x.c.file # None  BY <1>2, KeptReady, SyncTyped
<1> QED  BY <1>1, <1>2

LEMMA CloseTyped ==
  ASSUME NEW x, Kept(x), Typed(x) PROVE Typed(Close(x))
<1> DEFINE y == Sync(x)
           w == [y EXCEPT !.c.file = None]
<1>1. Typed(y) /\ Kept(y)  BY SyncKeepsTyped, SyncKeeps
<1>2. Close(x) = w  BY DEF Close
<1> HIDE DEF y
<1>3. Shape(y)  BY <1>1 DEF Kept, MemOK
<1>4. /\ w.d = y.d /\ w.c.stats = y.c.stats /\ w.c.first = y.c.first
      /\ w.c.fcur = y.c.fcur /\ w.c.smode = y.c.smode
  BY <1>3 DEF Shape, CatalogFields
<1> HIDE DEF w
<1> QED  BY <1>1, <1>2, <1>4 DEF Typed

(* opening,                                                                *)
LEMMA OpenTyped ==
  ASSUME NEW w, Kept(w), Typed(w), w.c.file = None, NEW f \in Files, CanOpen(w, f),
         w.c.burnin # 0 => w.d[f] # None /\ IsEmpty(w.c)
  PROVE  Typed(Open(w, f))
<1> DEFINE z == IF w.d[f] = None THEN CreateFile(w, f) ELSE OpenFile(w, f)
           v == SyncRng(z)
<1>1. Open(w, f) = v  BY DEF Open
<1>0. MemOK(w) /\ AllFiles(w) /\ w.c.burnin \in Nat  BY DEF Kept, MemOK
<1>2. OpenedFile(w, f, z) /\ z.d[f].rows \in Seq(Row)
  <2>1. CASE w.d[f] = None
    <3>1. w.c.burnin = 0  BY <2>1
    <3>2. /\ OpenedFile(w, f, z)
          /\ z.d[f] = [rows |-> <<>>, first |-> w.c.first, inis |-> None, stat |-> None]
      BY <1>0, <2>1, <3>1, CreateFileOK
    <3> HIDE DEF z
    <3>3. z.d[f].rows = <<>>  BY <3>2
    <3> QED  BY <3>2, <3>3
  <2>2. CASE w.d[f] # None
    <3>1. IsFile(w.d[f])  BY <1>0, <2>2 DEF AllFiles
    <3>2. Len(w.d[f].rows) >= w.c.burnin  BY <2>2 DEF CanOpen
    <3>3. RowsLeft(w, f) >= 0  BY <1>0, <3>1, <3>2 DEF RowsLeft, IsFile
    <3>4. OpenedFile(w, f, z) /\ SameIds(w, f, z)  BY <1>0, <2>2, <3>1, <3>3, OpenFileOK
    <3> HIDE DEF z
    <3>5. z.d[f].rows = w.d[f].rows  BY <3>4 DEF SameIds
    <3> QED  BY <2>2, <3>4, <3>5 DEF Typed
  <2> QED  BY <2>1, <2>2
<1>9. z.c.first = w.c.first \/ IsEmpty(w.c)
  <2>1. Shape(w)  BY <1>0 DEF MemOK
  <2> QED  BY <2>1 DEF Shape, CatalogFields, CreateFile, OpenFile
<1> HIDE DEF z
<1>3. MemOK(z) /\ FileOK(z) /\ z.c.file = f  BY <1>2 DEF OpenedFile
<1>4. RngSynced(z, v)  BY <1>3, SyncRngOK
<1> HIDE DEF v
<1>5. z.c.stats = w.c.stats /\ z.c.smode = w.c.smode /\ SameFiles(w, z, {f})
  BY <1>2 DEF OpenedFile, SameBut, CatalogFields
<1>6. /\ v.c.stats = z.c.stats /\ v.c.smode = z.c.smode /\ SameFiles(z, v, {f}) /\ FileOK(v)
      /\ v.d[f].rows = z.d[f].rows
  BY <1>3, <1>4 DEF RngSynced, SameBut, CatalogFields, FileFields
<1>7. ASSUME NEW g \in Files, v.d[g] # None PROVE v.d[g].rows \in Seq(Row)
  <2>1. CASE g = f  BY <1>2, <1>6, <2>1
  <2>2. CASE g # f
    <3>1. v.d[g] = w.d[g]  BY <1>5, <1>6, <2>2 DEF SameFiles
    <3> QED  BY <1>7, <3>1 DEF Typed
  <2> QED  BY <2>1, <2>2
<1>8. Holding(v.c.stats, v.c.first)
  <2>1. v.c.first = z.c.first  BY <1>4 DEF RngSynced, SameBut, CatalogFields
  <2>2. Holding(w.c.stats, w.c.first)  BY DEF Typed
  <2>3. CASE z.c.first = w.c.first  BY <1>5, <1>6, <2>1, <2>2, <2>3
  <2>4. CASE z.c.first # w.c.first
    <3>1. Len(w.c.stats.pstats) = 0  BY <1>0, <1>9, <2>4, NextId DEF IsEmpty, MemOK
    <3>2. w.c.first \in Int /\ z.c.first \in Int  BY <1>0, <1>3 DEF MemOK
    <3> QED  BY <1>5, <1>6, <2>1, <2>2, <3>1, <3>2, HoldingNone
  <2> QED  BY <2>3, <2>4
<1> QED  BY <1>1, <1>5, <1>6, <1>7, <1>8 DEF Typed, FileOK

(* or the two of them, and a sync.                                         *)
LEMMA SetFileTyped ==
  ASSUME NEW x, Kept(x), Typed(x), NEW f \in Files \cup {None}, x.c.file # f, CanSetFile(x, f),
         x.c.burnin # 0 /\ f # None => x.d[f] # None /\ IsEmpty(x.c)
  PROVE  Typed(SetFile(x, f))
<1> DEFINE w == Close(x)
<1>1. Closed(x, w) /\ Typed(w)  BY CloseOK, CloseTyped
<1>2. CASE f = None
  <2>1. SetFile(x, f) = w  BY <1>2 DEF SetFile
  <2> QED  BY <1>1, <2>1
<1>3. CASE f # None
  <2> DEFINE v == Open(w, f)
             y == Sync(v)
  <2>1. SetFile(x, f) = y /\ CanOpen(w, f) /\ CanSync(v) /\ f \in Files
    BY <1>3 DEF SetFile, CanSetFile
  <2> HIDE DEF w
  <2>2. Kept(w) /\ w.c.file = None  BY <1>1 DEF Closed
  <2>3. /\ w.c.burnin = x.c.burnin /\ w.c.first = x.c.first /\ w.c.cur = x.c.cur
        /\ w.d[f] = x.d[f]
    BY <1>1, <2>1 DEF Closed, SameBut, SameFiles, CatalogFields
  <2>4. w.c.burnin # 0 => w.d[f] # None /\ IsEmpty(w.c)  BY <1>3, <2>3 DEF IsEmpty
  <2>5. OpenedReady(w, f, v) /\ Typed(v)  BY <1>1, <2>1, <2>2, <2>4, OpenOK, OpenTyped
  <2> HIDE DEF v
  <2>6. v.c.file # None  BY <1>3, <2>5 DEF OpenedReady
  <2>7. Ready(v)  BY <2>1, <2>5, <2>6 DEF CanSync, OpenedReady, Ready
  <2>8. Typed(y)  BY <2>5, <2>7, SyncTyped
  <2> QED  BY <2>1, <2>8
<1> QED  BY <1>2, <1>3

(* The generator comes with no row ...                                     *)
LEMMA SetRngTyped ==
  ASSUME NEW x, Kept(x), Typed(x)
  PROVE  LET z == [x EXCEPT !.c.rng = 0, !.c.inis = 0]
         IN  Typed(IF x.c.file = None THEN z ELSE SyncRng(z))
<1> DEFINE z == [x EXCEPT !.c.rng = 0, !.c.inis = 0]
           y == IF x.c.file = None THEN z ELSE SyncRng(z)
<1>0. MemOK(x) /\ Shape(x) /\ 0 # None  BY NoneAssumption DEF Kept, MemOK
<1>1. /\ Shape(z) /\ z.d = x.d /\ z.c.rng = 0 /\ z.c.inis = 0 /\ SameBut(x, z, {"rng", "inis"})
  BY <1>0 DEF Shape, SameBut, CatalogFields
<1> HIDE DEF z
<1>2. /\ z.c.first = x.c.first /\ z.c.cur = x.c.cur /\ z.c.ffirst = x.c.ffirst
      /\ z.c.fcur = x.c.fcur /\ z.c.burnin = x.c.burnin /\ z.c.file = x.c.file
      /\ z.c.stats = x.c.stats /\ z.c.smode = x.c.smode
  BY <1>1 DEF SameBut, CatalogFields
<1>3. MemRows(z) = MemRows(x) /\ FileRows(z) = FileRows(x)  BY <1>1, <1>2 DEF MemRows, FileRows
<1>4. MemOK(z) /\ Typed(z)  BY <1>0, <1>1, <1>2, <1>3 DEF MemOK, RngState, Typed
<1>5. CASE x.c.file = None
  <2>1. y = z  BY <1>5
  <2> HIDE DEF y
  <2>2. Typed(y)  BY <1>4, <2>1
  <2> QED  BY <2>2 DEF y, z
<1>6. CASE x.c.file # None
  <2> DEFINE f == x.c.file
             v == SyncRng(z)
  <2>1. FileOK(x) /\ x.d[f] # None  BY <1>6, IsFileThere DEF Kept, FileBehind, FileOK
  <2>2. FileOK(z)  BY <1>1, <1>2, <1>3, <2>1 DEF FileOK
  <2>3. RngSynced(z, v)  BY <1>4, <2>2, SyncRngOK
  <2> HIDE DEF v
  <2>4. /\ v.c.stats = z.c.stats /\ v.c.first = z.c.first
        /\ v.c.smode = z.c.smode /\ v.c.fcur = z.c.fcur
        /\ SameFiles(z, v, {f}) /\ v.d[f].rows = z.d[f].rows
    BY <1>2, <2>3 DEF RngSynced, SameBut, CatalogFields, FileFields
  <2>5. ASSUME NEW g \in Files, v.d[g] # None PROVE v.d[g].rows \in Seq(Row)
    <3>1. CASE g = f  BY <1>1, <1>4, <2>1, <2>4, <3>1 DEF Typed
    <3>2. CASE g # f
      <4>1. v.d[g] = z.d[g]  BY <2>4, <3>2 DEF SameFiles
      <4> QED  BY <1>4, <2>5, <4>1 DEF Typed
    <3> QED  BY <3>1, <3>2
  <2>6. Typed(v)  BY <1>4, <2>4, <2>5 DEF Typed
  <2>7. y = v  BY <1>6 DEF v
  <2> HIDE DEF y
  <2>8. Typed(y)  BY <2>6, <2>7
  <2> QED  BY <2>8 DEF y, z
<1> QED  BY <1>5, <1>6

(* ... and a draw with one.                                                *)
LEMMA AddTyped ==
  ASSUME NEW x, Kept(x), Typed(x), x.c.rng # None
  PROVE  Typed(PostUpdate([x EXCEPT !.c.rng = @ + 1], <<x.c.rng + 1>>))
<1> DEFINE z == PostUpdate([x EXCEPT !.c.rng = @ + 1], <<x.c.rng + 1>>)
<1>1. MemOK(x) /\ x.c.rng \in Nat /\ x.c.cur \in Int  BY DEF Kept, MemOK, RngState
<1>2. RowAdded(x, z)  BY <1>1, AddIs
<1> HIDE DEF z
<1>3. /\ z.d = x.d /\ z.c.first = x.c.first
      /\ z.c.fcur = x.c.fcur /\ z.c.smode = x.c.smode
      /\ z.c.stats = AddRows(x.c.stats, x.c.cur + 1, <<x.c.rng + 1>>)
  BY <1>2 DEF RowAdded, SameBut, CatalogFields
<1>4. z.c.stats \in StatsOf(Row) /\ Holding(z.c.stats, z.c.first)
  <2> DEFINE one == <<x.c.rng + 1>>
  <2>1. x.c.rng + 1 \in Row  BY <1>1 DEF Row, Blank
  <2>2. one \in Seq(Row) /\ x.c.cur + 1 \in Int  BY <1>1, <2>1
  <2>3. x.c.stats \in StatsOf(Row) /\ Holding(x.c.stats, x.c.first)  BY DEF Typed
  <2>4. x.c.first \in Nat /\ x.c.cur + 1 = x.c.first + Len(x.c.stats.pstats)  BY <1>1, NextId
  <2>5. z.c.stats = AddRows(x.c.stats, x.c.cur + 1, one)  BY <1>3
  <2> HIDE DEF one
  <2>6. z.c.stats \in StatsOf(Row)  BY <2>2, <2>3, <2>5, AddRowsTyped
  <2>7. Holding(z.c.stats, x.c.first)  BY <2>2, <2>3, <2>4, <2>5, HoldingAdded
  <2> QED  BY <1>3, <2>6, <2>7
<1> QED  BY <1>3, <1>4 DEF Typed, z

(* An empty catalog that moves has no row to lose.                         *)
LEMMA SetFirstIdTyped ==
  ASSUME NEW x, Kept(x), Typed(x), x.c.burnin = 0, NEW id \in Nat, id # x.c.first,
         CanSetFirstId(x, id)
  PROVE  Typed(SetFirstId(x, id))
<1>1. PICK v : Moved(x, v) /\ SetFirstId(x, id) = Sync(v)  BY SetFirstIdIs
<1>2. Holding(v.c.stats, v.c.first)
  <2>1. MemOK(x) /\ MemOK(v) /\ v.c.stats = x.c.stats  BY <1>1 DEF Kept, Moved
  <2>2. IsEmpty(x.c)  BY DEF CanSetFirstId
  <2>3. Len(x.c.stats.pstats) = 0
    <3>1. x.c.cur \in Int /\ x.c.first - 1 <= x.c.cur  BY <2>1 DEF MemOK
    <3>2. x.c.first \in Nat /\ x.c.cur + 1 = x.c.first + Len(x.c.stats.pstats)  BY <2>1, NextId
    <3>3. x.c.cur < x.c.first  BY <2>2 DEF IsEmpty
    <3>4. Len(x.c.stats.pstats) \in Nat
      <4>1. x.c.stats.pstats \in Seq(Nat)  BY <2>1 DEF MemOK, Spans, MemRows
      <4> QED  BY <4>1
    <3>5. PICK a \in Nat, b \in Int, n \in Nat :
            a = x.c.first /\ b = x.c.cur /\ n = Len(x.c.stats.pstats)
      BY <3>1, <3>2, <3>4
    <3>6. a - 1 <= b /\ b + 1 = a + n /\ b < a  BY <3>1, <3>2, <3>3, <3>5
    <3>7. n = 0  BY <3>6
    <3> QED  BY <3>5, <3>7
  <2>4. x.c.first \in Int /\ v.c.first \in Int  BY <2>1 DEF MemOK
  <2>5. Holding(x.c.stats, x.c.first)  BY DEF Typed
  <2> QED  BY <2>1, <2>3, <2>4, <2>5, HoldingNone
<1>3. Kept(v) /\ Typed(v)  BY <1>1, <1>2 DEF Moved, Typed
<1> QED  BY <1>1, <1>3, SyncKeepsTyped

(* What of the state has the types that TypeOK asks for.                   *)
LEMMA TypedIs == ASSUME Kept(Now), Typed(Now) PROVE TypeOK
<1>1. Now.c = mcat /\ Now.d = disk  BY DEF Now
<1>2. mcat \in Catalog
  <2>1. /\ mcat = [k \in CatalogFields |-> mcat[k]]
        /\ mcat.first \in Nat /\ mcat.cur \in Int /\ mcat.burnin \in Nat
        /\ mcat.rng \in RngState /\ mcat.inis \in RngState
    BY <1>1 DEF Kept, MemOK, Shape
  <2>2. mcat.file \in Files \cup {None} /\ mcat.ffirst = mcat.first  BY <1>1 DEF Kept
  <2>3. mcat.fcur \in Int /\ mcat.smode \in SyncMode  BY <1>1 DEF Typed
  <2>4. mcat.stats \in [ pstats : Seq(Row), chains : [Chains -> Seq(Row)],
                         eStats : Seq(Row), eMean : Seq(Seq(Row)) ]
    BY <1>1 DEF Typed, StatsOf
  <2>5. mcat.ffirst \in Nat  BY <2>1, <2>2
  <2> QED  BY <2>1, <2>2, <2>3, <2>4, <2>5 DEF Catalog, CatalogFields
<1>3. disk \in [Files -> FitsFile \cup {None}]
  <2>1. disk = [g \in Files |-> disk[g]]  BY <1>1 DEF Kept, MemOK, Shape
  <2>2. ASSUME NEW g \in Files, disk[g] # None PROVE disk[g] \in FitsFile
    <3>1. IsFile(disk[g]) /\ disk[g].rows \in Seq(Row)  BY <1>1, <2>2 DEF Kept, AllFiles, Typed
    <3> QED  BY <3>1 DEF IsFile, IsRecord, FileFields, FitsFile
  <2> QED  BY <2>1, <2>2
<1> QED  BY <1>2, <1>3 DEF TypeOK

(* What is typed after a call is typed in the next state.                  *)
LEMMA AfterTyped == ASSUME NEW x, Becomes(x), Typed(x) PROVE Typed(Now')
<1> DEFINE y == Now'
<1>1. y.c = x.c /\ y.d = x.d  BY DEF Now, Becomes
<1> HIDE DEF y
<1>2. Typed(y)  BY <1>1 DEF Typed
<1> QED  BY <1>2 DEF y

(* Whatever happens in the life of a run.                                  *)
LEMMA LifeTyped ==
  ASSUME Kept(Now), Typed(Now), NEW files \in SUBSET Files, NEW adds, Life(files, adds),
         adds => mcat.burnin = 0,
         mcat.burnin # 0 => \A f \in files : disk[f] # None /\ IsEmpty(mcat)
  PROVE  Typed(Now')
<1>0. Now.c = mcat /\ Now.d = disk  BY DEF Now
<1>1. ASSUME NEW f \in files \cup {None}, CallSetFile(f) PROVE Typed(Now')
  <2> DEFINE y == SetFile(Now, f)
  <2>1. Now.c.file # f /\ CanSetFile(Now, f) /\ Becomes(y)  BY <1>0, <1>1 DEF CallSetFile
  <2>2. Now.c.burnin # 0 /\ f # None => Now.d[f] # None /\ IsEmpty(Now.c)  BY <1>0
  <2>3. Typed(y)  BY <2>1, <2>2, SetFileTyped
  <2> HIDE DEF y
  <2> QED  BY <2>1, <2>3, AfterTyped
<1>2. ASSUME CallSetRng PROVE Typed(Now')
  <2> DEFINE z == [Now EXCEPT !.c.rng = 0, !.c.inis = 0]
             y == IF Now.c.file = None THEN z ELSE SyncRng(z)
  <2>1. Becomes(y)  BY <1>0, <1>2 DEF CallSetRng
  <2>2. Typed(y)  BY SetRngTyped
  <2> HIDE DEF y
  <2> QED  BY <2>1, <2>2, AfterTyped
<1>3. ASSUME CallSync PROVE Typed(Now')
  <2>1. Becomes(Sync(Now))  BY <1>3 DEF CallSync
  <2> QED  BY <2>1, SyncKeepsTyped, AfterTyped
<1>4. ASSUME Restart PROVE Typed(Now')
  <2> DEFINE y == Now'
  <2>1. y.c = NewCatalog /\ y.d = disk  BY <1>4 DEF Restart, Now
  <2> HIDE DEF y
  <2>2. y.c.stats = EmptyStats /\ y.c.first = 0 /\ y.c.fcur = -1 /\ y.c.smode = "auto"
    BY <2>1 DEF NewCatalog
  <2>3. EmptyStats \in StatsOf(Row) /\ Holding(EmptyStats, 0)
    BY HoldingEmpty DEF EmptyStats, StatsOf
  <2>4. Typed(y)  BY <1>0, <2>1, <2>2, <2>3 DEF Typed, SyncMode
  <2> QED  BY <2>4 DEF y
<1>5. ASSUME adds, CallAdd PROVE Typed(Now')
  <2> DEFINE z == PostUpdate([Now EXCEPT !.c.rng = @ + 1], <<Now.c.rng + 1>>)
             y == Sync(z)
  <2>1. Now.c.rng # None /\ (Becomes(z) \/ Becomes(y)) /\ Now.c.burnin = 0
    BY <1>0, <1>5 DEF CallAdd
  <2>2. Kept(z) /\ Typed(z)  BY <2>1, AddOK, AddTyped
  <2> HIDE DEF z
  <2> QED  BY <2>1, <2>2, SyncKeepsTyped, AfterTyped
<1>6. ASSUME NEW m \in SyncMode, CallSetSyncMode(m) PROVE Typed(Now')
  <2> DEFINE y == Now'
  <2>1. Shape(Now)  BY DEF Kept, MemOK
  <2>2. y.c = [mcat EXCEPT !.smode = m] /\ y.d = disk  BY <1>6 DEF CallSetSyncMode, Now
  <2> HIDE DEF y
  <2>3. /\ y.c.stats = Now.c.stats /\ y.c.first = Now.c.first
        /\ y.c.fcur = Now.c.fcur /\ y.c.smode = m /\ y.d = Now.d
    BY <1>0, <2>1, <2>2 DEF Shape, CatalogFields
  <2>4. Typed(y)  BY <2>3 DEF Typed
  <2> QED  BY <2>4 DEF y
<1> QED  BY <1>1, <1>2, <1>3, <1>4, <1>5, <1>6 DEF Life

(* Every step of the three ways to use a catalog.                          *)
LEMMA StepTyped ==
  ASSUME MCIInv, Typed(Now), [MCNext]_<<vars, usage>> PROVE Typed(Now')
<1>0. Kept(Now) /\ (usage # "analysis" => mcat.burnin = 0) /\ Now.c = mcat /\ Now.d = disk
  BY DEF MCIInv, Now
<1>f. None \notin Files /\ MaxLength \in Nat  BY NoneAssumption, BoundsAssumption
<1>1. CASE UNCHANGED <<vars, usage>>
  <2>1. Now' = Now  BY <1>1 DEF vars, Now
  <2> QED  BY <2>1
<1>2. CASE usage # "analysis" /\ RunNext
  <2>1. mcat.burnin = 0  BY <1>0, <1>2
  <2> QED  BY <1>0, <1>2, <2>1, LifeTyped DEF RunNext
<1>3. CASE usage = "split" /\ \E id \in 0..MaxLength : CallSetFirstId(id)
  <2>1. PICK id \in Nat : CallSetFirstId(id)  BY <1>3, <1>f
  <2>2. id # Now.c.first /\ CanSetFirstId(Now, id) /\ Becomes(SetFirstId(Now, id)) /\ Now.c.burnin = 0
    BY <1>0, <1>3, <2>1 DEF CallSetFirstId
  <2> QED  BY <1>0, <2>2, SetFirstIdTyped, AfterTyped
<1>4. CASE usage = "analysis" /\ AnalysisNext
  <2> DEFINE exist == {f \in Files : disk[f] # None /\ IsEmpty(mcat)}
             files == IF mcat.burnin = 0 THEN Files ELSE exist
  <2>1. CASE Life(files, mcat.burnin = 0)
    <3>1. files \in SUBSET Files  OBVIOUS
    <3>2. mcat.burnin # 0 => \A f \in files : disk[f] # None /\ IsEmpty(mcat)  OBVIOUS
    <3> HIDE DEF files
    <3> QED  BY <1>0, <2>1, <3>1, <3>2, LifeTyped
  <2>2. CASE \E n \in 1..MaxLength : mcat.rng = None /\ IsEmpty(mcat) /\ CallSetBurnin(n)
    <3> DEFINE y == Now'
    <3>1. PICK n : CallSetBurnin(n)  BY <2>2
    <3>2. Shape(Now)  BY <1>0 DEF Kept, MemOK
    <3>3. y.c = [mcat EXCEPT !.burnin = n] /\ y.d = disk  BY <3>1 DEF CallSetBurnin, Now
    <3> HIDE DEF y
    <3>4. /\ y.c.stats = Now.c.stats /\ y.c.first = Now.c.first
          /\ y.c.fcur = Now.c.fcur /\ y.c.smode = Now.c.smode /\ y.d = Now.d
      BY <1>0, <3>2, <3>3 DEF Shape, CatalogFields
    <3>5. Typed(y)  BY <3>4 DEF Typed
    <3> QED  BY <3>5 DEF y
  <2> QED  BY <1>4, <2>1, <2>2 DEF AnalysisNext
<1> QED  BY <1>1, <1>2, <1>3, <1>4 DEF MCNext, SplitNext

(* Both hold in every state.                                               *)
LEMMA MCTyped == MCSpec => [](MCIInv /\ Typed(Now))
<1>1. MCInit => MCIInv /\ Typed(Now)
  <2> SUFFICES ASSUME MCInit PROVE MCIInv /\ Typed(Now)  OBVIOUS
  <2>1. MCIInv  BY NewInvariant
  <2>2. Now.c = NewCatalog /\ \A g \in Files : Now.d[g] = None  BY DEF MCInit, Init, Now
  <2>3. EmptyStats \in StatsOf(Row) /\ Holding(EmptyStats, 0)
    BY HoldingEmpty DEF EmptyStats, StatsOf
  <2>4. /\ NewCatalog.stats = EmptyStats /\ NewCatalog.first = 0
        /\ NewCatalog.fcur = -1 /\ NewCatalog.smode = "auto"
    BY DEF NewCatalog
  <2>5. Typed(Now)  BY <2>2, <2>3, <2>4 DEF Typed, SyncMode
  <2> QED  BY <2>1, <2>5
<1>2. MCIInv /\ Typed(Now) /\ [MCNext]_<<vars, usage>> => MCIInv' /\ Typed(Now')
  BY StepInvariant, StepTyped
<1>3. Typed(Now') <=> Typed(Now)'  OBVIOUS
<1> QED  BY <1>1, <1>2, <1>3, PTL DEF MCSpec

(* The catalog and its files have their types however a program uses them: *)
(* no row that fits_insert_rows put into a table is left unwritten by      *)
(* ncm_mset_catalog_sync, and none that is read, prepended or added to     *)
(* chains and ensembles is a blank, with or without a burn-in.             *)
THEOREM MCTypes == MCSpec => []TypeOK
<1>1. MCIInv /\ Typed(Now) => TypeOK  BY TypedIs DEF MCIInv
<1> QED  BY <1>1, MCTyped, PTL

(* However a program uses it, and wherever the first row starts: the chain *)
(* of a walker has the rows of its ids, each once, also those that sync    *)
(* reads from the start of a file and puts before the others               *)
(* (ncm_mset_catalog.c:1720-1740).                                         *)
THEOREM ChainsComplete == MCSpec => []ChainsHoldRows
<1>1. Typed(Now) => ChainsHoldRows
  <2> SUFFICES ASSUME Typed(Now) PROVE ChainsHoldRows  OBVIOUS
  <2>1. Now.c = mcat  BY DEF Now
  <2>2. Holding(mcat.stats, mcat.first)  BY <2>1 DEF Typed
  <2> QED  BY <2>2, HoldingIs DEF ChainsHoldRows
<1> QED  BY <1>1, MCTyped, PTL

-----------------------------------------------------------------------------
(* Rows that are dropped                                                   *)

(* A file of a program that drops rows.                                    *)
TableInOrder(r) ==
  /\ InOrder(r.rows, r.stat)
  /\ Len(r.rows) # 0 => r.stat # None /\ r.inis # None

(* ... whose rows are the first ones of the memory, if that has any.       *)
Begins(x, r) ==
  Len(MemRows(x)) # 0 =>
    /\ r.first = x.c.first
    /\ Len(r.rows) <= Len(MemRows(x))
    /\ \A i \in 1..Len(r.rows) : r.rows[i] = MemRows(x)[i]

(* The catalog of such a program.                                          *)
DrawsInOrder(x) ==
  /\ InOrder(MemRows(x), x.c.rng)
  /\ Len(MemRows(x)) # 0 => x.c.rng # None
  /\ x.c.rng # None => x.c.inis # None

Edited(x) ==
  /\ DrawsInOrder(x)
  /\ \A g \in Files : x.d[g] # None => TableInOrder(x.d[g]) /\ Begins(x, x.d[g])
  /\ OneRng(x)
  /\ Whole(x.c.stats, x.c.first)

(* There is one file: of two, one can keep what memory dropped.            *)
OneFile == \E f : Files = {f}

(* The invariant of a program that drops rows.                             *)
EditIInv ==
  /\ Kept(Now) /\ mcat.burnin = 0
  /\ OneFile => Edited(Now)

(* Where two tables have the same rows they are in the same order.         *)
LEMMA SameOrder ==
  ASSUME NEW p, NEW q, Len(p) = Len(q), \A i \in 1..Len(p) : q[i] = p[i], NEW k, InOrder(p, k)
  PROVE  InOrder(q, k)
BY DEF InOrder

(* ... and so is what is cut out of one.                                   *)
LEMMA CutInOrder ==
  ASSUME NEW p \in Seq(Nat), NEW k, InOrder(p, k), NEW m \in Nat \ {0}, NEW n \in Int, n <= Len(p)
  PROVE  LET q == SubSeq(p, m, n)
         IN  q \in Seq(Nat) /\ InOrder(q, k) /\ (Len(q) # 0 => Len(p) # 0)
<1> DEFINE q == SubSeq(p, m, n)
<1>0. Len(p) \in Nat  OBVIOUS
<1>1. CASE m <= n
  <2>1. n \in Nat /\ m <= n + 1 /\ m > 0 /\ m \in Nat  BY <1>1
  <2>2. /\ q \in Seq(Nat) /\ Len(q) = n - m + 1
        /\ \A i \in 1..n - m + 1 : q[i] = p[m + i - 1]
    BY <2>1, Cut
  <2> HIDE DEF q
  <2>3. ASSUME NEW i \in 1..Len(q) PROVE m + i - 1 \in 1..Len(p) /\ q[i] = p[m + i - 1]
    <3>1. i \in 1..n - m + 1 /\ i \in Nat  BY <2>1, <2>2
    <3>2. m + i - 1 \in 1..n  BY <2>1, <3>1
    <3>3. 1..n \subseteq 1..Len(p)  BY <1>0, <2>1
    <3> QED  BY <2>2, <3>1, <3>2, <3>3
  <2>4. InOrder(q, k)
    <3>1. ASSUME NEW i \in 1..Len(q), NEW j \in 1..Len(q), i < j PROVE q[i] < q[j]
      <4>1. m + i - 1 < m + j - 1  BY <2>1, <2>2, <3>1
      <4> QED  BY <2>3, <4>1 DEF InOrder
    <3>2. k # None => \A i \in 1..Len(q) : q[i] <= k  BY <2>3 DEF InOrder
    <3> QED  BY <3>1, <3>2 DEF InOrder
  <2>5. Len(p) # 0  BY <1>0, <1>1, <2>1
  <2> QED  BY <2>2, <2>4, <2>5 DEF q
<1>2. CASE ~ (m <= n)
  <2>1. q = <<>>  BY <1>2
  <2>2. <<>> \in Seq(Nat) /\ Len(<<>>) = 0  OBVIOUS
  <2> HIDE DEF q
  <2> QED  BY <2>1, <2>2 DEF InOrder, q
<1> QED  BY <1>1, <1>2

(* The rows there are, when nothing is burnt.                              *)
LEMMA CountRows ==
  ASSUME NEW x, MemOK(x)
  PROVE  /\ MemRows(x) \in Seq(Nat) /\ Len(MemRows(x)) = x.c.cur - x.c.first + 1
         /\ IsEmpty(x.c) <=> Len(MemRows(x)) = 0
         /\ x.c.burnin = 0 /\ FileOK(x) =>
              /\ FileRows(x) \in Seq(Nat)
              /\ Len(FileRows(x)) = x.c.fcur - x.c.ffirst + 1
<1>1. PICK a \in Nat, b \in Int : a = x.c.first /\ b = x.c.cur /\ a - 1 <= b  BY DEF MemOK
<1>2. MemRows(x) \in Seq(Nat) /\ Len(MemRows(x)) = 0 + (b - a + 1)  BY <1>1 DEF MemOK, Spans
<1>3. Len(MemRows(x)) = b - a + 1  BY <1>2
<1>4. IsEmpty(x.c) <=> Len(MemRows(x)) = 0
  <2>1. IsEmpty(x.c) <=> b < a  BY <1>1 DEF IsEmpty
  <2> QED  BY <1>1, <1>3, <2>1
<1>5. ASSUME x.c.burnin = 0, FileOK(x)
      PROVE  /\ FileRows(x) \in Seq(Nat)
             /\ Len(FileRows(x)) = x.c.fcur - x.c.ffirst + 1
  <2>1. /\ FileRows(x) \in Seq(Nat)
        /\ Len(FileRows(x)) = x.c.burnin + (x.c.fcur - x.c.ffirst + 1)
    BY <1>5 DEF FileOK, Spans
  <2>2. PICK c \in Nat, d \in Int : c = x.c.ffirst /\ d = x.c.fcur  BY <1>5 DEF FileOK
  <2>3. Len(FileRows(x)) = 0 + (d - c + 1)  BY <1>5, <2>1, <2>2
  <2>4. Len(FileRows(x)) = d - c + 1  BY <2>3
  <2> QED  BY <2>1, <2>2, <2>4
<1> QED  BY <1>1, <1>2, <1>3, <1>4, <1>5

(* Sync, when one side is a beginning of the other.                        *)
LEMMA SyncEdited ==
  ASSUME NEW v, Ready(v), v.c.burnin = 0, v.c.ffirst = v.c.first, OneFile, Edited(v),
         NEW y, Synced(v, y)
  PROVE  Edited(y)
<1> DEFINE f == v.c.file
           p == MemRows(v)
           r == FileRows(v)
           q == MemRows(y)
           s == FileRows(y)
<1>0. MemOK(v) /\ FileOK(v) /\ MemOK(y) /\ FileOK(y) /\ f \in Files /\ f # None /\ v.d[f] # None
  BY NoneAssumption, IsFileThere DEF Ready, Synced, FileOK
<1>1. y.c.file = f /\ y.c.burnin = 0
  BY DEF Synced, SameBut, SyncFields, CatalogFields
<1>2. /\ y.c.first = v.c.first /\ y.c.inis = v.c.inis /\ y.d[f].inis = v.d[f].inis
      /\ y.c.ffirst = y.c.first /\ y.c.fcur = y.c.cur
      /\ y.c.rng = (IF v.c.fcur > v.c.cur /\ v.c.rng # None THEN v.d[f].stat ELSE v.c.rng)
      /\ y.d[f].stat = (IF v.c.fcur < v.c.cur /\ v.c.rng # None THEN v.c.rng ELSE v.d[f].stat)
  BY DEF Synced
<1>3. /\ v.c.fcur <= v.c.cur => y.c.cur = v.c.cur /\ y.c.stats = v.c.stats
      /\ v.c.cur <= v.c.fcur => y.c.cur = v.c.fcur /\ y.d = v.d
      /\ \A id \in Int : BringsId(v, y, id)
  BY DEF Synced, Brings
<1>4. TableInOrder(v.d[f]) /\ Begins(v, v.d[f]) /\ DrawsInOrder(v) /\ OneRng(v)
  BY <1>0 DEF Edited
<1>5. PICK a \in Nat, b \in Int, d \in Int, e \in Int :
        a = v.c.first /\ b = v.c.cur /\ d = v.c.fcur /\ e = y.c.cur /\ a - 1 <= b /\ a - 1 <= d
  BY <1>0 DEF MemOK, FileOK
<1>6. /\ p \in Seq(Nat) /\ Len(p) = b - a + 1 /\ r \in Seq(Nat) /\ Len(r) = d - a + 1
      /\ q \in Seq(Nat) /\ Len(q) = e - a + 1 /\ s \in Seq(Nat) /\ Len(s) = e - a + 1
  BY <1>0, <1>1, <1>2, <1>5, CountRows
<1>7. v.d[f].rows = r /\ y.d[f].rows = s  BY <1>1 DEF FileRows
<1>8. ASSUME NEW i \in Nat
      PROVE  LET id == a + i - 1
             IN  /\ Mem(v, id) = p[i] /\ Fil(v, id) = r[i] /\ Mem(y, id) = q[i] /\ Fil(y, id) = s[i]
                 /\ InMem(v, id) <=> i \in 1..b - a + 1
                 /\ InFile(v, id) <=> i \in 1..d - a + 1
                 /\ InMem(y, id) <=> i \in 1..e - a + 1
                 /\ InFile(y, id) <=> i \in 1..e - a + 1
  <2>1. PICK id \in Int : id = a + i - 1  OBVIOUS
  <2>2. 0 + (id - a + 1) = i  BY <2>1
  <2>3. /\ Mem(v, id) = p[0 + (id - a + 1)] /\ Fil(v, id) = r[0 + (id - a + 1)]
        /\ Mem(y, id) = q[0 + (id - a + 1)] /\ Fil(y, id) = s[0 + (id - a + 1)]
    BY <1>1, <1>2, <1>5 DEF Mem, Fil, At
  <2>4. /\ InMem(v, id) <=> id \in a..b
        /\ InFile(v, id) <=> id \in a..d
        /\ InMem(y, id) <=> id \in a..e
        /\ InFile(y, id) <=> id \in a..e
    BY <1>2, <1>5 DEF InMem, InFile
  <2>5. \A z \in Int : id \in a..z <=> i \in 1..z - a + 1  BY <2>1
  <2> QED  BY <1>5, <2>1, <2>2, <2>3, <2>4, <2>5
<1> HIDE DEF p, q, r, s
<1>9. Len(p) # 0 => d <= b /\ \A i \in 1..Len(r) : r[i] = p[i]
  <2>1. Len(p) # 0 => Len(r) <= Len(p) /\ \A i \in 1..Len(r) : r[i] = p[i]
    BY <1>4, <1>7 DEF Begins, p
  <2>2. b - a + 1 # 0 => d - a + 1 <= b - a + 1  BY <1>6, <2>1
  <2>3. b - a + 1 # 0 => d <= b  BY <2>2
  <2> QED  BY <1>6, <2>1, <2>3
<1>10. ASSUME NEW i \in 1..Len(s) PROVE s[i] = q[i]
  <2> DEFINE id == a + i - 1
  <2>1. BringsId(v, y, id)  BY <1>3, <1>5
  <2>2. i \in Nat /\ i \in 1..e - a + 1  BY <1>6
  <2>3. /\ Mem(v, id) = p[i] /\ Fil(v, id) = r[i] /\ Mem(y, id) = q[i] /\ Fil(y, id) = s[i]
        /\ InMem(v, id) <=> i \in 1..b - a + 1
        /\ InFile(v, id) <=> i \in 1..d - a + 1
        /\ InMem(y, id) /\ InFile(y, id)
    BY <1>8, <2>2
  <2> HIDE DEF id
  <2>4. InMem(v, id) /\ InFile(v, id) => r[i] = p[i]
    <3>1. i \in 1..Len(p) /\ i \in 1..Len(r) => Len(p) # 0  OBVIOUS
    <3> QED  BY <1>6, <1>9, <2>3, <3>1
  <2> QED  BY <2>1, <2>3, <2>4 DEF BringsId
(* What is left to show of either case.                                    *)
<1>11. ASSUME DrawsInOrder(y), TableInOrder(y.d[f]), y.c.rng # None <=> y.d[f].inis # None
       PROVE  Edited(y)
  <2>1. Begins(y, y.d[f])
    <3>1. y.d[f].first = y.c.first  BY <1>0, <1>1, <1>2 DEF FileOK
    <3>2. Len(s) <= Len(q)  BY <1>6
    <3> QED  BY <1>7, <1>10, <3>1, <3>2 DEF Begins, q
  <2>2. \A g \in Files : g = f  BY <1>0 DEF OneFile
  <2>3. Whole(y.c.stats, y.c.first)  BY DEF Edited, Synced, StaysWhole
  <2> QED  BY <1>1, <1>11, <2>1, <2>2, <2>3 DEF Edited, OneRng
(* Either rows were written ...                                            *)
<1>12. CASE d <= b
  <2>0. ~ (d > b)  BY <1>12
  <2>1. e = b /\ y.c.stats = v.c.stats /\ y.c.rng = v.c.rng  BY <1>2, <1>3, <1>5, <1>12, <2>0
  <2>2. q = p  BY <2>1 DEF p, q, MemRows
  <2>3. DrawsInOrder(y)  BY <1>2, <1>4, <2>1, <2>2 DEF DrawsInOrder, p, q
  <2>4. TableInOrder(y.d[f])
    <3>1. CASE d = b
      <4>1. y.d = v.d  BY <1>3, <1>5, <3>1
      <4> QED  BY <1>4, <4>1
    <3>2. CASE d # b
      <4>0. a - 1 <= d  BY <1>5
      <4>n. b - a + 1 # 0 /\ d < b  BY <1>12, <3>2, <4>0
      <4>1. Len(p) # 0 /\ d < b  BY <1>6, <4>n
      <4>2. v.c.rng # None /\ v.c.inis # None /\ InOrder(p, v.c.rng)
        BY <1>4, <4>1 DEF DrawsInOrder, p
      <4>3. y.d[f].stat = v.c.rng  BY <1>2, <1>5, <4>1, <4>2
      <4>4. y.d[f].inis # None  BY <1>0, <1>2, <1>4, <4>2 DEF OneRng
      <4>5. Len(p) = Len(s) /\ \A i \in 1..Len(p) : s[i] = p[i]
        BY <1>6, <1>10, <2>1, <2>2
      <4>6. InOrder(s, v.c.rng)  BY <4>2, <4>5, SameOrder
      <4> QED  BY <1>7, <4>2, <4>3, <4>4, <4>6 DEF TableInOrder
    <3> QED  BY <3>1, <3>2
  <2>5. y.c.rng # None <=> y.d[f].inis # None  BY <1>0, <1>2, <1>4, <2>1 DEF OneRng
  <2> QED  BY <1>11, <2>3, <2>4, <2>5
(* ... or an empty memory has got those of the file.                       *)
<1>13. CASE b < d
  <2>1. e = d /\ y.d = v.d  BY <1>3, <1>5, <1>13
  <2>0. a - 1 <= b  BY <1>5
  <2>n. d - a + 1 # 0  BY <1>13, <2>0
  <2>2. Len(r) # 0  BY <1>6, <2>n
  <2>3. InOrder(r, v.d[f].stat) /\ v.d[f].stat # None /\ v.d[f].inis # None
    BY <1>4, <1>7, <2>2 DEF TableInOrder
  <2>4. v.c.rng # None  BY <1>0, <1>4, <2>3 DEF OneRng
  <2>5. y.c.rng = v.d[f].stat  BY <1>2, <1>5, <1>13, <2>4
  <2>6. s = r  BY <1>7, <2>1
  <2>7. Len(r) = Len(q) /\ \A i \in 1..Len(r) : q[i] = r[i]
    BY <1>6, <1>10, <2>1, <2>6
  <2>8. InOrder(q, v.d[f].stat)  BY <2>3, <2>7, SameOrder
  <2>9. v.c.inis # None  BY <1>4, <2>4 DEF DrawsInOrder
  <2>10. DrawsInOrder(y)  BY <1>2, <2>3, <2>5, <2>8, <2>9 DEF DrawsInOrder, q
  <2>11. TableInOrder(y.d[f])  BY <1>4, <2>1
  <2> QED  BY <1>2, <1>11, <2>3, <2>5, <2>10, <2>11
<1> QED  BY <1>5, <1>12, <1>13

(* What it is about, and nothing else, is as it was.                       *)
LEMMA EditedStays ==
  ASSUME NEW x, Edited(x), NEW w, w.c.stats = x.c.stats, w.c.rng = x.c.rng, w.c.inis = x.c.inis,
         w.c.first = x.c.first, w.d = x.d, w.c.file \in {None, x.c.file}
  PROVE  Edited(w)
<1>0. MemRows(w) = MemRows(x)  BY DEF MemRows
<1>1. DrawsInOrder(w)  BY <1>0 DEF Edited, DrawsInOrder
<1>2. ASSUME NEW g \in Files, w.d[g] # None PROVE TableInOrder(w.d[g]) /\ Begins(w, w.d[g])
  <2>1. TableInOrder(x.d[g]) /\ Begins(x, x.d[g])  BY <1>2 DEF Edited
  <2> QED  BY <1>0, <2>1 DEF Begins
<1>3. OneRng(w)  BY DEF Edited, OneRng
<1>4. Whole(w.c.stats, w.c.first)  BY DEF Edited
<1> QED  BY <1>1, <1>2, <1>3, <1>4 DEF Edited

(* The open file gets what it lacks ...                                    *)
LEMMA SyncKeepsEdited ==
  ASSUME NEW x, Kept(x), x.c.burnin = 0, OneFile, Edited(x)
  PROVE  Edited(Sync(x))
<1>1. CASE x.c.file = None
  <2>1. Sync(x) = x  BY <1>1 DEF Sync
  <2> QED  BY <2>1
<1>2. CASE x.c.file # None
  <2>1. Ready(x)  BY <1>2, KeptReady
  <2>2. Synced(x, Sync(x))  BY <2>1, SyncOK
  <2>3. x.c.ffirst = x.c.first  BY DEF Kept
  <2> QED  BY <2>1, <2>2, <2>3, SyncEdited
<1> QED  BY <1>1, <1>2

(* ... before it is closed.                                                *)
LEMMA CloseEdited ==
  ASSUME NEW x, Kept(x), x.c.burnin = 0, OneFile, Edited(x)
  PROVE  Edited(Close(x))
<1> DEFINE y == Sync(x)
           w == [y EXCEPT !.c.file = None]
<1>1. Edited(y) /\ Kept(y)  BY SyncKeepsEdited, SyncKeeps
<1>2. Close(x) = w  BY DEF Close
<1> HIDE DEF y
<1>3. Shape(y)  BY <1>1 DEF Kept, MemOK
<1>4. /\ w.d = y.d /\ w.c.file = None /\ w.c.rng = y.c.rng /\ w.c.inis = y.c.inis
      /\ w.c.first = y.c.first /\ w.c.stats = y.c.stats
  BY <1>3 DEF Shape, CatalogFields
<1> HIDE DEF w
<1> QED  BY <1>1, <1>2, <1>4, EditedStays

(* A file that is opened is a beginning of the memory, or this is empty.   *)
LEMMA OpenEdited ==
  ASSUME NEW w, Kept(w), w.c.file = None, w.c.burnin = 0, NEW f \in Files, CanOpen(w, f),
         OneFile, Edited(w)
  PROVE  LET v == Open(w, f) IN Edited(v) /\ v.c.ffirst = v.c.first
<1> DEFINE z == IF w.d[f] = None THEN CreateFile(w, f) ELSE OpenFile(w, f)
           v == SyncRng(z)
<1>1. Open(w, f) = v  BY DEF Open
<1>0. MemOK(w) /\ Shape(w) /\ AllFiles(w) /\ DrawsInOrder(w)  BY DEF Kept, MemOK, Edited
(* Before the generators are compared.                                     *)
<1>2. /\ OpenedFile(w, f, z) /\ z.c.first = z.c.ffirst
      /\ InOrder(z.d[f].rows, z.d[f].stat)
      /\ Len(z.d[f].rows) # 0 => z.d[f].stat # None /\ z.d[f].inis # None
      /\ Len(MemRows(w)) # 0 =>
           /\ z.c.first = w.c.first
           /\ Len(z.d[f].rows) <= Len(MemRows(w))
           /\ \A i \in 1..Len(z.d[f].rows) : z.d[f].rows[i] = MemRows(w)[i]
  <2>1. CASE w.d[f] = None
    <3> DEFINE new == [rows |-> <<>>, first |-> w.c.first, inis |-> None, stat |-> None]
    <3>1. OpenedFile(w, f, z) /\ z.c.first = w.c.first /\ z.d[f] = new
      BY <1>0, <2>1, CreateFileOK
    <3>2. new.rows = <<>> /\ Len(new.rows) = 0 /\ new.first = w.c.first  OBVIOUS
    <3>3. z.d[f].first = z.c.ffirst  BY <3>1 DEF OpenedFile, FileOK
    <3>4. Len(MemRows(w)) \in Nat  BY <1>0, CountRows
    <3>5. InOrder(<<>>, new.stat)  BY DEF InOrder
    <3> HIDE DEF z, new
    <3> QED  BY <3>1, <3>2, <3>3, <3>4, <3>5
  <2>2. CASE w.d[f] # None
    <3>1. IsFile(w.d[f]) /\ IsRecord(w.d[f])  BY <1>0, <2>2 DEF AllFiles, IsFile
    <3>2. Len(w.d[f].rows) >= 0  BY <3>1 DEF IsFile
    <3>3. RowsLeft(w, f) >= 0  BY <3>1, <3>2 DEF RowsLeft, IsFile
    <3>4. OpenedFile(w, f, z)  BY <1>0, <2>2, <3>1, <3>3, OpenFileOK
    <3>5. TableInOrder(w.d[f]) /\ Begins(w, w.d[f])  BY <2>2 DEF Edited
    <3>6. /\ z.d[f].rows = w.d[f].rows /\ z.d[f].inis = w.d[f].inis /\ z.d[f].stat = w.d[f].stat
      BY <1>0, <2>2, <3>1, OpenFileIs, ZenonT(60)
    <3>7. Len(MemRows(w)) # 0 => z.c.first = z.c.ffirst /\ z.c.first = w.c.first
      <4>1. w.d[f].first = w.c.first => z.c.first = w.c.first /\ z.c.ffirst = w.d[f].first
        BY <1>0, <2>2, <3>1, OpenFileIs
      <4> HIDE DEF z
      <4> QED  BY <3>5, <4>1 DEF Begins
    <3> HIDE DEF z
    <3>8. Len(MemRows(w)) = 0 => z.c.first = z.c.ffirst
      <4>1. Len(MemRows(w)) = 0 => IsEmpty(w.c)  BY <1>0, CountRows
      <4> QED  BY <3>4, <4>1 DEF OpenedFile
    <3> QED  BY <3>4, <3>5, <3>6, <3>7, <3>8 DEF TableInOrder, Begins
  <2> QED  BY <2>1, <2>2
<1> HIDE DEF z
<1>3. MemOK(z) /\ FileOK(z) /\ z.c.file = f  BY <1>2 DEF OpenedFile
<1>4. RngSynced(z, v)  BY <1>3, SyncRngOK
<1> HIDE DEF v
<1>5. z.c.stats = w.c.stats /\ z.c.rng = w.c.rng /\ z.c.inis = w.c.inis /\ SameFiles(w, z, {f})
  BY <1>2 DEF OpenedFile, SameBut, CatalogFields
<1>6. /\ v.c.file = f /\ v.c.first = z.c.first /\ v.c.ffirst = z.c.ffirst /\ v.c.stats = w.c.stats
      /\ v.d[f].rows = z.d[f].rows /\ v.d[f].first = z.d[f].first /\ v.d[f].stat = z.d[f].stat
  BY <1>3, <1>4, <1>5 DEF RngSynced, SameBut, CatalogFields, FileFields
<1> DEFINE read == z.d[f].inis # None /\ z.c.rng = None
           write == z.d[f].inis = None /\ z.c.rng # None
<1>7. /\ v.c.rng = (IF read THEN z.d[f].inis ELSE w.c.rng)
      /\ v.c.inis = (IF read THEN z.d[f].inis ELSE w.c.inis)
      /\ v.d[f].inis = (IF write THEN w.c.inis ELSE z.d[f].inis)
  BY <1>3, <1>4, <1>5 DEF RngSynced
<1>8. MemRows(v) = MemRows(w)  BY <1>6 DEF MemRows
<1>9. /\ InOrder(MemRows(w), w.c.rng) /\ (Len(MemRows(w)) # 0 => w.c.rng # None)
      /\ (w.c.rng # None => w.c.inis # None)
  BY <1>0 DEF DrawsInOrder
<1>10. DrawsInOrder(v)
  <2>1. InOrder(MemRows(w), v.c.rng)
    <3>1. CASE Len(MemRows(w)) = 0  BY <3>1 DEF InOrder
    <3>2. CASE Len(MemRows(w)) # 0
      <4>1. v.c.rng = w.c.rng  BY <1>5, <1>7, <1>9, <3>2
      <4> QED  BY <1>9, <4>1
    <3> QED  BY <3>1, <3>2
  <2>2. Len(MemRows(w)) # 0 => v.c.rng # None  BY <1>7, <1>9
  <2>3. v.c.rng # None => v.c.inis # None  BY <1>7, <1>9
  <2> QED  BY <1>8, <2>1, <2>2, <2>3 DEF DrawsInOrder
<1>11. TableInOrder(v.d[f])
  <2>1. z.d[f].inis # None => v.d[f].inis # None  BY <1>7
  <2> QED  BY <1>2, <1>6, <2>1 DEF TableInOrder
<1>12. Begins(v, v.d[f])
  <2>1. v.d[f].first = v.c.first  BY <1>2, <1>3, <1>6 DEF FileOK
  <2> QED  BY <1>2, <1>6, <1>8, <2>1 DEF Begins
<1>13. OneRng(v)
  <2>1. v.c.rng # None <=> v.d[f].inis # None  BY <1>5, <1>7, <1>9
  <2> QED  BY <1>6, <2>1 DEF OneRng
<1>14. \A g \in Files : g = f  BY DEF OneFile
<1>w. Whole(v.c.stats, v.c.first)
  <2>1. Whole(w.c.stats, w.c.first)  BY DEF Edited
  <2>2. CASE Len(MemRows(w)) # 0  BY <1>2, <1>6, <2>1, <2>2
  <2>3. CASE Len(MemRows(w)) = 0
    <3>1. w.c.first \in Nat /\ z.c.first \in Nat  BY <1>0, <1>3 DEF MemOK
    <3>2. Whole(w.c.stats, z.c.first)  BY <2>1, <2>3, <3>1, WholeMoves DEF MemRows
    <3> QED  BY <1>6, <3>2
  <2> QED  BY <2>2, <2>3
<1>15. Edited(v)  BY <1>10, <1>11, <1>12, <1>13, <1>14, <1>w DEF Edited
<1>16. v.c.ffirst = v.c.first  BY <1>2, <1>6
<1> QED  BY <1>1, <1>15, <1>16

(* The whole of set_file.                                                  *)
LEMMA SetFileEdited ==
  ASSUME NEW x, Kept(x), x.c.burnin = 0, NEW f \in Files \cup {None}, x.c.file # f,
         CanSetFile(x, f), OneFile, Edited(x)
  PROVE  Edited(SetFile(x, f))
<1> DEFINE w == Close(x)
<1>1. Closed(x, w) /\ Edited(w)  BY CloseOK, CloseEdited
<1>2. CASE f = None
  <2>1. SetFile(x, f) = w  BY <1>2 DEF SetFile
  <2> QED  BY <1>1, <2>1
<1>3. CASE f # None
  <2> DEFINE v == Open(w, f)
             y == Sync(v)
  <2>1. SetFile(x, f) = y /\ CanOpen(w, f) /\ CanSync(v) /\ f \in Files
    BY <1>3 DEF SetFile, CanSetFile
  <2> HIDE DEF w
  <2>2. Kept(w) /\ w.c.file = None /\ w.c.burnin = 0
    BY <1>1 DEF Closed, SameBut, CatalogFields
  <2>3. OpenedReady(w, f, v)  BY <2>1, <2>2, OpenOK
  <2>4. Edited(v) /\ v.c.ffirst = v.c.first  BY <1>1, <2>1, <2>2, OpenEdited
  <2> HIDE DEF v
  <2>5. v.c.file # None /\ v.c.burnin = 0  BY <1>3, <2>2, <2>3 DEF OpenedReady
  <2>6. Ready(v)  BY <2>1, <2>3, <2>5 DEF CanSync, OpenedReady, Ready
  <2>7. Synced(v, y)  BY <2>6, SyncOK
  <2>8. Edited(y)  BY <2>4, <2>5, <2>6, <2>7, SyncEdited
  <2> QED  BY <2>1, <2>8
<1> QED  BY <1>2, <1>3

(* A row is added with the file open.                                      *)
LEMMA AddEdited ==
  ASSUME NEW x, Kept(x), x.c.rng # None, x.c.burnin = 0, x.c.file # None, OneFile, Edited(x)
  PROVE  Edited(PostUpdate([x EXCEPT !.c.rng = @ + 1], <<x.c.rng + 1>>))
<1> DEFINE z == PostUpdate([x EXCEPT !.c.rng = @ + 1], <<x.c.rng + 1>>)
           f == x.c.file
           p == MemRows(x)
           q == MemRows(z)
<1>0. MemOK(x) /\ FileBehind(x) /\ FileOK(x) /\ f \in Files /\ x.d[f] # None
  BY IsFileThere DEF Kept, FileBehind, FileOK
<1>1. RowAdded(x, z) /\ x.c.rng + 1 \in Nat  BY <1>0, AddIs
<1>2. PICK k \in Nat : k = x.c.rng + 1  BY <1>1
<1> HIDE DEF z
<1>w. Whole(z.c.stats, z.c.first)
  <2>1. /\ z.c.stats = AddRows(x.c.stats, x.c.cur + 1, <<k>>)
        /\ z.c.first = x.c.first /\ <<k>> \in Seq(Nat)
    BY <1>1, <1>2 DEF RowAdded, SameBut, CatalogFields
  <2>2. StaysWhole(x, z)  BY <1>0, <2>1, AddedStaysWhole
  <2> QED  BY <2>2 DEF StaysWhole, Edited
<1>3. /\ z.d = x.d /\ z.c.first = x.c.first /\ z.c.inis = x.c.inis /\ z.c.file = f /\ z.c.rng = k
      /\ Len(q) = Len(p) + 1 /\ q[Len(p) + 1] = k /\ \A i \in 1..Len(p) : q[i] = p[i]
  BY <1>1, <1>2 DEF RowAdded, SameBut, CatalogFields
<1>4. /\ InOrder(p, x.c.rng) /\ x.c.inis # None /\ OneRng(x)
      /\ TableInOrder(x.d[f]) /\ Begins(x, x.d[f])
  BY <1>0 DEF Edited, DrawsInOrder
<1>5. Len(p) \in Nat /\ p \in Seq(Nat)  BY <1>0, CountRows
<1>6. k # None  BY NoneAssumption
<1>7. \A i \in 1..Len(p) : p[i] < k
  <2>1. x.c.rng \in Nat  BY <1>0 DEF MemOK, RngState
  <2>2. \A i \in 1..Len(p) : p[i] <= x.c.rng  BY <1>4 DEF InOrder
  <2>3. \A i \in 1..Len(p) : p[i] \in Nat  BY <1>5
  <2> QED  BY <1>2, <2>1, <2>2, <2>3
<1> HIDE DEF p, q
<1>8. InOrder(q, k)
  <2>1. ASSUME NEW i \in 1..Len(q) PROVE i \in 1..Len(p) \/ (i = Len(p) + 1 /\ q[i] = k)
    BY <1>3, <1>5
  <2>2. ASSUME NEW i \in 1..Len(q), NEW j \in 1..Len(q), i < j PROVE q[i] < q[j]
    <3>1. i \in 1..Len(p)  BY <1>3, <1>5, <2>2
    <3>2. CASE j \in 1..Len(p)
      <4>1. p[i] < p[j]  BY <1>4, <2>2, <3>1, <3>2 DEF InOrder, p
      <4> QED  BY <1>3, <3>1, <3>2, <4>1
    <3>3. CASE j = Len(p) + 1 /\ q[j] = k  BY <1>3, <1>7, <3>1, <3>3
    <3> QED  BY <2>1, <3>2, <3>3
  <2>3. ASSUME NEW i \in 1..Len(q) PROVE q[i] <= k
    <3>1. CASE i \in 1..Len(p)
      <4>1. q[i] = p[i] /\ p[i] < k /\ p[i] \in Nat  BY <1>3, <1>5, <1>7, <3>1
      <4> QED  BY <4>1
    <3>2. CASE q[i] = k  BY <3>2
    <3> QED  BY <2>1, <3>1, <3>2
  <2> QED  BY <2>2, <2>3 DEF InOrder
<1>9. DrawsInOrder(z)  BY <1>3, <1>4, <1>6, <1>8 DEF DrawsInOrder, q
<1>10. Begins(z, x.d[f])
  <2>1. x.d[f].first = z.c.first  BY <1>0, <1>3 DEF FileOK, FileBehind
  <2>2. Len(x.d[f].rows) <= Len(p)
    <3>1. PICK a \in Nat, b \in Int, d \in Int :
            a = x.c.first /\ a = x.c.ffirst /\ b = x.c.cur /\ d = x.c.fcur /\ d <= b
      BY <1>0 DEF MemOK, FileBehind, FileOK
    <3>2. Len(x.d[f].rows) = d - a + 1 /\ Len(p) = b - a + 1
      BY <1>0, <3>1, CountRows DEF FileRows, p
    <3>3. d - a + 1 <= b - a + 1  BY <3>1
    <3> QED  BY <3>2, <3>3
  <2>r. x.d[f].rows \in Seq(Nat)  BY <1>0 DEF FileOK, IsFile
  <2>3. Len(x.d[f].rows) \in Nat  BY <2>r, SMTT(30)
  <2>4. Len(x.d[f].rows) <= Len(q)  BY <1>3, <1>5, <2>2, <2>3
  <2>5. ASSUME NEW i \in 1..Len(x.d[f].rows) PROVE x.d[f].rows[i] = q[i]
    <3>1. i \in 1..Len(p) /\ Len(p) # 0  BY <1>5, <2>2, <2>3
    <3>2. x.d[f].rows[i] = p[i]  BY <1>4, <3>1 DEF Begins, p
    <3> QED  BY <1>3, <3>1, <3>2
  <2> QED  BY <2>1, <2>4, <2>5 DEF Begins, q
<1>11. OneRng(z)
  <2>1. x.c.rng # None <=> x.d[f].inis # None  BY <1>0, <1>4, NoneAssumption DEF OneRng
  <2> QED  BY <1>3, <1>6, <2>1 DEF OneRng
<1>12. \A g \in Files : g = f  BY <1>0 DEF OneFile
<1> QED  BY <1>3, <1>4, <1>9, <1>10, <1>11, <1>12, <1>w DEF Edited, z

(* A generator is given to an empty catalog.                               *)
LEMMA SetRngEdited ==
  ASSUME NEW x, Kept(x), x.c.rng = None, IsEmpty(x.c), OneFile, Edited(x)
  PROVE  LET z == [x EXCEPT !.c.rng = 0, !.c.inis = 0]
         IN  Edited(IF x.c.file = None THEN z ELSE SyncRng(z))
<1> DEFINE z == [x EXCEPT !.c.rng = 0, !.c.inis = 0]
<1>0. MemOK(x) /\ Shape(x) /\ 0 # None /\ Len(MemRows(x)) = 0
  BY NoneAssumption, CountRows DEF Kept, MemOK
<1>1. /\ Shape(z) /\ z.d = x.d /\ z.c.rng = 0 /\ z.c.inis = 0 /\ SameBut(x, z, {"rng", "inis"})
  BY <1>0 DEF Shape, SameBut, CatalogFields
<1> HIDE DEF z
<1>2. /\ z.c.first = x.c.first /\ z.c.cur = x.c.cur /\ z.c.ffirst = x.c.ffirst
      /\ z.c.fcur = x.c.fcur /\ z.c.burnin = x.c.burnin /\ z.c.file = x.c.file
      /\ z.c.stats = x.c.stats
  BY <1>1 DEF SameBut, CatalogFields
<1>3. MemRows(z) = MemRows(x) /\ FileRows(z) = FileRows(x)  BY <1>1, <1>2 DEF MemRows, FileRows
<1>4. MemOK(z)  BY <1>0, <1>1, <1>2, <1>3 DEF MemOK, RngState
<1>5. ASSUME NEW w, w.c.stats = x.c.stats, w.c.first = x.c.first, w.c.rng # None => w.c.inis # None, OneRng(w),
             \A g \in Files : w.d[g] # None => TableInOrder(w.d[g])
      PROVE  Edited(w)
  <2>1. MemRows(w) = MemRows(x) /\ Whole(w.c.stats, w.c.first)  BY <1>5 DEF MemRows, Edited
  <2> QED  BY <1>0, <1>5, <2>1 DEF Edited, DrawsInOrder, Begins, InOrder
<1>7. \A g \in Files : x.d[g] # None => TableInOrder(x.d[g])  BY DEF Edited
<1>8. CASE x.c.file = None
  <2>1. Edited(z)  BY <1>0, <1>1, <1>2, <1>5, <1>7, <1>8 DEF OneRng
  <2> QED  BY <1>8, <2>1 DEF z
<1>9. CASE x.c.file # None
  <2> DEFINE f == x.c.file
             v == SyncRng(z)
  <2>1. FileBehind(x) /\ FileOK(x) /\ f \in Files /\ x.d[f] # None
    BY <1>9, IsFileThere DEF Kept, FileBehind, FileOK
  <2>2. FileOK(z)  BY <1>1, <1>2, <1>3, <2>1 DEF FileOK
  <2>3. RngSynced(z, v)  BY <1>4, <2>2, SyncRngOK
  <2> HIDE DEF v
  <2>4. /\ v.c.file = f /\ v.c.stats = x.c.stats /\ v.c.first = x.c.first /\ SameFiles(x, v, {f})
        /\ v.d[f].rows = x.d[f].rows /\ v.d[f].stat = x.d[f].stat
    BY <1>1, <1>2, <2>3 DEF RngSynced, SameBut, SameFiles, CatalogFields, FileFields
  <2>5. /\ v.c.rng = 0 /\ v.c.inis = 0
        /\ v.d[f].inis = (IF x.d[f].inis = None THEN 0 ELSE x.d[f].inis)
    BY <1>0, <1>1, <1>2, <2>3 DEF RngSynced
  <2>7. TableInOrder(v.d[f])  BY <1>0, <1>7, <2>1, <2>4, <2>5 DEF TableInOrder
  <2>8. \A g \in Files : g = f  BY <2>1 DEF OneFile
  <2>9. OneRng(v)  BY <1>0, <2>4, <2>5 DEF OneRng
  <2>10. Edited(v)  BY <1>0, <1>5, <2>4, <2>5, <2>7, <2>8, <2>9
  <2> QED  BY <1>9, <2>10 DEF v, z
<1> QED  BY <1>8, <1>9

(* In y the open file of x has no rows any more.                           *)
Erased(x, y) ==
  LET f == x.c.file
  IN  /\ Shape(y) /\ SameBut(x, y, {"fcur"}) /\ SameFiles(x, y, {f})
      /\ y.c.fcur = y.c.ffirst - 1
      /\ IsRecord(y.d[f]) /\ y.d[f].rows = <<>>
      /\ \A k \in FileFields \ {"rows"} : y.d[f][k] = x.d[f][k]

LEMMA EraseIs ==
  ASSUME NEW x, Kept(x), x.c.burnin = 0, x.c.file # None PROVE Erased(x, EraseData(x))
<1> DEFINE f == x.c.file
           r == x.d[f].rows
<1>0. /\ MemOK(x) /\ FileOK(x) /\ Shape(x) /\ f \in Files /\ IsRecord(x.d[f]) /\ r = FileRows(x)
  BY DEF Kept, FileBehind, FileOK, MemOK, IsFile, FileRows
<1>1. PICK a \in Nat, d \in Int : a = x.c.ffirst /\ d = x.c.fcur /\ a - 1 <= d
  BY <1>0 DEF FileOK
<1>2. r \in Seq(Nat) /\ Len(r) = d - a + 1  BY <1>0, <1>1, CountRows
<1>3. CASE d - a + 1 <= 0
  <2>1. EraseData(x) = x  BY <1>1, <1>3 DEF EraseData
  <2>2. d = a - 1 /\ d - a + 1 = 0  BY <1>1, <1>3
  <2>3. r = <<>>  BY <1>2, <2>2
  <2> QED  BY <1>0, <1>1, <2>1, <2>2, <2>3 DEF Erased, SameBut, SameFiles
<1>4. CASE ~ (d - a + 1 <= 0)
  <2> DEFINE left == DeleteRows(r, x.c.fcur - x.c.ffirst + 1)
             w == [x EXCEPT !.d[f].rows = left]
             y == [w EXCEPT !.c.fcur = a - 1]
  <2>1. EraseData(x) = y  BY <1>1, <1>4 DEF EraseData
  <2>2. left = <<>>
    <3>1. PICK n \in Nat : n = d - a + 1  BY <1>4
    <3>2. left = SubSeq(r, n + 1, n)  BY <1>1, <1>2, <3>1 DEF DeleteRows
    <3>3. SubSeq(r, n + 1, n) = <<>>  OBVIOUS
    <3> QED  BY <3>2, <3>3
  <2> HIDE DEF left
  <2>3. /\ Shape(w) /\ w.c = x.c /\ SameFiles(x, w, {f}) /\ IsRecord(w.d[f])
        /\ w.d[f].rows = <<>> /\ \A k \in FileFields \ {"rows"} : w.d[f][k] = x.d[f][k]
    BY <1>0, <2>2 DEF Shape, SameFiles, IsRecord, FileFields
  <2> HIDE DEF w
  <2>4. Shape(y) /\ y.d = w.d /\ y.c.fcur = a - 1 /\ SameBut(w, y, {"fcur"}) /\ y.c.ffirst = w.c.ffirst
    BY <2>3 DEF Shape, SameBut, CatalogFields
  <2> HIDE DEF y
  <2>5. SameBut(x, y, {"fcur"})  BY <2>3, <2>4 DEF SameBut
  <2>6. SameFiles(x, y, {f})  BY <2>3, <2>4 DEF SameFiles
  <2> QED  BY <1>1, <2>1, <2>3, <2>4, <2>5, <2>6 DEF Erased
<1> QED  BY <1>3, <1>4

(* The first ids stay together.                                            *)
LEMMA ErasedKept ==
  ASSUME NEW x, Kept(x), x.c.burnin = 0, x.c.file # None, NEW y, Erased(x, y)
  PROVE  /\ Kept(y) /\ y.c.file = x.c.file /\ y.c.burnin = 0
         /\ OneFile /\ Edited(x) => Edited(y)
<1> DEFINE f == x.c.file
<1>0. MemOK(x) /\ FileBehind(x) /\ FileOK(x) /\ f \in Files /\ IsFile(x.d[f]) /\ x.d[f] # None
  BY IsFileThere DEF Kept, FileBehind, FileOK
<1>1. /\ y.c.file = f /\ y.c.burnin = 0 /\ y.c.first = x.c.first /\ y.c.cur = x.c.cur
      /\ y.c.ffirst = x.c.ffirst /\ y.c.rng = x.c.rng /\ y.c.inis = x.c.inis
      /\ y.c.stats = x.c.stats /\ y.c.fcur = y.c.ffirst - 1
  BY DEF Erased, SameBut, CatalogFields
<1>2. /\ y.d[f].rows = <<>> /\ y.d[f].first = x.d[f].first /\ y.d[f].inis = x.d[f].inis
      /\ y.d[f].stat = x.d[f].stat /\ IsRecord(y.d[f]) /\ Shape(y) /\ SameFiles(x, y, {f})
  BY DEF Erased, FileFields
<1>3. MemRows(y) = MemRows(x) /\ FileRows(y) = <<>>  BY <1>1, <1>2 DEF MemRows, FileRows
<1>4. MemOK(y)  BY <1>0, <1>1, <1>2, <1>3 DEF MemOK
<1>5. IsFile(y.d[f])  BY <1>0, <1>2 DEF IsFile
<1>6. PICK a \in Nat, b \in Int : a = x.c.first /\ a = x.c.ffirst /\ b = x.c.cur /\ a - 1 <= b
  BY <1>0 DEF MemOK, FileBehind
<1>7. FileBehind(y)
  <2>1. Spans(FileRows(y), 0, a, a - 1)  BY <1>3 DEF Spans
  <2>2. y.c.ffirst = a /\ y.c.fcur = a - 1 /\ a - 1 \in Int /\ a - 1 <= a - 1  BY <1>1, <1>6
  <2>3. FileOK(y)  BY <1>0, <1>1, <1>2, <1>5, <2>1, <2>2 DEF FileOK
  <2> QED  BY <1>1, <1>6, <2>2, <2>3 DEF FileBehind
<1>8. AllFiles(y)
  <2> SUFFICES ASSUME NEW g \in Files PROVE y.d[g] = None \/ IsFile(y.d[g])  BY DEF AllFiles
  <2>1. CASE g = f  BY <1>5, <2>1
  <2>2. CASE g # f
    <3>1. y.d[g] = x.d[g]  BY <1>2, <2>2 DEF SameFiles
    <3> QED  BY <3>1 DEF Kept, AllFiles
  <2> QED  BY <2>1, <2>2
<1>9. Kept(y)  BY <1>0, <1>1, <1>4, <1>6, <1>7, <1>8 DEF Kept
<1>10. ASSUME OneFile, Edited(x) PROVE Edited(y)
  <2>1. DrawsInOrder(y)  BY <1>1, <1>3, <1>10 DEF Edited, DrawsInOrder
  <2>2. TableInOrder(y.d[f])  BY <1>2 DEF TableInOrder, InOrder
  <2>3. Begins(y, y.d[f])
    <3>1. Begins(x, x.d[f])  BY <1>0, <1>10 DEF Edited
    <3>2. Len(MemRows(x)) \in Nat  BY <1>0, CountRows
    <3>3. Len(y.d[f].rows) = 0 /\ 1..Len(y.d[f].rows) = {}  BY <1>2
    <3>4. Len(MemRows(y)) # 0 => y.d[f].first = y.c.first  BY <1>1, <1>2, <1>3, <3>1 DEF Begins
    <3>5. Len(y.d[f].rows) <= Len(MemRows(y))  BY <1>3, <3>2, <3>3
    <3>6. \A i \in 1..Len(y.d[f].rows) : y.d[f].rows[i] = MemRows(y)[i]  BY <3>3
    <3> QED  BY <3>4, <3>5, <3>6 DEF Begins
  <2>4. OneRng(y)  BY <1>1, <1>2, <1>10 DEF Edited, OneRng
  <2>5. \A g \in Files : g = f  BY <1>0, <1>10 DEF OneFile
  <2>6. Whole(y.c.stats, y.c.first)  BY <1>1, <1>10 DEF Edited
  <2> QED  BY <2>1, <2>2, <2>3, <2>4, <2>5, <2>6 DEF Edited
<1> QED  BY <1>1, <1>9, <1>10

(* w is x without its rows, closed.                                        *)
Emptied(x, w) ==
  /\ Kept(w) /\ w.c.file = None /\ w.c.burnin = 0 /\ IsEmpty(w.c)
  /\ w.c.first = x.c.first /\ w.c.rng = x.c.rng /\ w.c.inis = x.c.inis
  /\ x.c.file = None => w.c.fcur = w.c.cur
  /\ OneFile /\ Edited(x) => Edited(w)

(* ncm_mset_catalog_reset                                                  *)
LEMMA ResetOK ==
  ASSUME NEW x, Kept(x), x.c.burnin = 0 PROVE Emptied(x, Reset(x))
<1> DEFINE e == EraseData(x)
           z == [e EXCEPT !.c.stats = EmptyStats, !.c.cur = e.c.first - 1, !.c.fcur = e.c.ffirst - 1]
           w == Close(z)
<1>1. Reset(x) = w  BY DEF Reset
<1>2. /\ Kept(e) /\ e.c.file = x.c.file /\ e.c.burnin = 0
      /\ e.c.first = x.c.first /\ e.c.rng = x.c.rng /\ e.c.inis = x.c.inis
      /\ e.c.file # None => e.d[e.c.file].rows = <<>>
      /\ OneFile /\ Edited(x) => Edited(e)
  <2>1. CASE x.c.file = None
    <3>1. e = x  BY <2>1 DEF EraseData
    <3> QED  BY <2>1, <3>1
  <2>2. CASE x.c.file # None
    <3>1. Erased(x, e)  BY <2>2, EraseIs
    <3> HIDE DEF e
    <3>2. /\ Kept(e) /\ e.c.file = x.c.file /\ e.c.burnin = 0
          /\ OneFile /\ Edited(x) => Edited(e)
      BY <2>2, <3>1, ErasedKept
    <3>3. /\ e.c.first = x.c.first /\ e.c.rng = x.c.rng /\ e.c.inis = x.c.inis
          /\ e.d[e.c.file].rows = <<>>
      BY <3>1, <3>2 DEF Erased, SameBut, CatalogFields
    <3> QED  BY <3>2, <3>3
  <2> QED  BY <2>1, <2>2
<1> HIDE DEF e
<1>3. MemOK(e) /\ Shape(e) /\ e.c.ffirst = e.c.first  BY <1>2 DEF Kept, MemOK
<1>4. /\ Shape(z) /\ z.d = e.d /\ z.c.stats = EmptyStats /\ z.c.cur = e.c.first - 1
      /\ z.c.fcur = e.c.ffirst - 1 /\ SameBut(e, z, {"stats", "cur", "fcur"})
  BY <1>3 DEF Shape, SameBut, CatalogFields
<1> HIDE DEF z
<1>5. /\ z.c.file = x.c.file /\ z.c.burnin = 0 /\ z.c.first = x.c.first
      /\ z.c.ffirst = z.c.first /\ z.c.rng = x.c.rng /\ z.c.inis = x.c.inis
  BY <1>2, <1>3, <1>4 DEF SameBut, CatalogFields
<1>6. MemRows(z) = <<>>  BY <1>4 DEF MemRows, EmptyStats
<1>7. PICK a \in Nat : a = z.c.first /\ z.c.cur = a - 1 /\ z.c.fcur = a - 1
  BY <1>2, <1>3, <1>4, <1>5 DEF MemOK
<1>8. MemOK(z)
  <2>1. Spans(MemRows(z), 0, a, a - 1)  BY <1>6 DEF Spans
  <2>2. z.c.rng \in RngState /\ z.c.inis \in RngState /\ z.c.burnin \in Nat
    BY <1>2, <1>3, <1>5 DEF MemOK
  <2> QED  BY <1>4, <1>7, <2>1, <2>2 DEF MemOK
<1>9. ASSUME z.c.file # None PROVE FileBehind(z)
  <2>1. FileOK(e)  BY <1>2, <1>5, <1>9 DEF Kept, FileBehind
  <2>2. FileRows(z) = <<>>  BY <1>2, <1>4, <1>5, <1>9 DEF FileRows
  <2>3. Spans(FileRows(z), 0, a, a - 1)  BY <2>2 DEF Spans
  <2>4. z.c.ffirst = a /\ a - 1 <= a - 1 /\ a - 1 \in Int  BY <1>5, <1>7
  <2>5. z.d[z.c.file].first = a  BY <1>2, <1>3, <1>4, <1>5, <1>7, <2>1 DEF FileOK
  <2>6. z.c.file \in Files /\ IsFile(z.d[z.c.file])  BY <1>2, <1>4, <1>5, <2>1 DEF FileOK
  <2>7. FileOK(z)  BY <1>5, <1>7, <2>3, <2>4, <2>5, <2>6 DEF FileOK
  <2> QED  BY <1>5, <1>7, <2>4, <2>7 DEF FileBehind
<1>10. Kept(z)
  <2>1. AllFiles(z) /\ z.c.file \in Files \cup {None}  BY <1>2, <1>4, <1>5 DEF Kept, AllFiles
  <2> QED  BY <1>5, <1>8, <1>9, <2>1 DEF Kept
<1>11. ASSUME OneFile, Edited(x) PROVE Edited(z)
  <2>1. Edited(e)  BY <1>2, <1>11
  <2>2. DrawsInOrder(z)
    BY <1>2, <1>5, <1>6, <2>1 DEF Edited, DrawsInOrder, InOrder
  <2>3. \A g \in Files : z.d[g] # None => TableInOrder(z.d[g]) /\ Begins(z, z.d[g])
    BY <1>4, <1>6, <2>1 DEF Edited, Begins
  <2>4. OneRng(z)  BY <1>2, <1>4, <1>5, <2>1 DEF Edited, OneRng
  <2>5. Whole(z.c.stats, z.c.first)  BY <1>4, <1>8, WholeEmpty DEF MemOK
  <2> QED  BY <2>2, <2>3, <2>4, <2>5 DEF Edited
<1>12. Closed(z, w)  BY <1>10, CloseOK
<1>13. OneFile /\ Edited(x) => Edited(w)  BY <1>5, <1>10, <1>11, CloseEdited
<1>14. x.c.file = None => w.c.fcur = w.c.cur
  <2> SUFFICES ASSUME x.c.file = None PROVE w.c.fcur = w.c.cur  OBVIOUS
  <2>1. w = [z EXCEPT !.c.file = None]  BY <1>5 DEF Close, Sync
  <2> HIDE DEF w
  <2> QED  BY <1>4, <1>7, <2>1 DEF Shape, CatalogFields
<1> HIDE DEF w
<1>15. /\ w.c.burnin = 0 /\ w.c.first = x.c.first /\ w.c.cur = z.c.cur
       /\ w.c.rng = x.c.rng /\ w.c.inis = x.c.inis
  BY <1>5, <1>12 DEF Closed, SameBut, CatalogFields
<1>16. IsEmpty(w.c)  BY <1>5, <1>7, <1>15 DEF IsEmpty
<1> QED  BY <1>1, <1>12, <1>13, <1>14, <1>15, <1>16 DEF Closed, Emptied

(* A file that is not there can be opened with whatever is in memory.      *)
LEMMA CanSetNewFile ==
  ASSUME NEW u, Kept(u), u.c.file = None, u.c.burnin = 0, NEW f \in Files, u.d[f] = None
  PROVE  CanSetFile(u, f)
<1> DEFINE w == Close(u)
           z == CreateFile(w, f)
           v == SyncRng(z)
<1>1. Closed(u, w)  BY CloseOK
<1> HIDE DEF w
<1>2. Kept(w) /\ w.c.burnin = 0 /\ w.d[f] = None
  BY <1>1, NoneAssumption DEF Closed, SameBut, SameFiles, CatalogFields
<1>3. CanOpen(w, f) /\ Open(w, f) = v  BY <1>2 DEF CanOpen, Open
<1>4. MemOK(w) /\ w.c.first \in Nat  BY <1>2 DEF Kept, MemOK
<1>5. OpenedFile(w, f, z) /\ z.c.first = w.c.first
      /\ z.d[f] = [rows |-> <<>>, first |-> w.c.first, inis |-> None, stat |-> None]
  BY <1>2, <1>4, CreateFileOK
<1> HIDE DEF z
<1>6. MemOK(z) /\ FileOK(z) /\ z.c.file = f /\ z.c.burnin = 0
  BY <1>2, <1>5 DEF OpenedFile, SameBut, CatalogFields
<1>7. FileRows(z) = <<>> /\ z.c.ffirst = z.c.first
  BY <1>5, <1>6 DEF FileOK, FileRows
<1>8. PICK a \in Nat, b \in Int, d \in Int :
        /\ a = z.c.first /\ a = z.c.ffirst /\ b = z.c.cur /\ d = z.c.fcur
        /\ a - 1 <= b /\ d - a + 1 = 0
  <2>1. PICK a \in Nat, b \in Int, d \in Int :
          a = z.c.first /\ a = z.c.ffirst /\ b = z.c.cur /\ d = z.c.fcur /\ a - 1 <= b
    BY <1>6, <1>7 DEF MemOK, FileOK
  <2>2. Len(FileRows(z)) = d - a + 1  BY <1>6, <2>1, CountRows
  <2>3. d - a + 1 = 0  BY <1>7, <2>2
  <2> QED  BY <2>1, <2>3
<1>9. RngSynced(z, v)  BY <1>6, SyncRngOK
<1> HIDE DEF v
<1>10. v.c.first = a /\ v.c.ffirst = a /\ v.c.cur = b /\ v.c.fcur = d
  BY <1>8, <1>9 DEF RngSynced, SameBut, CatalogFields
<1>11. d >= a - 1 /\ b >= a - 1 /\ ~ (d > b)  BY <1>8
<1>12. Meet(v.c) /\ ~ (v.c.fcur > v.c.cur)  BY <1>10, <1>11 DEF Meet
<1>13. CanSync(v)  BY <1>12 DEF CanSync
<1> QED  BY <1>3, <1>13 DEF CanSetFile, w

(* What is left of the rows is added to the empty catalog, the file being  *)
(* out of the way.                                                         *)
Refilled(x, f, rows, u) ==
  /\ Kept(u) /\ u.c.file = None /\ u.c.burnin = 0 /\ u.d[f] = None
  /\ OneFile /\ Edited(x) /\ InOrder(rows, x.c.rng) /\ (Len(rows) # 0 => x.c.rng # None)
       => Edited(u)

LEMMA RefillOK ==
  ASSUME NEW x, Kept(x), x.c.file = None, x.c.burnin = 0, IsEmpty(x.c),
         NEW f \in Files, NEW rows \in Seq(Nat)
  PROVE  Refilled(x, f, rows, [PostUpdate(x, rows) EXCEPT !.d[f] = None])
<1> DEFINE w == PostUpdate(x, rows)
           u == [w EXCEPT !.d[f] = None]
           p == MemRows(x)
<1>0. MemOK(x) /\ Shape(x) /\ AllFiles(x) /\ x.c.ffirst = x.c.first  BY DEF Kept, MemOK
<1>1. /\ Shape(w) /\ w.d = x.d /\ SameBut(x, w, {"stats", "cur"})
      /\ MemRows(w) = p \o rows /\ w.c.cur = x.c.cur + Len(rows)
      /\ w.c.stats = AddRows(x.c.stats, x.c.cur + 1, rows)
  BY <1>0, PostUpdateIs DEF MemRows
<1> HIDE DEF w
<1>2. Shape(u) /\ u.c = w.c /\ u.d[f] = None /\ SameFiles(x, u, {f})
  BY <1>1 DEF Shape, SameFiles
<1> HIDE DEF u
<1>3. /\ u.c.first = x.c.first /\ u.c.cur = x.c.cur + Len(rows) /\ u.c.ffirst = x.c.ffirst
      /\ u.c.burnin = 0 /\ u.c.file = None /\ u.c.rng = x.c.rng /\ u.c.inis = x.c.inis
      /\ MemRows(u) = p \o rows /\ u.c.stats = AddRows(x.c.stats, x.c.cur + 1, rows)
  BY <1>1, <1>2 DEF SameBut, CatalogFields, MemRows
<1>4. p \in Seq(Nat) /\ Len(p) = x.c.cur - x.c.first + 1 /\ Len(p) = 0  BY <1>0, CountRows
<1>5. PICK a \in Nat, b \in Int : a = x.c.first /\ b = x.c.cur /\ b - a + 1 = 0
  BY <1>0, <1>4 DEF MemOK
<1>6. PICK n \in Nat : n = Len(rows)  OBVIOUS
<1>7. MemRows(u) \in Seq(Nat) /\ Len(MemRows(u)) = n /\ \A i \in 1..n : MemRows(u)[i] = rows[i]
  <2>1. /\ p \o rows \in Seq(Nat) /\ Len(p \o rows) = 0 + n
        /\ \A i \in 0 + 1..0 + n : (p \o rows)[i] = rows[i - 0]
    BY <1>4, <1>6, Joined
  <2>2. Len(p \o rows) = n /\ \A i \in 1..n : i \in 0 + 1..0 + n /\ i - 0 = i  BY <2>1
  <2> QED  BY <1>3, <2>1, <2>2
<1>8. MemOK(u)
  <2>1. u.c.first = a /\ u.c.cur = b + n  BY <1>3, <1>5, <1>6
  <2>n. b = a - 1  BY <1>5
  <2>m. PICK m \in Int : m = b + n  OBVIOUS
  <2>l. m - a + 1 = n /\ a - 1 <= m  BY <2>n, <2>m
  <2>2. n = 0 + (b + n - a + 1) /\ a - 1 <= b + n /\ b + n \in Int  BY <2>m, <2>l
  <2>3. Spans(MemRows(u), 0, u.c.first, u.c.cur)  BY <1>7, <2>1, <2>2 DEF Spans
  <2>4. u.c.burnin \in Nat /\ u.c.rng \in RngState /\ u.c.inis \in RngState
    BY <1>0, <1>3 DEF MemOK
  <2> QED  BY <1>2, <2>1, <2>2, <2>3, <2>4 DEF MemOK
<1>9. AllFiles(u)
  <2> SUFFICES ASSUME NEW g \in Files PROVE u.d[g] = None \/ IsFile(u.d[g])  BY DEF AllFiles
  <2>1. CASE g = f  BY <1>2, <2>1
  <2>2. CASE g # f  BY <1>0, <1>2, <2>2 DEF SameFiles, AllFiles
  <2> QED  BY <2>1, <2>2
<1>10. Kept(u)  BY <1>0, <1>3, <1>8, <1>9 DEF Kept
<1>11. ASSUME OneFile, Edited(x), InOrder(rows, x.c.rng), Len(rows) # 0 => x.c.rng # None
       PROVE  Edited(u)
  <2>1. x.c.rng # None => x.c.inis # None  BY <1>11 DEF Edited, DrawsInOrder
  <2>2. Len(rows) = Len(MemRows(u)) /\ \A i \in 1..Len(rows) : MemRows(u)[i] = rows[i]
    BY <1>6, <1>7
  <2>3. InOrder(MemRows(u), x.c.rng)  BY <1>11, <2>2, SameOrder
  <2>4. DrawsInOrder(u)  BY <1>3, <1>11, <2>1, <2>2, <2>3 DEF DrawsInOrder
  <2>5. \A g \in Files : g = f  BY <1>11 DEF OneFile
  <2>6. StaysWhole(x, u)  BY <1>0, <1>3, AddedStaysWhole
  <2>7. Whole(u.c.stats, u.c.first)  BY <1>11, <2>6 DEF Edited, StaysWhole
  <2> QED  BY <1>2, <1>3, <2>4, <2>5, <2>7 DEF Edited, OneRng
<1> QED  BY <1>2, <1>3, <1>10, <1>11 DEF Refilled, u, w

(* ... and written to a new one.                                           *)
Reloaded(x, f, rows, y) ==
  /\ Kept(y) /\ y.c.burnin = 0 /\ y.c.file = f
  /\ OneFile /\ Edited(x) /\ InOrder(rows, x.c.rng) /\ (Len(rows) # 0 => x.c.rng # None)
       => Edited(y)

LEMMA ReloadOK ==
  ASSUME NEW x, Kept(x), x.c.file = None, x.c.burnin = 0, IsEmpty(x.c),
         NEW f \in Files, NEW rows \in Seq(Nat)
  PROVE  Reloaded(x, f, rows, Reload(x, f, rows))
<1> DEFINE u == [PostUpdate(x, rows) EXCEPT !.d[f] = None]
<1>1. Refilled(x, f, rows, u)  BY RefillOK
<1>2. Reload(x, f, rows) = SetFile(u, f)  BY DEF Reload
<1> HIDE DEF u
<1>3. Kept(u) /\ u.c.file # f /\ u.c.burnin = 0 /\ CanSetFile(u, f)
  BY <1>1, CanSetNewFile, NoneAssumption DEF Refilled
<1>4. Kept(SetFile(u, f)) /\ SetFile(u, f).c.burnin = 0 /\ SetFile(u, f).c.file = f
  BY <1>3, SetFileOK
<1>5. OneFile /\ Edited(u) => Edited(SetFile(u, f))  BY <1>3, SetFileEdited
<1> QED  BY <1>1, <1>2, <1>4, <1>5 DEF Refilled, Reloaded

(* w is closed and empty, with the generator of x.                         *)
Bare(x, w) ==
  /\ Kept(w) /\ w.c.file = None /\ w.c.burnin = 0 /\ IsEmpty(w.c)
  /\ w.c.rng = x.c.rng
  /\ OneFile /\ Edited(x) => Edited(w)

(* How trim and remove_last_ensemble begin ...                             *)
LEMMA BareOK ==
  ASSUME NEW x, Kept(x), x.c.file # None, x.c.burnin = 0
  PROVE  LET w == Reset(SetFile(x, None)) IN Bare(x, w) /\ w.c.fcur = w.c.cur
<1> DEFINE v == SetFile(x, None)
           w == Reset(v)
<1>1. v = Close(x)  BY DEF SetFile
<1>2. Closed(x, v) /\ (OneFile /\ Edited(x) => Edited(v))  BY <1>1, CloseOK, CloseEdited
<1> HIDE DEF v
<1>3. Kept(v) /\ v.c.file = None /\ v.c.burnin = 0 /\ v.c.rng = x.c.rng
  BY <1>2 DEF Closed, SameBut, CatalogFields
<1>4. Emptied(v, w)  BY <1>3, ResetOK
<1> HIDE DEF w
<1>5. Bare(x, w) /\ w.c.fcur = w.c.cur  BY <1>2, <1>3, <1>4 DEF Emptied, Bare
<1> QED  BY <1>5 DEF w, v

(* ... and how they end.                                                   *)
LEMMA ReloadCut ==
  ASSUME NEW x, Kept(x), x.c.file # None, NEW w, Bare(x, w),
         NEW m \in Nat \ {0}, NEW n \in Int, n <= Len(MemRows(x))
  PROVE  LET y == Reload(w, x.c.file, SubSeq(MemRows(x), m, n))
         IN  /\ Kept(y) /\ y.c.burnin = 0
             /\ OneFile /\ Edited(x) => Edited(y)
<1> DEFINE p == MemRows(x)
           q == SubSeq(p, m, n)
           f == x.c.file
           y == Reload(w, f, q)
<1>1. p \in Seq(Nat) /\ f \in Files  BY CountRows DEF Kept
<1>2. q \in Seq(Nat)
  <2>1. CASE m <= n
    <3>1. n \in Nat /\ m <= n + 1 /\ m > 0 /\ m \in Nat  BY <2>1
    <3> QED  BY <1>1, <3>1, Cut
  <2>2. CASE ~ (m <= n)
    <3>1. q = <<>>  BY <2>2
    <3> QED  BY <3>1
  <2> QED  BY <2>1, <2>2
<1>3. \A k : InOrder(p, k) => InOrder(q, k) /\ (Len(q) # 0 => Len(p) # 0)
  BY <1>1, CutInOrder
<1> HIDE DEF q, p
<1>4. Reloaded(w, f, q, y)  BY <1>1, <1>2, ReloadOK DEF Bare
<1> HIDE DEF y
<1>5. ASSUME OneFile, Edited(x) PROVE Edited(y)
  <2>1. InOrder(p, x.c.rng) /\ (Len(p) # 0 => x.c.rng # None)
    BY <1>5 DEF Edited, DrawsInOrder, p
  <2>2. InOrder(q, w.c.rng) /\ (Len(q) # 0 => w.c.rng # None)
    BY <1>3, <2>1 DEF Bare
  <2> QED  BY <1>4, <1>5, <2>2 DEF Reloaded, Bare
<1> QED  BY <1>4, <1>5 DEF Reloaded, y, q, p

(* The empty catalog of a trim moves to another first id.                  *)
LEMMA BareMoves ==
  ASSUME NEW x, NEW w, Bare(x, w), w.c.fcur = w.c.cur, NEW id \in Nat, id # w.c.first
  PROVE  Bare(x, SetFirstId(w, id))
<1> DEFINE y == SetFirstId(w, id)
<1>0. MemOK(w) /\ Shape(w) /\ w.c.ffirst = w.c.first  BY DEF Bare, Kept, MemOK
<1>1. CanSetFirstId(w, id)  BY <1>0 DEF CanSetFirstId, Bare
<1>2. Kept(y) /\ y.c.burnin = 0 /\ y.c.file = None  BY <1>1, SetFirstIdOK DEF Bare
<1>3. y = [w EXCEPT !.c.first = id, !.c.cur = id - 1, !.c.ffirst = id, !.c.fcur = id - 1]
  <2> DEFINE z == [w EXCEPT !.c.first = id, !.c.cur = id - 1, !.c.ffirst = id, !.c.fcur = id - 1]
  <2>1. y = IF z.c.file = None THEN z ELSE Sync([z EXCEPT !.d[z.c.file].first = id])
    BY DEF SetFirstId
  <2>2. z.c.file = None  BY <1>0 DEF Bare, Shape, CatalogFields
  <2> HIDE DEF y, z
  <2>3. y = z  BY <2>1, <2>2
  <2> QED  BY <2>3 DEF z
<1> HIDE DEF y
<1>4. /\ y.d = w.d /\ y.c.first = id /\ y.c.cur = id - 1
      /\ y.c.rng = w.c.rng /\ y.c.inis = w.c.inis /\ y.c.stats = w.c.stats
  BY <1>0, <1>3 DEF Shape, CatalogFields
<1>5. IsEmpty(y.c)  BY <1>4 DEF IsEmpty
<1>6. ASSUME OneFile, Edited(x) PROVE Edited(y)
  <2>1. Edited(w)  BY <1>6 DEF Bare
  <2>2. MemRows(y) = MemRows(w) /\ Len(MemRows(w)) = 0
    BY <1>0, <1>4, CountRows DEF MemRows, Bare
  <2>3. DrawsInOrder(y)  BY <1>4, <2>1, <2>2 DEF Edited, DrawsInOrder
  <2>4. \A g \in Files : y.d[g] # None => TableInOrder(y.d[g]) /\ Begins(y, y.d[g])
    BY <1>4, <2>1, <2>2 DEF Edited, Begins
  <2>5. OneRng(y)  BY <1>2 DEF OneRng
  <2>6. Whole(y.c.stats, y.c.first)
    <3>1. Whole(w.c.stats, w.c.first) /\ w.c.first \in Nat  BY <1>0, <2>1 DEF Edited, MemOK
    <3>2. Len(w.c.stats.pstats) = 0  BY <2>2 DEF MemRows
    <3> QED  BY <1>4, <3>1, <3>2, WholeMoves
  <2> QED  BY <2>3, <2>4, <2>5, <2>6 DEF Edited
<1> QED  BY <1>2, <1>4, <1>5, <1>6 DEF Bare, y

(* ncm_mset_catalog_trim                                                   *)
LEMMA TrimOK ==
  ASSUME NEW x, Kept(x), x.c.file # None, x.c.burnin = 0, NEW tc \in Nat \ {0}
  PROVE  LET y == Trim(x, tc)
         IN  /\ Kept(y) /\ y.c.burnin = 0
             /\ OneFile /\ Edited(x) => Edited(y)
<1> DEFINE from == tc * NChains
           w == Reset(SetFile(x, None))
           id == w.c.first + from
           v == SetFirstId(w, id)
           p == MemRows(x)
<1>1. Trim(x, tc) = Reload(v, x.c.file, SubSeq(p, from + 1, Len(p)))  BY DEF Trim, MemRows
<1>2. Bare(x, w) /\ w.c.fcur = w.c.cur  BY BareOK
<1> HIDE DEF w
<1>3. from \in Nat /\ from > 0  BY NChainsAssumption
<1> HIDE DEF from
<1>4. w.c.first \in Nat  BY <1>2 DEF Bare, Kept, MemOK
<1>5. id \in Nat /\ id # w.c.first  BY <1>3, <1>4
<1>6. Bare(x, v)  BY <1>2, <1>5, BareMoves
<1> HIDE DEF v
<1>7. p \in Seq(Nat)  BY CountRows DEF Kept
<1>8. Len(p) \in Nat  BY <1>7
<1>9. from + 1 \in Nat \ {0} /\ Len(p) \in Int /\ Len(p) <= Len(p)  BY <1>3, <1>8
<1> QED  BY <1>1, <1>6, <1>9, ReloadCut

(* ncm_mset_catalog_remove_last_ensemble                                   *)
LEMMA RemoveLastOK ==
  ASSUME NEW x, Kept(x), x.c.file # None, x.c.burnin = 0
  PROVE  LET y == RemoveLastEnsemble(x)
         IN  /\ Kept(y) /\ y.c.burnin = 0
             /\ OneFile /\ Edited(x) => Edited(y)
<1> DEFINE p == MemRows(x)
           rest == Len(p) % NChains
           n == IF rest = 0 THEN NChains ELSE rest
           w == Reset(SetFile(x, None))
<1>1. RemoveLastEnsemble(x) = Reload(w, x.c.file, SubSeq(p, 1, Len(p) - n))
  BY DEF RemoveLastEnsemble, MemRows
<1>2. Bare(x, w)  BY BareOK
<1> HIDE DEF w
<1>3. p \in Seq(Nat)  BY CountRows DEF Kept
<1>4. Len(p) \in Nat  BY <1>3
<1>5. rest \in Nat  BY <1>4, NChainsAssumption
<1>6. n \in Nat  BY <1>5, NChainsAssumption
<1> HIDE DEF n
<1>7. Len(p) - n \in Int /\ Len(p) - n <= Len(p) /\ 1 \in Nat \ {0}  BY <1>4, <1>6
<1> QED  BY <1>1, <1>2, <1>7, ReloadCut

(* The invariant after a call.                                             *)
LEMMA EditCall ==
  ASSUME EditIInv, NEW y, Becomes(y), Kept(y), y.c.burnin = 0, OneFile /\ Edited(Now) => Edited(y)
  PROVE  EditIInv'
<1> DEFINE z == [c |-> y.c, d |-> y.d]
<1>1. Now' = z /\ Kept(Now') /\ mcat'.burnin = 0  BY AfterIs DEF Now, Becomes
<1>2. z.c = y.c /\ z.d = y.d  OBVIOUS
<1> HIDE DEF z
<1>3. OneFile => Edited(z)  BY <1>2, EditedStays DEF EditIInv
<1> QED  BY <1>1, <1>3 DEF EditIInv

(* A process starts with nothing, and with the files it finds.             *)
LEMMA NewEdited ==
  ASSUME NEW x, x.c = NewCatalog, \A g \in Files : x.d[g] # None => TableInOrder(x.d[g])
  PROVE  Edited(x)
<1>1. x.c.stats.pstats = <<>> /\ x.c.file = None /\ x.c.rng = None
  BY DEF NewCatalog, EmptyStats
<1>2. MemRows(x) = <<>>  BY <1>1 DEF MemRows
<1>3. Whole(x.c.stats, x.c.first)
  <2>1. x.c.stats = EmptyStats /\ x.c.first = 0  BY DEF NewCatalog
  <2> QED  BY <2>1, WholeEmpty
<1> QED  BY <1>1, <1>2, <1>3 DEF Edited, DrawsInOrder, InOrder, Begins, OneRng

LEMMA EditInit == ASSUME Init PROVE EditIInv
<1> DEFINE d == [f \in Files |-> None]
           x == [c |-> NewCatalog, d |-> d]
<1>1. Now = x /\ mcat = NewCatalog  BY DEF Init, Now
<1>2. d = [g \in Files |-> d[g]] /\ \A g \in Files : d[g] = None  OBVIOUS
<1>3. Kept(x) /\ x.c.burnin = 0  BY <1>2, NewOK
<1>4. Edited(x)
  <2>1. x.c = NewCatalog /\ x.d = d  OBVIOUS
  <2> HIDE DEF x, d
  <2> QED  BY <1>2, <2>1, NewEdited
<1>5. x.c = mcat  BY <1>1
<1> QED  BY <1>1, <1>3, <1>4, <1>5 DEF EditIInv

(* A row is added with the file open.                                      *)
LEMMA AddEdits == ASSUME EditIInv, mcat.file # None, CallAdd PROVE EditIInv'
<1> DEFINE z == PostUpdate([Now EXCEPT !.c.rng = @ + 1], <<Now.c.rng + 1>>)
           y == Sync(z)
<1>1. Now.c = mcat  BY DEF Now
<1>2. Kept(Now) /\ Now.c.burnin = 0 /\ Now.c.file # None  BY <1>1 DEF EditIInv
<1>3. Now.c.rng # None /\ (Becomes(z) \/ Becomes(y))  BY <1>1 DEF CallAdd
<1>4. /\ Kept(z) /\ z.c.burnin = 0
      /\ OneFile /\ Edited(Now) => Edited(z)
  BY <1>2, <1>3, AddOK, AddEdited
<1> HIDE DEF z
<1>5. /\ Kept(y) /\ y.c.burnin = 0
      /\ OneFile /\ Edited(Now) => Edited(y)
  <2>1. Kept(y) /\ SameBut(z, y, {"fcur"})  BY <1>4, SyncKeeps
  <2>2. OneFile /\ Edited(z) => Edited(y)  BY <1>4, SyncKeepsEdited
  <2> HIDE DEF y
  <2> QED  BY <1>4, <2>1, <2>2 DEF SameBut, CatalogFields
<1> HIDE DEF y
<1>6. CASE Becomes(z)  BY <1>4, <1>6, EditCall
<1>7. CASE Becomes(y)  BY <1>5, <1>7, EditCall
<1> QED  BY <1>3, <1>6, <1>7

(* The calls of the life of a run.                                         *)
LEMMA LifeEdits == ASSUME EditIInv, Life(Files, mcat.file # None) PROVE EditIInv'
<1>0. Now.c = mcat /\ Now.d = disk /\ Kept(Now) /\ Now.c.burnin = 0 /\ (OneFile => Edited(Now))
  BY DEF Now, EditIInv
<1>1. ASSUME NEW f \in Files \cup {None}, CallSetFile(f) PROVE EditIInv'
  <2> DEFINE y == SetFile(Now, f)
  <2>1. Now.c.file # f /\ CanSetFile(Now, f) /\ Becomes(y)  BY <1>0, <1>1 DEF CallSetFile
  <2>2. Kept(y) /\ y.c.burnin = 0 /\ (OneFile /\ Edited(Now) => Edited(y))
    BY <1>0, <2>1, SetFileOK, SetFileEdited
  <2> HIDE DEF y
  <2> QED  BY <2>1, <2>2, EditCall
<1>2. ASSUME CallSetRng PROVE EditIInv'
  <2> DEFINE z == [Now EXCEPT !.c.rng = 0, !.c.inis = 0]
             y == IF Now.c.file = None THEN z ELSE SyncRng(z)
  <2>1. Now.c.rng = None /\ IsEmpty(Now.c) /\ Becomes(y)  BY <1>0, <1>2 DEF CallSetRng
  <2>2. Kept(y) /\ y.c.burnin = 0 /\ (OneFile /\ Edited(Now) => Edited(y))
    BY <1>0, <2>1, SetRngOK, SetRngEdited
  <2> HIDE DEF y
  <2> QED  BY <2>1, <2>2, EditCall
<1>3. ASSUME CallSync PROVE EditIInv'
  <2> DEFINE y == Sync(Now)
  <2>1. Becomes(y)  BY <1>3 DEF CallSync
  <2>2. Kept(y) /\ SameBut(Now, y, {"fcur"}) /\ (OneFile /\ Edited(Now) => Edited(y))
    BY <1>0, SyncKeeps, SyncKeepsEdited
  <2> HIDE DEF y
  <2>3. y.c.burnin = 0  BY <1>0, <2>2 DEF SameBut, CatalogFields
  <2> QED  BY <2>1, <2>2, <2>3, EditCall
<1>4. ASSUME Restart PROVE EditIInv'
  <2>1. Kept(Now') /\ mcat'.burnin = 0  BY <1>0, <1>4, RestartStep
  <2>2. OneFile => Edited(Now')
    <3>1. Now'.c = NewCatalog /\ Now'.d = disk  BY <1>4 DEF Restart, Now
    <3>2. OneFile => \A g \in Files : disk[g] # None => TableInOrder(disk[g])
      BY <1>0 DEF Edited
    <3> QED  BY <3>1, <3>2, NewEdited
  <2> QED  BY <2>1, <2>2 DEF EditIInv
<1>5. ASSUME NEW m, CallSetSyncMode(m) PROVE EditIInv'
  <2>1. Kept(Now') /\ mcat'.burnin = 0  BY <1>0, <1>5, SyncModeStep DEF KeptStep
  <2>2. OneFile => Edited(Now')
    <3> DEFINE y == Now'
    <3>1. Shape(Now)  BY <1>0 DEF Kept, MemOK
    <3>2. y.c = [mcat EXCEPT !.smode = m] /\ y.d = disk  BY <1>5 DEF CallSetSyncMode, Now
    <3> HIDE DEF y
    <3>3. /\ y.c.stats = Now.c.stats /\ y.c.rng = Now.c.rng /\ y.c.inis = Now.c.inis
          /\ y.c.first = Now.c.first /\ y.c.file = Now.c.file /\ y.d = Now.d
      BY <1>0, <3>1, <3>2 DEF Shape, CatalogFields
    <3>4. OneFile => Edited(y)  BY <1>0, <3>3, EditedStays
    <3> QED  BY <3>4 DEF y
  <2> QED  BY <2>1, <2>2 DEF EditIInv
<1>6. ASSUME mcat.file # None, CallAdd PROVE EditIInv'  BY <1>6, AddEdits
<1> QED  BY <1>1, <1>2, <1>3, <1>4, <1>5, <1>6 DEF Life

(* Those that drop rows.                                                   *)
LEMMA DropEdits ==
  ASSUME EditIInv,
         \/ CallReset \/ CallEraseData \/ CallRemoveLastEnsemble
         \/ \E tc \in 1..MaxLength : CallTrim(tc)
  PROVE  EditIInv'
<1>0. Now.c = mcat /\ Kept(Now) /\ Now.c.burnin = 0  BY DEF Now, EditIInv
<1>1. ASSUME CallReset PROVE EditIInv'
  <2>1. Emptied(Now, Reset(Now)) /\ Becomes(Reset(Now))  BY <1>0, <1>1, ResetOK DEF CallReset
  <2> QED  BY <2>1, EditCall DEF Emptied
<1>2. ASSUME CallEraseData PROVE EditIInv'
  <2>1. Now.c.file # None /\ Becomes(EraseData(Now))  BY <1>0, <1>2 DEF CallEraseData
  <2>2. Erased(Now, EraseData(Now))  BY <1>0, <2>1, EraseIs
  <2> QED  BY <1>0, <2>1, <2>2, ErasedKept, EditCall
<1>3. ASSUME CallRemoveLastEnsemble PROVE EditIInv'
  <2>1. Now.c.file # None /\ Becomes(RemoveLastEnsemble(Now))
    BY <1>0, <1>3 DEF CallRemoveLastEnsemble
  <2> QED  BY <1>0, <2>1, RemoveLastOK, EditCall
<1>4. ASSUME NEW tc \in 1..MaxLength, CallTrim(tc) PROVE EditIInv'
  <2>1. Now.c.file # None /\ Becomes(Trim(Now, tc))  BY <1>0, <1>4 DEF CallTrim
  <2>2. tc \in Nat \ {0}  BY BoundsAssumption
  <2> QED  BY <1>0, <2>1, <2>2, TrimOK, EditCall
<1> QED  BY <1>1, <1>2, <1>3, <1>4

(* Whatever rows are dropped, memory and the open file never come apart;   *)
(* with one file, both have the draws in order (ncm_mset_catalog_reset,    *)
(* erase_data, trim and remove_last_ensemble besides the calls of a run).  *)
THEOREM EditInvariant == EditSpec => []EditIInv
<1>1. Init => EditIInv  BY EditInit
<1>2. EditIInv /\ [EditNext]_vars => EditIInv'
  <2> SUFFICES ASSUME EditIInv, [EditNext]_vars PROVE EditIInv'  OBVIOUS
  <2>1. CASE UNCHANGED vars
    <3>1. mcat' = mcat /\ disk' = disk /\ Now' = Now  BY <2>1 DEF vars, Now
    <3> QED  BY <3>1 DEF EditIInv
  <2>2. CASE Life(Files, mcat.file # None)  BY <2>2, LifeEdits
  <2>3. CASE \/ CallReset \/ CallEraseData \/ CallRemoveLastEnsemble
             \/ \E tc \in 1..MaxLength : CallTrim(tc)
    BY <2>3, DropEdits
  <2> QED  BY <2>1, <2>2, <2>3 DEF EditNext
<1> QED  BY <1>1, <1>2, PTL DEF EditSpec

(* Resetting, erasing, trimming and removing the last ensemble leave the   *)
(* ids those of the rows there are, on any number of files                 *)
(* (ncm_mset_catalog_reset, erase_data, trim, remove_last_ensemble).       *)
THEOREM EditedIdsMatch == EditSpec => []IdsMatch
<1>1. EditIInv => IdsMatch  BY KeptMatch DEF EditIInv
<1> QED  BY <1>1, EditInvariant, PTL

(* ... and no sync, nor the ones those calls end with, can abort.          *)
THEOREM EditedSyncs == EditSpec => []SyncCannotFail
<1>1. EditIInv => SyncCannotFail  BY KeptSyncs DEF EditIInv
<1> QED  BY <1>1, EditInvariant, PTL

(* A catalog that has one file, whatever rows are dropped from it: a row   *)
(* that memory and the open file both have is the same in both.            *)
THEOREM EditedRowsAgree ==
  ASSUME OneFile PROVE EditSpec => []RowsAgree
<1>1. EditIInv => RowsAgree
  <2> SUFFICES ASSUME Kept(Now), mcat.burnin = 0, Edited(Now), Opened,
                      NEW id \in (mcat.first..mcat.cur) \cap (mcat.ffirst..mcat.fcur)
               PROVE  OpenRows[mcat.burnin + id - mcat.ffirst + 1]
                        = mcat.stats.pstats[id - mcat.first + 1]
    BY DEF EditIInv, RowsAgree
  <2>0. Now.c = mcat /\ Now.d = disk  BY DEF Now
  <2>1. MemOK(Now) /\ FileOK(Now) /\ disk[mcat.file] # None /\ mcat.file \in Files
        /\ mcat.ffirst = mcat.first
    BY <2>0, IsFileThere DEF Kept, FileBehind, FileOK, Opened
  <2>2. PICK a \in Nat, b \in Int, d \in Int :
          a = mcat.first /\ a = mcat.ffirst /\ b = mcat.cur /\ d = mcat.fcur
    BY <2>0, <2>1 DEF MemOK, FileOK
  <2>3. Len(mcat.stats.pstats) = b - a + 1 /\ Len(OpenRows) = d - a + 1
    BY <2>0, <2>1, <2>2, CountRows DEF MemRows, FileRows, OpenRows
  <2>4. PICK i \in Int : i = id - a + 1  BY <2>2
  <2>5. i \in 1..b - a + 1 /\ i \in 1..d - a + 1 /\ 0 + id - a + 1 = i
    BY <2>2, <2>4
  <2>6. b - a + 1 # 0  BY <2>2, <2>5
  <2>7. Begins(Now, disk[mcat.file])  BY <2>0, <2>1 DEF Edited
  <2>8. OpenRows[i] = mcat.stats.pstats[i]
    BY <2>0, <2>3, <2>5, <2>6, <2>7 DEF Begins, MemRows, OpenRows
  <2>9. mcat.burnin + id - mcat.ffirst + 1 = i /\ id - mcat.first + 1 = i
    BY <2>2, <2>4, <2>5
  <2> QED  BY <2>8, <2>9
<1> QED  BY <1>1, EditInvariant, PTL

(* ... and no draw is recorded twice, in memory or in the file, and order  *)
(* is kept ("this object also guarantees the order of the samples added",  *)
(* ncm_mset_catalog.c:37).                                                 *)
THEOREM EditedInOrder ==
  ASSUME OneFile PROVE EditSpec => []NoRowTwice
<1>1. EditIInv => NoRowTwice
  <2> SUFFICES ASSUME Edited(Now) PROVE NoRowTwice  BY DEF EditIInv
  <2>1. Now.c = mcat /\ Now.d = disk  BY DEF Now
  <2> QED  BY <2>1 DEF Edited, DrawsInOrder, TableInOrder, NoRowTwice, MemRows
<1> QED  BY <1>1, EditInvariant, PTL

(* ... and, no file having rows before those in memory, the chain of a     *)
(* walker is its rows in the order of their ids: dropping rows and adding  *)
(* the others again does not change an order, as prepending does.          *)
THEOREM EditedChains ==
  ASSUME OneFile PROVE EditSpec => []ChainsFollowIds
<1>1. EditIInv => ChainsFollowIds
  <2> SUFFICES ASSUME Edited(Now) PROVE ChainsFollowIds  BY DEF EditIInv
  <2>1. Now.c = mcat  BY DEF Now
  <2>2. Whole(mcat.stats, mcat.first)  BY <2>1 DEF Edited
  <2> QED  BY <2>2, WholeIs DEF ChainsFollowIds
<1> QED  BY <1>1, EditInvariant, PTL

(* ... and every row is in one ensemble, in order, closed or still filled  *)
(* (e_mean_stats and e_stats of _ncm_mset_catalog_post_update), wherever   *)
(* ensembles are closed: that is one row early (ncm_mset_catalog.c:2252).  *)
THEOREM EditedEnsembles ==
  ASSUME OneFile PROVE EditSpec => []EnsemblesHoldRows
<1>1. EditIInv => EnsemblesHoldRows
  <2> SUFFICES ASSUME Edited(Now) PROVE EnsemblesHoldRows  BY DEF EditIInv
  <2>1. Now.c = mcat  BY DEF Now
  <2>2. Whole(mcat.stats, mcat.first)  BY <2>1 DEF Edited
  <2> QED  BY <2>2, WholeIs DEF EnsemblesHoldRows
<1> QED  BY <1>1, EditInvariant, PTL
=============================================================================
