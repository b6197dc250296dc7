----------------------------- MODULE MSetCatalog -----------------------------
(***************************************************************************)
(* NcmMSetCatalog (numcosmo/math/ncm_mset_catalog.c): the rows a Monte     *)
(* Carlo or an MCMC run produces, kept in memory and in a FITS file that   *)
(* are brought together by ncm_mset_catalog_sync.  Each side covers a      *)
(* range of row ids, [first, cur] in memory and [ffirst, fcur] in the      *)
(* file; sync copies to each side the rows only the other one has.  With   *)
(* the rows the file keeps the random generator, its state before the      *)
(* first row (INIS) and at the last sync that added rows (STAT), so that   *)
(* another process can open the file and go on.                            *)
(*                                                                         *)
(* A row is the number of the draw it was computed from, and the state of  *)
(* the generator the number of draws made: all processes use one seed, and *)
(* the row of a draw is a function of the draw.  The program draws and     *)
(* adds one row at a time, which is what NcmFitMC does on a single thread. *)
(* A process may die between two calls; what reached the file stays.       *)
(***************************************************************************)
EXTENDS CatalogStats

CONSTANTS
  Files,      \* names of catalog files
  None,       \* no file name, no generator, no key in a file, no such file
  MaxDraw,    \* bound: draws made by one process
  MaxLength   \* bound: rows in memory

(* What a file is made of, rows that were inserted and not written too.    *)
FileRecord == [rows : Seq(Nat), first : Nat, inis : Nat \cup {None}, stat : Nat \cup {None}]

ASSUME NoneAssumption == None \notin Files \cup Nat \cup FileRecord
ASSUME BoundsAssumption == MaxDraw \in Nat /\ MaxLength \in Nat

VARIABLES
  mcat,  \* the catalog object of the running process
  disk   \* the content of each file, None where there is no such file

vars == <<mcat, disk>>

Blank == 0  \* what fits_insert_rows puts in a row
Row == Nat \ {Blank}
RngState == Nat \cup {None}

SyncMode == {"disable", "auto", "timed"}

Catalog ==
  [ stats : [ pstats : Seq(Row), chains : [Chains -> Seq(Row)],
              eStats : Seq(Row), eMean : Seq(Seq(Row)) ],
    first : Nat, cur : Int,      \* first_id, cur_id
    ffirst : Nat, fcur : Int,    \* file_first_id, file_cur_id
    burnin : Nat,
    file : Files \cup {None},    \* the file name; fptr is open iff there is one
    rng : RngState, inis : RngState,
    smode : SyncMode ]

FitsFile == [rows : Seq(Row), first : Nat, inis : RngState, stat : RngState]

(* Rows that were inserted have been written.                              *)
TypeOK ==
  /\ mcat \in Catalog
  /\ disk \in [Files -> FitsFile \cup {None}]

(* ncm_mset_catalog_init and the construction without a file.              *)
NewCatalog ==
  [ stats |-> EmptyStats, first |-> 0, cur |-> -1, ffirst |-> 0, fcur |-> -1,
    burnin |-> 0, file |-> None, rng |-> None, inis |-> None, smode |-> "auto" ]

Init == mcat = NewCatalog /\ disk = [f \in Files |-> None]

(* The functions of the code are operators on the pair of the object and   *)
(* the files: x.c is the catalog and x.d the disk.                         *)
Now == [c |-> mcat, d |-> disk]
Becomes(x) == mcat' = x.c /\ disk' = x.d

-----------------------------------------------------------------------------
(* Rows of the table: cfitsio                                              *)

InsertRows(rows, after, n) ==
  SubSeq(rows, 1, after) \o [i \in 1..n |-> Blank] \o SubSeq(rows, after + 1, Len(rows))

(* Writing past the end of the table extends it.                           *)
WriteRows(rows, at, new) ==
  LET end == at + Len(new)
  IN  [i \in 1..(IF Len(rows) > end THEN Len(rows) ELSE end) |->
         IF i > at /\ i <= end THEN new[i - at]
         ELSE IF i <= Len(rows) THEN rows[i]
         ELSE Blank]

DeleteRows(rows, n) == SubSeq(rows, n + 1, Len(rows))

(* write_row and read_row count from the end of the burn-in.               *)
WriteFile(x, at, new) ==
  [x EXCEPT !.d[x.c.file].rows = WriteRows(@, at + x.c.burnin, new)]

ReadFile(x, from, n) ==
  LET rows == x.d[x.c.file].rows IN [i \in 1..n |-> rows[x.c.burnin + from + i - 1]]

-----------------------------------------------------------------------------
(* post_update without the sync that may follow it                         *)

PostUpdate(x, rows) ==
  [x EXCEPT !.c.stats = AddRows(@, x.c.cur + 1, rows),
            !.c.cur = @ + Len(rows)]

IsEmpty(c) == c.cur < c.first

-----------------------------------------------------------------------------
(* ncm_mset_catalog_sync                                                   *)

(* The check of the ids: the two ranges meet or touch.                     *)
Meet(c) == c.fcur >= c.first - 1 /\ c.cur >= c.ffirst - 1

(* Rows in memory that precede those of the file.                          *)
PutFirst(x) ==
  LET n == x.c.ffirst - x.c.first
      f == x.c.file
      room == [x EXCEPT !.d[f].rows = InsertRows(@, 0, n)]
  IN  [WriteFile(room, 0, SubSeq(x.c.stats.pstats, 1, n)) EXCEPT
         !.c.ffirst = x.c.first,
         !.d[f].first = x.c.first,
         !.d[f].inis = IF x.c.rng = None THEN @ ELSE x.c.inis]

(* Rows of the file that precede those in memory.                          *)
GetFirst(x) ==
  LET n == x.c.first - x.c.ffirst
  IN  [x EXCEPT !.c.stats = PrependRows(@, x.c.ffirst, ReadFile(x, 1, n)),
                !.c.first = x.c.ffirst,
                !.c.inis = IF x.c.rng = None THEN @ ELSE x.d[x.c.file].inis]

(* Mutant of PutLast: the first rows in memory are written again.          *)
PutLastFromStart(x) ==
  LET n == x.c.cur - x.c.fcur
      f == x.c.file
      offset == x.c.fcur + 1 - x.c.ffirst
      room == [x EXCEPT !.d[f].rows = InsertRows(@, offset, n)]
  IN  [WriteFile(room, offset, SubSeq(x.c.stats.pstats, 1, n)) EXCEPT
         !.c.fcur = x.c.cur,
         !.d[f].stat = IF x.c.rng = None THEN @ ELSE x.c.rng]

(* Mutant of PutLast: rows are counted from one when they are written.     *)
PutLastShifted(x) ==
  LET n == x.c.cur - x.c.fcur
      f == x.c.file
      offset == x.c.fcur + 1 - x.c.ffirst
      room == [x EXCEPT !.d[f].rows = InsertRows(@, offset, n)]
  IN  [WriteFile(room, offset + 1, SubSeq(x.c.stats.pstats, offset + 1, offset + n)) EXCEPT
         !.c.fcur = x.c.cur,
         !.d[f].stat = IF x.c.rng = None THEN @ ELSE x.c.rng]

(* Rows in memory that follow those of the file, and the generator.        *)
PutLast(x) ==
  LET n == x.c.cur - x.c.fcur
      f == x.c.file
      offset == x.c.fcur + 1 - x.c.ffirst
      room == [x EXCEPT !.d[f].rows = InsertRows(@, offset, n)]
  IN  [WriteFile(room, offset, SubSeq(x.c.stats.pstats, offset + 1, offset + n)) EXCEPT
         !.c.fcur = x.c.cur,
         !.d[f].stat = IF x.c.rng = None THEN @ ELSE x.c.rng]

(* Mutant of GetLast: the generator is left where it was.                  *)
GetLastNoState(x) ==
  LET n == x.c.fcur - x.c.cur
      offset == x.c.cur + 1 - x.c.first
  IN  PostUpdate(x, ReadFile(x, offset + 1, n))

(* Rows of the file that follow those in memory, and the generator.        *)
GetLast(x) ==
  LET n == x.c.fcur - x.c.cur
      offset == x.c.cur + 1 - x.c.first
  IN  [PostUpdate(x, ReadFile(x, offset + 1, n)) EXCEPT
         !.c.rng = IF @ = None THEN @ ELSE x.d[x.c.file].stat]

SyncFirst(x) ==
  IF x.c.ffirst > x.c.first THEN PutFirst(x)
  ELSE IF x.c.ffirst < x.c.first THEN GetFirst(x)
  ELSE x

SyncLast(x) ==
  IF x.c.fcur < x.c.cur THEN PutLast(x)
  ELSE IF x.c.fcur > x.c.cur THEN GetLast(x)
  ELSE x

Sync(x) == IF x.c.file = None THEN x ELSE SyncLast(SyncFirst(x))

(* Sync aborts the process if the ranges are apart, or if the rows it must *)
(* read come with no STAT key for the generator the program has set.       *)
CanSync(x) ==
  x.c.file # None =>
    /\ Meet(x.c)
    /\ x.c.fcur > x.c.cur /\ x.c.rng # None => x.d[x.c.file].stat # None

-----------------------------------------------------------------------------
(* Opening and closing                                                     *)

(* _ncm_mset_catalog_sync_rng                                              *)
SyncRng(x) ==
  LET f == x.c.file
  IN  IF x.d[f].inis # None
      THEN IF x.c.rng # None THEN x
           ELSE [x EXCEPT !.c.rng = x.d[f].inis, !.c.inis = x.d[f].inis]
      ELSE IF x.c.rng # None THEN [x EXCEPT !.d[f].inis = x.c.inis]
      ELSE x

(* It asserts that the file was started from the same state.               *)
SameRng(c, file) == c.rng # None /\ file.inis # None => c.inis = file.inis

(* _ncm_mset_catalog_open_create_file                                      *)
CreateFile(x, f) ==
  [x EXCEPT !.c.file = f, !.c.ffirst = x.c.first, !.c.fcur = x.c.first - 1,
            !.d[f] = [rows |-> <<>>, first |-> x.c.first, inis |-> None, stat |-> None]]

OpenFile(x, f) ==
  LET file == x.d[f]
      nrows == Len(file.rows) - x.c.burnin
      apart == file.first # x.c.first
      ffirst == IF apart /\ nrows = 0 THEN x.c.first ELSE file.first
      follow == apart /\ nrows # 0 /\ IsEmpty(x.c)
  IN  [x EXCEPT !.c.file = f,
                !.c.ffirst = ffirst,
                !.c.fcur = ffirst + nrows - 1,
                !.c.first = IF follow THEN file.first ELSE @,
                !.c.cur = IF follow THEN file.first - 1 ELSE @,
                !.d[f].first = ffirst]

Open(x, f) == SyncRng(IF x.d[f] = None THEN CreateFile(x, f) ELSE OpenFile(x, f))

CanOpen(x, f) ==
  x.d[f] # None => Len(x.d[f].rows) >= x.c.burnin /\ SameRng(x.c, x.d[f])

Close(x) == [Sync(x) EXCEPT !.c.file = None]

(* ncm_mset_catalog_set_file                                               *)
SetFile(x, f) ==
  IF x.c.file = f THEN x
  ELSE IF f = None THEN Close(x)
  ELSE Sync(Open(Close(x), f))

CanSetFile(x, f) ==
  x.c.file # f /\ f # None => CanOpen(Close(x), f) /\ CanSync(Open(Close(x), f))

-----------------------------------------------------------------------------
(* Emptying and cutting                                                    *)

(* ncm_mset_catalog_erase_data deletes from the first row of the table.    *)
EraseData(x) ==
  LET n == x.c.fcur - x.c.ffirst + 1
  IN  IF x.c.file = None \/ n <= 0 THEN x
      ELSE [x EXCEPT !.d[x.c.file].rows = DeleteRows(@, n),
                     !.c.fcur = x.c.ffirst - 1]

(* ncm_mset_catalog_reset: the file is closed, and its name forgotten.     *)
Reset(x) ==
  LET e == EraseData(x)
  IN  Close([e EXCEPT !.c.stats = EmptyStats,
                      !.c.cur = e.c.first - 1,
                      !.c.fcur = e.c.ffirst - 1])

(* Mutant of SetFirstId: the file is not moved with the memory.            *)
SetFirstIdInMemory(x, id) == [x EXCEPT !.c.first = id, !.c.cur = id - 1]

(* ncm_mset_catalog_set_first_id; an error in a catalog that has rows.     *)
SetFirstId(x, id) ==
  IF id = x.c.first THEN x
  ELSE LET y == [x EXCEPT !.c.first = id, !.c.cur = id - 1,
                          !.c.ffirst = id, !.c.fcur = id - 1]
       IN  IF y.c.file = None THEN y ELSE Sync([y EXCEPT !.d[y.c.file].first = id])

CanSetFirstId(x, id) ==
  id # x.c.first => /\ IsEmpty(x.c)
                    /\ x.c.ffirst = x.c.first /\ x.c.fcur = x.c.cur

(* trim and remove_last_ensemble: rows are set aside, the catalog is       *)
(* emptied, the rows that remain are added again, and the file, renamed as *)
(* a backup, is written anew.                                              *)
Reload(x, f, rows) == SetFile([PostUpdate(x, rows) EXCEPT !.d[f] = None], f)

Trim(x, tc) ==
  LET rows == x.c.stats.pstats
      from == tc * NChains
      bare == Reset(SetFile(x, None))
  IN  Reload(SetFirstId(bare, bare.c.first + from), x.c.file, SubSeq(rows, from + 1, Len(rows)))

RemoveLastEnsemble(x) ==
  LET rows == x.c.stats.pstats
      rest == Len(rows) % NChains
      n == IF rest = 0 THEN NChains ELSE rest
  IN  Reload(Reset(SetFile(x, None)), x.c.file, SubSeq(rows, 1, Len(rows) - n))

-----------------------------------------------------------------------------
(* The calls of the program                                                *)

CallSetFile(f) == f # mcat.file /\ CanSetFile(Now, f) /\ Becomes(SetFile(Now, f))

(* ncm_mset_catalog_set_rng with a new generator of the one seed.  In a    *)
(* catalog that has rows it warns; programs set it before adding any.      *)
CallSetRng ==
  /\ mcat.rng = None
  /\ IsEmpty(mcat)
  /\ LET x == [Now EXCEPT !.c.rng = 0, !.c.inis = 0]
     IN  Becomes(IF mcat.file = None THEN x ELSE SyncRng(x))

(* A draw, the computation of its row, ncm_mset_catalog_add_from_mset and, *)
(* according to the mode, a sync.                                          *)
CallAdd ==
  /\ mcat.rng # None /\ mcat.rng < MaxDraw
  /\ Len(mcat.stats.pstats) < MaxLength
  /\ LET x == PostUpdate([Now EXCEPT !.c.rng = @ + 1], <<mcat.rng + 1>>)
     IN  \/ mcat.smode # "auto" /\ Becomes(x)
         \/ mcat.smode # "disable" /\ Becomes(Sync(x))

CallSync == mcat.file # None /\ Becomes(Sync(Now))

CallSetSyncMode(m) ==
  m # mcat.smode /\ mcat' = [mcat EXCEPT !.smode = m] /\ UNCHANGED disk

CallReset == Becomes(Reset(Now))

CallEraseData == mcat.file # None /\ Becomes(EraseData(Now))

CallSetFirstId(id) == id # mcat.first /\ CanSetFirstId(Now, id) /\ Becomes(SetFirstId(Now, id))

CallSetBurnin(n) ==
  mcat.file = None /\ mcat' = [mcat EXCEPT !.burnin = n] /\ UNCHANGED disk

(* Without a file both functions rename a file named "(null)".             *)
CallTrim(tc) ==
  /\ mcat.file # None /\ tc > 0
  /\ mcat.first + tc * NChains <= MaxLength
  /\ Becomes(Trim(Now, tc))

CallRemoveLastEnsemble ==
  /\ mcat.file # None /\ ~ IsEmpty(mcat)
  /\ Becomes(RemoveLastEnsemble(Now))

(* The process dies and another starts.                                    *)
Restart == mcat' = NewCatalog /\ UNCHANGED disk

-----------------------------------------------------------------------------

(* The life of a run, which may be interrupted and resumed.                *)
Life(files, adds) ==
  \/ \E f \in files \cup {None} : CallSetFile(f)
  \/ CallSetRng \/ CallSync \/ Restart
  \/ adds /\ CallAdd
  \/ \E m \in SyncMode : CallSetSyncMode(m)

(* Rows may be added before a file is opened.                              *)
RunNext == Life(Files, TRUE)

(* Rows are added, and dropped, with the file open.                        *)
EditNext ==
  \/ Life(Files, mcat.file # None)
  \/ mcat.file # None /\ CallReset
  \/ CallEraseData \/ CallRemoveLastEnsemble
  \/ \E tc \in 1..MaxLength : CallTrim(tc)
EditSpec == Init /\ [][EditNext]_vars

(* A run is started in parts, each with its first id.                      *)
SplitNext == RunNext \/ \E id \in 0..MaxLength : CallSetFirstId(id)

(* A file that exists is loaded with a burn-in, to be analysed only.       *)
AnalysisNext ==
  \/ LET exist == {f \in Files : disk[f] # None /\ IsEmpty(mcat)}
     IN  Life(IF mcat.burnin = 0 THEN Files ELSE exist, mcat.burnin = 0)
  \/ \E n \in 1..MaxLength : mcat.rng = None /\ IsEmpty(mcat) /\ CallSetBurnin(n)

(* ... or loaded with a burn-in and extended.                              *)
BurninNext == RunNext \/ \E n \in 1..MaxLength : CallSetBurnin(n)
BurninSpec == Init /\ [][BurninNext]_vars

-----------------------------------------------------------------------------
(* Properties                                                              *)

Opened == mcat.file # None
OpenRows == disk[mcat.file].rows

(* The ids are those of the rows there are: the offsets sync computes from *)
(* them are never outside the rows in memory or in the table.              *)
IdsMatch ==
  /\ Len(mcat.stats.pstats) = mcat.cur - mcat.first + 1
  /\ Opened => /\ Len(OpenRows) = mcat.burnin + mcat.fcur - mcat.ffirst + 1
               /\ disk[mcat.file].first = mcat.ffirst
  /\ mcat.first = mcat.ffirst

(* Once a file is open no sync can fail, whatever is called meanwhile.     *)
SyncCannotFail == CanSync(Now)

(* The rows in memory and in the open file agree wherever both have one:   *)
(* what sync takes for granted when it compares the ids only.              *)
RowsAgree ==
  Opened =>
    \A id \in (mcat.first..mcat.cur) \cap (mcat.ffirst..mcat.fcur) :
      OpenRows[mcat.burnin + id - mcat.ffirst + 1] = mcat.stats.pstats[id - mcat.first + 1]

(* A run that was interrupted and resumed any number of times, on any of   *)
(* its files, has the rows an uninterrupted one has: the draws in order,   *)
(* none missing and none twice, with the generator right after the last.   *)
Uninterrupted ==
  /\ \A i \in 1..Len(mcat.stats.pstats) : mcat.stats.pstats[i] = i
  /\ mcat.rng # None => mcat.rng = Len(mcat.stats.pstats)

(* Even when rows are dropped, no draw is recorded twice, in memory or in  *)
(* a file, and order is kept ("this object also guarantees the order of    *)
(* the samples added", ncm_mset_catalog.c:37).                             *)
InOrder(rows, state) ==
  /\ \A i, j \in 1..Len(rows) : i < j => rows[i] < rows[j]
  /\ state # None => \A i \in 1..Len(rows) : rows[i] <= state

NoRowTwice ==
  /\ InOrder(mcat.stats.pstats, mcat.rng)
  /\ \A f \in Files : disk[f] # None => InOrder(disk[f].rows, disk[f].stat)

(* Opening a file that exists joins it with the rows in memory: both end   *)
(* up with every row either of them had, each at its id; a row that only   *)
(* one of them had is copied, and no row that was there is lost or moved.  *)
Ids(rows, first) == first..first + Len(rows) - 1
Carries(new, newFirst, old, oldFirst, ids) ==
  \A id \in ids : new[id - newFirst + 1] = old[id - oldFirst + 1]

Joins(f) ==
  LET mem == mcat.stats.pstats
      file == SubSeq(disk[f].rows, mcat.burnin + 1, Len(disk[f].rows))
      mem2 == mcat.stats.pstats'
      file2 == SubSeq(disk'[f].rows, mcat.burnin + 1, Len(disk'[f].rows))
      ids == Ids(mem, mcat.first)
      fids == Ids(file, disk[f].first)
      first2 == mcat'.first
  IN  /\ Ids(mem2, first2) = ids \cup fids
      /\ Ids(file2, first2) = ids \cup fids
      /\ Carries(mem2, first2, mem, mcat.first, ids)
      /\ Carries(mem2, first2, file, disk[f].first, fids \ ids)
      /\ Carries(file2, first2, file, disk[f].first, fids)
      /\ Carries(file2, first2, mem, mcat.first, ids \ fids)

OpenJoins ==
  [][\A f \in Files : mcat.file # f /\ mcat'.file = f /\ disk[f] # None => Joins(f)]_vars

(* A chain has the rows of its walker and no other, each once, however     *)
(* rows come: added, read from the end of a file, or read from its start   *)
(* and put before those there are (ncm_mset_catalog.c:1720-1740).          *)
ChainsHoldRows == ChainsHold(mcat.stats, mcat.first)

(* "This object also guarantees the order of the samples added"            *)
(* (ncm_mset_catalog.c:35-38), of each chain: its rows are in the order of *)
(* their ids.  Rows that a file has before those in memory are put in      *)
(* front of their chains one after the other (:1734), the last one first;  *)
(* where no file has such rows it holds, whatever rows are dropped.        *)
ChainsFollowIds == ChainsInOrder(mcat.stats, mcat.first)

(* Every row is in one ensemble, in the order of the ids, also after rows  *)
(* were dropped and the rest added again; of rows that are only added.     *)
(* The row that closes an ensemble is the one before the last of its rows  *)
(* (post_update, ncm_mset_catalog.c:2252), so that every ensemble after    *)
(* the first begins with the last row of the ensemble before it.           *)
EnsemblesHoldRows == EnsemblesPartition(mcat.stats)
=============================================================================
