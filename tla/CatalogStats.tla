---------------------------- MODULE CatalogStats ----------------------------
(***************************************************************************)
(* What NcmMSetCatalog keeps in memory of the rows added to it             *)
(* (numcosmo/math/ncm_mset_catalog.c over ncm_stats_vec.c): all the rows   *)
(* in order, the rows of each chain, the rows of the ensemble being        *)
(* filled, and one mean per ensemble that was closed.  A mean is           *)
(* represented by the rows it is taken over, and a row by whatever         *)
(* identifies it.  Pure operators on a record of these.                    *)
(***************************************************************************)
EXTENDS Integers, FiniteSets, SequencesExt

CONSTANT NChains  \* nchains: walkers of an ensemble, 1 for a plain catalog

ASSUME NChainsAssumption == NChains \in Nat \ {0}

Chains == 0..NChains - 1

(* The object when it was constructed, or reset: every NcmStatsVec is      *)
(* reset, with the rows it saved.                                          *)
EmptyStats ==
  [ pstats |-> <<>>,                        \* all the rows
    chains |-> [c \in Chains |-> <<>>],     \* the rows of each chain
    eStats |-> <<>>,                        \* rows since the last ensemble
    eMean  |-> <<>> ]                       \* e_mean_stats

(* The ensemble is closed when the id just added leaves NChains - 1 modulo *)
(* NChains for the next one.                                               *)
ClosesEnsemble(id) == ((id + 1) % NChains) + 1 = NChains

(* Mutant of CloseEnsemble: e_stats is not reset.                          *)
CloseEnsembleKept(s) == [s EXCEPT !.eMean = Append(@, s.eStats)]

CloseEnsemble(s) ==
  [s EXCEPT !.eMean = Append(@, s.eStats),
            !.eStats = <<>>]

(* What _ncm_mset_catalog_post_update does, besides keeping it, with the   *)
(* row that gets this id.  With one chain there are neither chains nor     *)
(* ensembles.                                                              *)
AddRow(s, id, row) ==
  LET added == [s EXCEPT !.chains[id % NChains] = Append(@, row),
                         !.eStats = Append(@, row)]
  IN  IF NChains = 1 THEN s
      ELSE IF ClosesEnsemble(id) THEN CloseEnsemble(added)
      ELSE added

(* post_update of several rows, the first of which gets the id first: what  *)
(* there is after each of them.                                            *)
AddRows(s, first, rows) ==
  LET t[n \in 0..Len(rows)] == IF n = 0 THEN s ELSE AddRow(t[n - 1], first + n - 1, rows[n])
      end == t[Len(rows)]
  IN  [ pstats |-> s.pstats \o rows,
        chains |-> end.chains, eStats |-> end.eStats, eMean |-> end.eMean ]

(* Mutant of PrependRows: the whole catalog is prepended row after row.    *)
PrependRowsReversed(s, first, rows) ==
  [pstats |-> Reverse(rows) \o s.pstats, chains |-> s.chains, eStats |-> s.eStats, eMean |-> s.eMean]

(* Mutant of PrependRows: the chain is that of the place in what is read.  *)
PrependRowsByPlace(s, first, rows) ==
  LET c[n \in 0..Len(rows)] ==
        IF n = 0 THEN s.chains
        ELSE [c[n - 1] EXCEPT ![(n - 1) % NChains] = <<rows[n]>> \o @]
  IN  [ pstats |-> rows \o s.pstats,
        chains |-> IF NChains = 1 THEN s.chains ELSE c[Len(rows)],
        eStats |-> s.eStats, eMean |-> s.eMean ]

(* The rows of a file that precede those in memory, the first with the id  *)
(* first: ncm_stats_vec_prepend_data for the whole catalog, then           *)
(* ncm_stats_vec_prepend into the chains, row after row.                   *)
PrependRows(s, first, rows) ==
  LET c[n \in 0..Len(rows)] ==
        IF n = 0 THEN s.chains
        ELSE [c[n - 1] EXCEPT ![(first + n - 1) % NChains] = <<rows[n]>> \o @]
  IN  [ pstats |-> rows \o s.pstats,
        chains |-> IF NChains = 1 THEN s.chains ELSE c[Len(rows)],
        eStats |-> s.eStats, eMean |-> s.eMean ]

-----------------------------------------------------------------------------
(* Properties of a record whose first row has the id first                 *)

(* The ids of the rows of chain c: those that are c modulo NChains.        *)
IdsOfChain(s, first, c) ==
  {id \in first..first + Len(s.pstats) - 1 : id % NChains = c}

(* The rows of a chain are those of its ids, each once, in some order.     *)
ChainsHold(s, first) ==
  NChains > 1 =>
    \A c \in Chains :
      \E id \in Bijection(1..Len(s.chains[c]), IdsOfChain(s, first, c)) :
        \A k \in 1..Len(s.chains[c]) : s.chains[c][k] = s.pstats[id[k] - first + 1]

(* ... in the order of the ids.                                            *)
ChainsInOrder(s, first) ==
  NChains > 1 =>
    \A c \in Chains :
      LET ids == IdsOfChain(s, first, c)
          place(id) == Cardinality({j \in ids : j <= id})
      IN  /\ Len(s.chains[c]) = Cardinality(ids)
          /\ \A id \in ids : s.chains[c][place(id)] = s.pstats[id - first + 1]

(* No row is left out of the ensembles, and none is in two.                *)
EnsemblesPartition(s) ==
  NChains > 1 => s.pstats = FlattenSeq(s.eMean) \o s.eStats
=============================================================================
