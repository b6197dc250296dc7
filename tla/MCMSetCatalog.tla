---------------------------- MODULE MCMSetCatalog ----------------------------
(***************************************************************************)
(* One run for the ways in which programs use a catalog, chosen at the   *)
(* start and kept: "run" (rows are added, before or after a file is        *)
(* opened, and the program may be interrupted and resumed), "split" (the   *)
(* same, in parts that each have a first id) and "analysis" (files are     *)
(* loaded with a burn-in).  TLC also explores a fourth, "edit": with one   *)
(* file, rows are dropped by reset, erase_data, trim and                   *)
(* remove_last_ensemble, and others added.                                 *)
(***************************************************************************)
EXTENDS MSetCatalog

CONSTANTS
  SplitFile,  \* bound: the only file of a run in parts, or edited
  MaxKept     \* bound: draws, rows and ids where rows are never dropped

VARIABLE usage

MCInit == Init /\ usage \in {"run", "split", "analysis"}

MCNext ==
  /\ \/ usage = "run" /\ RunNext
     \/ usage = "split" /\ SplitNext /\ mcat'.file \in {SplitFile, None}
     \/ usage = "analysis" /\ AnalysisNext
  /\ UNCHANGED usage

MCSpec == MCInit /\ [][MCNext]_<<vars, usage>>

MCEditNext ==
  /\ usage = "edit" /\ EditNext /\ mcat'.file \in {SplitFile, None}
  /\ UNCHANGED usage

(* At most MaxKept rows, but for those a file brings.                      *)
Bounded ==
  /\ mcat'.rng = None \/ mcat'.rng <= MaxKept
  /\ mcat'.first <= MaxKept /\ mcat'.burnin <= MaxKept
  /\ \/ mcat'.file # mcat.file
     \/ Len(mcat'.stats.pstats) <= Len(mcat.stats.pstats)
     \/ Len(mcat'.stats.pstats) <= MaxKept

AllInit == Init /\ usage \in {"run", "split", "analysis", "edit"}
AllNext ==
  \/ MCNext /\ Bounded
  \/ MCEditNext
AllSpec == AllInit /\ [][AllNext]_<<vars, usage>>

-----------------------------------------------------------------------------

(* RowsAgree, where a program does not give a part of the run an id that   *)
(* another part already used.                                              *)
MCRowsAgree == usage # "split" => RowsAgree

(* Uninterrupted, of a run that always starts at its first realization.    *)
MCUninterrupted == usage = "run" => Uninterrupted

(* NoRowTwice, of rows that are dropped and of runs without a first id.    *)
MCNoRowTwice == usage # "split" => NoRowTwice

(* EnsemblesHoldRows, where rows are only added and dropped.               *)
MCEnsemblesHoldRows == usage = "edit" => EnsemblesHoldRows
=============================================================================
