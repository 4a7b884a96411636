---------------------------- MODULE MCDailyBatch ----------------------------
(***************************************************************************)
(* Instances of DailyBatch for TLC: two symbols, two jobs, a few days.     *)
(***************************************************************************)
EXTENDS DailyBatch, TLC

SymbolSymmetry == Permutations(Symbols)
=============================================================================
