---------------------------- MODULE MCRepairQueue ----------------------------
(***************************************************************************)
(* Instances of RepairQueue for TLC: two requests; one session (handlers   *)
(* never overlap) or two (they race).                                      *)
(***************************************************************************)
EXTENDS RepairQueue, TLC

SessionSymmetry == Permutations(Sessions)
=============================================================================
