------------------------------ MODULE MCRepairs ------------------------------
(***************************************************************************)
(* The repair queue under racing sessions, and the reconciler that applies *)
(* what it completes, for TLC.  The queue hands the reconciler completed   *)
(* requests, in every form it can leave them (CompleteRepair), and learns  *)
(* nothing back; so the two are checked side by side: a behaviour runs one *)
(* and leaves the other as it began.                                       *)
(***************************************************************************)
EXTENDS MCRepairQueue, RepairReconciler

VARIABLE part   \* the one this behaviour runs

repairsVars == <<part, vars, reconcilerVars>>

\* Two requests for one symbol, one of two days, one of the second day.
Requested == <<"A", "A">>
RequestedDays == <<{1, 2}, {2}>>

RepairsSymmetry == SessionSymmetry \cup Permutations(Runs)

RepairsInit == part \in {"queue", "reconciler"} /\ Init /\ ReconcilerInit

RepairsNext ==
  /\ UNCHANGED part
  /\ \/ part = "queue" /\ Next /\ UNCHANGED reconcilerVars
     \/ part = "reconciler" /\ ReconcilerNext /\ UNCHANGED vars

RepairsSpec == RepairsInit /\ [][RepairsNext]_repairsVars

=============================================================================
