------------------------- MODULE MCHistoricalBackfill -------------------------
(* HistoricalBackfill for TLC: a run of three targets, the last of which     *)
(* cannot be resolved.  Overlapping commands are checked in MCServices.      *)
EXTENDS HistoricalBackfill, TLC

CONSTANTS p1, p2

ThreeTargets == <<{1, 3}, {2}, {2}>>

\* The daily batch writes one day of the first target.
Oldest == {<<1, 1>>}

Symmetry == Permutations(Procs)
=============================================================================
