------------------------- MODULE MCAutomationCycle -------------------------
(***************************************************************************)
(* Values for the model checker.                                           *)
(***************************************************************************)
EXTENDS AutomationCycle, TLC

CONSTANTS m1, s1, s2

\* Runs of the same kind are alike, and so are workers.
Symmetry == Permutations(Workers) \cup Permutations(Runs \ ManualRuns)
============================================================================
