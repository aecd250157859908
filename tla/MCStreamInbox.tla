--------------------------- MODULE MCStreamInbox ---------------------------
(***************************************************************************)
(* Values for the model checker.                                           *)
(***************************************************************************)
EXTENDS StreamInbox, TLC

CONSTANTS trade, status, w1, w2, t1, c1

\* Workers are alike, and so are requests.
Symmetry == Permutations(Workers) \cup Permutations(Clients)
=============================================================================
