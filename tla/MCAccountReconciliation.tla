----------------------- MODULE MCAccountReconciliation -----------------------
(***************************************************************************)
(* Values for the model checker.                                           *)
(***************************************************************************)
EXTENDS AccountReconciliation

CONSTANTS deposit, later, dividend, w1, w2

\* The second deposit and the dividend have the same date.  A tick is longer than the
\* lookback.
Dates == [o \in Operations |-> IF o = deposit THEN 1 ELSE 2]
=============================================================================
