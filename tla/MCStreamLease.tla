--------------------------- MODULE MCStreamLease ---------------------------
(***************************************************************************)
(* Values for the model checker.                                           *)
(***************************************************************************)
EXTENDS StreamLease

CONSTANTS l1, l2
============================================================================
