---------------------------- MODULE OrderLedger ----------------------------
(***************************************************************************)
(* What the execution component promises about orders, without sessions,   *)
(* statuses, checks or time: an order is planned once, as one kind, and it *)
(* obtains at most one outcome, which is of its kind.  A manual order never*)
(* obtains one.                                                            *)
(***************************************************************************)
CONSTANT Orders

VARIABLES
  kind,     \* what the order was planned as
  outcome   \* the record of its trade

ledger == <<kind, outcome>>

Kinds == {"unplanned", "virtual", "sandbox", "manual"}
Outcomes == {"none", "virtual", "sandbox"}

LedgerTypeOK == kind \in [Orders -> Kinds] /\ outcome \in [Orders -> Outcomes]

Init ==
  /\ kind = [o \in Orders |-> "unplanned"]
  /\ outcome = [o \in Orders |-> "none"]

\* The orders of a plan that do not exist yet appear together, as one kind.
Plan(planned, k) ==
  /\ \A o \in planned : kind[o] = "unplanned"
  /\ kind' = [o \in Orders |-> IF o \in planned THEN k ELSE kind[o]]
  /\ UNCHANGED outcome

Trade(o) ==
  /\ kind[o] \in {"virtual", "sandbox"}
  /\ outcome[o] = "none"
  /\ outcome' = [outcome EXCEPT ![o] = kind[o]]
  /\ UNCHANGED kind

Next ==
  \/ \E planned \in SUBSET Orders, k \in Kinds \ {"unplanned"} : Plan(planned, k)
  \/ \E o \in Orders : Trade(o)

Spec == Init /\ [][Next]_ledger

\* An outcome, once recorded, is never lost or replaced.
OutcomeIsFinal ==
  [][\A o \in Orders : outcome[o] # "none" => outcome'[o] = outcome[o]]_ledger
============================================================================
