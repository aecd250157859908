---------------------------- MODULE MCExecution ----------------------------
(***************************************************************************)
(* Values for the model checker.  An order's instrument, plan and direction*)
(* are given by one of the functions below; where every order has its own  *)
(* instrument, the order itself names it, so that orders are symmetric.    *)
(***************************************************************************)
EXTENDS Execution, TLC

CONSTANTS p1, i1, buy

\* Every order is of the same instrument: duplicates and cooldown apply.
OneInstrument == [o \in Orders |-> i1]

\* Every order has an instrument of its own: only the daily limit relates them.
OwnInstrument == [o \in Orders |-> o]

\* Every order from one plan, or each from its own.
OnePlan == [o \in Orders |-> p1]
OwnPlan == [o \in Orders |-> o]

AllBuy == [o \in Orders |-> buy]

\* Requests are alike, and so are orders that only differ by their instrument.
Symmetry == Permutations(Sessions \ CycleSessions)
OrderSymmetry == Symmetry \cup Permutations(Orders)
============================================================================
