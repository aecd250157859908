SPECIFICATION Spec
CONSTANTS
  stock = stock
  fund = fund
  bond = bond
  Instruments = {stock, fund, bond}
  Whole = 7200
  NoWeight = NoWeight
  NoItem = NoItem
  NoUpdate = NoUpdate
  NoSignal = NoSignal
  NoPlan = NoPlan
  NotPlanning = NotPlanning
  RISK_PROFILE = RISK_PROFILE
  Requests = {q1, q2}
  MaxEdits = 4
  MaxPlans = 1
  Scores = {1, 2}
  Creations <- Items
  ItemPatches <- ItemBodies
  RiskPatches <- RiskBodies
  SeedRisk <- DefaultRisk
  Lot <- LotSizes
  Portfolios <- Accounts
CHECK_DEADLOCK FALSE
INVARIANTS
  TypeOK
  ChecksHold
  TargetsWithinLimits
  FairShares
  PlanAffordable
  NoReversal
