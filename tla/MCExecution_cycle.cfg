\* A worker cycle over a plan of two orders, and an admin request that plans,
\* executes or confirms the same orders meanwhile: all three plannable modes,
\* failures at any step.
SPECIFICATION Spec
CONSTANTS
  buy = buy
  c = c
  i1 = i1
  o1 = o1
  o2 = o2
  p1 = p1
  s1 = s1
  Orders = {o1, o2}
  Plans = {p1}
  Instruments = {o1, o2}
  Directions = {buy}
  PlanOf <- OnePlan
  InstrumentOf <- OwnInstrument
  DirectionOf <- AllBuy
  Sessions = {c, s1}
  CycleSessions = {c}
  Modes = {"DRY_RUN", "SANDBOX", "REAL_MANUAL_CONFIRM"}
  SandboxConfigured = TRUE
  MaxDailyTrades = 2
  Cooldown = 1
  DayLength = 2
  MaxTime = 0
  MaxCallTicks = 0
  MaxPosts = 2
  Failures = TRUE
  NoOrder = NoOrder
  NoPlan = NoPlan
SYMMETRY OrderSymmetry
INVARIANTS
  TypeOK
  StatusAgreesWithRows
  OneRowPerOrder
  ManualOrdersNeverTrade
  RequestsRecheckSafety
  PostsAccounted
PROPERTIES
  RefusalIsFinal
  ImplementsLedger
