\* A cycle alone, and an administrator who turns the kill switch on.
SPECIFICATION Spec
CONSTANTS
  buy = buy
  c = c
  i1 = i1
  o1 = o1
  p1 = p1
  Orders = {o1}
  Plans = {p1}
  Instruments = {i1}
  Directions = {buy}
  PlanOf <- OnePlan
  InstrumentOf <- OneInstrument
  DirectionOf <- AllBuy
  Sessions = {c}
  CycleSessions = {c}
  Modes = {"DRY_RUN"}
  SandboxConfigured = TRUE
  MaxDailyTrades = 1
  Cooldown = 1
  DayLength = 2
  MaxTime = 0
  MaxCallTicks = 0
  MaxPosts = 2
  Failures = FALSE
  NoOrder = NoOrder
  NoPlan = NoPlan
INVARIANTS
  SafetyRecheck
