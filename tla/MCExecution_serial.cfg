\* Calls one after the other, any of which may fail: what the checks promise when
\* nothing overlaps.  Two orders of one instrument, a cooldown of two ticks.
SPECIFICATION Spec
CONSTANTS
  buy = buy
  i1 = i1
  o1 = o1
  o2 = o2
  p1 = p1
  s1 = s1
  Orders = {o1, o2}
  Plans = {o1, o2}
  Instruments = {i1}
  Directions = {buy}
  PlanOf <- OwnPlan
  InstrumentOf <- OneInstrument
  DirectionOf <- AllBuy
  Sessions = {s1}
  CycleSessions = {}
  Modes = {"DRY_RUN", "SANDBOX", "REAL_MANUAL_CONFIRM"}
  SandboxConfigured = TRUE
  MaxDailyTrades = 2
  Cooldown = 2
  DayLength = 2
  MaxTime = 3
  MaxCallTicks = 1
  MaxPosts = 2
  Failures = TRUE
  NoOrder = NoOrder
  NoPlan = NoPlan
INVARIANTS
  PostsAccounted
  CooldownRespected
