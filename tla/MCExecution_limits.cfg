\* The daily limit under overlapping requests and across midnight: orders
\* of different instruments, a limit of one trade a day.
SPECIFICATION Spec
CONSTANTS
  buy = buy
  i1 = i1
  o1 = o1
  o2 = o2
  o3 = o3
  o4 = o4
  o5 = o5
  p1 = p1
  s1 = s1
  s2 = s2
  Orders = {o1, o2, o3, o4, o5}
  Plans = {p1}
  Instruments = {o1, o2, o3, o4, o5}
  Directions = {buy}
  PlanOf <- OnePlan
  InstrumentOf <- OwnInstrument
  DirectionOf <- AllBuy
  Sessions = {s1, s2}
  CycleSessions = {}
  Modes = {"DRY_RUN"}
  SandboxConfigured = TRUE
  MaxDailyTrades = 1
  Cooldown = 1
  DayLength = 1
  MaxTime = 1
  MaxCallTicks = 1
  MaxPosts = 2
  Failures = FALSE
  NoOrder = NoOrder
  NoPlan = NoPlan
SYMMETRY OrderSymmetry
INVARIANTS
  DailyOverrunBounded
