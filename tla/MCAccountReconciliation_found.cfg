\* Two workers whose jobs may overlap, a failure or a death at any step, three
\* operations, two of them deposits, reported in any order, a read that takes two
\* of them at most.
SPECIFICATION FairSpec
CONSTANTS
  deposit = deposit
  later = later
  dividend = dividend
  w1 = w1
  w2 = w2
  Operations = {deposit, later, dividend}
  Deposits = {deposit, later}
  Ignored = {dividend}
  DateOf <- Dates
  Lookback = 0
  MaxOperations = 2
  stream_automation_trigger_enabled = TRUE
  Workers = {w1, w2}
  MaxTime = 2
  MaxJobs = 1
  MaxFailures = 1
  ACCOUNT_CHANGE = ACCOUNT_CHANGE
  NoOperation = NoOperation
INVARIANTS
  TypeOK
  CursorBehindEvents
  AnnouncedOnce
  DepositTriggers
PROPERTIES
  EveryOperationFound
