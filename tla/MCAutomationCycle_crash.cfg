\* Workers that crash, stop and start, Redis and PostgreSQL that fail: two workers,
\* a manual and a scheduled run, every deadline longer than the one it must exceed.
SPECIFICATION Spec
CONSTANTS
  m1 = m1
  s1 = s1
  s2 = s2
  w1 = w1
  w2 = w2
  Runs = {m1, s1}
  Workers = {w1, w2}
  RunTimeout = 1
  JobTimeout = 2
  LockTtl = 2
  StaleThreshold = 2
  Faults = TRUE
  Crashes = TRUE
  ManualRuns = {m1}
  NoRun = NoRun
  NoWorker = NoWorker
SYMMETRY Symmetry
INVARIANTS
  TypeOK
  CycleMutex
  ExecutedOnce
PROPERTIES
  RecoverySparesLive
  ForeignLockKept
  FinishedStaysFinished
