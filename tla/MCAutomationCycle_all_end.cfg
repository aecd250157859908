\* The stores answer, but workers crash and restart and an exception may leave the
\* session of a job unusable: which runs end, and that the lock is always freed.
SPECIFICATION FairSpec
CONSTANTS
  m1 = m1
  s1 = s1
  s2 = s2
  w1 = w1
  w2 = w2
  Runs = {m1, s1}
  Workers = {w1, w2}
  RunTimeout = 2
  JobTimeout = 2
  LockTtl = 3
  StaleThreshold = 2
  Faults = FALSE
  Crashes = TRUE
  ManualRuns = {m1}
  NoRun = NoRun
  NoWorker = NoWorker
PROPERTIES
  EveryRunEnds
  LockFreed
