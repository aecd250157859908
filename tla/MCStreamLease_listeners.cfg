\* Two listeners that crash and stop, Redis and PostgreSQL that fail, renewals
\* that come up to a tick late.
SPECIFICATION FairSpec
CONSTANTS
  l1 = l1
  l2 = l2
  Listeners = {l1, l2}
  RenewInterval = 1
  RenewDelay = 1
  LockTtl = 3
  ReconnectLimit = 1
  Faults = TRUE
  NoListener = NoListener
INVARIANTS
  TypeOK
  OneLeader
PROPERTIES
  ForeignLeaseKept
  OrphanExpires
  StopsWhenTold
