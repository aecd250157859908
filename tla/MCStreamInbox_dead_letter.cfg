\* An event of the dead letter queue is retried.
SPECIFICATION Spec
CONSTANTS
  trade = trade
  status = status
  w1 = w1
  w2 = w2
  t1 = t1
  c1 = c1
  Events = {trade}
  StatusEvents = {}
  Workers = {w1}
  Streams = {t1}
  Clients = {c1}
  MaxAttempts = 1
  MaxReconciles = 0
  MaxDeaths = 0
  NoEvent = NoEvent
INVARIANTS
  PendingIsClaimable
