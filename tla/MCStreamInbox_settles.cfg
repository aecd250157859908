\* One worker, a trade and a status event, Redis that fails again and again: both settle.
SPECIFICATION FairSpec
CONSTANTS
  trade = trade
  status = status
  w1 = w1
  w2 = w2
  t1 = t1
  c1 = c1
  Events = {trade, status}
  StatusEvents = {status}
  Workers = {w1}
  Streams = {t1}
  Clients = {}
  MaxAttempts = 2
  MaxReconciles = 1
  MaxDeaths = 0
  NoEvent = NoEvent
PROPERTIES
  EveryEventSettles
