\* Two workers, a stream and an admin request: events delivered again and retried, keys
\* that expire, Redis that stalls and processes that die.
SPECIFICATION Spec
CONSTANTS
  trade = trade
  status = status
  w1 = w1
  w2 = w2
  t1 = t1
  c1 = c1
  Events = {trade}
  StatusEvents = {}
  Workers = {w1, w2}
  Streams = {t1}
  Clients = {c1}
  MaxAttempts = 2
  MaxReconciles = 1
  MaxDeaths = 1
  NoEvent = NoEvent
SYMMETRY Symmetry
INVARIANTS
  TypeOK
  OpenEventsQueued
  KeyHasJob
PROPERTIES
  SettledStaysSettled
