SPECIFICATION Spec
CONSTANTS
  x1 = x1
  x2 = x2
  e1 = e1
  e2 = e2
  f1 = f1
  t1 = t1
  a1 = a1
  z2 = z2
  q1 = q1
  v1 = v1
  Executions = {x1, x2}
  Events = {e1, e2}
  Finals = {f1}
  Appends = {a1}
  Finalizations = {z2}
  Transitions = {t1}
  Asides = {q1}
  Viewers = {v1}
  FastTracked = {x2}
  ExecutionOf <- ExecutionOfCall
  To <- Sets
  Expected <- ExpectsQueued
  Latest <- SaysRunning
  Given <- NoLogs
  MaxCasts = 2
  Failing = {f1}
SYMMETRY RecordedEvents
INVARIANT TypeOK
INVARIANT TrackedLogsKept
INVARIANT AppendsKept
INVARIANT CatalogAgrees
PROPERTY OutcomeStands
CHECK_DEADLOCK FALSE
