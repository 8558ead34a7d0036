SPECIFICATION Spec
CONSTANTS
  w1 = w1
  w2 = w2
  k1 = k1
  k2 = k2
  u1 = u1
  o1 = o1
  c1 = c1
  p1 = p1
  p2 = p2
  d1 = d1
  a1 = a1
  i1 = i1
  i2 = i2
  i3 = i3
  Creates = {c1}
  Updates = {p1, p2}
  Deletes = {d1}
  Attaches = {a1}
  Workflows = {w1, w2}
  Scopes = {k1, k2}
  Users = {u1}
  Organizations = {o1}
  None = None
  Ids = {i1, i2, i3}
  Items <- Batches
  Target <- Attached
  Set <- Patches
  Selected <- Selections
  CallerOf <- CallersOf
  Root = {}
  Failing = {c1, p1}
INVARIANT TypeOK
INVARIANT OneRowPerSlot
INVARIANT AssignmentTakesEffect
PROPERTY UpdateKeepsWorkflow
CHECK_DEADLOCK FALSE
