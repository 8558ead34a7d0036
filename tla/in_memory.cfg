SPECIFICATION Spec
CONSTANTS
  w1 = w1
  w2 = w2
  s1 = s1
  m1 = m1
  d1 = d1
  d2 = d2
  r1 = r1
  p1 = p1
  v1 = v1
  n1 = n1
  Workflows = {w1, w2}
  Saves = {s1}
  Imports = {m1}
  Debugs = {d1, d2}
  Executing = {d1}
  Publications = {p1}
  Deletions = {v1}
  Runs = {r1}
  WorkflowOf <- WorkflowOfCall
  Given <- Saved
  Patch <- EdgesOnly
  NodeIds = {n1}
  ListLimit = 3
  Throws <- ThrowsAtDebug
  Failing = {d1}
INVARIANT TypeOK
INVARIANT CallerAgrees
INVARIANT VersionsAgree
INVARIANT ImportsKept
INVARIANT MessagesCounted
PROPERTY AbortStands
CHECK_DEADLOCK FALSE
