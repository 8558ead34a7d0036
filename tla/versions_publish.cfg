SPECIFICATION Spec
CONSTANTS
  p1 = p1
  p2 = p2
  p3 = p3
  d1 = d1
  d2 = d2
  x1 = x1
  NoVersion = NoVersion
  Publications = {p1, p2, p3}
  Deletions = {d1, d2}
  Executions = {x1}
  StoreFails = TRUE
SYMMETRY Symmetry
INVARIANT TypeOK
INVARIANT AtMostOneCurrent
INVARIANT NumbersUnique
INVARIANT PublishedIsNewest
PROPERTY CurrentIsKept
PROPERTY ReferencedIsKept
CHECK_DEADLOCK FALSE
