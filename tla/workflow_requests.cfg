SPECIFICATION Spec
CONSTANTS
  r1 = r1
  r2 = r2
  a1 = a1
  w1 = w1
  w2 = w2
  w3 = w3
  w4 = w4
  w5 = w5
  n1 = n1
  n2 = n2
  d1 = d1
  d2 = d2
  u = u
  v = v
  o = o
  node1 = node1
  node2 = node2
  key1 = key1
  c1 = c1
  c2 = c2
  p1 = p1
  None = None
  Actors = {r1, r2, a1}
  Requests = {r1, r2}
  Agents = {a1}
  Workflows = {w1, w2, w3, w4, w5}
  Names = {n1, n2}
  Similar <- Contains
  Definitions = {d1, d2}
  Users = {u, v}
  Organizations = {o}
  UserOf <- UserOfRow
  OrganizationOf <- OrganizationOfRow
  Member <- Members
  First <- FirstContents
  Nodes = {node1, node2}
  Credentials = {c1, c2}
  Asks <- Wanted
  NodesOf <- Needs
  MetadataOf <- OrganizationInMetadata
  ServiceOf <- ServiceOfNode
  ServiceFor <- ServiceForCredential
  ScopeFor <- ScopeForCredential
  Global = "everybody"
  Retiring = {c1}
  Orders <- Tell
  Parents = {p1}
SYMMETRY Alike
INVARIANT TypeOK
INVARIANT PublishedWasHeld
INVARIANT RunsWhatWasPublished
INVARIANT ActsOnNamed
INVARIANT AmbiguityIsReal
INVARIANT BoundAlike
INVARIANT AnswerIsTrue
PROPERTY OnlyConfirmedDestroys
CHECK_DEADLOCK FALSE
