CONSTANTS
  d1 = d1
  c1 = c1
  c2 = c2
  c3 = c3
  Doc = {d1}
  DocCall = {c1, c2, c3}
  ChunkCount = 2
  e1 = e1
  k1 = k1
  k2 = k2
  a1 = a1
  a2 = a2
  Mention = {e1}
  Delivery = {k1, k2}
  Admin = {a1, a2}
  MaxInstalls = 2
  p1 = p1
  p2 = p2
  u1 = u1
  r1 = r1
  r2 = r2
  Process = {p1, p2}
  LastFile = 2
  Person = {u1}
  Request = {r1, r2}
  MaxCrashes = 1
  s = s
  t = t
  q1 = q1
  q2 = q2
  w1 = w1
  w2 = w2
  c = c
  Team = {s, t}
  User = {u1}
  Provider = {q1, q2}
  Editor = {w1, w2}
  Caller = {c}
  MaxEdits = 2
SPECIFICATION ApiSpec
SYMMETRY Symmetry
INVARIANTS StoreSound MentionsSettle ConfigAsSubmitted StartSound WriterEntitled
  CreateJustified GrantsSettle
CHECK_DEADLOCK FALSE
