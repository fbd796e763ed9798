CONSTANTS
  s = s
  t = t
  u = u
  p = p
  q = q
  e1 = e1
  e2 = e2
  c = c
  Team = {s, t}
  User = {u}
  Provider = {p}
  Editor = {e1}
  Caller = {c}
  MaxEdits = 1
SPECIFICATION Spec
INVARIANT OnlyMembersCreate
CHECK_DEADLOCK FALSE
