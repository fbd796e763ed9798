CONSTANTS
  r1 = r1
  r2 = r2
  u1 = u1
  u2 = u2
  k1 = k1
  Request = {r1, r2}
  User = {u1, u2}
  Provider = {"p", "q"}
  KeyId = {k1}
  Config <- Configs
  Input <- Inputs
  MaxTok = 1
  MaxChanges = 1
SPECIFICATION Spec
SYMMETRY Symmetry
INVARIANTS CallJustified AuditedOnce PoliciesAccounted Reconciled
CHECK_DEADLOCK FALSE
