CONSTANTS
  a = a
  b = b
  x = x
  y = y
  c1 = c1
  c2 = c2
  boot = boot
  mount = mount
  Unset = Unset
  Nobody = Nobody
  Conv = {x}
  Call = {c1, c2}
  Convo = {a, b}
  Loading = {c1, c2}
  MaxSends = 1
  Fetch = {c1, c2}
  MaxTokens = 4
  Prov = {a, b}
  Talk = {a, b}
  MClick = {c1, c2}
  Mounts = {c1, c2}
  Person = {a, b}
  Tab = {c1, c2}
  Texts = {"branding"}
  Value = {0, 1}
  SClick = {boot, mount, c1, c2}
  Boot = boot
  Load = mount
SPECIFICATION ChatSpec
SYMMETRY Symmetry
INVARIANT HistoryUnderstood
CHECK_DEADLOCK FALSE
