CONSTANTS
  a = a
  b = b
  c1 = c1
  c2 = c2
  k1 = k1
  k2 = k2
  k3 = k3
  mount = mount
  app = app
  None = None
  Nil = Nil
  NoDoc = NoDoc
  NoService = NoService
  Id = {a, b}
  Click = {mount, k1, k2, k3}
  Mount = mount
  Item = {a, b}
  VClick = {k1, k2, k3}
  Doc = {a, b}
  PClick = {k1, k2, k3}
  Service = {c1, app}
  Guided = {app}
  DClick = {c1, c2}
  Kind = {"openai", "gemini"}
  Preset = {"default_model", "light_model"}
  Required = {"default_model"}
  FClick = {c1, c2}
  MaxKeys = 1
SPECIFICATION PanelSpec
SYMMETRY Symmetry
INVARIANTS ListsSettle OneAtATime ViewsAgree PreviewSound DialogsSound FormSound
CHECK_DEADLOCK FALSE
