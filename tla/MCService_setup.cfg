SPECIFICATION Spec
CONSTANTS
  Handlers = {h1, h2}
  Scripts = {1, 2}
  Jobs = {job}
  Values = {a, b}
  Env = Env
  MaxPushes = 1
  Setups <- Every
SYMMETRY Symmetry
INVARIANTS OneUpdate
PROPERTIES RestartIsSafe SettingsSurvive
