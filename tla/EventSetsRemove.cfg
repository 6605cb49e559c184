\* Removing an event: the positions of the others are not looked up again.
CONSTANTS
  a = a
  b = b
  c = c
  p = p
  q = q
  main = main
  worker = worker
  user = user
  all = all
  None = None
  Natives = {a, b, c}
  Presets = {}
  PresetDef <- MCPresetDef0
  NumCntrs = 3
  NumMpxCntrs = 3
  HwCounters = 3
  OpenMayFail = FALSE
  Threads = {main}
  Self = main
  Domains = {user}
  DefaultDomain = user
  Liberties = {"remove"}
  MaxSets = 1
  MaxTicks = 2
SPECIFICATION Spec
INVARIANT PositionsHold
