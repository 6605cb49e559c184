\* A new domain for an EventSet that has events.
CONSTANTS
  a = a
  b = b
  c = c
  p = p
  q = q
  main = main
  worker = worker
  user = user
  all = all
  None = None
  Natives = {a}
  Presets = {}
  PresetDef <- MCPresetDef0
  NumCntrs = 1
  NumMpxCntrs = 1
  HwCounters = 1
  OpenMayFail = FALSE
  Threads = {main}
  Self = main
  Domains = {user, all}
  DefaultDomain = user
  Liberties = {"domain"}
  MaxSets = 1
  MaxTicks = 1
SPECIFICATION Spec
INVARIANT ReadsOwnDomain
