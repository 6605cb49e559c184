\* Attaching two EventSets to one thread.
CONSTANTS
  a = a
  b = b
  c = c
  p = p
  q = q
  main = main
  worker = worker
  user = user
  all = all
  None = None
  Natives = {a}
  Presets = {}
  PresetDef <- MCPresetDef0
  NumCntrs = 1
  NumMpxCntrs = 1
  HwCounters = 1
  OpenMayFail = FALSE
  Threads = {main, worker}
  Self = main
  Domains = {user}
  DefaultDomain = user
  Liberties = {"attach"}
  MaxSets = 2
  MaxTicks = 0
SPECIFICATION Spec
INVARIANT ExclusiveRun
