\* Two EventSets that overlap, and kernels that refuse a group: what runs.
CONSTANTS
  a = a
  b = b
  c = c
  p = p
  q = q
  main = main
  worker = worker
  user = user
  all = all
  None = None
  Natives = {a, b}
  Presets = {p}
  PresetDef <- MCPresetDef
  NumCntrs = 2
  NumMpxCntrs = 3
  HwCounters = 2
  OpenMayFail = TRUE
  Threads = {main}
  Self = main
  Domains = {user}
  DefaultDomain = user
  Liberties = {"remove", "domain", "overlap"}
  MaxSets = 2
  MaxTicks = 0
SPECIFICATION Spec
INVARIANTS ExclusiveRun RunningAgrees
