\* Every liberty, one EventSet with three native events: what the arrays keep.
CONSTANTS
  a = a
  b = b
  c = c
  p = p
  q = q
  main = main
  worker = worker
  user = user
  all = all
  None = None
  Natives = {a, b, c}
  Presets = {p, q}
  PresetDef <- MCPresetDef3
  NumCntrs = 3
  NumMpxCntrs = 3
  HwCounters = 2
  OpenMayFail = FALSE
  Threads = {main, worker}
  Self = main
  Domains = {user}
  DefaultDomain = user
  Liberties = {"remove", "domain", "overlap", "attach"}
  MaxSets = 1
  MaxTicks = 1
SPECIFICATION Spec
CONSTRAINT Unread
INVARIANTS TypeOK OwnersMatch
PROPERTY FailedCallUndone
