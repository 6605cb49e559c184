\* High-level calls while an EventSet of the application is running.
CONSTANTS
  fp = fp
  cyc = cyc
  ins = ins
  ops = ops
  main = main
  user = user
  all = all
  None = None
  Natives = {fp, cyc}
  Presets = {ins, ops}
  PresetDef <- MCPresetDef
  NumCntrs = 2
  NumMpxCntrs = 2
  HwCounters = 2
  OpenMayFail = TRUE
  Threads = {main}
  Self = main
  Domains = {user}
  DefaultDomain = user
  Liberties = {"overlap"}
  MaxSets = 2
  MaxTicks = 1
  EventOf <- MCEventOf
  TOT_CYC = cyc
  Asked <- MCAsked
  Exact = 2
SPECIFICATION HSpec
CONSTRAINT MeterBound
INVARIANT RunsWhatWasAsked
