\* One thread, three events that take turns; two EventSets share one of them.
CONSTANTS
  cyc = cyc
  ins = ins
  fpo = fpo
  main = main
  other = other
  one = one
  two = two
  None = None
  Threads = {main}
  Events = {cyc, ins, fpo}
  SCALE_EVENT = cyc
  Sets = {one, two}
  Owner <- OneThread
  MPX_MINCYC = 2
  Programs <- Both
  MaxSlice = 2
  MaxCycles = 4
SPECIFICATION Spec
INVARIANTS MultiplexTypeOK UsesMatch CurrentRuns NeverOverstates
PROPERTIES ReadsNeverDecrease EveryTurn
