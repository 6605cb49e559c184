\* Two threads, each with an EventSet of two events that take turns.
CONSTANTS
  cyc = cyc
  ins = ins
  fpo = fpo
  main = main
  other = other
  one = one
  two = two
  None = None
  Threads = {main, other}
  Events = {cyc, ins}
  SCALE_EVENT = cyc
  Sets = {one, two}
  Owner <- EachItsOwn
  MPX_MINCYC = 2
  Programs <- Alike
  MaxSlice = 2
  MaxCycles = 4
SPECIFICATION Spec
INVARIANT TimerKept
