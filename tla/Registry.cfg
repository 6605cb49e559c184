\* Two threads that come and go, a table that grows once.
CONSTANTS
  main = main
  worker = worker
  other = other
  None = None
  Threads = {main, worker}
  Wide = {worker}
  Targets = {other}
  Infos = {x1, x2, x3}
  Blocks = {e1, e2, e3}
  InitSlots = 1
  MaxSlots = 2
SPECIFICATION RegistrySpec
INVARIANTS RingWhole SearchEnds SlotsCounted HandlesHold FindsItself MastersLive
PROPERTY ShutdownFrees ServesThreads
SYMMETRY Addresses
