\* Two test sizes, any PAPI call of any process failing.
CONSTANTS
  Sizes = 2
  NUM_EVENTS = 1
  Times = {50, 60, 1000}
  test_sizes <- MCTestSizes
SPECIFICATION MSpec
INVARIANTS MovesAtOnce CountsKernel
PROPERTIES Settles
\* The script ends.
CHECK_DEADLOCK FALSE
