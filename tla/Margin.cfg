\* Two averages that differ in their number of digits.
CONSTANTS
  Sizes = 2
  NUM_EVENTS = 1
  Times = {60, 1000}
  test_sizes <- MCTestSizes
SPECIFICATION MSpec
INVARIANT FivePercent
\* The script ends.
CHECK_DEADLOCK FALSE
