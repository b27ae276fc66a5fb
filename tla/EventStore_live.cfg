\* Every call returns when nothing dies.
SPECIFICATION MCFairSpec

CONSTANTS
  Writers = {w1, w2}
  Rebuilders = {r1}
  Scans = {s1}
  Statuses = {received}
  Months = 1
  ShortWrites = {"fragment", "unterminated"}
  LatestCap = 2
  MaxAppends = 2
  MaxRebuilds = 1
  MaxFaults = 0
  NONE = NONE
  FirstScan = s1
  FirstStatus = received
  Scenarios = {"rebuild"}
  w1 = w1
  w2 = w2
  r1 = r1
  s1 = s1
  received = received

PROPERTIES
  CallsReturn

\* The bounds run out and the model ends there: no deadlock check.
CHECK_DEADLOCK FALSE
