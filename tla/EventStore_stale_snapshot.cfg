\* Two threads append to one scan.
SPECIFICATION MCSpec

CONSTANTS
  Writers = {w1, w2}
  Rebuilders = {}
  Scans = {s1}
  Statuses = {received, approved}
  Months = 1
  ShortWrites = {"fragment", "unterminated"}
  LatestCap = 2
  MaxAppends = 2
  MaxRebuilds = 0
  MaxFaults = 1
  NONE = NONE
  FirstScan = s1
  FirstStatus = received
  Scenarios = {"rebuild"}
  w1 = w1
  w2 = w2
  s1 = s1
  received = received
  approved = approved

SYMMETRY Symmetry

INVARIANTS
  SnapshotLatest

\* The bounds run out and the model ends there: no deadlock check.
CHECK_DEADLOCK FALSE
