\* Three scenarios of up to three appends, a rebuild and one fault.
SPECIFICATION MCSpec

CONSTANTS
  Writers = {w1, w2}
  Rebuilders = {r1}
  Scans = {s1, s2}
  Statuses = {received, approved}
  Months = 2
  ShortWrites = {"fragment", "unterminated"}
  LatestCap = 2
  MaxAppends = 3
  MaxRebuilds = 1
  MaxFaults = 1
  NONE = NONE
  FirstScan = s1
  FirstStatus = received
  Scenarios = {"turn", "rebuild", "alone"}
  w1 = w1
  w2 = w2
  r1 = r1
  s1 = s1
  s2 = s2
  received = received
  approved = approved

SYMMETRY Symmetry

INVARIANTS
  TypeOK
  OneJournal
  ChainIntact
  AckedFound
  ProjectionsTrue
  LatestAlone

PROPERTIES
  ImplementsLog

\* The bounds run out and the model ends there: no deadlock check.
CHECK_DEADLOCK FALSE
