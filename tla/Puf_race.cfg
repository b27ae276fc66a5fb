\* Two threads issue and authenticate with one device, or enrol two; one call dies or writes short.
SPECIFICATION MCFairSpec

CONSTANTS
  Procs = {p1, p2}
  Devices = {d1, d2}
  BankSize = 2
  TTL = 1
  ShortWrites = {"fragment", "unterminated"}
  MaxEnrolments = 3
  MaxCalls = 5
  MaxTime = 2
  MaxFaults = 1
  NONE = NONE
  FirstDevice = d1
  FirstProc = p1
  p1 = p1
  p2 = p2
  d1 = d1
  d2 = d2

INVARIANTS
  TypeOK
  ServesOnce

PROPERTIES
  AcceptedInTime
  ImplementsLife
  CallsReturn
  KeptUnlessReplaced

\* The bounds run out and the model ends there: no deadlock check.
CHECK_DEADLOCK FALSE
