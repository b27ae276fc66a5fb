\* Two processes, two runs of one file, one death or failing save.
SPECIFICATION Spec

CONSTANTS
  Procs = {p1, p2}
  Files = {f1}
  Challenges = {c1}
  Decisions = {"APPROVED", "LICENSE_REQUIRED", "HOLD"}
  Challenge <- Copies
  MaxRuns = 2
  MaxFaults = 1
  NONE = NONE
  p1 = p1
  p2 = p2
  f1 = f1
  c1 = c1

SYMMETRY Symmetry

INVARIANTS
  TypeOK
  DeployedOnce
  VerdictJustified
  FailClosed
  RunningAttended

PROPERTIES
  VerdictStays

\* The bounds run out and the model ends there: no deadlock check.
CHECK_DEADLOCK FALSE
