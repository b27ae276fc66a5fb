\* One run.
SPECIFICATION Spec

CONSTANTS
  Procs = {p1}
  Files = {f1}
  Challenges = {c1}
  Decisions = {"APPROVED", "LICENSE_REQUIRED", "HOLD", "MANUAL_REVIEW", "DENIED"}
  Challenge <- Copies
  MaxRuns = 1
  MaxFaults = 0
  NONE = NONE
  p1 = p1
  f1 = f1
  c1 = c1

INVARIANTS
  ReviewRouted

\* The bounds run out and the model ends there: no deadlock check.
CHECK_DEADLOCK FALSE
