\* Every content through one command; two processes with edits, deaths and retries; a directory.
SPECIFICATION MCFairSpec

CONSTANTS
  Procs = {p1, p2}
  Files = {f1, f2}
  f1 = f1
  f2 = f2
  p1 = p1
  p2 = p2
  Order <- Sorted
  Contents <- AllContents
  Facts <- AllFacts
  Directories <- AllDirectories
  Edits <- FewContents
  MaxRuns = 3
  MaxFaults = 1
  MaxEdits = 1
  NONE = NONE

INVARIANTS
  TypeOK
  VerdictsJustified
  RefusalsRecorded
  AnswerJudged

PROPERTIES
  ImplementsRunLife
  RunsRecover

\* The bounds run out and the model ends there: no deadlock check.
CHECK_DEADLOCK FALSE
