\* Mints and runs of one chip that race, die and wait, and every design.
SPECIFICATION MCFairSpec

CONSTANTS
  Mints = {m1, m2}
  Runs = {r1, r2}
  m1 = m1
  m2 = m2
  r1 = r1
  r2 = r2
  Policy <- Configured
  Designs <- AllDesigns
  Design <- AllDesign
  Likeness <- AllLikeness
  Reference = "clean"
  Fields <- TwinFields
  Schema = "2.1"
  Outputs <- AllOutputs
  ChallengeTtl = 1
  Attempts = 2
  MaxClock = 3
  MaxFaults = 1
  MaxEdits = 2
  NONE = NONE

INVARIANTS
  TypeOK
  AttestedInOrder
  EvidenceOfOneMint
  FailuresCaused

PROPERTIES
  EverythingEnds

\* The processes end and the model ends there: no deadlock check.
CHECK_DEADLOCK FALSE
