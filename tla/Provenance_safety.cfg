\* Two threads record two scans, one is revoked, one call times out or dies.
SPECIFICATION Spec

CONSTANTS
  Procs = {p1, p2}
  Scans = {s1, s2}
  MaxDigests = 3
  MaxRevokes = 1
  MaxFaults = 1
  NONE = NONE
  REJECT = REJECT
  p1 = p1
  p2 = p2
  s1 = s1
  s2 = s2

SYMMETRY Symmetry

INVARIANTS
  TypeOK
  ClaimsTruthful

PROPERTIES
  RecordKept
  ImplementsLife
