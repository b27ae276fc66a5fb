\* One thread, one timeout, retries for ever.
SPECIFICATION FairSpec

CONSTANTS
  Procs = {p1}
  Scans = {s1}
  MaxDigests = 2
  MaxRevokes = 0
  MaxFaults = 1
  NONE = NONE
  REJECT = REJECT
  p1 = p1
  s1 = s1

PROPERTIES
  AnchoredInTheEnd
