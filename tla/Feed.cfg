\* Submissions without a page, and a page over one or two scans under way.
SPECIFICATION MCFairSpec

CONSTANTS
  Threads = {w1, w2, cli}
  Local = {cli}
  Scans = {deployed, denied, trojan, held, licence, doubtful, unseen}
  w1 = w1
  w2 = w2
  cli = cli
  deployed = deployed
  denied = denied
  trojan = trojan
  held = held
  licence = licence
  doubtful = doubtful
  unseen = unseen
  Statuses = {"RECEIVED", "STARTED", "PASSED", "FAILED", "HOLD", "MANUAL_REVIEW", "LICENSE_REQUIRED"}
  Limit = 2
  Window = 2
  MaxTime = 2
  MaxDays = 2
  MaxRequests = 4
  MaxDiskFaults = 1
  ShortAudits = {"fragment", "unterminated"}
  Journal <- Scripts
  Runs <- Saves
  ListLimit = 1
  HydrateLimit = 1
  Attempts = 1
  MaxDrops = 1
  MaxFailures = 1
  NONE = NONE
  WAITING = WAITING
  FAILED = FAILED

INVARIANTS
  TypeOK
  AnswersSound

PROPERTIES
  PageSteady
  FeedSettles
  RequestsAnswered

CHECK_DEADLOCK FALSE
