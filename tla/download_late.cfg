\* No packet is lost, repeated or damaged; some are slow.
SPECIFICATION Spec
CONSTANTS
  N = 3
  W = 2
  Faults = {}
INVARIANTS
  DownloadSurvives
CHECK_DEADLOCK FALSE
