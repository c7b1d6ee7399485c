\* The upload of an empty file; packets are lost and reordered.
SPECIFICATION Spec
CONSTANTS
  N = 0
  W = 1
  Faults = {"loss"}
INVARIANTS
  DoneMeansComplete
CHECK_DEADLOCK FALSE
