\* Packets are lost and reordered, and everything the program sends again arrives.
SPECIFICATION FairSpec
CONSTANTS
  N = 1
  W = 1
  Faults = {"loss"}
PROPERTIES
  UploadRecovers
CHECK_DEADLOCK FALSE
