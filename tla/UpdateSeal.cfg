\* A callback-drain gate and one fault.
CONSTANTS
  Participants = {1}
  Gates = {1}
  Drain = {1}
  Sealable = {1}
  QuiesceRank <- MCQuiesceRank
  ActivateRank <- MCActivateRank
  MaxFaults = 1
  MaxLate = 0
SPECIFICATION FairSpec
PROPERTIES RecoveryResumes
CHECK_DEADLOCK FALSE
