\* Two hosts behind two hard RPC gates; the operator keeps resuming.
CONSTANTS
  Participants = {1, 2}
  Gates = {1, 2}
  Drain = {}
  Sealable = {}
  QuiesceRank <- MCQuiesceRank
  ActivateRank <- MCActivateRank
  MaxFaults = 2
  MaxLate = 0
SPECIFICATION FairSpec
PROPERTIES Terminates
CHECK_DEADLOCK FALSE
