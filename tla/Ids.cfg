SPECIFICATION FairSpec
CONSTANTS
  Hosts = {1, 2}
  Octet <- MCOctet
  RandomWorkers = {0}
  MaxWorkerId = 1
  MaxDatacenterId = 1
  SequenceMask = 1
  CreationTime = 1
  StartTimes = {1}
  MaxClock = 3
  MaxBacks = 2
INVARIANTS
  UniqueIds
  SnowflakeInv
PROPERTY WaitEnds
