SPECIFICATION FairSpec
CONSTANTS
  p1 = p1
  p2 = p2
  p3 = p3
  p4 = p4
  Peers <- MCPeers
  ThreadNums <- MCThreadNums
  MaxStarts = 2
  Descriptors = 3
INVARIANTS
  PoolBeforeListen
  Balanced
  EstablishedInOwnLoop
PROPERTIES
  StartListens
  Reached
CHECK_DEADLOCK FALSE
