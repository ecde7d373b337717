SPECIFICATION FairSpec
CONSTANTS
  a = a
  b = b
  s = s
  t = t
  here = here
  there = there
  Clients <- OneClient
  Servers <- TwoServers
  Hosts <- TwoHosts
  HostOf <- Apart
  Broadcast = Broadcast
  Targets <- Anywhere
  Queries <- TwoQueries
  Rand <- Sequence
  MaxSends = 2
  MaxLives <- Restarts
  RcvBuf = 1
  None = None
INVARIANTS
  TypeOK
  WaitingHasCause
PROPERTIES
  AnswersToOwnQueriesMatch
  QueryEnds
CHECK_DEADLOCK FALSE
