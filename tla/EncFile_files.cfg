SPECIFICATION FairSpec
CONSTANTS
  c1 = c1
  c2 = c2
  Clients <- TwoClients
  Alphabet <- AB
  Files <- TwoFiles
  Keys <- Swap
  Buf = 3
  MaxRounds <- Twice
  MaxFaults = 1
  None = None
INVARIANTS
  TypeOK
  EncryptedAsAsked
  AnsweringIsHarmless
  StreamsAgree
PROPERTIES
  Served
CHECK_DEADLOCK FALSE
