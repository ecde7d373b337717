SPECIFICATION Spec
CONSTANTS
  u1 = u1
  u2 = u2
  b1 = b1
  b2 = b2
  None = None
  Users <- TwoUsers
  Boxes <- OneBox
  MAX_CLIENTS = 1
  WriteLen = 3
  MaxLines = 2
  MaxMails = 1
  May <- Some
INVARIANTS
  TypeOK
  StoredAsTyped
  AnsweredIsStored
  AnswersInStep
  AnswersAreTrue
  EntriesAreOwn
  NoCommandForgotten
  SessionsAgree
CHECK_DEADLOCK FALSE
