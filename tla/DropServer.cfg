SPECIFICATION DropSpec
CONSTANTS
  Nobody = Nobody
  Clients = {c1, c2, c3}
  Windows = {w1}
  MaxClients = 2
  MayChangePort = TRUE
  MayQuit = TRUE
CHECK_DEADLOCK FALSE
INVARIANT AnswersMatch
INVARIANT DataAlive
INVARIANT UploadsCounted
PROPERTY PostsAreAnswered
