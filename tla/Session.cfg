\* Up to three connects, two channels; the server may refuse, close or lose the connection, the reader fail.
SPECIFICATION FairSession
CONSTANTS
  Channels = {c1, c2}
  maxRetries = 3
  MayRefuse = TRUE
  MayDrop = TRUE
  MayClose = TRUE
  MayFail = TRUE
  MayTimeOut = TRUE
  MayMiss = TRUE
  MayStall = TRUE
  MayWedge = TRUE
CHECK_DEADLOCK FALSE
INVARIANTS TypeOK HeartbeatFollowsSocket StateFollowsSocket AnsweredBeforeEnd
PROPERTIES StartSettles CloseCompletes ServerCloseEndsSocket
