\* Three calls that overlap, close() and the server's close at any moment; the server
\* answers within the 20 s of a timer.
SPECIFICATION FairSpec
CONSTANTS
  o1 = o1
  o2 = o2
  o3 = o3
  Ops <- MCOps
  OpMethod <- MCFlowAndGets
  ClassOfMethod <- MCClassOfMethod
  EmptyGets <- MCNone
  Nobody = Nobody
  Prompt = TRUE
CHECK_DEADLOCK FALSE
INVARIANTS SparesConnection OneReader RefusalReported
PROPERTIES CallsSettle CloseAnswered CloseCompletes
