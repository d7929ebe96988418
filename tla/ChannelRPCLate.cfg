\* Answers that come after 20 s, or never: an empty get, a close that overtakes.
SPECIFICATION Spec
CONSTANTS
  o1 = o1
  o2 = o2
  o3 = o3
  Ops <- MCOps
  OpMethod <- MCFlowAndGets
  ClassOfMethod <- MCClassOfMethod
  EmptyGets <- MCEmpty
  Nobody = Nobody
  Prompt = FALSE
CHECK_DEADLOCK FALSE
INVARIANTS OwnReply HolderHasTimer
PROPERTY LivesAsManaged
