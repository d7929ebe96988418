\* Two consumers over two tags (which they may share, one after the other), two deliveries
\* to each; both sides may cancel.
SPECIFICATION FairSpec
CONSTANTS
  s1 = s1
  s2 = s2
  t1 = t1
  t2 = t2
  Subs <- MCSubs
  Tags <- MCTags
  NoSub = NoSub
  NoTag = NoTag
  MaxDeliveries = 2
CHECK_DEADLOCK FALSE
INVARIANTS OwnDeliveriesInOrder AgreeAtRest
PROPERTY CancelEndsStream
