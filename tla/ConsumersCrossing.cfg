\* The basic.cancel of the server against the exception of handleCancel.
SPECIFICATION Spec
CONSTANTS
  s1 = s1
  s2 = s2
  t1 = t1
  t2 = t2
  Subs <- MCSubs
  Tags <- MCTags
  NoSub = NoSub
  NoTag = NoTag
  MaxDeliveries = 2
CHECK_DEADLOCK FALSE
INVARIANT CancelFindsConsumer
