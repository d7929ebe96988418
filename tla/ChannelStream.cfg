\* Three messages to ch.json, two direct publishes and two flows; limits of one and two for sixteen.
SPECIFICATION FairSpec
CONSTANTS
  Messages = 3
  Publishes = 2
  Flows = 2
  ReadLimit = 1
  ChannelLimit = 2
CHECK_DEADLOCK FALSE
INVARIANTS SentIsPrefix
PROPERTIES AnsweredUnlessBlocked GoesOut
