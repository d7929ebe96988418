\* Two channels; three requests, or two with every failure and one or two replacements.
SPECIFICATION FairSpec
CONSTANTS
  MaxChannels = 4
  MaxLimited = 3
  MaxRequests = 3
  MaxFaulty = 2
  Size = 2
CHECK_DEADLOCK FALSE
INVARIANTS ExclusiveUse KeepsItsSize
PROPERTIES LeasesInOrder RequestsServed CloseEnds
