\* Seven frames of 9 or 10 octets and a heartbeat, in chunks cut anywhere.
SPECIFICATION FairSpec
CONSTANTS
  None = None
  Channels <- MCChannels
  Script <- MCScript
  MaxBeats = 1
  Window = 10
CHECK_DEADLOCK FALSE
INVARIANTS WholeAndInOrder FailsOnlyIfMixed
PROPERTY AllArrive
