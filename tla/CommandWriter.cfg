\* Two channels write four commands, the last of which is too long for a frame, while
\* the kernel blocks at any write.
SPECIFICATION FairSpec
CONSTANTS
  ch1 = ch1
  ch2 = ch2
  publish1 = publish1
  publish2 = publish2
  declare = declare
  oversized = oversized
  None = None
  Channels <- MCChannels
  Program <- MCProgram
  MethodSize <- MCMethodSize
  HeaderSize <- MCHeaderSize
  BodySize <- MCBodySize
  FrameMax = 28
  HighWater = 30
  WriterLimit = 2
  KernelBlocks = TRUE
CHECK_DEADLOCK FALSE
INVARIANTS WholeAndInOrder IntactUntilBackedUp
PROPERTY AllSent
