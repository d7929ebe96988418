\* Two messages with a frame beyond the high water mark, published in one turn, on a
\* connection whose kernel takes every write at once.
SPECIFICATION Spec
CONSTANTS
  ch1 = ch1
  ch2 = ch2
  publish1 = publish1
  publish2 = publish2
  declare = declare
  oversized = oversized
  None = None
  Channels <- MCChannels
  Program <- MCPublishing
  MethodSize <- MCMethodSize
  HeaderSize <- MCHeaderSize
  BodySize <- MCBodySize
  FrameMax = 28
  HighWater = 20
  WriterLimit = 2
  KernelBlocks = FALSE
CHECK_DEADLOCK FALSE
INVARIANT SentAsEncoded
