\* Four channel objects over three numbers, of which two are allocated: every
\* number is reused, exhausted, and asked for explicitly.
SPECIFICATION Spec
CONSTANTS
  c1 = c1
  c2 = c2
  c3 = c3
  c4 = c4
  Chans <- MCChans
  NoChannel = NoChannel
  TunedMax = 2
  ExplicitNumbers <- MCExplicit
SYMMETRY MCSymmetry
INVARIANTS TypeOK RoutedToLive FreeIffUnmapped
CHECK_DEADLOCK FALSE
