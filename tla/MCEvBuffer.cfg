SPECIFICATION Spec
CONSTANTS
  x = x
  CR = CR
  LF = LF
  b1 = b1
  b2 = b2
  Buffers = {b1, b2}
  Byte = {CR, LF, x}
  SizeMax = 6
  MinLength = 1
  PrintfSpace = 1
  MaxRead = 1
  MaxChunk = 2
  MaxData = 3
INVARIANTS
  ExpandGivesSpace
  ListenerKnowsLength
  LinesStable
PROPERTIES
  IsQueue
