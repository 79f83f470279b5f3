SPECIFICATION RingSpec
CONSTANTS
  WqCapacity = 4
  Items = {0, 1, 2}
  NoItem = 255
INVARIANT RingOK
PROPERTY ImplementsFifo
