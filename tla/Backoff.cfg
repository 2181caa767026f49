SPECIFICATION Spec
CONSTANTS
  Uint16 = 8
  Uint32 = 16
INVARIANT JitterDoubles
