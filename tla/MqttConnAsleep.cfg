SPECIFICATION Spec
CONSTANTS
  Uint16 = 16
  Uint32 = 32
  BaseBackoff = 1
  MaxBackoff = 6
INVARIANT AsleepIsNotConnected
