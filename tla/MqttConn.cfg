SPECIFICATION FairSpec
CONSTANTS
  Uint16 = 16
  Uint32 = 32
  BaseBackoff = 1
  MaxBackoff = 6
INVARIANT TypeOK
INVARIANT BitsFollowClient
PROPERTY StoppedRestarts
PROPERTY EventuallyOnline
PROPERTY BacksOff
PROPERTY ReconnectResets
