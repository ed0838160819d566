CONSTANTS
  h1 = h1
  h2 = h2
  MSG = MSG
  NONE = NONE
  Handles <- MCHandles
  MsgHandle = MSG
  NoHandle = NONE
  Arrays <- MCLiveArrays
  MaxEntries = 4
  Timeouts <- MCLiveTimeouts
  MaxWaitObjects = 3
  MaxCalls = 1
  SpawnCanFail = TRUE

SPECIFICATION FairSpec
INVARIANT TypeOK
PROPERTY FanOutReturns
