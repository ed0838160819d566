CONSTANTS
  h1 = h1
  h2 = h2
  MSG = MSG
  NONE = NONE
  Handles <- MCHandles
  MsgHandle = MSG
  NoHandle = NONE
  Arrays <- MCFanOutArrays
  MaxEntries = 4
  Timeouts <- MCTimeouts
  MaxWaitObjects = 3
  MaxCalls = 1
  SpawnCanFail = TRUE

SPECIFICATION Spec
INVARIANT WorkersJoined
