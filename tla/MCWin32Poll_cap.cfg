CONSTANTS
  h1 = h1
  h2 = h2
  MSG = MSG
  NONE = NONE
  Handles <- MCHandles
  MsgHandle = MSG
  NoHandle = NONE
  Arrays <- MCCappedArrays
  MaxEntries = 5
  Timeouts <- MCTimeouts
  MaxWaitObjects = 3
  MaxCalls = 1
  SpawnCanFail = FALSE

SPECIFICATION Spec
INVARIANT SignalledHandleReported
