CONSTANTS
  h1 = h1
  h2 = h2
  MSG = MSG
  NONE = NONE
  Handles <- MCHandles
  MsgHandle = MSG
  NoHandle = NONE
  Arrays <- MCArrays
  MaxEntries = 4
  Timeouts <- MCTimeouts
  MaxWaitObjects = 3
  MaxCalls = 2
  SpawnCanFail = FALSE

SPECIFICATION Spec
INVARIANT WorkersJoined
INVARIANT SignalledHandleReported
INVARIANT ResultCountsReported
INVARIANT FailedCallReportsNothing
INVARIANT NoFillBreak
PROPERTY ReportedOnlyReady
