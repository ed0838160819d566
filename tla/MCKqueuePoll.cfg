CONSTANTS
  w1 = w1
  w2 = w2
  Wakeups <- MCWakeups
  FdValues <- MCFdValues
  NEntries = 2
  Arrays <- MCDistinctArrays
  Timeouts <- MCTimeouts
  MaxCalls = 3
  MaxSignals = 2
  PendingModulus = 16

SPECIFICATION FairSpec
INVARIANT TriggeredIffPending
PROPERTY KqueueReadyReported
PROPERTY KqueueContract
PROPERTY KqueuePendingReturns
