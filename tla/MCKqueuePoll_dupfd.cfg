CONSTANTS
  w1 = w1
  w2 = w2
  Wakeups <- MCWakeups
  FdValues <- MCFdValues
  NEntries = 2
  Arrays <- MCAllArrays
  Timeouts <- MCTimeouts
  MaxCalls = 3
  MaxSignals = 3
  PendingModulus = 16

SPECIFICATION Spec
PROPERTY KqueueReadyReported
