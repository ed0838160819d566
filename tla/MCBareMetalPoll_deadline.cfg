CONSTANTS
  w1 = w1
  w2 = w2
  s1 = s1
  s2 = s2
  t1 = t1
  t2 = t2
  NULL = NULL
  Wakeups <- MCWakeups
  Signallers <- MCSignallers
  Tokens <- MCOneToken
  Timeouts <- MCTimeouts
  MaxCalls = 3
  MaxSignals = 3

SPECIFICATION Spec

INVARIANT DeadlineRespected
