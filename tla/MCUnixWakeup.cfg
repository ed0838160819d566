CONSTANTS
  w1 = w1
  w2 = w2
  Wakeups <- MCWakeups
  Timeouts <- MCTimeouts
  PipeCapacity = 18
  CounterMax = 3
  MaxSignals = 19
  MaxCalls = 2

SPECIFICATION Spec
INVARIANT TypeOK
PROPERTY AckClears
