CONSTANTS
  w1 = w1
  w2 = w2
  s1 = s1
  s2 = s2
  t1 = t1
  t2 = t2
  NULL = NULL
  Wakeups <- MCWakeups
  Signallers <- MCSignallers
  Tokens <- MCTokens
  Timeouts <- MCTimeouts
  MaxCalls = 2
  MaxSignals = 2

SPECIFICATION FairSpec

INVARIANT TypeOK
INVARIANT NoLostWakeup
INVARIANT TokenOwnedByLiveCall
PROPERTY BareMetalContract
PROPERTY BareMetalPendingReturns
