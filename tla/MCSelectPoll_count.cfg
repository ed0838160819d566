CONSTANTS
  Entries <- MCEntries
  FdValues <- MCFdValues
  EventSets <- MCEventSets
  Timeouts <- MCTimeouts
  MaxCalls = 2

SPECIFICATION Spec

PROPERTY ResultCountsEntries
