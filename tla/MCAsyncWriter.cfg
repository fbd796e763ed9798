CONSTANTS
  e1 = e1
  e2 = e2
  e3 = e3
  e4 = e4
  Entry = {e1, e2, e3, e4}
  Capacity = 2
  BatchSize = 2
SPECIFICATION FairSpec
INVARIANTS Conservation CancelFlushed
PROPERTIES ImplementsTrail EntrySettled RunReturns
CHECK_DEADLOCK FALSE
