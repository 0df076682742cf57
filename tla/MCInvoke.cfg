SPECIFICATION FairSpec
CONSTANT None = None
CHECK_DEADLOCK FALSE
INVARIANTS
  SafeToRetry
  AbandonedIsCanceled
PROPERTY Ends
