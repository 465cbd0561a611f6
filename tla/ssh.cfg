SPECIFICATION FairSpec
CONSTANTS
  MaxSessions = 3
INVARIANTS TypeOK NilMeansDone NoOrphan SessionsAreClosed
PROPERTIES NothingStartsLate CancelReturns RunnersEnd
