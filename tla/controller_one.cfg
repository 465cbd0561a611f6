SPECIFICATION FairSpec
CONSTANTS
  m1 = m1
  Managers = {m1}
  Targets <- AnyTarget
  Validity = {TRUE, FALSE}
  Faults = {"api", "crash", "edit", "recreate"}
  DeadlineDuration = 2
  MaxRetry = 2
  UintRange = 16
INVARIANTS TypeOK WorkIsAnnounced
PROPERTIES OutcomeMatchesTarget Settles
