SPECIFICATION LifecycleSpec
CONSTANTS
  m1 = m1
  Managers = {m1}
  Targets = {"active", "inactive"}
  Validity = {TRUE}
  Faults = {"edit"}
  DeadlineDuration = 1
  MaxRetry = 1
  UintRange = 16
  IsEvicted = TRUE
  Unreachable = FALSE
PROPERTY EvictedBeforeDelete
