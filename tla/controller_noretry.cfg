SPECIFICATION Spec
CONSTANTS
  m1 = m1
  Managers = {m1}
  Targets = {"active", "inactive"}
  Validity = {TRUE}
  Faults = {"crash"}
  DeadlineDuration = 1
  MaxRetry = 0
  UintRange = 16
INVARIANT RetryDisabled
