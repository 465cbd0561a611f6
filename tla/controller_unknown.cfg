SPECIFICATION Spec
CONSTANTS
  m1 = m1
  Managers = {m1}
  Targets = {"active", "inactive"}
  Validity = {TRUE}
  Faults = {"api"}
  DeadlineDuration = 1
  MaxRetry = 2
  UintRange = 16
PROPERTY UnknownOnlyAtFirst
