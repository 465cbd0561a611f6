SPECIFICATION Spec
CONSTANTS
  m1 = m1
  m2 = m2
  Managers = {m1, m2}
  Targets = {"active"}
  Validity = {TRUE}
  Faults = {"api", "crash", "edit", "recreate"}
  DeadlineDuration = 2
  MaxRetry = 2
  UintRange = 16
SYMMETRY ManagerSymmetry
INVARIANTS LockInv NoOverlap AnnouncementExpires
PROPERTY LeaseSpec
