SPECIFICATION Spec
CONSTANTS
  Tasks = {t1, t2}
  MaxEvents = 2
  Principals = {p}
  Urls = {u1, u2}
  MaxSubscriptions = 1
  MaxPending = 1
  MaxCallbacks = 1
  MaxAttempts = 2
  MaxAdmissions = 2
  MaxRegrants = 1
  MaxLapses = 1
  MaxCrashes = 1
SYMMETRY Symmetry
INVARIANTS TypeOK WithinLimits NoOrphans SendsExclusive
PROPERTY NoResend
