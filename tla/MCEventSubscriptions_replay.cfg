SPECIFICATION Spec
CONSTANTS
  Tasks = {t1, t2}
  MaxEvents = 3
  Principals = {p}
  Urls = {u1, u2}
  MaxSubscriptions = 1
  MaxPending = 1
  MaxCallbacks = 1
  MaxAttempts = 2
  MaxAdmissions = 2
  MaxRegrants = 0
  MaxLapses = 0
  MaxCrashes = 0
SYMMETRY Symmetry
PROPERTY NoReplay
