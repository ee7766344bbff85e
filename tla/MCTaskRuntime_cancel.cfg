SPECIFICATION Spec
CONSTANTS
  Tasks = {t1, t2}
  Owners = {o}
  Keys = {k1, k2}
  Providers = {bot}
  CallbackDriven = {bot}
  Attempts = {a1, a2}
  Dispatchers = {d1, d2}
  MaxActive = 1
  MaxRevision = 2
  MaxCrashes = 1
  MaxReconfigs = 0
  Verdicts = {"completed", "failed"}
  None = None
SYMMETRY Symmetry
INVARIANT CancelHolds

