SPECIFICATION FairSpec
CONSTANTS
  Tasks = {t1, t2}
  Owners = {o}
  Keys = {k1, k2}
  Providers = {bot, api}
  CallbackDriven = {bot}
  Attempts = {a1}
  Dispatchers = {d1}
  MaxActive = 1
  MaxRevision = 1
  MaxCrashes = 1
  MaxReconfigs = 0
  Verdicts = {"completed"}
  None = None
VIEW WithoutEvents
PROPERTIES QueuedAdvances DeadlineEnforced CancelReachesProvider
