SPECIFICATION Spec
CONSTANTS
  Tasks = {t1, t2}
  Owners = {o}
  Keys = {k1, k2}
  Providers = {bot, api}
  CallbackDriven = {bot}
  Attempts = {a1}
  Dispatchers = {d1, d2}
  MaxActive = 2
  MaxRevision = 1
  MaxCrashes = 1
  MaxReconfigs = 1
  Verdicts = {"completed"}
  None = None
SYMMETRY Symmetry
VIEW WithoutEvents
INVARIANTS SubmitOnce CancelSentOnce InFlightNotAbandoned PollHasHandle
PROPERTY ImplementsLifecycle
