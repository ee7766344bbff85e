SPECIFICATION MonitorSpec
CONSTANTS
  Callers = {p1, p2}
  Procs = {p1, p2}
  Rehearsers = {p1, p2}
  Targets = {c1, c2}
  HealthEvents = {e1, e2}
  BriefingEvents = {b1}
  NoEvent = NoEvent
  Nobody = Nobody
  AttemptLimit = 2
  MaxCalls = 3
  MaxFaults = 1
  Incidents = {i1, i2}
  NoIncident = NoIncident
  MaxDiagnosisFaults = 1
  MaxDay = 2
  MaxAsks = 3
  NoProc = NoProc
  Outputs = {o1, o2}
  NoOutput = NoOutput
  MaxOpens = 4
  MaxRehearsals = 3
  Domains = {equity, crypto}
  Crypto = crypto
  MaxArtifact = 2
  MaxCheckFaults = 2
  MaxChecks = 2
  BriefingDomains = {d1}
  MaxObject = 2
  MaxRuns = 2
SYMMETRY Symmetry
CHECK_DEADLOCK FALSE
INVARIANTS TypesOK AtMostOncePerIncident DiagnosedOnce OneOutcome AppendsAccepted SubmitsOnce ConsumersAgree DigestOnce
PROPERTIES KeepsContract QuietMeansReached PendingKeepsSubscription ClosesOnlyWhole QuietExitTellsAll
