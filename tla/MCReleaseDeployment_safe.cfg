SPECIFICATION Spec
CONSTANTS
  Releases = {r1, r2}
  Baseline = Baseline
  Helpers = {h1, h2}
  None = None
  MaxCrashes = 2
  MaxDrifts = 2
SYMMETRY Symmetry
INVARIANTS TypeOK ServesOnlyFit
PROPERTIES SwitchDrained OriginalPreserved ReceiptsTrue ResumesWhatRan
