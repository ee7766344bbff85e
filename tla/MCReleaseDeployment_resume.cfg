SPECIFICATION Spec
CONSTANTS
  Releases = {r1, r2}
  Baseline = Baseline
  Helpers = {h1, h2}
  None = None
  MaxCrashes = 0
  MaxDrifts = 0
SYMMETRY Symmetry
PROPERTY ResumesOldRuntime
