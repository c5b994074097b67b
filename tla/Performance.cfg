SPECIFICATION Spec
CONSTANTS
  Workers = {w1, w2}
  Subject = s
  Manager = m
  HR = hr
  Hires = {h1, h2}
  Names = {"Ann", "Bob"}
  Workloads <- MCWorkloads
  MaxEntries = 3
  Failures = TRUE
SYMMETRY Alike
INVARIANTS ProbationAnnounced
PROPERTIES IndependentSelf

CHECK_DEADLOCK FALSE
