\* Two copies of one content, two intake threads, staged or inline, a crash.
\* The worker idles once the pool of jobs is used up.
CONSTANTS
  f1 = f1
  f2 = f2
  j1 = j1
  j2 = j2
  j3 = j3
  j4 = j4
  i1 = i1
  i2 = i2
  x1 = x1
  x2 = x2
  NoFile = NoFile
  NoJob = NoJob
  Files = {f1, f2}
  Content <- SameBytes
  Jobs = {j1, j2}
  Ingesters = {i1, i2}
  Extractors = {x1}
  Modes = {TRUE, FALSE}
  MaxAttempts = 2
  MaxStale = 1
  SlowRuns = FALSE
  MaxCrashes = 1
  MaxErrors = 0
  MaxRetries = 0
  MaxRequests = 1
SPECIFICATION Spec
SYMMETRY AllAlike
CHECK_DEADLOCK FALSE
INVARIANTS TypeOK ActiveHasOriginal TripwireBound OutcomeRecorded NothingVanishes
PROPERTY Implements
