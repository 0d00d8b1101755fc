\* One worker process with two pool threads, staged ingestion, two documents:
\* a crash, a database error, a retry.
CONSTANTS
  d1 = d1
  d2 = d2
  w1 = w1
  w2 = w2
  t1 = t1
  t2 = t2
  None = None
  Docs = {d1, d2}
  Features <- TwoStages
  Extract = "extract"
  Registered <- TwoStages
  Inline <- Nothing
  Deps <- TwoDeps
  LaneLimit <- RootNarrow
  Groups = {"llm"}
  Group <- LlmGroup
  GroupLimit <- LlmOne
  Chain <- NoChain
  Workers = {w1}
  Threads = {t1, t2}
  Owner <- OneOwner
  Releases <- OneRelease
  Version <- Versions
  MaxAttempts = 2
  MaxPerPass = 2
  SlowRuns = FALSE
  MaxCrashes = 1
  MaxLosses = 1
  MaxRetries = 1
  MaxGroups = 0
SPECIFICATION Spec
SYMMETRY Alike
INVARIANTS TypeOK LaneCap GroupCap NoDoubleRun DoneMeansBuilt
PROPERTIES FinishedStaysFinished Implements
