\* One worker process with two pool threads, one document through three
\* stages: a crash, a lost status update, a code upgrade. Lanes of two, so that
\* an orphaned row never fills its own lane.
CONSTANTS
  d1 = d1
  d2 = d2
  w1 = w1
  w2 = w2
  t1 = t1
  t2 = t2
  None = None
  Docs = {d1}
  Features <- ThreeStages
  Extract = "extract"
  Registered <- ThreeStages
  Inline <- Nothing
  Deps <- ThreeDeps
  LaneLimit <- Wide
  Groups = {"llm"}
  Group <- LlmGroup
  GroupLimit <- LlmTwo
  Chain <- GraphChain
  Workers = {w1}
  Threads = {t1, t2}
  Owner <- OneOwner
  Releases <- TwoReleases
  Version <- Versions
  MaxAttempts = 2
  MaxPerPass = 2
  SlowRuns = FALSE
  MaxCrashes = 1
  MaxLosses = 1
  MaxRetries = 0
  MaxGroups = 1
SPECIFICATION FairSpec
PROPERTY NoStuckRow
