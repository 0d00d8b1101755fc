\* Two workers that share one ledger, inline ingestion, two stages on one budget:
\* runs may outlast their lease, and a worker's start re-queues the other's rows.
CONSTANTS
  d1 = d1
  d2 = d2
  w1 = w1
  w2 = w2
  t1 = t1
  t2 = t2
  None = None
  Docs = {d1}
  Features <- LlmStages
  Extract = "extract"
  Registered <- LlmPair
  Inline <- LlmInline
  Deps <- LlmDeps
  LaneLimit <- Wide
  Groups = {"llm"}
  Group <- LlmPairGroup
  GroupLimit <- LlmOne
  Chain <- LlmChain
  Workers = {w1, w2}
  Threads = {t1, t2}
  Owner <- TwoOwners
  Releases <- OneRelease
  Version <- Versions
  MaxAttempts = 2
  MaxPerPass = 1
  SlowRuns = TRUE
  MaxCrashes = 0
  MaxLosses = 0
  MaxRetries = 0
  MaxGroups = 0
SPECIFICATION FairSpec
INVARIANT GroupCap
PROPERTY NoStuckRow
