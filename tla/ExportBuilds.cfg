\* Two requests, two export ids, two deaths of the backend or claims without a task, builds
\* that may outlast the time to live.
CONSTANTS
  b1 = b1
  b2 = b2
  s1 = s1
  s2 = s2
  NoBuild = NoBuild
  Builds = {b1, b2}
  Starters = {s1, s2}
  SlowBuilds = TRUE
  MaxFaults = 2
SPECIFICATION FairSpec
INVARIANTS TypeOK OneBuild
PROPERTIES ExportRecovers
