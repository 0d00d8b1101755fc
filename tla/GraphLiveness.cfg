\* As GraphSafety with texts that share no name and one request, which may be a decomposition; under fairness.
CONSTANTS
  d1 = d1
  d2 = d2
  n1 = n1
  s1 = s1
  s2 = s2
  s3 = s3
  e1 = e1
  e2 = e2
  e3 = e3
  Manual = Manual
  None = None
  Docs = {d1, d2}
  Surfaces = {s1, s2, s3}
  Entities = {e1, e2, e3}
  Id <- OwnId
  Words <- Names
  Tokens = {"m", "t", "ii"}
  Ordinals = {"ii"}
  Short = {}
  Triples <- OnePair
  Parts <- OneSplit
  Texts <- ApartTexts
  Notes = {n1}
  MaxRequests = 1
  MaxCrashes = 1
SPECIFICATION FairSpec
CHECK_DEADLOCK FALSE
PROPERTY Settles
