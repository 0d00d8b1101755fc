\* One tenant, two workers, two documents of which a projection shows one.
CONSTANTS
  t1 = t1
  t2 = t2
  d1 = d1
  d2 = d2
  d3 = d3
  w1 = w1
  w2 = w2
  r1 = r1
  NoTenant = NoTenant
  Tenants = {t1}
  Docs = {d1, d2}
  Workers = {w1, w2}
  Readers = {r1}
  MaxPoints = 1
  MaxClock = 2
  MaxCrashes = 1
  MaxLosses = 1
SPECIFICATION FairSpec
CHECK_DEADLOCK FALSE
INVARIANTS TypeOK OneRecompute FreshMeansCurrent MapIsWhole
PROPERTIES RequestsServed
