\* Three keys of which two fit the map, two threads whose clocks differ by one.
CONSTANTS
  k1 = k1
  k2 = k2
  k3 = k3
  c1 = c1
  c2 = c2
  Keys = {k1, k2, k3}
  Callers = {c1, c2}
  Capacity = 2
  Window = 5
  MaxBuckets = 2
  SweepEvery = 2
  MaxLag = 1
SPECIFICATION Spec
INVARIANT TypeOK
PROPERTY Implements
