\* Three staged archives, two previews at a time, two deaths of the backend.
CONSTANTS
  x1 = x1
  x2 = x2
  x3 = x3
  p1 = p1
  p2 = p2
  NoStaged = NoStaged
  Staged = {x1, x2, x3}
  Bare = {x3}
  Previews = {p1, p2}
  Compose = TRUE
  LateApply = FALSE
  MaxCrashes = 2
SPECIFICATION Spec
INVARIANTS TypeOK MixedIsParked
