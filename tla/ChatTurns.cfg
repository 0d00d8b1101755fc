\* Two slots, two turns at a time, one thread of up to five messages.
\* Requests idle when the bound on messages is spent.
CONSTANTS
  t1 = t1
  t2 = t2
  r1 = r1
  r2 = r2
  r3 = r3
  NoThread = NoThread
  Threads = {t1}
  Requests = {r1, r2}
  Slots = 2
  KeepRecent = 2
  MaxMessages = 5
  MaxEdits = 1
  MaxUnstarted = 1
SPECIFICATION FairSpec
CHECK_DEADLOCK FALSE
INVARIANTS TypeOK SlotsAccounted ContextComplete
PROPERTIES SlotsComeBack
