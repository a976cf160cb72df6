\* Two turns, one edit and one restart over a short history; the thresholds of
\* the compact route (6 messages, 4 kept) are scaled down with it.
SPECIFICATION Spec
CONSTANTS
  Turns = {t1, t2}
  Objs = {o1, o2, o3, o4}
  None = None
  Opening = 3
  CompactMin = 3
  KeepLeast = 1
  KeepMost = 2
  KeepPart = 2
  PrefaceSystem = 1
  PrefaceUser = 0
  MaxMessages = 5
  MaxEdits = 1
  MaxCrashes = 1
INVARIANTS
  Consistent
  CountCovers
SYMMETRY Symmetry
\* A deleted session is not used any more.
CHECK_DEADLOCK FALSE
