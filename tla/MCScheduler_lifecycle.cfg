SPECIFICATION Spec
CONSTANTS
  r1 = r1
  r2 = r2
  r3 = r3
  f1 = f1
  t1 = t1
  t2 = t2
  work = work
  home = home
  None = None
  Requests = {r1, r2, r3}
  ForeignIds = {f1}
  Tasks = {t1, t2}
  Calendars = {work, home}
  LastSlot = 3
  Reach = 1
  Rows <- SomeRows
  InitialEvents <- SomeCalendars
  AddedEvents <- SomeAdded
  InitialNow = {2}
  MaxFaults = 1
SYMMETRY Symmetry
INVARIANT IndInv
PROPERTIES AtMostOneBlock NothingCollides RepeatsAreUnchanged WritesOnlyItsTask
CHECK_DEADLOCK FALSE
