SPECIFICATION Spec
CONSTANTS
  None = None
  u1 = u1
  u2 = u2
  show = show
  meal = meal
  hall = hall
  DayLength = 4
  Events <- MCEvents
  Tasks <- MCTasks
  Scenarios <- MCScenarios
  Minutes = {0, 2}
  TravelBuffer = 1
  PriorityTaskLimit = 3
  MaxFaults = 2
INVARIANTS IndInv OverlapsReported NothingMissingSilently DashboardAgrees
CHECK_DEADLOCK FALSE
