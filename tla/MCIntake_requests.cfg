SPECIFICATION Spec
CONSTANTS
  r1 = r1
  r2 = r2
  f1 = f1
  paper = paper
  lights = lights
  None = None
  Requests = {r1, r2}
  ForeignTasks = {f1}
  Tasks = {r1, r2, f1}
  Titles = {paper, lights}
  Contained <- Contains
  MaxOccurrences = 2
  Intents <- SomeIntents
  Hours = {10, 20}
  InitialTasks <- SomeTasks
  MaxFaults = 1
SYMMETRY Symmetry
INVARIANTS IndInv ReplyTellsWrites FailureLeavesAtMostTask BatchTellsWhatHappened
PROPERTIES CreatesOnlyIfNone ScheduledAsAsked
CHECK_DEADLOCK FALSE
