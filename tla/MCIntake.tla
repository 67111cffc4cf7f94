------------------------------- MODULE MCIntake -------------------------------
EXTENDS Intake, TLC

CONSTANTS r1, r2, f1, paper, lights

\* "lighting paperwork" contains "paperwork".
Contains == (paper :> {paper}) @@ (lights :> {lights, paper})

Ask(kind) ==
  [kind |-> kind, title |-> None, task |-> None, deadline |-> None,
   constraint |-> None, range |-> None, create |-> TRUE]

Constraint(day, rest) == [day |-> day, rest |-> rest]
Range_(first, last) == [first |-> first, last |-> last, from |-> 19, to |-> 21]

\* Every kind of intent, each way to name a task and a time, batches of one day
\* and of two and one that is too long, and times that have passed.
SomeIntents ==
  {Ask(k) : k \in {"BRIEF", "QUERY_CONTEXT", "STORE_CONTEXT", "UNKNOWN"}} \cup
  {[Ask("CREATE_TASK") EXCEPT !.title = paper],
   [Ask("CREATE_TASK") EXCEPT !.title = lights, !.constraint = Constraint("today", "other")],
   [Ask("SCHEDULE_TASK") EXCEPT !.title = paper],
   [Ask("SCHEDULE_TASK") EXCEPT !.title = paper, !.constraint = Constraint("today", "morning")],
   [Ask("SCHEDULE_TASK") EXCEPT !.title = lights, !.constraint = Constraint("tomorrow", ""),
                                !.deadline = 2],
   [Ask("SCHEDULE_TASK") EXCEPT !.task = f1, !.constraint = Constraint("today", "evening"),
                                !.create = FALSE],
   [Ask("SCHEDULE_TASK") EXCEPT !.task = f1, !.constraint = Constraint(None, "afternoon")],
   [Ask("CREATE_CALENDAR_EVENTS") EXCEPT !.title = paper, !.range = Range_(1, 1)],
   [Ask("CREATE_CALENDAR_EVENTS") EXCEPT !.title = paper, !.range = Range_(1, 2)],
   [Ask("CREATE_CALENDAR_EVENTS") EXCEPT !.title = paper, !.range = Range_(1, 3)]}

\* No task, an open one, or one that is done.
SomeTasks ==
  [ForeignTasks -> {None} \cup {[title |-> lights, done |-> d, due |-> At(1, 12)] : d \in BOOLEAN}]

Symmetry == Permutations(Requests)
=============================================================================
