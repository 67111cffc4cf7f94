------------------------------- MODULE Planner -------------------------------
(***************************************************************************)
(* StructuredIntent and ActionPlanner: what a user may ask for and the list of *)
(* actions it becomes.  Days are counted, times are hours since the beginning *)
(* of day 0 on the wall clock of BEACON_TIMEZONE.                            *)
(***************************************************************************)
EXTENDS Integers, Sequences

CONSTANTS Titles,          \* of tasks and events, in their normal form
          Tasks,           \* ids of Vikunja
          MaxOccurrences,  \* BEACON_MAX_DAILY_RANGE_OCCURRENCES
          None

At(day, hour) == 24 * day + hour
ClockHours == 0..23
Today == 0   \* the date a request comes in; days before it are negative

Kinds == {"BRIEF", "CREATE_TASK", "SCHEDULE_TASK", "CREATE_CALENDAR_EVENTS",
          "STORE_CONTEXT", "QUERY_CONTEXT", "FORGET_CONTEXT", "UNKNOWN"}

\* The text of a time constraint: the day it names, and what is left of it.
Constraints == [day : {None, "today", "tomorrow"},
                rest : {"", "morning", "afternoon", "evening", "other"}]

\* DailyEventRange: inclusive dates, local times.
Ranges == {g \in [first : Int, last : Int, from : ClockHours, to : ClockHours] :
             g.first <= g.last /\ g.from < g.to}

IntentRecords ==
  [kind : Kinds, title : Titles \cup {None}, task : Tasks \cup {None},
   deadline : Int \cup {None}, constraint : Constraints \cup {None},
   range : Ranges \cup {None}, create : BOOLEAN]

\* The validator of StructuredIntent.
Valid(i) ==
  /\ i.kind = "SCHEDULE_TASK" => ((i.task = None) <=> (i.title # None))
  /\ i.kind = "CREATE_TASK" => i.title # None
  /\ i.kind = "CREATE_CALENDAR_EVENTS" =>
       i.title # None /\ i.range # None /\ i.constraint = None

ValidIntents == {i \in IntentRecords : Valid(i)}

-----------------------------------------------------------------------------
(* Time constraints.                                                        *)

WholeDay == [from |-> 9, to |-> 22]
Windows == [from : ClockHours, to : ClockHours]

Window(rest) ==
  CASE rest = "morning"   -> [from |-> 9, to |-> 12]
    [] rest = "afternoon" -> [from |-> 12, to |-> 17]
    [] rest = "evening"   -> [from |-> 17, to |-> 22]
    [] OTHER              -> None

NamedDay(c) ==
  CASE c.day = "today"    -> Today
    [] c.day = "tomorrow" -> Today + 1
    [] OTHER              -> None

\* Blank text names neither a day nor a part of one.
Supported(c) == c = None \/ (c.rest # "other" /\ (c.day # None \/ c.rest # ""))

\* Fault: the day a constraint names goes before the date that was given.
NamedDeadline(i) ==
  IF i.constraint # None /\ NamedDay(i.constraint) # None THEN NamedDay(i.constraint)
  ELSE i.deadline

\* A date that was given goes before the one the constraint names.
Deadline(i) ==
  IF i.deadline # None THEN i.deadline
  ELSE IF i.constraint # None THEN NamedDay(i.constraint) ELSE None

-----------------------------------------------------------------------------
(* Plans.                                                                    *)

ActionTypes == {"REQUEST_CLARIFICATION", "GENERATE_BRIEF", "QUERY_CONTEXT",
                "MUTATE_CONTEXT", "CREATE_CALENDAR_EVENT", "CREATE_TASK",
                "SCHEDULE_WORK_BLOCK"}

PlannedActions ==
  [action : ActionTypes, title : Titles \cup {None}, task : Tasks \cup {None},
   deadline : Int \cup {None}, window : Windows \cup {None}, start : Int, end : Int,
   create : BOOLEAN, reuse : BOOLEAN]

Plain(type) ==
  [action |-> type, title |-> None, task |-> None, deadline |-> None,
   window |-> None, start |-> 0, end |-> 0, create |-> TRUE, reuse |-> FALSE]

Occurrences(i) == i.range.last - i.range.first + 1

\* Fault: the last day is left out.
EventsButLast(i) ==
  [n \in 1..(Occurrences(i) - 1) |->
     [Plain("CREATE_CALENDAR_EVENT") EXCEPT
        !.title = i.title,
        !.start = At(i.range.first + n - 1, i.range.from),
        !.end = At(i.range.first + n - 1, i.range.to)]]

\* One event a day, the last day included.
DailyEvents(i) ==
  [n \in 1..Occurrences(i) |->
     [Plain("CREATE_CALENDAR_EVENT") EXCEPT
        !.title = i.title,
        !.start = At(i.range.first + n - 1, i.range.from),
        !.end = At(i.range.first + n - 1, i.range.to)]]

Resolve(i) ==
  [Plain("CREATE_TASK") EXCEPT !.title = i.title, !.reuse = TRUE, !.deadline = Deadline(i)]
WorkBlock(i) ==
  [Plain("SCHEDULE_WORK_BLOCK") EXCEPT
     !.task = i.task, !.deadline = Deadline(i), !.create = i.create,
     !.window = IF i.constraint = None THEN None ELSE Window(i.constraint.rest)]

\* Scheduling by title finds or creates the task first.
Scheduling(i) == IF i.task = None THEN <<Resolve(i), WorkBlock(i)>> ELSE <<WorkBlock(i)>>

\* ValueError of _plan_daily_calendar_events: its other checks repeat Ranges.
Refused(i) == i.kind = "CREATE_CALENDAR_EVENTS" /\ Occurrences(i) > MaxOccurrences

\* What is not understood is asked about: the intent, or the time of any other.
Unclear(i) == i.kind = "UNKNOWN" \/ ~Supported(i.constraint)

PlanClear(i) ==
  CASE i.kind = "CREATE_CALENDAR_EVENTS" -> DailyEvents(i)
    [] i.kind = "QUERY_CONTEXT" -> <<Plain("QUERY_CONTEXT")>>
    [] i.kind \in {"STORE_CONTEXT", "FORGET_CONTEXT"} -> <<Plain("MUTATE_CONTEXT")>>
    [] i.kind = "BRIEF" -> <<[Plain("GENERATE_BRIEF") EXCEPT !.deadline = Deadline(i)]>>
    [] i.kind = "CREATE_TASK" ->
         <<[Plain("CREATE_TASK") EXCEPT !.title = i.title, !.deadline = Deadline(i)]>>
    [] i.kind = "SCHEDULE_TASK" -> Scheduling(i)

Plan(i) == IF Unclear(i) THEN <<Plain("REQUEST_CLARIFICATION")>> ELSE PlanClear(i)
=============================================================================
