------------------------------ MODULE DailyBrief ------------------------------
(***************************************************************************)
(* DailyBriefService.build and TodayDashboardService.build: a brief of one day *)
(* out of four services that fail independently, and the dashboard made of it. *)
(* Times count slots from the beginning of day 0 on the wall clock of        *)
(* BEACON_TIMEZONE; nothing is written anywhere.                             *)
(***************************************************************************)
EXTENDS Integers, Sequences, FiniteSets

CONSTANTS DayLength,          \* slots of a day
          Events,             \* rows that calendars may hold
          Tasks,              \* rows that Vikunja may hold
          Scenarios,          \* what a brief may be asked about in an instance
          Minutes,            \* answers of Waze
          TravelBuffer,       \* DAILY_BRIEF_TRAVEL_BUFFER_MINUTES
          PriorityTaskLimit,  \* PRIORITY_TASK_LIMIT
          MaxFaults,          \* bound of the model: failed calls
          None

DayStart(day) == day * DayLength
DayOf(time) == time \div DayLength

\* The clock, the date asked for (None for today), the settings, and what the
\* calendars and Vikunja hold.
ScenarioRows ==
  [now : Int, date : Int \cup {None}, travel : {"off", "no home", "on"},
   weather : BOOLEAN, events : SUBSET Events, tasks : SUBSET Tasks]
Held(s) ==
  /\ IsFiniteSet(s.events) /\ IsFiniteSet(s.tasks)
  /\ \A t, u \in s.tasks : t.id = u.id => t = u

\* id tells two events apart that are otherwise equal; uid is shared by the
\* occurrences of a recurring event.  The end may be the start, or lie before it.
ASSUME BriefAssumption ==
  /\ DayLength \in Nat \ {0}
  /\ \A e \in Events :
       /\ DOMAIN e = {"id", "uid", "title", "location", "start", "end", "block"}
       /\ e.start \in Int /\ e.end \in Int /\ e.block \in BOOLEAN
  /\ \A t \in Tasks :
       /\ DOMAIN t = {"id", "done", "due", "priority"}
       /\ t.id \in Int /\ t.done \in BOOLEAN /\ t.due \in Int \cup {None}
       /\ t.priority \in Int
  /\ \A s \in Scenarios : s \in ScenarioRows /\ Held(s)
  /\ Minutes \subseteq Nat /\ TravelBuffer \in Nat
  /\ PriorityTaskLimit \in Nat \ {0} /\ MaxFaults \in Nat
  /\ None \notin Int \cup Events \cup Tasks \cup {"conditions"}

Codes == {"CALENDAR_UNAVAILABLE", "VIKUNJA_UNAVAILABLE", "TRAVEL_NOT_CONFIGURED",
          "TRAVEL_ESTIMATE_FAILED", "SEQUENTIAL_TRAVEL_FAILED", "WEATHER_UNAVAILABLE"}

VARIABLES pc,         \* where build is
          scenario,   \* what it is asked, and finds
          events,     \* all_events
          tasks,      \* all_tasks
          position,   \* of the loops over events
          travel,     \* estimates
          conflicts,  \* the ones travel has
          weather,
          warnings,
          brief, dashboard,      \* the answers
          failed                 \* history: the calls that failed

vars == <<pc, scenario, events, tasks, position, travel, conflicts, weather, warnings,
          brief, dashboard, failed>>

Today == DayOf(scenario.now)
Target == IF scenario.date = None THEN Today ELSE scenario.date

Init ==
  /\ pc = "calendar"
  /\ scenario \in Scenarios
  /\ events = <<>> /\ tasks = {} /\ position = 1
  /\ travel = <<>> /\ conflicts = {} /\ weather = None /\ warnings = <<>>
  /\ brief = None /\ dashboard = None
  /\ failed = {}

\* A call fails: what it was for is missing, and a warning says so.
Fails(code) ==
  /\ Cardinality(failed) < MaxFaults
  /\ failed' = failed \cup {<<code, position>>}
  /\ warnings' = Append(warnings, code)
Succeeds == UNCHANGED <<failed, warnings>>

-----------------------------------------------------------------------------
(* The calendars and the tasks.                                             *)

\* fetch_calendar_events: what touches the day, more than its bounds.
InDay(e, day) == e.end > DayStart(day) /\ e.start < DayStart(day + 1)

Before(a, b) == a.start < b.start \/ (a.start = b.start /\ a.end < b.end)

\* Fault: events are taken as they come.
AnyOrder(S) ==
  {s \in [1..Cardinality(S) -> S] :
     \A i, j \in 1..Cardinality(S) : i < j => s[i] # s[j]}

\* Sorted by start and end; calendar and title only settle the order of the rest.
Orderings(S) ==
  {s \in [1..Cardinality(S) -> S] :
     \A i, j \in 1..Cardinality(S) : i < j => s[i] # s[j] /\ ~Before(s[j], s[i])}

ReadCalendar ==
  /\ pc = "calendar" /\ pc' = "tasks"
  /\ \/ events' \in Orderings({e \in scenario.events : InDay(e, Target)}) /\ Succeeds
     \/ Fails("CALENDAR_UNAVAILABLE") /\ UNCHANGED events
  /\ UNCHANGED <<scenario, tasks, position, travel, conflicts, weather, brief, dashboard>>

ReadTasks ==
  /\ pc = "tasks" /\ pc' = "travel"
  /\ \/ tasks' = scenario.tasks /\ Succeeds
     \/ Fails("VIKUNJA_UNAVAILABLE") /\ UNCHANGED tasks
  /\ UNCHANGED <<scenario, events, position, travel, conflicts, weather, brief, dashboard>>

-----------------------------------------------------------------------------
(* Travel: from home to every place, and from one event to the next.        *)

Conflict(type, ids) == [type |-> type, ids |-> ids]

\* Travel is switched off, or there is no home to start from.
WithoutTravel ==
  /\ pc = "travel" /\ scenario.travel # "on"
  /\ pc' = "weather"
  /\ warnings' = IF scenario.travel = "off" THEN warnings
                 ELSE Append(warnings, "TRAVEL_NOT_CONFIGURED")
  /\ UNCHANGED <<scenario, events, tasks, position, travel, conflicts, weather, brief,
                 dashboard, failed>>

LeaveBy(e, minutes) == e.start - (minutes + TravelBuffer)

\* The loop over the events with a place.
AtEvent == pc = "travel" /\ scenario.travel = "on" /\ position <= Len(events)
ToNextEvent == position' = position + 1 /\ UNCHANGED pc

Estimated(e, leaveBy) ==
  /\ travel' = Append(travel, [event |-> e, leaveBy |-> leaveBy])
  /\ conflicts' = IF leaveBy < scenario.now THEN conflicts \cup {Conflict("LEAVE_BY_PASSED", {e.id})}
                  ELSE conflicts

\* Fault: a failure ends the loop.
EstimateUntilFailure ==
  LET e == events[position] IN
  /\ AtEvent
  /\ \/ e.location = None /\ Succeeds /\ ToNextEvent /\ UNCHANGED <<travel, conflicts>>
     \/ /\ e.location # None /\ Succeeds /\ ToNextEvent
        /\ \E minutes \in Minutes : Estimated(e, LeaveBy(e, minutes))
     \/ /\ e.location # None /\ Fails("TRAVEL_ESTIMATE_FAILED")
        /\ position' = Len(events) + 1 /\ UNCHANGED <<pc, travel, conflicts>>
  /\ UNCHANGED <<scenario, events, tasks, weather, brief, dashboard>>

Estimate ==
  LET e == events[position] IN
  /\ AtEvent
  /\ \/ e.location = None /\ Succeeds /\ UNCHANGED <<travel, conflicts>>
     \/ /\ e.location # None /\ Succeeds
        /\ \E minutes \in Minutes : Estimated(e, LeaveBy(e, minutes))
     \/ /\ e.location # None /\ Fails("TRAVEL_ESTIMATE_FAILED")
        /\ UNCHANGED <<travel, conflicts>>
  /\ ToNextEvent
  /\ UNCHANGED <<scenario, events, tasks, weather, brief, dashboard>>

EstimatesEnd ==
  /\ pc = "travel" /\ scenario.travel = "on" /\ position > Len(events)
  /\ pc' = "between" /\ position' = 1
  /\ UNCHANGED <<scenario, events, tasks, travel, conflicts, weather, warnings, brief,
                 dashboard, failed>>

\* The loop over neighbours in the list that both have a place.
Between ==
  LET a == events[position]
      b == events[position + 1]
      placed == a.location # None /\ b.location # None
  IN
  /\ pc = "between" /\ position < Len(events)
  /\ \/ ~placed /\ Succeeds /\ UNCHANGED conflicts
     \/ /\ placed /\ Succeeds
        /\ \E minutes \in Minutes :
             conflicts' = IF a.end + minutes > b.start
                          THEN conflicts \cup {Conflict("INSUFFICIENT_TRAVEL_TIME", {a.id, b.id})}
                          ELSE conflicts
     \/ placed /\ Fails("SEQUENTIAL_TRAVEL_FAILED") /\ UNCHANGED conflicts
  /\ ToNextEvent
  /\ UNCHANGED <<scenario, events, tasks, travel, weather, brief, dashboard>>

BetweenEnds ==
  /\ pc = "between" /\ position >= Len(events)
  /\ pc' = "weather" /\ position' = 1
  /\ UNCHANGED <<scenario, events, tasks, travel, conflicts, weather, warnings, brief,
                 dashboard, failed>>

ReadWeather ==
  /\ pc = "weather" /\ pc' = "answer"
  /\ \/ ~scenario.weather /\ Succeeds /\ UNCHANGED weather
     \/ scenario.weather /\ Succeeds /\ weather' = "conditions"
     \/ scenario.weather /\ Fails("WEATHER_UNAVAILABLE") /\ UNCHANGED weather
  /\ UNCHANGED <<scenario, events, tasks, position, travel, conflicts, brief, dashboard>>

-----------------------------------------------------------------------------
(* The answer.                                                              *)

FirstOf(seq, hits) ==
  IF hits = {} THEN None ELSE seq[CHOOSE k \in hits : \A l \in hits : k <= l]

\* Fault: an event that begins as another ends counts as reached.
TouchedBy(i, j) == i < j /\ \A k \in (i + 1)..j : events[k].start <= events[i].end

\* The inner loop for i gets to j: it ends at the first event that begins after i.
ReachedFrom(i, j) == i < j /\ \A k \in (i + 1)..j : events[k].start < events[i].end

Overlap(a, b) ==
  Conflict(IF a.block # b.block THEN "WORK_BLOCK_OVERLAP" ELSE "OVERLAPPING_EVENTS",
           {a.id, b.id})

OverlapConflicts ==
  {Overlap(events[p[1]], events[p[2]]) :
     p \in {p \in (DOMAIN events) \X (DOMAIN events) :
              ReachedFrom(p[1], p[2]) /\ events[p[1]].start < events[p[2]].end}}

NextEvent ==
  FirstOf(events, {n \in DOMAIN events :
                     ~events[n].block /\ (Target = Today => events[n].end > scenario.now)})

\* Priority first, then the earlier date, none the latest, then the id.
TaskBefore(t, u) ==
  \/ t.priority > u.priority
  \/ /\ t.priority = u.priority
     /\ \/ t.due # None /\ (u.due = None \/ t.due < u.due)
        \/ t.due = u.due /\ t.id < u.id

Ranked(S) ==
  [n \in 1..Cardinality(S) |->
     CHOOSE t \in S : Cardinality({u \in S : TaskBefore(u, t)}) = n - 1]

Incomplete == {t \in tasks : ~t.done}
Overdue == {t \in Incomplete : t.due # None /\ DayOf(t.due) < Target}
DueToday == {t \in Incomplete : t.due # None /\ DayOf(t.due) = Target}
Highest ==
  IF Incomplete = {} THEN None
  ELSE CHOOSE t \in Incomplete : \A u \in Incomplete : ~TaskBefore(u, t)

\* The leave-by time in spoken_summary: uid and title have to agree.
SpokenLeaveBy(e) ==
  LET estimate == FirstOf(travel, {k \in DOMAIN travel :
                            travel[k].event.uid = e.uid /\ travel[k].event.title = e.title})
  IN IF estimate = None THEN None ELSE estimate.leaveBy

Answer ==
  /\ pc = "answer" /\ pc' = "done"
  /\ brief' = [events |-> {e \in {events[n] : n \in DOMAIN events} : ~e.block},
               blocks |-> {e \in {events[n] : n \in DOMAIN events} : e.block},
               overdue |-> Ranked(Overdue), dueToday |-> Ranked(DueToday),
               highest |-> Highest, next |-> NextEvent,
               leaveBy |-> IF NextEvent = None THEN None ELSE SpokenLeaveBy(NextEvent),
               conflicts |-> OverlapConflicts \cup conflicts]
  /\ UNCHANGED <<scenario, events, tasks, position, travel, conflicts, weather, warnings,
                 dashboard, failed>>

-----------------------------------------------------------------------------
(* The dashboard: today's brief, told once more.                            *)

\* An event without uid is known by its title.
DashboardLeaveBy(e) ==
  LET estimate == FirstOf(travel, {k \in DOMAIN travel :
                            /\ travel[k].event.uid = e.uid
                            /\ e.uid = None => travel[k].event.title = e.title})
  IN IF estimate = None THEN None ELSE estimate.leaveBy

UpTo(limit, seq) == IF Len(seq) <= limit THEN seq ELSE SubSeq(seq, 1, limit)

\* Fault: a task that heads the list comes again in its group.
PriorityTasksTwice ==
  IF brief.highest = None THEN <<>>
  ELSE UpTo(PriorityTaskLimit, <<brief.highest>> \o brief.overdue \o brief.dueToday)

\* A list that has an element at most once, and the list without it.
Without(seq, x) ==
  LET k == CHOOSE k \in DOMAIN seq : seq[k] = x
  IN IF \E n \in DOMAIN seq : seq[n] = x
     THEN [n \in 1..(Len(seq) - 1) |-> IF n < k THEN seq[n] ELSE seq[n + 1]]
     ELSE seq

\* No task is twice in the groups, but the highest may be in one of them.
PriorityTasks ==
  IF brief.highest = None THEN <<>>
  ELSE UpTo(PriorityTaskLimit,
            <<brief.highest>> \o Without(brief.overdue \o brief.dueToday, brief.highest))

\* An event summary must end after it begins; if it does not, there is no dashboard.
Dashboard ==
  IF brief.next # None /\ brief.next.end <= brief.next.start THEN [status |-> "failed"]
  ELSE [status |-> "ok", priority |-> PriorityTasks,
        attention |-> {brief.overdue[n] : n \in DOMAIN brief.overdue},
        next |-> brief.next,
        leaveBy |-> IF brief.next = None THEN None ELSE DashboardLeaveBy(brief.next)]

Project ==
  /\ pc = "done" /\ dashboard = None /\ scenario.date = None
  /\ dashboard' = Dashboard
  /\ UNCHANGED <<pc, scenario, events, tasks, position, travel, conflicts, weather,
                 warnings, brief, failed>>

Next ==
  \/ ReadCalendar \/ ReadTasks \/ WithoutTravel \/ Estimate \/ EstimatesEnd
  \/ Between \/ BetweenEnds \/ ReadWeather \/ Answer \/ Project

Spec == Init /\ [][Next]_vars

-----------------------------------------------------------------------------
(* Safety.                                                                  *)

Estimates == [event : Events, leaveBy : Int]
ConflictTypes == {"OVERLAPPING_EVENTS", "WORK_BLOCK_OVERLAP", "INSUFFICIENT_TRAVEL_TIME",
                  "LEAVE_BY_PASSED"}

TypeOK ==
  /\ pc \in {"calendar", "tasks", "travel", "between", "weather", "answer", "done"}
  /\ scenario \in ScenarioRows /\ Held(scenario)
  /\ events \in Seq(Events) /\ tasks \subseteq Tasks
  /\ position \in Nat \ {0}
  /\ travel \in Seq(Estimates)
  /\ \A c \in conflicts : c.type \in ConflictTypes
  /\ weather \in {None, "conditions"}
  /\ warnings \in Seq(Codes)
  /\ failed \subseteq Codes \X Nat
  /\ brief # None => pc = "done"
  /\ dashboard # None => pc = "done" /\ scenario.date = None

\* The events of the day that the calendars held; the tasks that Vikunja held.
HeldToday == {e \in scenario.events : InDay(e, Target)}
OpenTasks == {t \in scenario.tasks : ~t.done}
Failed(code) == \E f \in failed : f[1] = code

\* docs/daily-brief.md: two events conflict if they overlap, and touching bounds are
\* no overlap.  The brief has a conflict, of the right kind, for every pair of events
\* of the day that overlap, and for no other, although its loops look no further than
\* the first event that begins too late.
OverlapsReported ==
  pc = "done" /\ ~Failed("CALENDAR_UNAVAILABLE") =>
    {c \in brief.conflicts : c.type \in {"WORK_BLOCK_OVERLAP", "OVERLAPPING_EVENTS"}} =
    {Conflict(IF p[1].block = p[2].block THEN "OVERLAPPING_EVENTS" ELSE "WORK_BLOCK_OVERLAP",
              {p[1].id, p[2].id}) :
       p \in {p \in HeldToday \X HeldToday :
                 p[1] # p[2] /\ p[1].start < p[2].end /\ p[2].start < p[1].end}}

\* A service that fails takes no more with it than what it was asked for, and never
\* without a warning: every section is complete unless its own call failed, every
\* event with a place has its estimate unless the call for it failed, and there is a
\* warning for each failed call.
NothingMissingSilently ==
  pc = "done" =>
    /\ ~Failed("CALENDAR_UNAVAILABLE") => brief.events \cup brief.blocks = HeldToday
    /\ ~Failed("VIKUNJA_UNAVAILABLE") =>
         /\ \A t \in OpenTasks : t.due # None /\ DayOf(t.due) < Target =>
              \E n \in DOMAIN brief.overdue : brief.overdue[n] = t
         /\ \A t \in OpenTasks : t.due # None /\ DayOf(t.due) = Target =>
              \E n \in DOMAIN brief.dueToday : brief.dueToday[n] = t
    /\ scenario.travel = "on" =>
         \A n \in DOMAIN events : events[n].location # None =>
           (<<"TRAVEL_ESTIMATE_FAILED", n>> \notin failed <=>
              \E k \in DOMAIN travel : travel[k].event = events[n])
    /\ scenario.weather => (weather = None <=> Failed("WEATHER_UNAVAILABLE"))
    /\ \A code \in Codes \ {"TRAVEL_NOT_CONFIGURED"} :
         Cardinality({n \in DOMAIN warnings : warnings[n] = code}) =
         Cardinality({f \in failed : f[1] = code})

\* The dashboard shows at most PriorityTaskLimit tasks, none twice and the most urgent
\* of all first; overdue tasks go before the ones that are due, and none of them is
\* left out of what needs attention.  It has what the brief says of the next event,
\* and a time to leave only if that event can be reached from home by then, provided
\* that no other event of the day bears its name.
RightLeaveBy(e, leaveBy) ==
  (\A o \in HeldToday : o.uid = e.uid /\ (e.uid # None \/ o.title = e.title) => o = e) =>
    leaveBy = None \/ \E k \in DOMAIN travel : travel[k] = [event |-> e, leaveBy |-> leaveBy]

DashboardAgrees ==
  /\ pc = "done" /\ brief.next # None => RightLeaveBy(brief.next, brief.leaveBy)
  /\ dashboard # None /\ dashboard.status = "ok" =>
       LET shown == dashboard.priority
           isShown(t) == \E n \in DOMAIN shown : shown[n] = t
       IN /\ Len(shown) <= PriorityTaskLimit
          /\ \A m, n \in DOMAIN shown : m # n => shown[m] # shown[n]
          /\ tasks # {} => \A t \in OpenTasks : shown # <<>> /\ ~TaskBefore(t, shown[1])
          /\ \A t \in Overdue : isShown(t) \/ Len(shown) = PriorityTaskLimit
          /\ \A n \in 2..Len(shown) : shown[n] \in DueToday => \A t \in Overdue : isShown(t)
          /\ dashboard.attention = Overdue
          /\ dashboard.next = brief.next
          /\ dashboard.next # None => RightLeaveBy(dashboard.next, dashboard.leaveBy)

-----------------------------------------------------------------------------
(* The inductive invariant.                                                 *)

\* What was read is what was there, in order, unless the call failed.
AsRead ==
  /\ pc = "calendar" \/ Failed("CALENDAR_UNAVAILABLE") \/
       {events[n] : n \in DOMAIN events} = HeldToday
  /\ \A m, n \in DOMAIN events :
       m < n => events[m] # events[n] /\ events[m].start <= events[n].start
  /\ pc \in {"calendar", "tasks"} \/ Failed("VIKUNJA_UNAVAILABLE") \/ tasks = scenario.tasks

\* Each call is made once.
Passed(n) == pc \in {"between", "weather", "answer", "done"} \/ n < position
FailedOnce(f) ==
  /\ f[1] = "CALENDAR_UNAVAILABLE" => pc # "calendar"
  /\ f[1] = "VIKUNJA_UNAVAILABLE" => pc \notin {"calendar", "tasks"}
  /\ f[1] = "TRAVEL_ESTIMATE_FAILED" => pc \notin {"calendar", "tasks"} /\ Passed(f[2])
  /\ f[1] = "SEQUENTIAL_TRAVEL_FAILED" =>
       pc \in {"weather", "answer", "done"} \/ (pc = "between" /\ f[2] < position)
  /\ f[1] = "WEATHER_UNAVAILABLE" => pc \in {"answer", "done"}

WarningsFor(code) == {n \in DOMAIN warnings : warnings[n] = code}
FailuresOf(code) == {f \in failed : f[1] = code}
WarnedOf(code) == Cardinality(WarningsFor(code)) = Cardinality(FailuresOf(code))

\* What the loop over the places has done so far.
HasEstimate(n) == \E k \in DOMAIN travel : travel[k].event = events[n]
TravelSoFar ==
  /\ pc \in {"calendar", "tasks"} => position = 1 /\ travel = <<>>
  /\ scenario.travel = "on" /\ pc \notin {"calendar", "tasks"} =>
       \A n \in DOMAIN events : events[n].location # None /\ Passed(n) =>
         (<<"TRAVEL_ESTIMATE_FAILED", n>> \notin failed <=> HasEstimate(n))
  /\ \A n \in DOMAIN events : HasEstimate(n) => Passed(n)
  /\ \A k \in DOMAIN travel : \E n \in DOMAIN events : travel[k].event = events[n]

\* A brief is made of what was read.
BriefTells ==
  /\ pc \in {"answer", "done"} /\ scenario.weather =>
       (weather = None <=> Failed("WEATHER_UNAVAILABLE"))
  /\ pc \notin {"answer", "done"} => weather = None
  /\ \A c \in conflicts : c.type \in {"LEAVE_BY_PASSED", "INSUFFICIENT_TRAVEL_TIME"}
  /\ pc = "done" =>
       /\ brief.events \cup brief.blocks = {events[n] : n \in DOMAIN events}
       /\ brief.conflicts = OverlapConflicts \cup conflicts
       /\ brief.overdue = Ranked(Overdue) /\ brief.dueToday = Ranked(DueToday)

\* A call that failed left nothing behind.
NothingInstead ==
  /\ pc = "calendar" \/ Failed("CALENDAR_UNAVAILABLE") => events = <<>>
  /\ pc \in {"calendar", "tasks"} \/ Failed("VIKUNJA_UNAVAILABLE") => tasks = {}

\* The summary and the dashboard are made of the same.
SummaryTells ==
  /\ pc = "done" =>
       /\ brief.highest = Highest /\ brief.next = NextEvent
       /\ brief.leaveBy = IF NextEvent = None THEN None ELSE SpokenLeaveBy(NextEvent)
  /\ dashboard # None => dashboard = Dashboard

IndInv ==
  /\ TypeOK /\ AsRead /\ NothingInstead /\ TravelSoFar /\ BriefTells /\ SummaryTells
  /\ IsFiniteSet(failed) /\ \A f \in failed : FailedOnce(f)
  /\ \A code \in Codes \ {"TRAVEL_NOT_CONFIGURED"} : WarnedOf(code)
=============================================================================
