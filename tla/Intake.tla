-------------------------------- MODULE Intake --------------------------------
(***************************************************************************)
(* InteractionService and ActionExecutor: handlers on a thread pool that plan  *)
(* an intent and carry out its actions, one call to an external service after *)
(* the other.  Nothing is undone when a later call fails, and nothing is       *)
(* remembered between requests: what a repeat finds is what Vikunja shows it. *)
(*                                                                         *)
(* The scheduler and the registry are one call each (modules Scheduler and     *)
(* ContextRegistry look inside).  A call fails before it has an effect, or     *)
(* has its effect and the answer is lost.  Users change tasks meanwhile.      *)
(***************************************************************************)
EXTENDS Planner, FiniteSets

CONSTANTS Requests,      \* handlers; a task that one creates gets its name
          ForeignTasks,  \* tasks that others made
          Contained,     \* title -> the titles that occur in it
          Intents,       \* what is asked in an instance
          Hours,         \* the hours at which requests come in
          InitialTasks,  \* the tasks Vikunja may have at the beginning
          MaxFaults      \* bound of the model: failures and edits by users

TaskRows == [title : Titles, done : BOOLEAN, due : Int \cup {None}]

ReadTasks == [id : Tasks, row : TaskRows]
Schedules == [status : {"NEW", "UPDATED", "UNCHANGED", "RECOMMENDATION_ONLY"},
              earliest : Int, deadline : Int]

\* What a call can change, named like the audit record that tells of it.
ActionNames == {"task_created", "task_scheduled", "calendar_event_created",
                "context_mutation", "read"}
Targets == Tasks \cup Int \cup {None}
Changes == [action : ActionNames, target : Targets]
Change(action, target) == [action |-> action, target |-> target]
TaskCreated(r) == Change("task_created", r)
TaskScheduled(t) == Change("task_scheduled", t)
EventCreated(day) == Change("calendar_event_created", day)
ContextChanged == Change("context_mutation", None)

Audit(change, status) ==
  [action |-> change.action, status |-> status, target |-> change.target]

AuditStatuses == {"CREATED", "FAILED", "NEW", "UPDATED", "UNCHANGED", "RECOMMENDATION_ONLY",
                  "READ_ONLY", "DEPRECATED", "NOT_FOUND", "AMBIGUOUS", "CONFLICT"}
Audits == [action : ActionNames, status : AuditStatuses, target : Targets]

Batches == [status : {"COMPLETE", "PARTIAL", "FAILED"},
            total : Nat, completed : Nat, failed : Nat]

ReplyStatuses == {"refused", "clarification", "not_found", "ambiguous", "failed", "answered"}
Verbs == {None, "Created", "Told", "NEW", "UPDATED", "UNCHANGED", "RECOMMENDATION_ONLY"}
Replies == [status : ReplyStatuses, verb : Verbs, batch : Batches \cup {None}]

Reply(status) == [status |-> status, verb |-> None, batch |-> None]

ASSUME IntakeAssumption ==
  /\ IsFiniteSet(Tasks)
  /\ Tasks = Requests \cup ForeignTasks
  /\ Requests \cap ForeignTasks = {}
  /\ Contained \in [Titles -> SUBSET Titles]
  /\ \A t \in Titles : t \in Contained[t]
  /\ Intents \subseteq ValidIntents
  /\ Hours \subseteq ClockHours
  /\ MaxOccurrences \in Nat \ {0}
  /\ InitialTasks \subseteq [ForeignTasks -> TaskRows \cup {None}]
  /\ None \notin Titles \cup Tasks \cup Int \cup Constraints \cup Ranges \cup Windows
  /\ None \notin TaskRows \cup ReadTasks \cup ValidIntents \cup Schedules \cup Batches
                 \cup Replies
  /\ MaxFaults \in Nat

VARIABLES tasks,      \* Vikunja: id -> row, or None (external)
          pc,         \* where each handler is
          intent,     \* what it was asked
          hour,       \* the hour of its clock when it began
          position,   \* the action of the plan it is at
          current,    \* current_task: id and row as they were read
          scheduled,  \* the answer of the scheduler
          results,    \* calendar_results
          audit,      \* actions_taken
          reply,      \* its answer
          wrote,      \* history: what its calls changed
          lost,       \* history: what of that it was not told
          before,     \* history: handlers that were done when this one began
          edited,     \* history: tasks that users changed
          failures    \* history: failed calls

services == <<tasks, wrote, lost, edited, failures>>
vars == <<tasks, pc, intent, hour, position, current, scheduled, results, audit,
          reply, wrote, lost, before, edited, failures>>

Labels == {"idle", "next", "create", "done"}

Init ==
  /\ \E initial \in InitialTasks :
       tasks = [t \in Tasks |-> IF t \in ForeignTasks THEN initial[t] ELSE None]
  /\ pc = [r \in Requests |-> "idle"]
  /\ intent = [r \in Requests |-> None]
  /\ hour = [r \in Requests |-> 0]
  /\ position = [r \in Requests |-> 1]
  /\ current = [r \in Requests |-> None]
  /\ scheduled = [r \in Requests |-> None]
  /\ results = [r \in Requests |-> <<>>]
  /\ audit = [r \in Requests |-> {}]
  /\ reply = [r \in Requests |-> None]
  /\ wrote = [r \in Requests |-> {}]
  /\ lost = [r \in Requests |-> {}]
  /\ before = [r \in Requests |-> {}]
  /\ edited = {}
  /\ failures = 0

FaultAllowed == Cardinality(edited) + failures < MaxFaults

Ends(r, answer) ==
  /\ pc' = [pc EXCEPT ![r] = "done"]
  /\ reply' = [reply EXCEPT ![r] = answer]

\* What a handler reads of its plan.
Action(r) == Plan(intent[r])[position[r]]
HasAction(r) == pc[r] = "next" /\ position[r] <= Len(Plan(intent[r]))
Doing(r, type) == HasAction(r) /\ Action(r).action = type

Advance(r) ==
  /\ position' = [position EXCEPT ![r] = @ + 1]
  /\ pc' = [pc EXCEPT ![r] = "next"]
  /\ UNCHANGED reply

\* The call changes a service and says so, or it does and the handler fails for
\* want of an answer.
Writes(r, change) == wrote' = [wrote EXCEPT ![r] = @ \cup {change}]
LosesAnswer(r, change) ==
  /\ FaultAllowed
  /\ failures' = failures + 1
  /\ lost' = [lost EXCEPT ![r] = @ \cup {change}]
  /\ Ends(r, Reply("failed"))

-----------------------------------------------------------------------------
(* Interpretation, planning and the checks before the first action.          *)

Begin(r, i, h) ==
  /\ pc[r] = "idle"
  /\ intent' = [intent EXCEPT ![r] = i]
  /\ hour' = [hour EXCEPT ![r] = h]
  /\ before' = [before EXCEPT ![r] = {x \in Requests : pc[x] = "done"}]
  /\ \/ ~Refused(i) /\ pc' = [pc EXCEPT ![r] = "next"] /\ UNCHANGED reply
     \/ Refused(i) /\ Ends(r, Reply("refused"))
  /\ UNCHANGED <<services, position, current, scheduled, results, audit>>

-----------------------------------------------------------------------------
(* Actions that change nothing, and the registry.                           *)

Clarify(r) ==
  /\ Doing(r, "REQUEST_CLARIFICATION")
  /\ Ends(r, Reply("clarification"))
  /\ UNCHANGED <<services, intent, hour, position, current, scheduled, results, audit,
                 before>>

ReadOnly == {"GENERATE_BRIEF", "QUERY_CONTEXT"}

\* DailyBriefService.build and query_entity.
Read(r) ==
  /\ \E type \in ReadOnly : Doing(r, type)
  /\ audit' = [audit EXCEPT ![r] = @ \cup {Audit(Change("read", None), "READ_ONLY")}]
  /\ Advance(r)
  /\ UNCHANGED <<services, intent, hour, current, scheduled, results, before>>

\* One transaction of the registry; a refusal is an answer like any other and rolls
\* back.  UNCHANGED says that the record asked for was there already: the values that a
\* correction replaces are deprecated all the same, and an entity may have come back.
MutateContext(r) ==
  /\ Doing(r, "MUTATE_CONTEXT")
  /\ \E status \in {"CREATED", "UNCHANGED", "DEPRECATED", "NOT_FOUND", "AMBIGUOUS",
                    "CONFLICT"} :
       /\ audit' = [audit EXCEPT ![r] = @ \cup {Audit(ContextChanged, status)}]
       /\ \/ status \in {"CREATED", "DEPRECATED", "UNCHANGED"} /\ Writes(r, ContextChanged)
          \/ status \notin {"CREATED", "DEPRECATED"} /\ UNCHANGED wrote
  /\ Advance(r)
  /\ UNCHANGED <<tasks, lost, edited, failures, intent, hour, current, scheduled,
                 results, before>>

-----------------------------------------------------------------------------
(* Calendar events: a failure is an item of the answer and the batch goes on. *)

DayOf(time) == time \div 24

\* Fault: an item is named by the first day of the batch.
ItemOfBatch(r, status) ==
  /\ results' = [results EXCEPT ![r] = Append(@, status)]
  /\ audit' = [audit EXCEPT ![r] =
                 @ \cup {Audit(EventCreated(intent[r].range.first), status)}]

Item(r, status) ==
  /\ results' = [results EXCEPT ![r] = Append(@, status)]
  /\ audit' = [audit EXCEPT ![r] =
                 @ \cup {Audit(EventCreated(DayOf(Action(r).start)), status)}]

\* Fault: the first failure ends the request.
CreateEventOrFail(r) ==
  LET event == EventCreated(DayOf(Action(r).start)) IN
  /\ Doing(r, "CREATE_CALENDAR_EVENT")
  /\ \/ Item(r, "CREATED") /\ Writes(r, event) /\ Advance(r) /\ UNCHANGED <<lost, failures>>
     \/ /\ FaultAllowed /\ failures' = failures + 1
        /\ Ends(r, Reply("failed"))
        /\ UNCHANGED <<wrote, lost, results, audit, position>>
  /\ UNCHANGED <<tasks, edited, intent, hour, current, scheduled, before>>

CreateEvent(r) ==
  LET event == EventCreated(DayOf(Action(r).start)) IN
  /\ Doing(r, "CREATE_CALENDAR_EVENT")
  /\ \/ Item(r, "CREATED") /\ Writes(r, event) /\ UNCHANGED <<lost, failures>>
     \/ /\ FaultAllowed /\ failures' = failures + 1
        /\ Item(r, "FAILED")
        /\ \/ UNCHANGED <<wrote, lost>>
           \/ Writes(r, event) /\ lost' = [lost EXCEPT ![r] = @ \cup {event}]
  /\ Advance(r)
  /\ UNCHANGED <<tasks, edited, intent, hour, current, scheduled, before>>

-----------------------------------------------------------------------------
(* The task.                                                                *)

Open(t) == tasks[t] # None /\ ~tasks[t].done

\* Fault: only the very title is looked for.
MatchesExact(title) == {t \in Tasks : Open(t) /\ tasks[t].title = title}

\* An exact match goes before any number of tasks that contain the title.
Matches(title) ==
  LET exact == {t \in Tasks : Open(t) /\ tasks[t].title = title}
  IN IF exact # {} THEN exact
     ELSE {t \in Tasks : Open(t) /\ title \in Contained[tasks[t].title]}

\* list_tasks, and what _create_or_resolve makes of it.
FindExisting(r) ==
  LET matches == Matches(Action(r).title) IN
  /\ Doing(r, "CREATE_TASK") /\ Action(r).reuse
  /\ \/ /\ Cardinality(matches) > 1
        /\ Ends(r, Reply("ambiguous"))
        /\ UNCHANGED <<current, position>>
     \/ /\ matches = {} /\ Action(r).deadline = None
        /\ Ends(r, Reply("not_found"))
        /\ UNCHANGED <<current, position>>
     \/ /\ matches = {} /\ Action(r).deadline # None
        /\ pc' = [pc EXCEPT ![r] = "create"]
        /\ UNCHANGED <<current, position, reply>>
     \/ \E t \in matches :
          /\ matches = {t}
          /\ current' = [current EXCEPT ![r] = [id |-> t, row |-> tasks[t]]]
          /\ Advance(r)
  /\ UNCHANGED <<services, intent, hour, scheduled, results, audit, before>>

\* Tasks that Beacon creates are due at 22:00.
DueDatetime(deadline) == IF deadline = None THEN None ELSE At(deadline, 22)

NewTask(r) ==
  [title |-> Action(r).title, done |-> FALSE, due |-> DueDatetime(Action(r).deadline)]

\* create_task: at once, or after a search that found nothing.
CreateTask(r) ==
  /\ \/ pc[r] = "create"
     \/ Doing(r, "CREATE_TASK") /\ ~Action(r).reuse
  /\ tasks' = [tasks EXCEPT ![r] = NewTask(r)]
  /\ Writes(r, TaskCreated(r))
  /\ \/ /\ current' = [current EXCEPT ![r] = [id |-> r, row |-> NewTask(r)]]
        /\ audit' = [audit EXCEPT ![r] = @ \cup {Audit(TaskCreated(r), "CREATED")}]
        /\ Advance(r)
        /\ UNCHANGED <<lost, failures>>
     \/ LosesAnswer(r, TaskCreated(r)) /\ UNCHANGED <<current, audit, position>>
  /\ UNCHANGED <<edited, intent, hour, scheduled, results, before>>

\* get_task, when the plan begins with the scheduling action.
GetTask(r) ==
  LET t == Action(r).task IN
  /\ Doing(r, "SCHEDULE_WORK_BLOCK") /\ current[r] = None
  /\ \/ tasks[t] = None /\ Ends(r, Reply("not_found")) /\ UNCHANGED current
     \/ /\ tasks[t] # None
        /\ current' = [current EXCEPT ![r] = [id |-> t, row |-> tasks[t]]]
        /\ UNCHANGED <<pc, reply>>
  /\ UNCHANGED <<services, intent, hour, position, scheduled, results, audit, before>>

-----------------------------------------------------------------------------
(* Scheduling.                                                              *)

\* _schedule_bounds: a window counts only together with a date.
Earliest(action, h) ==
  LET window == IF action.window = None THEN WholeDay ELSE action.window
      opens == At(action.deadline, window.from)
  IN IF action.deadline = None THEN At(Today, h)
     ELSE IF action.deadline = Today /\ opens < At(Today, h) THEN At(Today, h)
     ELSE opens

\* Without a date, the scheduler takes the one the task is due, if any.
Latest(action, row) ==
  LET window == IF action.window = None THEN WholeDay ELSE action.window
  IN IF action.deadline = None THEN row.due ELSE At(action.deadline, window.to)

\* SchedulerService.schedule_task looks for a block in the bounds; it refuses a task
\* that was done when it was read, one without a date and bounds without room.
Schedule(r) ==
  LET earliest == Earliest(Action(r), hour[r])
      latest == Latest(Action(r), current[r].row)
      change == TaskScheduled(current[r].id)
  IN
  /\ Doing(r, "SCHEDULE_WORK_BLOCK") /\ current[r] # None
  /\ \/ /\ Ends(r, Reply("failed"))
        /\ UNCHANGED <<position, scheduled, audit, wrote, lost, failures>>
     \/ /\ ~current[r].row.done /\ latest # None
        /\ earliest < latest
        /\ \E status \in {"NEW", "UPDATED", "UNCHANGED", "RECOMMENDATION_ONLY"} :
             /\ (status = "RECOMMENDATION_ONLY") <=> ~Action(r).create
             /\ IF status \in {"NEW", "UPDATED"} THEN Writes(r, change) ELSE UNCHANGED wrote
             /\ \/ /\ scheduled' = [scheduled EXCEPT ![r] =
                        [status |-> status, earliest |-> earliest, deadline |-> latest]]
                   /\ audit' = [audit EXCEPT ![r] = @ \cup {Audit(change, status)}]
                   /\ Advance(r)
                   /\ UNCHANGED <<lost, failures>>
                \/ /\ status \in {"NEW", "UPDATED"}
                   /\ LosesAnswer(r, change)
                   /\ UNCHANGED <<position, scheduled, audit>>
  /\ UNCHANGED <<tasks, edited, intent, hour, current, results, before>>

-----------------------------------------------------------------------------
(* The answer.                                                              *)

\* CalendarBatchResult.
Batch(items) ==
  LET completed == Cardinality({n \in DOMAIN items : items[n] = "CREATED"})
      failed == Len(items) - completed
  IN [status |-> IF failed = 0 THEN "COMPLETE"
                 ELSE IF completed = 0 THEN "FAILED" ELSE "PARTIAL",
      total |-> Len(items), completed |-> completed, failed |-> failed]

\* _result: which sentence it is.
Verb(r) ==
  IF scheduled[r] # None THEN scheduled[r].status
  ELSE IF current[r] # None THEN "Created" ELSE "Told"

Answer(r) ==
  [status |-> "answered", verb |-> IF results[r] # <<>> THEN None ELSE Verb(r),
   batch |-> IF results[r] # <<>> THEN Batch(results[r]) ELSE None]

Finish(r) ==
  /\ pc[r] = "next" /\ position[r] > Len(Plan(intent[r]))
  /\ Ends(r, Answer(r))
  /\ UNCHANGED <<services, intent, hour, position, current, scheduled, results, audit,
                 before>>

\* A call fails before it has an effect: everything but a calendar event.
CallFails(r) ==
  /\ pc[r] = "create" \/ (HasAction(r) /\ Action(r).action \notin
                            {"CREATE_CALENDAR_EVENT", "REQUEST_CLARIFICATION"})
  /\ FaultAllowed
  /\ failures' = failures + 1
  /\ Ends(r, Reply("failed"))
  /\ UNCHANGED <<tasks, intent, hour, position, current, scheduled, results, audit,
                 wrote, lost, before, edited>>

-----------------------------------------------------------------------------
(* The users of Vikunja; they change a task at most once.                   *)

Edit(t, row) ==
  /\ t \notin edited /\ FaultAllowed
  /\ tasks' = [tasks EXCEPT ![t] = row]
  /\ edited' = edited \cup {t}
  /\ UNCHANGED <<pc, intent, hour, position, current, scheduled, results, audit, reply,
                 wrote, lost, before, failures>>

UserAdds(t, title) ==
  t \in ForeignTasks /\ tasks[t] = None /\ Edit(t, [title |-> title, done |-> FALSE, due |-> None])
UserCompletes(t) == Open(t) /\ Edit(t, [tasks[t] EXCEPT !.done = TRUE])
UserRenames(t, title) ==
  tasks[t] # None /\ tasks[t].title # title /\ Edit(t, [tasks[t] EXCEPT !.title = title])

-----------------------------------------------------------------------------

Step(r) ==
  \/ \E i \in Intents, h \in Hours : Begin(r, i, h)
  \/ Clarify(r) \/ Read(r) \/ MutateContext(r) \/ CreateEvent(r)
  \/ FindExisting(r) \/ CreateTask(r) \/ GetTask(r) \/ Schedule(r)
  \/ Finish(r) \/ CallFails(r)

Next ==
  \/ \E r \in Requests : Step(r)
  \/ \E t \in Tasks : UserCompletes(t)
  \/ \E t \in Tasks, title \in Titles : UserAdds(t, title) \/ UserRenames(t, title)

Spec == Init /\ [][Next]_vars

-----------------------------------------------------------------------------
(* Safety.                                                                  *)

TypeOK ==
  /\ tasks \in [Tasks -> TaskRows \cup {None}]
  /\ pc \in [Requests -> Labels]
  /\ intent \in [Requests -> ValidIntents \cup {None}]
  /\ hour \in [Requests -> ClockHours]
  /\ position \in [Requests -> Nat \ {0}]
  /\ current \in [Requests -> ReadTasks \cup {None}]
  /\ scheduled \in [Requests -> Schedules \cup {None}]
  /\ results \in [Requests -> Seq({"CREATED", "FAILED"})]
  /\ audit \in [Requests -> SUBSET Audits]
  /\ wrote \in [Requests -> SUBSET Changes]
  /\ lost \in [Requests -> SUBSET Changes]
  /\ reply \in [Requests -> Replies \cup {None}]
  /\ before \in [Requests -> SUBSET Requests]
  /\ edited \subseteq Tasks
  /\ failures \in Nat

\* The changes that audit records tell of.
WritingStatuses == {"CREATED", "NEW", "UPDATED", "DEPRECATED"}
ToldBy(records) ==
  {Change(a.action, a.target) : a \in {a \in records : a.status \in WritingStatuses}}
Known(r) == wrote[r] \ lost[r]

\* The registry may have changed behind an UNCHANGED of its own; no other record that
\* tells of no change stands for one.
MayHide(records) ==
  IF Audit(ContextChanged, "UNCHANGED") \in records THEN {ContextChanged} ELSE {}

AuditTells(r) ==
  /\ ToldBy(audit[r]) \subseteq Known(r)
  /\ Known(r) \subseteq ToldBy(audit[r]) \cup MayHide(audit[r])

\* InteractResponse.actions_taken is all that a client learns: an answer names no change
\* that its calls did not make, and every one they made in any service, except one that
\* a service made without an answer, or that the registry reported as UNCHANGED.
TellsWrites(r) ==
  reply[r] # None /\ reply[r].status = "answered" => AuditTells(r)
ReplyTellsWrites == \A r \in Requests : TellsWrites(r)

\* Nothing is undone when a later call fails, so a request may fail after it changed
\* something; but that is at most the task it was going to schedule (the next request
\* for that title finds it), or a change whose answer was lost.  A request that is
\* refused or asked about has changed nothing.
LeavesAtMostTask(r) ==
  reply[r] # None /\ reply[r].status # "answered" =>
    /\ Known(r) \subseteq IF intent[r].kind = "SCHEDULE_TASK" THEN {TaskCreated(r)} ELSE {}
    /\ reply[r].status # "failed" => wrote[r] = {}
FailureLeavesAtMostTask == \A r \in Requests : LeavesAtMostTask(r)

\* docs/interaction.md: one event per inclusive date.  The counts of a batch are those
\* of the events in the calendar, but for lost answers; they add up to the days asked
\* for, and a batch is complete exactly if each of these days has its event.
BatchTellsWhatHappened ==
  \A r \in Requests : reply[r] # None /\ reply[r].batch # None =>
    LET b == reply[r].batch
        days == {EventCreated(d) : d \in intent[r].range.first..intent[r].range.last}
    IN /\ wrote[r] \subseteq days
       /\ b.completed = Cardinality(Known(r)) /\ b.failed = Cardinality(days \ Known(r))
       /\ b.total = b.completed + b.failed
       /\ b.status = "COMPLETE" <=> Known(r) = days
       /\ b.status = "FAILED" <=> Known(r) = {}

\* A task that a search for title would have found.
Answers(t, title) == Open(t) /\ title \in Contained[tasks[t].title]

\* A request to schedule by title creates a task only if there is none: every open
\* task with the title was created by a handler that overlapped it, or changed by a
\* user.  In particular a repeat of a request that failed half way, or whose answer
\* was lost, finds the task the first one left.
CreatesOnlyIfNone ==
  [][\A r \in Requests : pc[r] = "create" /\ tasks'[r] # tasks[r] =>
       \A t \in Tasks \ edited :
         Answers(t, Action(r).title) => t \in Requests \ before[r]]_vars

\* The block is put for the task that was asked for: by id, or one that has the title,
\* and not one that merely contains it while another task had exactly that title.
AskedFor(r, t) ==
  IF intent[r].task # None THEN t = intent[r].task
  ELSE t \in edited \/
       /\ Open(t)
       /\ intent[r].title \in Contained[tasks[t].title]
       /\ \A o \in Tasks \ edited :
            Open(o) /\ tasks[o].title = intent[r].title /\ o \notin Requests \ before[r]
              => tasks[t].title = intent[r].title

\* The block lies on the day asked for, in the part of it asked for, and not in the
\* past unless a day gone by was asked for.
InTheTimeAskedFor(r, s) ==
  LET i == intent[r]
      day == IF i.deadline # None THEN i.deadline
             ELSE IF i.constraint = None THEN None
             ELSE IF i.constraint.day = "today" THEN 0
             ELSE IF i.constraint.day = "tomorrow" THEN 1 ELSE None
      part == IF i.constraint = None THEN "" ELSE i.constraint.rest
      opens == IF part = "afternoon" THEN 12 ELSE IF part = "evening" THEN 17 ELSE 9
      closes == IF part = "morning" THEN 12 ELSE IF part = "afternoon" THEN 17 ELSE 22
  IN /\ s.earliest < s.deadline
     /\ day = None \/ day >= 0 => s.earliest >= hour[r]
     /\ day # None => s.earliest >= 24 * day + opens /\ s.deadline <= 24 * day + closes

ScheduledAsAsked ==
  [][\A r \in Requests : scheduled'[r] # scheduled[r] =>
       AskedFor(r, current[r].id) /\ InTheTimeAskedFor(r, scheduled'[r])]_vars

-----------------------------------------------------------------------------
(* The inductive invariant.                                                 *)

Running(r) == pc[r] \in {"next", "create"}
IsBatch(r) == intent[r].kind = "CREATE_CALENDAR_EVENTS"

\* Where a handler is says what it knows and how far it is in its plan.
AtItsPlace(r) ==
  /\ pc[r] = "idle" <=> intent[r] = None
  /\ pc[r] = "done" <=> reply[r] # None
  /\ pc[r] = "idle" => position[r] = 1 /\ current[r] = None /\ wrote[r] = {}
                       /\ lost[r] = {} /\ audit[r] = {}
  /\ pc[r] = "create" => position[r] = 1 /\ Action(r).action = "CREATE_TASK" /\ Action(r).reuse
  /\ Running(r) =>
       /\ ~Refused(intent[r])
       /\ position[r] <= Len(Plan(intent[r])) + 1
       /\ position[r] = 2 /\ Len(Plan(intent[r])) = 2 /\ ~IsBatch(r) => current[r] # None

\* What a running handler has changed: nothing before its first action, the task
\* before its second one, and one event for each day it has come past.
WroteSoFar(r) ==
  /\ lost[r] \subseteq wrote[r]
  /\ intent[r] # None /\ IsBatch(r) =>
       wrote[r] \subseteq
         {EventCreated(intent[r].range.first + n - 1) : n \in 1..(position[r] - 1)}
  /\ Running(r) /\ ~IsBatch(r) =>
       /\ lost[r] = {}
       /\ position[r] = 1 => wrote[r] = {}
       /\ position[r] <= Len(Plan(intent[r])) => wrote[r] \subseteq {TaskCreated(r)}

\* Only what is the last of its plan may hide a change: before an action all is told.
ToldSoFar(r) ==
  /\ reply[r] = None => AuditTells(r)
  /\ Running(r) /\ position[r] <= Len(Plan(intent[r])) => ToldBy(audit[r]) = Known(r)

HandlerInv(r) ==
  /\ AtItsPlace(r) /\ WroteSoFar(r) /\ ToldSoFar(r)
  /\ TellsWrites(r) /\ LeavesAtMostTask(r)

\* Nobody acts who was done before, and a task of a handler is there because it made
\* it.  So a search that found nothing stays true, and the task that was chosen the one
\* asked for, but for handlers that run and users.
Overlaps ==
  \A r \in Requests :
    /\ \A x \in before[r] : pc[x] = "done"
    /\ tasks[r] # None => TaskCreated(r) \in wrote[r]
    /\ pc[r] = "create" =>
         \A t \in Tasks \ edited :
           Answers(t, Action(r).title) => t \in Requests \ before[r]
    /\ Running(r) /\ current[r] # None /\ intent[r].kind = "SCHEDULE_TASK" =>
         AskedFor(r, current[r].id)

ProgressInv == TypeOK /\ (\A r \in Requests : HandlerInv(r)) /\ Overlaps

\* The results are those of the days come past: an event is counted exactly if it is
\* in the calendar and the handler was told so, and only a batch that came to its end
\* is answered with counts.
BatchSoFar(r) ==
  /\ results[r] # <<>> => intent[r] # None /\ IsBatch(r)
  /\ intent[r] # None /\ IsBatch(r) =>
       \A n \in 1..Len(results[r]) :
         results[r][n] = "CREATED" <=>
           EventCreated(intent[r].range.first + n - 1) \in Known(r)
  /\ Running(r) /\ IsBatch(r) => Len(results[r]) = position[r] - 1
  /\ reply[r] # None /\ reply[r].batch # None =>
       /\ intent[r] # None /\ IsBatch(r)
       /\ reply[r].batch = Batch(results[r])
       /\ Len(results[r]) = position[r] - 1
       /\ Len(results[r]) = Len(Plan(intent[r]))

IndInv == ProgressInv /\ \A r \in Requests : BatchSoFar(r)
=============================================================================
