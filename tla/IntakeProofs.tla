------------------------------ MODULE IntakeProofs ------------------------------
(***************************************************************************)
(* What Intake promises for any number of handlers, tasks and failures.      *)
(*                                                                         *)
(* The inductive invariant says of each handler what its place in the plan    *)
(* implies (HandlerInv) and what handlers know of each other (Overlaps):      *)
(* together ProgressInv.  HandlerInv(r) speaks of the variables at r alone, so   *)
(* a step of r keeps it for every other handler (Frame) and there is one lemma  *)
(* per action for r.  What the results of a batch say (BatchSoFar) needs it and   *)
(* is proved after it; IndInv is both.                                        *)
(***************************************************************************)
EXTENDS Intake, FiniteSetTheorems, SequenceTheorems, TLAPS

-----------------------------------------------------------------------------
(* The shape of plans.                                                      *)

\* A valid intent has the fields of an intent.
LEMMA IntentFields ==
  ASSUME NEW i \in ValidIntents
  PROVE  /\ i \in IntentRecords /\ Valid(i)
         /\ i.kind \in Kinds /\ i.title \in Titles \cup {None}
         /\ i.task \in Tasks \cup {None} /\ i.deadline \in Int \cup {None}
         /\ i.constraint \in Constraints \cup {None} /\ i.range \in Ranges \cup {None}
         /\ i.create \in BOOLEAN
  BY DEF ValidIntents, IntentRecords

\* A date is a day or nothing.
LEMMA DeadlineType ==
  ASSUME NEW i \in ValidIntents
  PROVE  Deadline(i) \in Int \cup {None}
  BY IntentFields DEF Deadline, NamedDay, Today

\* The range of a batch.
LEMMA BatchRange ==
  ASSUME NEW i \in ValidIntents, i.kind = "CREATE_CALENDAR_EVENTS"
  PROVE  /\ i.title \in Titles
         /\ i.range.first \in Int /\ i.range.last \in Int
         /\ i.range.first <= i.range.last
         /\ i.range.from \in ClockHours /\ i.range.to \in ClockHours
         /\ i.range.from < i.range.to
         /\ Occurrences(i) \in Nat /\ Occurrences(i) >= 1
         /\ Plan(i) = DailyEvents(i)
  <1>1. i.range \in Ranges /\ i.title \in Titles /\ i.constraint = None
    BY IntentFields DEF Valid
  <1>2. ~Unclear(i)
    BY <1>1 DEF Unclear, Supported
  <1> QED  BY <1>1, <1>2 DEF Ranges, Occurrences, Plan, PlanClear

\* A batch is one event a day.
LEMMA BatchPlan ==
  ASSUME NEW i \in ValidIntents, i.kind = "CREATE_CALENDAR_EVENTS"
  PROVE  /\ Len(Plan(i)) = Occurrences(i)
         /\ \A n \in 1..Len(Plan(i)) :
              /\ Plan(i)[n].action = "CREATE_CALENDAR_EVENT"
              /\ Plan(i)[n].start = At(i.range.first + n - 1, i.range.from)
  <1>1. Occurrences(i) \in Nat /\ Plan(i) = DailyEvents(i)
    BY BatchRange
  <1>2. Len(DailyEvents(i)) = Occurrences(i)
    <2> DEFINE S == {DailyEvents(i)[n] : n \in 1..Occurrences(i)}
    <2>1. DailyEvents(i) \in [1..Occurrences(i) -> S]
      BY DEF DailyEvents
    <2>2. DailyEvents(i) \in Seq(S)
      BY <1>1, <2>1, SeqDef
    <2> QED  BY <1>1, <2>1, <2>2, LenProperties
  <1>3. ASSUME NEW n \in 1..Occurrences(i)
        PROVE  /\ DailyEvents(i)[n].action = "CREATE_CALENDAR_EVENT"
               /\ DailyEvents(i)[n].start = At(i.range.first + n - 1, i.range.from)
    BY <1>3 DEF DailyEvents, Plain
  <1> QED  BY <1>1, <1>2, <1>3

\* The two actions of scheduling by title.
LEMMA ResolveAction ==
  ASSUME NEW i \in ValidIntents
  PROVE  /\ Resolve(i).action = "CREATE_TASK" /\ Resolve(i).reuse = TRUE
         /\ Resolve(i).title = i.title /\ Resolve(i).deadline = Deadline(i)
  BY DEF Resolve, Plain

\* The action that schedules carries the task, deadline and window of the intent.
LEMMA WorkBlockAction ==
  ASSUME NEW i \in ValidIntents
  PROVE  /\ WorkBlock(i).action = "SCHEDULE_WORK_BLOCK" /\ WorkBlock(i).task = i.task
         /\ WorkBlock(i).deadline = Deadline(i)
         /\ WorkBlock(i).window =
              IF i.constraint = None THEN None ELSE Window(i.constraint.rest)
  BY DEF WorkBlock, Plain

\* Every other plan that is clear, by kind.
LEMMA PlanByKind ==
  ASSUME NEW i \in ValidIntents, ~Unclear(i)
  PROVE  /\ i.kind = "QUERY_CONTEXT" => Plan(i)[1].action = "QUERY_CONTEXT"
         /\ i.kind \in {"STORE_CONTEXT", "FORGET_CONTEXT"} => Plan(i)[1].action = "MUTATE_CONTEXT"
         /\ i.kind = "BRIEF" => Plan(i)[1].action = "GENERATE_BRIEF"
         /\ i.kind = "CREATE_TASK" =>
              /\ Len(Plan(i)) = 1 /\ Plan(i)[1].action = "CREATE_TASK" /\ ~Plan(i)[1].reuse
              /\ Plan(i)[1].title = i.title /\ Plan(i)[1].deadline = Deadline(i)
         /\ i.kind = "SCHEDULE_TASK" => Plan(i) = Scheduling(i)
         /\ i.kind \in {"QUERY_CONTEXT", "STORE_CONTEXT", "FORGET_CONTEXT", "BRIEF"} =>
              Len(Plan(i)) = 1
         /\ i.kind # "UNKNOWN"
  BY DEF Plan, PlanClear, Plain, Unclear

\* Any other plan has one action, or finds a task and schedules it.
LEMMA OtherPlan ==
  ASSUME NEW i \in ValidIntents, i.kind # "CREATE_CALENDAR_EVENTS"
  PROVE  /\ Len(Plan(i)) \in {1, 2}
         /\ Plan(i)[1].action # "CREATE_CALENDAR_EVENT"
         /\ Len(Plan(i)) = 2 =>
              /\ i.kind = "SCHEDULE_TASK" /\ i.task = None
              /\ Plan(i)[1].action = "CREATE_TASK" /\ Plan(i)[1].reuse
              /\ Plan(i)[2].action = "SCHEDULE_WORK_BLOCK"
  <1>1. CASE Unclear(i)
    BY <1>1 DEF Plan, Plain
  <1>2. CASE ~Unclear(i) /\ i.kind = "SCHEDULE_TASK"
    <2>1. Plan(i) = Scheduling(i)
      BY <1>2, PlanByKind
    <2>2. CASE i.task = None
      <3>1. Plan(i) = <<Resolve(i), WorkBlock(i)>>
        BY <2>1, <2>2 DEF Scheduling
      <3>2. Len(Plan(i)) = 2 /\ Plan(i)[1] = Resolve(i) /\ Plan(i)[2] = WorkBlock(i)
        BY <3>1
      <3> QED  BY <1>2, <2>2, <3>2, ResolveAction, WorkBlockAction
    <2>3. CASE i.task # None
      <3>1. Plan(i) = <<WorkBlock(i)>>
        BY <2>1, <2>3 DEF Scheduling
      <3>2. Len(Plan(i)) = 1 /\ Plan(i)[1] = WorkBlock(i)
        BY <3>1
      <3> QED  BY <1>2, <3>2, ResolveAction, WorkBlockAction
    <2> QED  BY <2>2, <2>3
  <1>3. CASE ~Unclear(i) /\ i.kind # "SCHEDULE_TASK"
    BY <1>3, IntentFields, PlanByKind DEF Kinds
  <1> QED  BY <1>1, <1>2, <1>3

\* A task is created or looked for first, under the title asked for.
LEMMA CreatePlan ==
  ASSUME NEW i \in ValidIntents, NEW n \in 1..Len(Plan(i)),
         Plan(i)[n].action = "CREATE_TASK"
  PROVE  /\ n = 1 /\ i.kind # "CREATE_CALENDAR_EVENTS"
         /\ Plan(i)[1].title = i.title /\ i.title \in Titles
         /\ Plan(i)[1].deadline = Deadline(i)
         /\ Plan(i)[1].reuse <=> Len(Plan(i)) = 2
         /\ Plan(i)[1].reuse <=> i.kind = "SCHEDULE_TASK"
         /\ i.kind = "SCHEDULE_TASK" => i.task = None
  <1>1. i.kind # "CREATE_CALENDAR_EVENTS"
    BY BatchPlan
  <1>2. n = 1
    BY <1>1, OtherPlan
  <1>3. ~Unclear(i)
    BY <1>2 DEF Plan, Plain
  <1>4. i.kind \in {"CREATE_TASK", "SCHEDULE_TASK"}
    BY <1>1, <1>2, <1>3, IntentFields, PlanByKind DEF Kinds
  <1>5. CASE i.kind = "CREATE_TASK"
    BY <1>2, <1>3, <1>5, IntentFields, PlanByKind DEF Valid
  <1>6. CASE i.kind = "SCHEDULE_TASK"
    <2>1. Plan(i) = Scheduling(i) /\ Scheduling(i)[1].action = "CREATE_TASK"
      BY <1>2, <1>3, <1>6, PlanByKind
    <2>2. i.task = None
      BY ResolveAction, WorkBlockAction, <2>1 DEF Scheduling
    <2>3. i.title \in Titles
      BY <1>6, <2>2, IntentFields DEF Valid
    <2>4. Plan(i) = <<Resolve(i), WorkBlock(i)>>
      BY <2>1, <2>2 DEF Scheduling
    <2>5. Len(Plan(i)) = 2 /\ Plan(i)[1] = Resolve(i)
      BY <2>4
    <2> QED  BY ResolveAction, <1>2, <1>6, <2>2, <2>3, <2>5
  <1> QED  BY <1>4, <1>5, <1>6

\* A block is scheduled last, at the time asked for.
LEMMA SchedulePlan ==
  ASSUME NEW i \in ValidIntents, NEW n \in 1..Len(Plan(i)),
         Plan(i)[n].action = "SCHEDULE_WORK_BLOCK"
  PROVE  /\ n = Len(Plan(i)) /\ i.kind = "SCHEDULE_TASK" /\ ~Unclear(i)
         /\ (n = 1) <=> (i.task # None)
         /\ Plan(i)[n].task = i.task /\ Plan(i)[n].deadline = Deadline(i)
         /\ Plan(i)[n].window =
              IF i.constraint = None THEN None ELSE Window(i.constraint.rest)
  <1>1. i.kind # "CREATE_CALENDAR_EVENTS"
    BY BatchPlan
  <1>2. Len(Plan(i)) \in {1, 2}
    BY <1>1, OtherPlan
  <1>3. ~Unclear(i)
    BY <1>1, <1>2, OtherPlan DEF Plan, Plain
  <1>4. i.kind = "SCHEDULE_TASK"
    BY <1>1, <1>2, <1>3, OtherPlan, IntentFields, PlanByKind DEF Kinds
  <1>5. Plan(i) = Scheduling(i)
    BY <1>3, <1>4, PlanByKind
  <1>6. CASE i.task = None
    <2>1. Plan(i) = <<Resolve(i), WorkBlock(i)>>
      BY <1>5, <1>6 DEF Scheduling
    <2>2. Len(Plan(i)) = 2 /\ Plan(i)[1] = Resolve(i) /\ Plan(i)[2] = WorkBlock(i)
      BY <2>1
    <2>3. Plan(i)[1].action # "SCHEDULE_WORK_BLOCK"
      <3>1. Resolve(i).action = "CREATE_TASK"
        BY ResolveAction
      <3> QED  BY <2>2, <3>1
    <2>4. n = 2
      BY <2>2, <2>3
    <2>5. n = Len(Plan(i)) /\ Plan(i)[n] = WorkBlock(i)
      BY <2>2, <2>4
    <2> QED  BY <1>3, <1>4, <1>6, <2>4, <2>5, WorkBlockAction
  <1>7. CASE i.task # None
    BY ResolveAction, WorkBlockAction, <1>3, <1>4, <1>5, <1>7 DEF Scheduling
  <1> QED  BY <1>6, <1>7

-----------------------------------------------------------------------------
(* Types.                                                                   *)

\* A function changed at one place.
LEMMA PutAt ==
  ASSUME NEW D, NEW S, NEW f \in [D -> S], NEW x \in D, NEW v \in S
  PROVE  [f EXCEPT ![x] = v] \in [D -> S]
  OBVIOUS

\* Adding an element to one of several sets keeps their type.
LEMMA AddAt ==
  ASSUME NEW D, NEW S, NEW f \in [D -> SUBSET S], NEW x \in D, NEW v \in S
  PROVE  [f EXCEPT ![x] = @ \cup {v}] \in [D -> SUBSET S]
  OBVIOUS

\* What a running handler was asked.
LEMMA RunningIntent ==
  ASSUME TypeOK, NEW r \in Requests, AtItsPlace(r), Running(r)
  PROVE  intent[r] \in ValidIntents
  BY DEF TypeOK, AtItsPlace, Running

\* A handler that acts is inside its plan.
LEMMA Acting ==
  ASSUME TypeOK, NEW r \in Requests, AtItsPlace(r),
         pc[r] = "create" \/ HasAction(r)
  PROVE  /\ intent[r] \in ValidIntents
         /\ position[r] \in 1..Len(Plan(intent[r]))
         /\ Action(r) = Plan(intent[r])[position[r]]
         /\ Len(Plan(intent[r])) \in Nat
  <1>1. intent[r] \in ValidIntents
    BY DEF TypeOK, AtItsPlace, HasAction
  <1>2. Len(Plan(intent[r])) \in Nat /\ Len(Plan(intent[r])) >= 1
    BY <1>1, BatchPlan, BatchRange, OtherPlan
  <1>3. position[r] \in Nat \ {0}
    BY DEF TypeOK
  <1>4. position[r] <= Len(Plan(intent[r]))
    BY <1>2 DEF AtItsPlace, HasAction
  <1> QED  BY <1>1, <1>2, <1>3, <1>4 DEF Action

\* The plain answers.
LEMMA ReplyType ==
  ASSUME NEW s \in ReplyStatuses
  PROVE  /\ Reply(s) \in Replies /\ Reply(s).status = s
         /\ Reply(s) # None
  <1>1. None \in Verbs /\ None \in Batches \cup {None}
    BY DEF Verbs
  <1>2. Reply(s) \in Replies /\ Reply(s).status = s
    BY <1>1 DEF Reply, Replies
  <1> QED  BY <1>2, IntakeAssumption

\* The day of an hour on a day.
LEMMA DayOfAt ==
  ASSUME NEW d \in Int, NEW h \in ClockHours
  PROVE  DayOf(At(d, h)) = d
  BY DEF DayOf, At, ClockHours

\* What is written and told of has its type.
LEMMA ChangeTypes ==
  /\ \A r \in Requests : TaskCreated(r) \in Changes
  /\ \A t \in Tasks : TaskScheduled(t) \in Changes
  /\ \A d \in Int : EventCreated(d) \in Changes
  /\ ContextChanged \in Changes
  /\ \A c \in Changes, s \in AuditStatuses : Audit(c, s) \in Audits
  /\ Change("read", None) \in Changes
  BY IntakeAssumption
     DEF TaskCreated, TaskScheduled, EventCreated, ContextChanged, Change, Changes, Audit,
         Audits, ActionNames, Targets

\* The first numbers, and how many they are.
LEMMA Interval ==
  ASSUME NEW k \in Nat
  PROVE  IsFiniteSet(1..k) /\ Cardinality(1..k) = k
  <1>1. 1 \in Int /\ k \in Int
    OBVIOUS
  <1>2. IsFiniteSet(1..k) /\ Cardinality(1..k) = IF 1 > k THEN 0 ELSE k - 1 + 1
    BY <1>1, FS_Interval
  <1>3. (IF 1 > k THEN 0 ELSE k - 1 + 1) = k
    OBVIOUS
  <1> QED
    BY <1>2, <1>3

\* The counts of a batch add up.
LEMMA BatchType ==
  ASSUME NEW items \in Seq({"CREATED", "FAILED"})
  PROVE  Batch(items) \in Batches
  <1> DEFINE created == {n \in DOMAIN items : items[n] = "CREATED"}
  <1>1. Len(items) \in Nat /\ DOMAIN items = 1..Len(items)
    BY LenProperties
  <1>2. IsFiniteSet(1..Len(items)) /\ Cardinality(1..Len(items)) = Len(items)
    BY <1>1, Interval
  <1>3. created \subseteq 1..Len(items)
    BY <1>1
  <1>4. Cardinality(created) \in Nat /\ Cardinality(created) <= Len(items)
    BY <1>2, <1>3, FS_Subset, FS_CardinalityType
  <1> HIDE DEF created
  <1>5. Len(items) - Cardinality(created) \in Nat
    BY <1>1, <1>4
  <1>6. Batch(items) =
          [status |-> IF Len(items) - Cardinality(created) = 0 THEN "COMPLETE"
                      ELSE IF Cardinality(created) = 0 THEN "FAILED" ELSE "PARTIAL",
           total |-> Len(items), completed |-> Cardinality(created),
           failed |-> Len(items) - Cardinality(created)]
    BY DEF Batch, created
  <1> QED  BY <1>1, <1>4, <1>5, <1>6 DEF Batches


\* A handler that is at its scheduling action and has no task yet was given one.
LEMMA ScheduledTask ==
  ASSUME TypeOK, NEW r \in Requests, AtItsPlace(r), Doing(r, "SCHEDULE_WORK_BLOCK")
  PROVE  /\ intent[r] \in ValidIntents /\ ~IsBatch(r)
         /\ intent[r].kind = "SCHEDULE_TASK"
         /\ position[r] = Len(Plan(intent[r])) /\ position[r] \in {1, 2}
         /\ Action(r) = Plan(intent[r])[position[r]]
         /\ Action(r).task = intent[r].task /\ Action(r).deadline = Deadline(intent[r])
         /\ Action(r).window = IF intent[r].constraint = None THEN None
                               ELSE Window(intent[r].constraint.rest)
         /\ ~Unclear(intent[r])
         /\ position[r] = 1 <=> intent[r].task # None
         /\ current[r] = None => position[r] = 1 /\ Action(r).task # None
  <1>1. /\ intent[r] \in ValidIntents /\ position[r] \in 1..Len(Plan(intent[r]))
        /\ Action(r) = Plan(intent[r])[position[r]] /\ Len(Plan(intent[r])) \in Nat
    BY Acting DEF Doing
  <1>2. Plan(intent[r])[position[r]].action = "SCHEDULE_WORK_BLOCK"
    BY <1>1 DEF Doing
  <1>3. /\ position[r] = Len(Plan(intent[r])) /\ intent[r].kind = "SCHEDULE_TASK"
        /\ ~Unclear(intent[r])
        /\ position[r] = 1 <=> intent[r].task # None
        /\ Action(r).task = intent[r].task /\ Action(r).deadline = Deadline(intent[r])
        /\ Action(r).window = IF intent[r].constraint = None THEN None
                              ELSE Window(intent[r].constraint.rest)
    BY <1>1, <1>2, SchedulePlan
  <1>4. ~IsBatch(r) /\ Len(Plan(intent[r])) \in {1, 2}
    BY <1>1, <1>3, OtherPlan DEF IsBatch
  <1>5. current[r] = None => position[r] = 1
    BY <1>3, <1>4 DEF AtItsPlace, Running, Doing, HasAction
  <1> QED  BY <1>1, <1>3, <1>4, <1>5

\* An action that creates an event is one of a batch, and the event is on its day.
LEMMA EventAction ==
  ASSUME TypeOK, NEW r \in Requests, AtItsPlace(r), Doing(r, "CREATE_CALENDAR_EVENT")
  PROVE  /\ intent[r] \in ValidIntents /\ IsBatch(r)
         /\ position[r] \in 1..Len(Plan(intent[r]))
         /\ intent[r].range.first \in Int
         /\ DayOf(Action(r).start) = intent[r].range.first + position[r] - 1
         /\ DayOf(Action(r).start) \in Int
  <1>1. /\ intent[r] \in ValidIntents /\ position[r] \in 1..Len(Plan(intent[r]))
        /\ Action(r) = Plan(intent[r])[position[r]] /\ Len(Plan(intent[r])) \in Nat
    BY Acting DEF Doing
  <1>2. Plan(intent[r])[position[r]].action = "CREATE_CALENDAR_EVENT"
    BY <1>1 DEF Doing
  <1>3. intent[r].kind = "CREATE_CALENDAR_EVENTS"
    <2>1. SUFFICES ASSUME intent[r].kind # "CREATE_CALENDAR_EVENTS" PROVE FALSE
      OBVIOUS
    <2>2. Len(Plan(intent[r])) \in {1, 2} /\ position[r] \in {1, 2}
      BY <1>1, <2>1, OtherPlan
    <2>3. CASE position[r] = 1
      BY <1>1, <1>2, <2>1, <2>3, OtherPlan
    <2>4. CASE position[r] = 2
      <3>1. Len(Plan(intent[r])) = 2
        BY <1>1, <2>2, <2>4
      <3>2. Plan(intent[r])[2].action = "SCHEDULE_WORK_BLOCK"
        BY <1>1, <2>1, <3>1, OtherPlan
      <3> QED  BY <1>2, <2>4, <3>2
    <2> QED  BY <2>2, <2>3, <2>4
  <1>4. /\ intent[r].range.first \in Int /\ intent[r].range.from \in ClockHours
    BY <1>1, <1>3, BatchRange
  <1>5. Action(r).start = At(intent[r].range.first + position[r] - 1, intent[r].range.from)
    BY <1>1, <1>3, BatchPlan
  <1>6. intent[r].range.first + position[r] - 1 \in Int
    BY <1>1, <1>4
  <1> QED  BY <1>1, <1>3, <1>4, <1>5, <1>6, DayOfAt DEF IsBatch

\* An action that creates a task is the first one, and the title is the one asked for.
LEMMA CreateAction ==
  ASSUME TypeOK, NEW r \in Requests, AtItsPlace(r),
         pc[r] = "create" \/ Doing(r, "CREATE_TASK")
  PROVE  /\ intent[r] \in ValidIntents /\ ~IsBatch(r) /\ position[r] = 1
         /\ Action(r).title = intent[r].title /\ Action(r).title \in Titles
         /\ Action(r).deadline = Deadline(intent[r])
         /\ Action(r).deadline \in Int \cup {None}
         /\ Len(Plan(intent[r])) \in {1, 2}
         /\ Action(r).reuse <=> Len(Plan(intent[r])) = 2
         /\ Action(r).reuse <=> intent[r].kind = "SCHEDULE_TASK"
         /\ intent[r].kind = "SCHEDULE_TASK" => intent[r].task = None
  <1>1. /\ intent[r] \in ValidIntents /\ position[r] \in 1..Len(Plan(intent[r]))
        /\ Action(r) = Plan(intent[r])[position[r]] /\ Len(Plan(intent[r])) \in Nat
    BY Acting DEF Doing
  <1>2. Plan(intent[r])[position[r]].action = "CREATE_TASK"
    BY <1>1 DEF Doing, AtItsPlace
  <1>3. /\ position[r] = 1 /\ intent[r].kind # "CREATE_CALENDAR_EVENTS"
        /\ Action(r).title = intent[r].title /\ intent[r].title \in Titles
        /\ Action(r).deadline = Deadline(intent[r])
        /\ Action(r).reuse <=> Len(Plan(intent[r])) = 2
        /\ Action(r).reuse <=> intent[r].kind = "SCHEDULE_TASK"
        /\ intent[r].kind = "SCHEDULE_TASK" => intent[r].task = None
    BY <1>1, <1>2, CreatePlan
  <1>4. Len(Plan(intent[r])) \in {1, 2}
    BY <1>1, <1>3, OtherPlan
  <1> QED  BY <1>1, <1>3, <1>4, DeadlineType DEF IsBatch

\* The types by what a step can disturb together.
ControlTypes == /\ pc \in [Requests -> Labels] /\ position \in [Requests -> Nat \ {0}]
                /\ reply \in [Requests -> Replies \cup {None}]
ToldTypes == /\ wrote \in [Requests -> SUBSET Changes] /\ lost \in [Requests -> SUBSET Changes]
             /\ audit \in [Requests -> SUBSET Audits] /\ failures \in Nat
ReadTypes == /\ current \in [Requests -> ReadTasks \cup {None}]
             /\ scheduled \in [Requests -> Schedules \cup {None}]
             /\ results \in [Requests -> Seq({"CREATED", "FAILED"})]
AskedTypes == /\ intent \in [Requests -> ValidIntents \cup {None}]
              /\ hour \in [Requests -> ClockHours] /\ before \in [Requests -> SUBSET Requests]
TaskTypes == tasks \in [Tasks -> TaskRows \cup {None}] /\ edited \subseteq Tasks

\* The type invariant, in groups that steps touch separately.
LEMMA TypeGroups ==
  TypeOK <=> ControlTypes /\ ToldTypes /\ ReadTypes /\ AskedTypes /\ TaskTypes
  BY DEF TypeOK, ControlTypes, ToldTypes, ReadTypes, AskedTypes, TaskTypes

\* The same groups after a step.
LEMMA TypeGroupsNext ==
  TypeOK' <=> ControlTypes' /\ ToldTypes' /\ ReadTypes' /\ AskedTypes' /\ TaskTypes'
  BY DEF TypeOK, ControlTypes, ToldTypes, ReadTypes, AskedTypes, TaskTypes

\* A handler that ends keeps the types of the control state.
LEMMA EndsTypes ==
  ASSUME ControlTypes, NEW r \in Requests, NEW a \in Replies, Ends(r, a), UNCHANGED position
  PROVE  ControlTypes'
  <1>1. pc' \in [Requests -> Labels]
    BY PutAt DEF ControlTypes, Ends, Labels
  <1>2. reply' \in [Requests -> Replies \cup {None}]
    BY PutAt DEF ControlTypes, Ends
  <1> QED  BY <1>1, <1>2 DEF ControlTypes

\* A handler that goes to its next action keeps them, too.
LEMMA AdvanceTypes ==
  ASSUME ControlTypes, NEW r \in Requests, Advance(r)
  PROVE  ControlTypes'
  BY DEF ControlTypes, Advance, Labels

\* The bounds of a search are times.
LEMMA Bounds ==
  ASSUME TypeOK, NEW r \in Requests, AtItsPlace(r), Doing(r, "SCHEDULE_WORK_BLOCK"),
         current[r] # None
  PROVE  /\ Earliest(Action(r), hour[r]) \in Int
         /\ Latest(Action(r), current[r].row) \in Int \cup {None}
  <1>1. Action(r).window \in Windows \cup {None}
    BY ScheduledTask DEF Window, Windows, ClockHours
  <1>2. Action(r).deadline \in Int \cup {None}
    BY ScheduledTask, DeadlineType
  <1>3. current[r].row.due \in Int \cup {None} /\ hour[r] \in Int
    <2>1. current[r] \in ReadTasks /\ hour[r] \in ClockHours
      BY TypeGroups DEF ReadTypes, AskedTypes
    <2>2. current[r].row \in TaskRows
      BY <2>1 DEF ReadTasks
    <2> QED  BY <2>1, <2>2 DEF TaskRows, ClockHours
  <1>4. WholeDay \in Windows
    BY DEF WholeDay, Windows, ClockHours
  <1>5. \A w \in Windows : w.from \in Int /\ w.to \in Int
    BY DEF Windows, ClockHours
  <1>6. Earliest(Action(r), hour[r]) \in Int
    BY <1>1, <1>2, <1>3, <1>4, <1>5 DEF Earliest, At, Today
  <1>7. Latest(Action(r), current[r].row) \in Int \cup {None}
    BY <1>1, <1>2, <1>3, <1>4, <1>5 DEF Latest, At
  <1> QED  BY <1>6, <1>7

\* The outcomes of a call of the scheduler.
ScheduleAnswer(r, s) == [status |-> s, earliest |-> Earliest(Action(r), hour[r]),
                         deadline |-> Latest(Action(r), current[r].row)]
ScheduleAnswers(r, s) ==
  /\ scheduled' = [scheduled EXCEPT ![r] = ScheduleAnswer(r, s)]
  /\ audit' = [audit EXCEPT ![r] = @ \cup {Audit(TaskScheduled(current[r].id), s)}]
  /\ Advance(r)
  /\ UNCHANGED <<lost, failures>>
ScheduleLoses(r) ==
  /\ lost' = [lost EXCEPT ![r] = @ \cup {TaskScheduled(current[r].id)}]
  /\ failures' = failures + 1
  /\ Ends(r, Reply("failed"))
  /\ UNCHANGED <<position, scheduled, audit>>
ScheduleWrites(r, s) ==
  /\ wrote' = IF s \in {"NEW", "UPDATED"}
              THEN [wrote EXCEPT ![r] = @ \cup {TaskScheduled(current[r].id)}] ELSE wrote
  /\ Latest(Action(r), current[r].row) # None
  /\ Earliest(Action(r), hour[r]) < Latest(Action(r), current[r].row)
  /\ ScheduleAnswers(r, s) \/ (s \in {"NEW", "UPDATED"} /\ ScheduleLoses(r))

\* A scheduling fails without a trace, or writes what its status says.
LEMMA ScheduleOutcome ==
  ASSUME NEW r \in Requests, Schedule(r)
  PROVE  \/ /\ Ends(r, Reply("failed"))
            /\ UNCHANGED <<position, scheduled, audit, wrote, lost, failures>>
         \/ \E s \in {"NEW", "UPDATED", "UNCHANGED", "RECOMMENDATION_ONLY"} :
              ScheduleWrites(r, s)
  BY DEF Schedule, Writes, LosesAnswer, ScheduleWrites, ScheduleAnswers, ScheduleLoses,
         ScheduleAnswer

\* A call of the scheduler keeps the types.
LEMMA ScheduleTypes ==
  ASSUME TypeOK, NEW r \in Requests, AtItsPlace(r), Schedule(r)
  PROVE  TypeOK'
  <1>1. Doing(r, "SCHEDULE_WORK_BLOCK") /\ current[r] # None
    BY DEF Schedule
  <1>2. Reply("failed") \in Replies
    BY ReplyType DEF ReplyStatuses
  <1>3. ControlTypes /\ ToldTypes /\ ReadTypes /\ AskedTypes /\ TaskTypes
    BY TypeGroups
  <1>4. UNCHANGED <<tasks, edited, intent, hour, current, results, before>>
    BY DEF Schedule
  <1>5. AskedTypes' /\ TaskTypes'
    BY <1>3, <1>4 DEF AskedTypes, TaskTypes
  <1>6. TaskScheduled(current[r].id) \in Changes
    <2>1. current[r].id \in Tasks
      BY <1>1, <1>3 DEF ReadTypes, ReadTasks
    <2> QED  BY <2>1, ChangeTypes
  <1>7. CASE Ends(r, Reply("failed"))
             /\ UNCHANGED <<position, scheduled, audit, wrote, lost, failures>>
    <2>1. ControlTypes'
      BY <1>2, <1>3, <1>7, EndsTypes
    <2>2. ToldTypes' /\ ReadTypes'
      BY <1>3, <1>4, <1>7 DEF ToldTypes, ReadTypes
    <2> QED  BY <1>5, <2>1, <2>2, TypeGroupsNext
  <1>8. ASSUME NEW s \in {"NEW", "UPDATED", "UNCHANGED", "RECOMMENDATION_ONLY"},
               ScheduleWrites(r, s)
        PROVE  ToldTypes' /\ ReadTypes' /\ ControlTypes'
    <2>1. Audit(TaskScheduled(current[r].id), s) \in Audits
      BY <1>6, ChangeTypes DEF AuditStatuses
    <2>2. wrote' \in [Requests -> SUBSET Changes]
      <3>1. \/ wrote' = wrote
            \/ wrote' = [wrote EXCEPT ![r] = @ \cup {TaskScheduled(current[r].id)}]
        BY <1>8 DEF ScheduleWrites
      <3> QED  BY <1>3, <1>6, <3>1, AddAt DEF ToldTypes
    <2>3. CASE ScheduleAnswers(r, s)
      <3>1. Earliest(Action(r), hour[r]) \in Int /\ Latest(Action(r), current[r].row) \in Int
        BY <1>1, <1>8, Bounds DEF ScheduleWrites
      <3>2. ScheduleAnswer(r, s) \in Schedules
        BY <3>1 DEF ScheduleAnswer, Schedules
      <3>3. scheduled' \in [Requests -> Schedules \cup {None}]
        BY <1>3, <2>3, <3>2, PutAt DEF ReadTypes, ScheduleAnswers
      <3>4. audit' \in [Requests -> SUBSET Audits]
        BY <1>3, <2>1, <2>3, AddAt DEF ToldTypes, ScheduleAnswers
      <3>5. ControlTypes'
        BY <1>3, <2>3, AdvanceTypes DEF ScheduleAnswers
      <3> QED
        BY <1>3, <1>4, <2>2, <2>3, <3>3, <3>4, <3>5 DEF ToldTypes, ReadTypes, ScheduleAnswers
    <2>4. CASE ScheduleLoses(r)
      <3>1. lost' \in [Requests -> SUBSET Changes]
        BY <1>3, <1>6, <2>4, AddAt DEF ToldTypes, ScheduleLoses
      <3>2. ControlTypes'
        BY <1>2, <1>3, <2>4, EndsTypes DEF ScheduleLoses
      <3> QED  BY <1>3, <1>4, <2>2, <2>4, <3>1, <3>2 DEF ToldTypes, ReadTypes, ScheduleLoses
    <2> QED  BY <1>8, <2>3, <2>4 DEF ScheduleWrites
  <1> QED  BY <1>5, <1>7, <1>8, ScheduleOutcome, TypeGroupsNext

\* Every step of a handler keeps the types.
LEMMA StepTypes ==
  ASSUME TypeOK, NEW r \in Requests, AtItsPlace(r), Step(r)
  PROVE  TypeOK'
  <1>t. ControlTypes /\ ToldTypes /\ ReadTypes /\ AskedTypes /\ TaskTypes
    BY TypeGroups
  <1>r. \A s \in ReplyStatuses : Reply(s) \in Replies
    BY ReplyType
  <1>1. ASSUME NEW i \in Intents, NEW h \in Hours, Begin(r, i, h)
        PROVE  TypeOK'
    <2>1. i \in ValidIntents /\ h \in ClockHours
      BY IntakeAssumption
    <2>2. ControlTypes'
      <3>1. CASE Ends(r, Reply("refused"))
        BY <1>1, <1>t, <1>r, <3>1, EndsTypes DEF Begin, ReplyStatuses
      <3>2. CASE pc' = [pc EXCEPT ![r] = "next"] /\ UNCHANGED reply
        BY <1>1, <1>t, <3>2 DEF Begin, ControlTypes, Labels
      <3> QED  BY <1>1, <3>1, <3>2 DEF Begin
    <2>3. AskedTypes'
      BY <1>1, <1>t, <2>1 DEF Begin, AskedTypes
    <2>4. ToldTypes' /\ ReadTypes' /\ TaskTypes'
      BY <1>1, <1>t DEF Begin, ToldTypes, ReadTypes, TaskTypes, services
    <2> QED  BY <2>2, <2>3, <2>4, TypeGroupsNext
  <1>2. CASE Clarify(r)
    <2>1. ControlTypes'
      BY <1>2, <1>t, <1>r, EndsTypes DEF Clarify, ReplyStatuses
    <2>2. ToldTypes' /\ ReadTypes' /\ TaskTypes' /\ AskedTypes'
      BY <1>2, <1>t DEF Clarify, ToldTypes, ReadTypes, TaskTypes, AskedTypes, services
    <2> QED  BY <2>1, <2>2, TypeGroupsNext
  <1>3. CASE Read(r)
    <2>1. Audit(Change("read", None), "READ_ONLY") \in Audits
      BY ChangeTypes DEF AuditStatuses
    <2>2. ControlTypes'
      BY <1>3, <1>t, AdvanceTypes DEF Read
    <2>3. audit' \in [Requests -> SUBSET Audits]
      BY <1>3, <1>t, <2>1, AddAt DEF Read, ToldTypes
    <2>4. ToldTypes' /\ ReadTypes' /\ TaskTypes' /\ AskedTypes'
      BY <1>3, <1>t, <2>3 DEF Read, ToldTypes, ReadTypes, TaskTypes, AskedTypes, services
    <2> QED  BY <2>2, <2>4, TypeGroupsNext
  <1>4. CASE MutateContext(r)
    <2>1. PICK s \in {"CREATED", "UNCHANGED", "DEPRECATED", "NOT_FOUND", "AMBIGUOUS", "CONFLICT"} :
            /\ audit' = [audit EXCEPT ![r] = @ \cup {Audit(ContextChanged, s)}]
            /\ wrote' = wrote \/ wrote' = [wrote EXCEPT ![r] = @ \cup {ContextChanged}]
      BY <1>4 DEF MutateContext, Writes
    <2>2. Audit(ContextChanged, s) \in Audits /\ ContextChanged \in Changes
      BY ChangeTypes DEF AuditStatuses
    <2>3. audit' \in [Requests -> SUBSET Audits] /\ wrote' \in [Requests -> SUBSET Changes]
      BY <1>t, <2>1, <2>2, AddAt DEF ToldTypes
    <2>4. ControlTypes'
      BY <1>4, <1>t, AdvanceTypes DEF MutateContext
    <2>5. ToldTypes' /\ ReadTypes' /\ TaskTypes' /\ AskedTypes'
      BY <1>4, <1>t, <2>3 DEF MutateContext, ToldTypes, ReadTypes, TaskTypes, AskedTypes
    <2> QED  BY <2>4, <2>5, TypeGroupsNext
  <1>5. CASE CreateEvent(r)
    <2> DEFINE event == EventCreated(DayOf(Action(r).start))
    <2>1. DayOf(Action(r).start) \in Int
      BY <1>5, EventAction DEF CreateEvent
    <2>2. event \in Changes /\ \A s \in AuditStatuses : Audit(event, s) \in Audits
      BY <2>1, ChangeTypes
    <2>3. /\ wrote' = wrote \/ wrote' = [wrote EXCEPT ![r] = @ \cup {event}]
          /\ lost' = lost \/ lost' = [lost EXCEPT ![r] = @ \cup {event}]
          /\ failures' = failures \/ failures' = failures + 1
      BY <1>5 DEF CreateEvent, Writes
    <2>4. \E s \in {"CREATED", "FAILED"} :
            /\ results' = [results EXCEPT ![r] = Append(@, s)]
            /\ audit' = [audit EXCEPT ![r] = @ \cup {Audit(event, s)}]
      BY <1>5 DEF CreateEvent, Item
    <2> HIDE DEF event
    <2>5. audit' \in [Requests -> SUBSET Audits]
      BY <1>t, <2>2, <2>4, AddAt DEF AuditStatuses, ToldTypes
    <2>6. results' \in [Requests -> Seq({"CREATED", "FAILED"})]
      BY <1>t, <2>4 DEF ReadTypes
    <2>7. /\ wrote' \in [Requests -> SUBSET Changes] /\ lost' \in [Requests -> SUBSET Changes]
          /\ failures' \in Nat
      BY <1>t, <2>2, <2>3, AddAt DEF ToldTypes
    <2>8. ControlTypes'
      BY <1>5, <1>t, AdvanceTypes DEF CreateEvent
    <2>9. ReadTypes' /\ TaskTypes' /\ AskedTypes'
      BY <1>5, <1>t, <2>6 DEF CreateEvent, ReadTypes, TaskTypes, AskedTypes
    <2> QED  BY <2>5, <2>7, <2>8, <2>9, TypeGroupsNext DEF ToldTypes
  <1>6. CASE FindExisting(r)
    <2>1. ControlTypes'
      <3>1. CASE \E s \in ReplyStatuses : Ends(r, Reply(s)) /\ UNCHANGED position
        BY <1>t, <1>r, <3>1, EndsTypes
      <3>2. CASE Advance(r)
        BY <1>t, <3>2, AdvanceTypes
      <3>3. CASE pc' = [pc EXCEPT ![r] = "create"] /\ UNCHANGED <<position, reply>>
        BY <1>t, <3>3 DEF ControlTypes, Labels
      <3> QED  BY <1>6, <3>1, <3>2, <3>3 DEF FindExisting, ReplyStatuses
    <2>2. current' \in [Requests -> ReadTasks \cup {None}]
      <3>1. ASSUME NEW t \in Matches(Action(r).title)
            PROVE  [id |-> t, row |-> tasks[t]] \in ReadTasks
        <4>1. t \in Tasks /\ tasks[t] \in TaskRows
          BY <1>t, <3>1 DEF Matches, Open, TaskTypes
        <4> QED  BY <4>1 DEF ReadTasks
      <3>2. \/ current' = current
            \/ \E t \in Matches(Action(r).title) :
                 current' = [current EXCEPT ![r] = [id |-> t, row |-> tasks[t]]]
        BY <1>6 DEF FindExisting
      <3> QED  BY <1>t, <3>1, <3>2, PutAt DEF ReadTypes
    <2>3. ToldTypes' /\ ReadTypes' /\ TaskTypes' /\ AskedTypes'
      BY <1>6, <1>t, <2>2 DEF FindExisting, services, ToldTypes, ReadTypes, TaskTypes, AskedTypes
    <2> QED  BY <2>1, <2>3, TypeGroupsNext
  <1>7. CASE CreateTask(r)
    <2>1. NewTask(r) \in TaskRows /\ r \in Tasks
      <3>1. Action(r).title \in Titles /\ Action(r).deadline \in Int \cup {None}
        BY <1>7, CreateAction DEF CreateTask, Doing
      <3>2. DueDatetime(Action(r).deadline) \in Int \cup {None}
        BY <3>1 DEF DueDatetime, At
      <3> QED  BY <3>1, <3>2, IntakeAssumption DEF TaskRows, NewTask
    <2>2. [id |-> r, row |-> NewTask(r)] \in ReadTasks
      BY <2>1 DEF ReadTasks
    <2>3. TaskCreated(r) \in Changes /\ Audit(TaskCreated(r), "CREATED") \in Audits
      BY ChangeTypes DEF AuditStatuses
    <2>4. TaskTypes'
      <3>1. tasks' = [tasks EXCEPT ![r] = NewTask(r)] /\ UNCHANGED edited
        BY <1>7 DEF CreateTask
      <3> QED  BY <1>t, <2>1, <3>1, PutAt DEF TaskTypes
    <2>5. ReadTypes'
      <3>1. \/ current' = current
            \/ current' = [current EXCEPT ![r] = [id |-> r, row |-> NewTask(r)]]
        BY <1>7 DEF CreateTask
      <3> QED  BY <1>7, <1>t, <2>2, <3>1, PutAt DEF ReadTypes, CreateTask
    <2>6. ToldTypes'
      <3>1. /\ wrote' = [wrote EXCEPT ![r] = @ \cup {TaskCreated(r)}]
            /\ lost' = lost \/ lost' = [lost EXCEPT ![r] = @ \cup {TaskCreated(r)}]
            /\ \/ audit' = audit
               \/ audit' = [audit EXCEPT ![r] = @ \cup {Audit(TaskCreated(r), "CREATED")}]
            /\ failures' = failures \/ failures' = failures + 1
        BY <1>7 DEF CreateTask, Writes, LosesAnswer
      <3>2. wrote' \in [Requests -> SUBSET Changes] /\ lost' \in [Requests -> SUBSET Changes]
        BY <1>t, <2>3, <3>1, AddAt DEF ToldTypes
      <3>3. audit' \in [Requests -> SUBSET Audits]
        BY <1>t, <2>3, <3>1, AddAt DEF ToldTypes
      <3> QED  BY <1>t, <3>1, <3>2, <3>3 DEF ToldTypes
    <2>7. ControlTypes'
      <3>1. CASE Advance(r)
        BY <1>t, <3>1, AdvanceTypes
      <3>2. CASE Ends(r, Reply("failed")) /\ UNCHANGED position
        BY <1>t, <1>r, <3>2, EndsTypes DEF ReplyStatuses
      <3> QED  BY <1>7, <3>1, <3>2 DEF CreateTask, LosesAnswer
    <2>8. AskedTypes'
      BY <1>7, <1>t DEF CreateTask, AskedTypes
    <2> QED  BY <2>4, <2>5, <2>6, <2>7, <2>8, TypeGroupsNext
  <1>8. CASE GetTask(r)
    <2>1. ControlTypes'
      <3>1. CASE Ends(r, Reply("not_found"))
        BY <1>8, <1>t, <1>r, <3>1, EndsTypes DEF GetTask, ReplyStatuses
      <3>2. CASE UNCHANGED <<pc, reply>>
        BY <1>8, <1>t, <3>2 DEF GetTask, ControlTypes
      <3> QED  BY <1>8, <3>1, <3>2 DEF GetTask
    <2>2. current' \in [Requests -> ReadTasks \cup {None}]
      <3>1. Action(r).task \in Tasks
        BY <1>8, ScheduledTask, IntentFields DEF GetTask
      <3>2. tasks[Action(r).task] # None =>
              [id |-> Action(r).task, row |-> tasks[Action(r).task]] \in ReadTasks
        BY <1>t, <3>1 DEF ReadTasks, TaskTypes
      <3> QED  BY <1>8, <1>t, <3>2, PutAt DEF GetTask, ReadTypes
    <2>3. ToldTypes' /\ ReadTypes' /\ TaskTypes' /\ AskedTypes'
      BY <1>8, <1>t, <2>2 DEF GetTask, services, ToldTypes, ReadTypes, TaskTypes, AskedTypes
    <2> QED  BY <2>1, <2>3, TypeGroupsNext
  <1>9. CASE Schedule(r)
    BY <1>9, ScheduleTypes
  <1>10. CASE Finish(r)
    <2>1. Verb(r) \in Verbs
      <3>1. scheduled[r] # None => scheduled[r].status \in Verbs
        BY <1>t DEF ReadTypes, Schedules, Verbs
      <3> QED  BY <3>1 DEF Verb, Verbs
    <2>2. Batch(results[r]) \in Batches
      BY <1>t, BatchType DEF ReadTypes
    <2>3. Answer(r) \in Replies
      BY <2>1, <2>2 DEF Replies, ReplyStatuses, Verbs, Answer
    <2>4. ControlTypes'
      BY <1>10, <1>t, <2>3, EndsTypes DEF Finish
    <2>5. ToldTypes' /\ ReadTypes' /\ TaskTypes' /\ AskedTypes'
      BY <1>10, <1>t DEF Finish, services, ToldTypes, ReadTypes, TaskTypes, AskedTypes
    <2> QED  BY <2>4, <2>5, TypeGroupsNext
  <1>11. CASE CallFails(r)
    <2>1. ControlTypes'
      BY <1>11, <1>t, <1>r, EndsTypes DEF CallFails, ReplyStatuses
    <2>2. ToldTypes' /\ ReadTypes' /\ TaskTypes' /\ AskedTypes'
      BY <1>11, <1>t DEF CallFails, ToldTypes, ReadTypes, TaskTypes, AskedTypes
    <2> QED  BY <2>1, <2>2, TypeGroupsNext
  <1> QED
    BY <1>1, <1>2, <1>3, <1>4, <1>5, <1>6, <1>7, <1>8, <1>9, <1>10, <1>11 DEF Step

-----------------------------------------------------------------------------
(* One handler: what it knows, wrote and told.                                *)

\* A handler at which nothing changes stays as it is.
LEMMA Frame ==
  ASSUME NEW x \in Requests, HandlerInv(x),
         pc'[x] = pc[x], intent'[x] = intent[x], position'[x] = position[x],
         current'[x] = current[x], wrote'[x] = wrote[x], lost'[x] = lost[x],
         audit'[x] = audit[x], reply'[x] = reply[x]
  PROVE  HandlerInv(x)'
  BY DEF HandlerInv, AtItsPlace, WroteSoFar, ToldSoFar, TellsWrites, LeavesAtMostTask,
         Running, IsBatch, Action, Known, AuditTells

\* One more record tells of one more change, if its status says so.
LEMMA ToldOneMore ==
  ASSUME NEW A, NEW c \in Changes, NEW s
  PROVE  ToldBy(A \cup {Audit(c, s)}) =
           ToldBy(A) \cup (IF s \in WritingStatuses THEN {c} ELSE {})
  <1>1. Change(Audit(c, s).action, Audit(c, s).target) = c /\ Audit(c, s).status = s
    BY DEF Changes, Change, Audit
  <1> DEFINE new == Audit(c, s)
  <1>2. new.status = s /\ Change(new.action, new.target) = c
    BY <1>1
  <1> HIDE DEF new
  <1>3. ToldBy(A \cup {new}) = ToldBy(A) \cup (IF s \in WritingStatuses THEN {c} ELSE {})
    BY <1>2 DEF ToldBy
  <1> QED  BY <1>3 DEF new

\* An audit entry with a status that writes nothing tells of no change.
LEMMA ToldNoMore ==
  ASSUME NEW A, NEW c \in Changes, NEW s, s \notin WritingStatuses
  PROVE  ToldBy(A \cup {Audit(c, s)}) = ToldBy(A)
  <1>1. ToldBy(A \cup {Audit(c, s)}) = ToldBy(A) \cup {}
    BY ToldOneMore
  <1> QED  BY <1>1

\* An empty audit tells of nothing.
LEMMA NoneTold == ToldBy({}) = {}
  BY DEF ToldBy

\* Before an action that is not one of a batch, a handler was told of everything it
\* wrote, and that is at most the task it is going to schedule.
LEMMA BeforeAction ==
  ASSUME TypeOK, NEW r \in Requests, HandlerInv(r), ~IsBatch(r),
         pc[r] = "create" \/ HasAction(r)
  PROVE  /\ lost[r] = {} /\ Running(r)
         /\ position[r] = 1 => wrote[r] = {}
         /\ wrote[r] \subseteq IF intent[r].kind = "SCHEDULE_TASK" THEN {TaskCreated(r)} ELSE {}
         /\ position[r] \in 1..Len(Plan(intent[r])) /\ Len(Plan(intent[r])) \in {1, 2}
         /\ intent[r] \in ValidIntents
         /\ ToldBy(audit[r]) = wrote[r] /\ reply[r] = None
  <1>1. /\ intent[r] \in ValidIntents /\ position[r] \in 1..Len(Plan(intent[r]))
        /\ Len(Plan(intent[r])) \in Nat
    BY Acting DEF HandlerInv
  <1>2. Running(r)
    BY DEF Running, HasAction
  <1>3. Len(Plan(intent[r])) \in {1, 2}
        /\ (Len(Plan(intent[r])) = 2 => intent[r].kind = "SCHEDULE_TASK")
    BY <1>1, OtherPlan DEF IsBatch
  <1>4. /\ lost[r] = {}
        /\ position[r] = 1 => wrote[r] = {}
        /\ wrote[r] \subseteq {TaskCreated(r)}
    BY <1>1, <1>2 DEF HandlerInv, WroteSoFar
  <1>5. reply[r] = None
    BY <1>2 DEF HandlerInv, AtItsPlace, Running
  <1>6. ToldBy(audit[r]) = wrote[r]
    BY <1>1, <1>2, <1>4 DEF HandlerInv, ToldSoFar, Known
  <1>7. intent[r].kind # "SCHEDULE_TASK" => position[r] = 1
    <2>1. SUFFICES ASSUME intent[r].kind # "SCHEDULE_TASK" PROVE position[r] = 1
      OBVIOUS
    <2>2. Len(Plan(intent[r])) = 1
      BY <1>3, <2>1
    <2> QED  BY <1>1, <2>2
  <1> QED  BY <1>1, <1>2, <1>3, <1>4, <1>5, <1>6, <1>7

\* A handler that ends without an answer.
LEMMA EndsInv ==
  ASSUME TypeOK, NEW r \in Requests, intent[r] # None,
         NEW s \in ReplyStatuses \ {"answered"}, Ends(r, Reply(s)),
         intent'[r] = intent[r], position'[r] = position[r],
         lost'[r] \subseteq wrote'[r],
         IsBatch(r) => wrote'[r] = {},
         Known(r)' \subseteq IF intent[r].kind = "SCHEDULE_TASK" THEN {TaskCreated(r)} ELSE {},
         s # "failed" => wrote'[r] = {}
  PROVE  HandlerInv(r)'
  <1>1. pc'[r] = "done" /\ reply'[r] = Reply(s)
    BY DEF Ends, TypeOK
  <1>2. reply'[r] # None /\ reply'[r].status = s /\ s # "answered"
    BY <1>1, ReplyType
  <1>3. AtItsPlace(r)'
    BY <1>1, <1>2 DEF AtItsPlace, Running
  <1>4. WroteSoFar(r)'
    BY <1>1 DEF WroteSoFar, Running, IsBatch
  <1>5. ToldSoFar(r)' /\ TellsWrites(r)'
    BY <1>1, <1>2 DEF ToldSoFar, TellsWrites, Running
  <1>6. LeavesAtMostTask(r)'
    BY <1>2 DEF LeavesAtMostTask
  <1> QED  BY <1>3, <1>4, <1>5, <1>6 DEF HandlerInv

\* A handler that ends at an action before it has an effect.
LEMMA EndsBefore ==
  ASSUME TypeOK, NEW r \in Requests, HandlerInv(r), ~IsBatch(r),
         pc[r] = "create" \/ HasAction(r),
         NEW s \in ReplyStatuses \ {"answered"}, Ends(r, Reply(s)),
         s # "failed" => position[r] = 1,
         UNCHANGED <<intent, position, wrote, lost>>
  PROVE  HandlerInv(r)'
  <1>1. /\ lost[r] = {}
        /\ position[r] = 1 => wrote[r] = {}
        /\ wrote[r] \subseteq IF intent[r].kind = "SCHEDULE_TASK" THEN {TaskCreated(r)} ELSE {}
        /\ intent[r] \in ValidIntents
    BY BeforeAction
  <1>2. intent[r] # None
    BY <1>1, IntakeAssumption
  <1> QED  BY <1>1, <1>2, EndsInv DEF Known

\* A handler that comes past an action and was told of what the action changed, or of
\* the last one all but what it may hide.
LEMMA AdvanceInv ==
  ASSUME TypeOK, NEW r \in Requests, HandlerInv(r), ~IsBatch(r),
         pc[r] = "create" \/ HasAction(r), Advance(r),
         UNCHANGED <<intent, lost>>,
         \/ ToldBy(audit'[r]) = wrote'[r]
         \/ AuditTells(r)' /\ position[r] = Len(Plan(intent[r])),
         position[r] < Len(Plan(intent[r])) =>
           /\ wrote'[r] \subseteq {TaskCreated(r)}
           /\ current'[r] # None
  PROVE  HandlerInv(r)'
  <1>1. /\ lost[r] = {} /\ position[r] \in 1..Len(Plan(intent[r])) /\ reply[r] = None
        /\ Len(Plan(intent[r])) \in {1, 2} /\ intent[r] \in ValidIntents /\ Running(r)
    BY BeforeAction
  <1>2. pc'[r] = "next" /\ position'[r] = position[r] + 1 /\ reply'[r] = None
    BY <1>1 DEF Advance, TypeOK
  <1>3. intent[r] # None
    BY <1>1, IntakeAssumption
  <1>4. AtItsPlace(r)'
    <2>1. ~Refused(intent[r])
      BY <1>1 DEF HandlerInv, AtItsPlace
    <2>2. position'[r] <= Len(Plan(intent'[r])) + 1
      BY <1>1, <1>2
    <2>3. position'[r] = 2 /\ Len(Plan(intent'[r])) = 2 => current'[r] # None
      BY <1>1, <1>2
    <2> QED  BY <1>2, <1>3, <2>1, <2>2, <2>3 DEF AtItsPlace, Running
  <1>5. WroteSoFar(r)'
    <2>1. position'[r] # 1
      BY <1>1, <1>2
    <2>2. position'[r] <= Len(Plan(intent'[r])) => wrote'[r] \subseteq {TaskCreated(r)}
      BY <1>1, <1>2
    <2> QED  BY <1>1, <2>1, <2>2 DEF WroteSoFar, IsBatch
  <1>6. ToldSoFar(r)'
    <2>1. ToldBy(audit'[r]) = wrote'[r] => AuditTells(r)'
      BY <1>1 DEF AuditTells, Known
    <2>2. position'[r] <= Len(Plan(intent'[r])) => ToldBy(audit'[r]) = Known(r)'
      BY <1>1, <1>2 DEF Known
    <2> QED  BY <2>1, <2>2 DEF ToldSoFar
  <1>7. TellsWrites(r)' /\ LeavesAtMostTask(r)'
    BY <1>2 DEF TellsWrites, LeavesAtMostTask
  <1> QED  BY <1>4, <1>5, <1>6, <1>7 DEF HandlerInv


\* An action of any other type is the only one of its plan.
LEMMA SingleAction ==
  ASSUME TypeOK, NEW r \in Requests, HandlerInv(r), HasAction(r),
         Action(r).action \notin {"CREATE_CALENDAR_EVENT", "CREATE_TASK", "SCHEDULE_WORK_BLOCK"}
  PROVE  /\ ~IsBatch(r) /\ position[r] = 1 /\ Len(Plan(intent[r])) = 1
         /\ wrote[r] = {} /\ lost[r] = {}
  <1>1. /\ intent[r] \in ValidIntents /\ position[r] \in 1..Len(Plan(intent[r]))
        /\ Action(r) = Plan(intent[r])[position[r]] /\ Len(Plan(intent[r])) \in Nat
    BY Acting DEF HandlerInv
  <1>2. intent[r].kind # "CREATE_CALENDAR_EVENTS"
    BY <1>1, BatchPlan
  <1>3. Len(Plan(intent[r])) = 1
    <2>1. SUFFICES ASSUME Len(Plan(intent[r])) = 2 PROVE FALSE
      BY <1>1, <1>2, OtherPlan
    <2>2. position[r] = 1 \/ position[r] = 2
      BY <1>1, <2>1
    <2>3. /\ Plan(intent[r])[1].action = "CREATE_TASK"
          /\ Plan(intent[r])[2].action = "SCHEDULE_WORK_BLOCK"
      BY <1>1, <1>2, <2>1, OtherPlan
    <2> QED  BY <1>1, <2>2, <2>3
  <1>4. position[r] = 1
    BY <1>1, <1>3
  <1> QED  BY <1>2, <1>3, <1>4, BeforeAction DEF IsBatch

\* A plan that begins has written nothing.
LEMMA BeginInv ==
  ASSUME TypeOK, NEW r \in Requests, HandlerInv(r), NEW i \in Intents, NEW h \in Hours,
         Begin(r, i, h)
  PROVE  HandlerInv(r)'
  <1>1. /\ i \in ValidIntents /\ i # None
        /\ intent'[r] = i /\ position'[r] = 1 /\ wrote'[r] = {} /\ lost'[r] = {}
        /\ audit'[r] = {}
    BY IntakeAssumption DEF Begin, TypeOK, HandlerInv, AtItsPlace, services
  <1>2. CASE Refused(i) /\ Ends(r, Reply("refused"))
    <2>1. pc'[r] = "done" /\ reply'[r] = Reply("refused")
      BY <1>2 DEF Ends, TypeOK
    <2>2. reply'[r] # None /\ reply'[r].status = "refused"
      BY <2>1, ReplyType DEF ReplyStatuses
    <2> QED
      BY <1>1, <2>1, <2>2
      DEF HandlerInv, AtItsPlace, WroteSoFar, ToldSoFar, TellsWrites, LeavesAtMostTask,
          Running, Known
  <1>3. CASE ~Refused(i) /\ pc' = [pc EXCEPT ![r] = "next"] /\ UNCHANGED reply
    <2>1. pc'[r] = "next" /\ reply'[r] = None
      BY <1>3 DEF Begin, TypeOK, HandlerInv, AtItsPlace
    <2>2. Len(Plan(i)) \in Nat
      BY <1>1, BatchPlan, BatchRange, OtherPlan
    <2>3. AtItsPlace(r)'
      BY <1>1, <1>3, <2>1, <2>2 DEF AtItsPlace, Running
    <2>4. WroteSoFar(r)'
      BY <1>1 DEF WroteSoFar
    <2>5. ToldSoFar(r)' /\ TellsWrites(r)' /\ LeavesAtMostTask(r)'
      BY <1>1, <2>1, NoneTold DEF ToldSoFar, TellsWrites, LeavesAtMostTask, Known, AuditTells
    <2> QED  BY <2>3, <2>4, <2>5 DEF HandlerInv
  <1> QED  BY <1>2, <1>3 DEF Begin

\* A clarification writes nothing.
LEMMA ClarifyInv ==
  ASSUME TypeOK, NEW r \in Requests, HandlerInv(r), Clarify(r)
  PROVE  HandlerInv(r)'
  <1>1. HasAction(r) /\ Action(r).action = "REQUEST_CLARIFICATION"
    BY DEF Clarify, Doing
  <1>2. ~IsBatch(r) /\ position[r] = 1
    BY <1>1, SingleAction
  <1> QED  BY <1>1, <1>2, EndsBefore DEF Clarify, ReplyStatuses, services

\* A reading action writes nothing.
LEMMA ReadInv ==
  ASSUME TypeOK, NEW r \in Requests, HandlerInv(r), Read(r)
  PROVE  HandlerInv(r)'
  <1>1. HasAction(r) /\ Action(r).action \in ReadOnly
    BY DEF Read, Doing
  <1>2. ~IsBatch(r) /\ position[r] = 1 /\ Len(Plan(intent[r])) = 1
    BY <1>1, SingleAction DEF ReadOnly
  <1>3. ToldBy(audit[r]) = wrote[r]
    BY <1>1, <1>2, BeforeAction
  <1>4. audit'[r] = audit[r] \cup {Audit(Change("read", None), "READ_ONLY")}
    BY DEF Read, TypeOK
  <1>5. ToldBy(audit'[r]) = wrote'[r]
    <2>1. Change("read", None) \in Changes /\ "READ_ONLY" \notin WritingStatuses
      BY ChangeTypes DEF WritingStatuses
    <2> QED  BY <1>3, <1>4, <2>1, ToldOneMore DEF Read, services
  <1>6. ~(position[r] < Len(Plan(intent[r])))
    BY <1>2
  <1>7. Advance(r) /\ UNCHANGED <<intent, lost>>
    BY DEF Read, services
  <1> QED  BY <1>1, <1>2, <1>5, <1>6, <1>7, AdvanceInv

\* A context mutation is told as what it did, or as UNCHANGED, which may hide it.
LEMMA MutateContextInv ==
  ASSUME TypeOK, NEW r \in Requests, HandlerInv(r), MutateContext(r)
  PROVE  HandlerInv(r)'
  <1>1. HasAction(r) /\ Action(r).action = "MUTATE_CONTEXT"
    BY DEF MutateContext, Doing
  <1>2. ~IsBatch(r) /\ position[r] = 1 /\ Len(Plan(intent[r])) = 1 /\ wrote[r] = {}
        /\ lost[r] = {}
    BY <1>1, SingleAction
  <1>3. ToldBy(audit[r]) = {}
    BY <1>1, <1>2, BeforeAction
  <1>4. PICK s \in {"CREATED", "UNCHANGED", "DEPRECATED", "NOT_FOUND", "AMBIGUOUS", "CONFLICT"} :
          /\ audit' = [audit EXCEPT ![r] = @ \cup {Audit(ContextChanged, s)}]
          /\ \/ s \in {"CREATED", "DEPRECATED", "UNCHANGED"} /\ Writes(r, ContextChanged)
             \/ s \notin {"CREATED", "DEPRECATED"} /\ UNCHANGED wrote
    BY DEF MutateContext
  <1>5. AuditTells(r)'
    <2>1. ContextChanged \in Changes
          /\ (s \in WritingStatuses <=> s \in {"CREATED", "DEPRECATED"})
      BY ChangeTypes DEF WritingStatuses
    <2>2. audit'[r] = audit[r] \cup {Audit(ContextChanged, s)}
      BY <1>4 DEF TypeOK
    <2>3. ToldBy(audit'[r]) = IF s \in {"CREATED", "DEPRECATED"} THEN {ContextChanged} ELSE {}
      <3>1. ToldBy(audit'[r]) = ToldBy(audit[r])
                                \cup (IF s \in WritingStatuses THEN {ContextChanged} ELSE {})
        BY <2>1, <2>2, ToldOneMore
      <3> QED  BY <1>3, <2>1, <3>1
    <2>4. s = "UNCHANGED" => MayHide(audit'[r]) = {ContextChanged}
      BY <2>2 DEF MayHide
    <2>5. /\ s \in {"CREATED", "DEPRECATED"} => wrote'[r] = {ContextChanged}
          /\ s = "UNCHANGED" => wrote'[r] \subseteq {ContextChanged}
          /\ s \notin {"CREATED", "DEPRECATED", "UNCHANGED"} => wrote'[r] = {}
      BY <1>2, <1>4 DEF Writes, TypeOK
    <2>6. lost'[r] = {}
      BY <1>2 DEF MutateContext
    <2> QED  BY <2>3, <2>4, <2>5, <2>6 DEF AuditTells, Known
  <1>6. ~(position[r] < Len(Plan(intent[r])))
    BY <1>2
  <1>7. Advance(r) /\ UNCHANGED <<intent, lost>>
    BY DEF MutateContext
  <1> QED  BY <1>1, <1>2, <1>5, <1>6, <1>7, AdvanceInv


\* Each event of a batch is told as created or as failed.
LEMMA CreateEventInv ==
  ASSUME TypeOK, NEW r \in Requests, HandlerInv(r), CreateEvent(r)
  PROVE  HandlerInv(r)'
  <1> DEFINE day == DayOf(Action(r).start)
             first == intent[r].range.first
             E(k) == {EventCreated(first + n - 1) : n \in 1..k}
  <1>1. Doing(r, "CREATE_CALENDAR_EVENT") /\ AtItsPlace(r)
    BY DEF CreateEvent, HandlerInv
  <1>2. /\ intent[r] \in ValidIntents /\ IsBatch(r) /\ position[r] \in 1..Len(Plan(intent[r]))
        /\ first \in Int /\ day = first + position[r] - 1 /\ day \in Int
    BY <1>1, EventAction
  <1>3. /\ intent[r] # None /\ Len(Plan(intent[r])) \in Nat /\ position[r] \in Nat
        /\ pc[r] = "next"
    BY <1>1, <1>2, IntakeAssumption, BatchPlan, BatchRange DEF IsBatch, Doing, HasAction
  <1>4. wrote[r] \subseteq E(position[r] - 1) /\ lost[r] \subseteq wrote[r]
    BY <1>2, <1>3 DEF HandlerInv, WroteSoFar
  <1>5. EventCreated(day) \notin wrote[r]
    <2>1. \A n \in 1..(position[r] - 1) : EventCreated(first + n - 1) # EventCreated(day)
      BY <1>2, <1>3 DEF EventCreated, Change
    <2> QED  BY <1>4, <2>1
  <1>6. /\ pc'[r] = "next" /\ position'[r] = position[r] + 1
        /\ intent' = intent /\ reply' = reply
    BY DEF CreateEvent, Advance, TypeOK
  <1>7. reply[r] = None
    BY <1>3 DEF HandlerInv, AtItsPlace
  <1>8. ToldBy(audit[r]) = wrote[r] \ lost[r]
    BY <1>2, <1>3 DEF HandlerInv, ToldSoFar, Known, Running
  <1>9. EventCreated(day) \in Changes
    BY <1>2, ChangeTypes
  <1>10. /\ lost'[r] \subseteq wrote'[r] /\ wrote'[r] \subseteq wrote[r] \cup {EventCreated(day)}
         /\ ToldBy(audit'[r]) = wrote'[r] \ lost'[r]
    <2>1. CASE Item(r, "CREATED") /\ Writes(r, EventCreated(day)) /\ UNCHANGED lost
      <3>1. /\ audit'[r] = audit[r] \cup {Audit(EventCreated(day), "CREATED")}
            /\ wrote'[r] = wrote[r] \cup {EventCreated(day)} /\ lost'[r] = lost[r]
        BY <2>1 DEF Item, Writes, TypeOK
      <3>2. ToldBy(audit'[r]) = ToldBy(audit[r]) \cup {EventCreated(day)}
        BY <1>9, <3>1, ToldOneMore DEF WritingStatuses
      <3> QED  BY <1>4, <1>5, <1>8, <3>1, <3>2
    <2>2. CASE Item(r, "FAILED") /\ UNCHANGED <<wrote, lost>>
      <3>1. audit'[r] = audit[r] \cup {Audit(EventCreated(day), "FAILED")}
        BY <2>2 DEF Item, TypeOK
      <3>2. ToldBy(audit'[r]) = ToldBy(audit[r])
        <4>1. "FAILED" \notin WritingStatuses
          BY DEF WritingStatuses
        <4> QED  BY <1>9, <3>1, <4>1, ToldNoMore
      <3> QED  BY <1>4, <1>8, <2>2, <3>2
    <2>3. CASE /\ Item(r, "FAILED") /\ Writes(r, EventCreated(day))
               /\ lost' = [lost EXCEPT ![r] = @ \cup {EventCreated(day)}]
      <3>1. /\ audit'[r] = audit[r] \cup {Audit(EventCreated(day), "FAILED")}
            /\ wrote'[r] = wrote[r] \cup {EventCreated(day)}
            /\ lost'[r] = lost[r] \cup {EventCreated(day)}
        BY <2>3 DEF Item, Writes, TypeOK
      <3>2. ToldBy(audit'[r]) = ToldBy(audit[r])
        <4>1. "FAILED" \notin WritingStatuses
          BY DEF WritingStatuses
        <4> QED  BY <1>9, <3>1, <4>1, ToldNoMore
      <3> QED  BY <1>4, <1>5, <1>8, <3>1, <3>2
    <2> QED  BY <2>1, <2>2, <2>3 DEF CreateEvent
  <1>11. wrote'[r] \subseteq E(position'[r] - 1)
    <2>1. E(position[r] - 1) \subseteq E(position[r])
      BY <1>3
    <2>2. EventCreated(day) \in E(position[r])
      BY <1>2, <1>3
    <2>3. position'[r] - 1 = position[r]
      BY <1>3, <1>6
    <2> QED  BY <1>4, <1>10, <2>1, <2>2, <2>3
  <1>12. AtItsPlace(r)'
    <2>1. ~Refused(intent[r])
      BY <1>3 DEF HandlerInv, AtItsPlace, Running
    <2>2. position'[r] <= Len(Plan(intent'[r])) + 1
      BY <1>2, <1>3, <1>6
    <2> QED
      BY <1>2, <1>3, <1>6, <1>7, <2>1, <2>2 DEF AtItsPlace, Running, IsBatch
  <1>13. WroteSoFar(r)'
    BY <1>2, <1>6, <1>10, <1>11 DEF WroteSoFar, IsBatch
  <1>14. ToldSoFar(r)' /\ TellsWrites(r)' /\ LeavesAtMostTask(r)'
    BY <1>6, <1>7, <1>10 DEF ToldSoFar, TellsWrites, LeavesAtMostTask, Known, AuditTells
  <1> QED  BY <1>12, <1>13, <1>14 DEF HandlerInv

\* A task that is found is one that was there.
LEMMA FindExistingInv ==
  ASSUME TypeOK, NEW r \in Requests, HandlerInv(r), FindExisting(r)
  PROVE  HandlerInv(r)'
  <1>1. /\ HasAction(r) /\ Action(r).action = "CREATE_TASK" /\ Action(r).reuse
        /\ UNCHANGED <<services, intent, audit>>
    BY DEF FindExisting, Doing
  <1>2. ~IsBatch(r) /\ position[r] = 1 /\ Len(Plan(intent[r])) = 2
    BY <1>1, CreateAction DEF Doing, HandlerInv
  <1>3. /\ lost[r] = {} /\ wrote[r] = {} /\ ToldBy(audit[r]) = wrote[r] /\ reply[r] = None
        /\ intent[r] \in ValidIntents
    BY <1>1, <1>2, BeforeAction
  <1>4. CASE \E s \in {"ambiguous", "not_found"} : Ends(r, Reply(s)) /\ UNCHANGED position
    BY <1>1, <1>2, <1>4, EndsBefore DEF ReplyStatuses, services
  <1>5. CASE pc' = [pc EXCEPT ![r] = "create"] /\ UNCHANGED <<current, position, reply>>
    <2>1. pc'[r] = "create"
      BY <1>5 DEF TypeOK
    <2>2. AtItsPlace(r)'
      <3>1. intent[r] # None
        BY <1>3, IntakeAssumption
      <3>2. ~Refused(intent[r])
        BY <1>1 DEF HandlerInv, AtItsPlace, Running, HasAction
      <3>3. Action(r)' = Action(r)
        BY <1>1, <1>5 DEF Action
      <3> QED
        BY <1>1, <1>2, <1>3, <1>5, <2>1, <3>1, <3>2, <3>3 DEF AtItsPlace, Running
    <2>3. WroteSoFar(r)'
      BY <1>1, <1>2, <1>3 DEF WroteSoFar, services
    <2>4. ToldSoFar(r)' /\ TellsWrites(r)' /\ LeavesAtMostTask(r)'
      BY <1>1, <1>3, <1>5
      DEF ToldSoFar, TellsWrites, LeavesAtMostTask, Known, AuditTells, services
    <2> QED  BY <2>2, <2>3, <2>4 DEF HandlerInv
  <1>6. ASSUME NEW t \in Matches(Action(r).title),
               current' = [current EXCEPT ![r] = [id |-> t, row |-> tasks[t]]], Advance(r)
        PROVE  HandlerInv(r)'
    <2>1. [id |-> t, row |-> tasks[t]] # None
      <3>1. t \in Tasks /\ tasks[t] \in TaskRows
        BY <1>6, TypeGroups DEF Matches, Open, TaskTypes
      <3>2. [id |-> t, row |-> tasks[t]] \in ReadTasks
        BY <3>1 DEF ReadTasks
      <3> QED  BY <3>2, IntakeAssumption
    <2>2. current'[r] # None
      BY <1>6, <2>1 DEF TypeOK
    <2> QED  BY <1>1, <1>2, <1>3, <1>6, <2>2, AdvanceInv DEF services
  <1> QED  BY <1>4, <1>5, <1>6 DEF FindExisting


\* A task that is created is told, unless the call that follows fails.
LEMMA CreateTaskInv ==
  ASSUME TypeOK, NEW r \in Requests, HandlerInv(r), CreateTask(r)
  PROVE  HandlerInv(r)'
  <1>1. pc[r] = "create" \/ Doing(r, "CREATE_TASK")
    BY DEF CreateTask
  <1>2. /\ ~IsBatch(r) /\ position[r] = 1 /\ intent[r] \in ValidIntents
        /\ Len(Plan(intent[r])) \in {1, 2}
        /\ Len(Plan(intent[r])) = 2 => intent[r].kind = "SCHEDULE_TASK"
    BY <1>1, CreateAction DEF HandlerInv
  <1>3. pc[r] = "create" \/ HasAction(r)
    BY <1>1 DEF Doing
  <1>4. /\ lost[r] = {} /\ wrote[r] = {} /\ ToldBy(audit[r]) = wrote[r]
    BY <1>2, <1>3, BeforeAction
  <1>5. wrote'[r] = {TaskCreated(r)}
    BY <1>4 DEF CreateTask, Writes, TypeOK
  <1>6. TaskCreated(r) \in Changes /\ intent[r] # None
    BY <1>2, ChangeTypes, IntakeAssumption
  <1>7. CASE /\ current' = [current EXCEPT ![r] = [id |-> r, row |-> NewTask(r)]]
             /\ audit' = [audit EXCEPT ![r] = @ \cup {Audit(TaskCreated(r), "CREATED")}]
             /\ Advance(r) /\ UNCHANGED lost
    <2>1. audit'[r] = audit[r] \cup {Audit(TaskCreated(r), "CREATED")}
      BY <1>7 DEF TypeOK
    <2>2. ToldBy(audit'[r]) = wrote'[r]
      <3>1. "CREATED" \in WritingStatuses
        BY DEF WritingStatuses
      <3>2. ToldBy(audit'[r]) = ToldBy(audit[r]) \cup {TaskCreated(r)}
        BY <1>6, <2>1, <3>1, ToldOneMore
      <3> QED  BY <1>4, <1>5, <3>2
    <2>3. current'[r] # None
      <3>1. NewTask(r) \in TaskRows /\ r \in Tasks
        <4>1. Action(r).title \in Titles /\ Action(r).deadline \in Int \cup {None}
          BY <1>1, CreateAction DEF HandlerInv
        <4>2. DueDatetime(Action(r).deadline) \in Int \cup {None}
          BY <4>1 DEF DueDatetime, At
        <4> QED  BY <4>1, <4>2, IntakeAssumption DEF TaskRows, NewTask
      <3>2. [id |-> r, row |-> NewTask(r)] \in ReadTasks
        BY <3>1 DEF ReadTasks
      <3>3. current'[r] = [id |-> r, row |-> NewTask(r)]
        BY <1>7 DEF TypeOK
      <3> QED  BY <3>2, <3>3, IntakeAssumption
    <2>4. UNCHANGED <<intent, lost>>
      BY <1>7 DEF CreateTask
    <2> QED  BY <1>2, <1>3, <1>5, <1>7, <2>2, <2>3, <2>4, AdvanceInv
  <1>8. CASE LosesAnswer(r, TaskCreated(r)) /\ UNCHANGED position
    <2>1. lost'[r] = {TaskCreated(r)}
      BY <1>4, <1>8 DEF LosesAnswer, TypeOK
    <2>2. Ends(r, Reply("failed")) /\ intent'[r] = intent[r]
      BY <1>8 DEF LosesAnswer, CreateTask
    <2>3. Known(r)' = {}
      BY <1>5, <2>1 DEF Known
    <2> QED  BY <1>2, <1>5, <1>6, <1>8, <2>1, <2>2, <2>3, EndsInv DEF ReplyStatuses
  <1> QED  BY <1>7, <1>8 DEF CreateTask

\* The task that is read is the one to be scheduled.
LEMMA GetTaskInv ==
  ASSUME TypeOK, NEW r \in Requests, HandlerInv(r), GetTask(r)
  PROVE  HandlerInv(r)'
  <1>1. /\ Doing(r, "SCHEDULE_WORK_BLOCK") /\ HasAction(r) /\ current[r] = None
        /\ UNCHANGED <<services, intent, position, audit>>
    BY DEF GetTask, Doing
  <1>2. ~IsBatch(r) /\ position[r] = 1 /\ intent[r] \in ValidIntents
    BY <1>1, ScheduledTask DEF HandlerInv
  <1>3. CASE Ends(r, Reply("not_found"))
    BY <1>1, <1>2, <1>3, EndsBefore DEF ReplyStatuses, services
  <1>4. CASE UNCHANGED <<pc, reply>>
    <2>1. Action(r)' = Action(r)
      BY <1>1 DEF Action
    <2>2. AtItsPlace(r)'
      BY <1>1, <1>2, <1>4, <2>1 DEF HandlerInv, AtItsPlace, Running, IsBatch, HasAction
    <2> QED
      BY <1>1, <1>4, <2>2
      DEF HandlerInv, WroteSoFar, ToldSoFar, TellsWrites, LeavesAtMostTask, services,
          Running, IsBatch, Known, AuditTells
  <1> QED  BY <1>3, <1>4 DEF GetTask

\* A work block is told with the status of the scheduler.
LEMMA ScheduleInv ==
  ASSUME TypeOK, NEW r \in Requests, HandlerInv(r), Schedule(r)
  PROVE  HandlerInv(r)'
  <1> DEFINE change == TaskScheduled(current[r].id)
  <1>1. /\ Doing(r, "SCHEDULE_WORK_BLOCK") /\ HasAction(r) /\ current[r] # None
        /\ UNCHANGED <<tasks, edited, intent, hour, current, results, before>>
    BY DEF Schedule, Doing
  <1>2. /\ ~IsBatch(r) /\ intent[r] \in ValidIntents /\ intent[r].kind = "SCHEDULE_TASK"
        /\ position[r] = Len(Plan(intent[r])) /\ position[r] \in {1, 2}
    BY <1>1, ScheduledTask DEF HandlerInv
  <1>3. /\ lost[r] = {} /\ ToldBy(audit[r]) = wrote[r] /\ wrote[r] \subseteq {TaskCreated(r)}
        /\ intent[r] # None
    BY <1>1, <1>2, BeforeAction, IntakeAssumption
  <1>4. change \in Changes
    <2>1. current[r].id \in Tasks
      BY <1>1, TypeGroups DEF ReadTypes, ReadTasks
    <2> QED  BY <2>1, ChangeTypes
  <1>5. CASE /\ Ends(r, Reply("failed"))
             /\ UNCHANGED <<position, scheduled, audit, wrote, lost, failures>>
    BY <1>1, <1>2, <1>5, EndsBefore DEF ReplyStatuses
  <1>6. ASSUME NEW s \in {"NEW", "UPDATED", "UNCHANGED", "RECOMMENDATION_ONLY"},
               ScheduleWrites(r, s)
        PROVE  HandlerInv(r)'
    <2>1. wrote'[r] = wrote[r] \cup (IF s \in WritingStatuses THEN {change} ELSE {})
      <3>1. s \in WritingStatuses <=> s \in {"NEW", "UPDATED"}
        BY DEF WritingStatuses
      <3>2. CASE s \in {"NEW", "UPDATED"}
        BY <1>6, <3>1, <3>2 DEF ScheduleWrites, TypeOK
      <3>3. CASE s \notin {"NEW", "UPDATED"}
        <4>1. wrote'[r] = wrote[r]
          BY <1>6, <3>3 DEF ScheduleWrites
        <4> QED  BY <3>1, <3>3, <4>1
      <3> QED  BY <3>2, <3>3
    <2>2. CASE ScheduleAnswers(r, s)
      <3>1. audit'[r] = audit[r] \cup {Audit(change, s)}
        BY <2>2 DEF ScheduleAnswers, TypeOK
      <3> HIDE DEF change
      <3>2. ToldBy(audit'[r]) = wrote'[r]
        BY <1>3, <1>4, <2>1, <3>1, ToldOneMore
      <3>3. Advance(r) /\ UNCHANGED <<intent, lost>>
        BY <1>1, <2>2 DEF ScheduleAnswers
      <3>4. ~(position[r] < Len(Plan(intent[r])))
        BY <1>2
      <3> QED  BY <1>1, <1>2, <3>2, <3>3, <3>4, AdvanceInv
    <2>3. CASE s \in {"NEW", "UPDATED"} /\ ScheduleLoses(r)
      <3>1. lost'[r] = {change}
        BY <1>3, <2>3 DEF ScheduleLoses, TypeOK
      <3>2. wrote'[r] = wrote[r] \cup {change}
        BY <2>1, <2>3 DEF WritingStatuses
      <3>3. Known(r)' \subseteq {TaskCreated(r)} /\ lost'[r] \subseteq wrote'[r]
        BY <1>3, <3>1, <3>2 DEF Known
      <3>4. Ends(r, Reply("failed")) /\ UNCHANGED <<intent, position>>
        BY <1>1, <2>3 DEF ScheduleLoses
      <3> QED  BY <1>2, <1>3, <3>3, <3>4, EndsInv DEF ReplyStatuses
    <2> QED  BY <1>6, <2>2, <2>3 DEF ScheduleWrites
  <1> QED  BY <1>5, <1>6, ScheduleOutcome

\* The reply tells what the audit entries tell.
LEMMA FinishInv ==
  ASSUME TypeOK, NEW r \in Requests, HandlerInv(r), Finish(r)
  PROVE  HandlerInv(r)'
  <1>1. /\ pc[r] = "next" /\ Ends(r, Answer(r))
        /\ UNCHANGED <<services, intent, hour, position, current, scheduled, results, audit,
                       before>>
    BY DEF Finish
  <1>2. pc'[r] = "done" /\ reply'[r] = Answer(r)
    BY <1>1 DEF Ends, TypeOK
  <1>3. Answer(r).status = "answered" /\ Answer(r) # None
    <2>1. Answer(r).status = "answered"
      BY DEF Answer
    <2>2. Answer(r) \in Replies
      <3>1. scheduled[r] # None => scheduled[r].status \in Verbs
        BY DEF TypeOK, Schedules, Verbs
      <3>2. Verb(r) \in Verbs
        BY <3>1 DEF Verb, Verbs
      <3>3. Batch(results[r]) \in Batches
        BY BatchType DEF TypeOK
      <3> QED  BY <3>2, <3>3 DEF Replies, ReplyStatuses, Verbs, Answer
    <2> QED  BY <2>1, <2>2, IntakeAssumption
  <1>4. /\ reply[r] = None /\ intent[r] # None /\ lost[r] \subseteq wrote[r]
        /\ AuditTells(r)
    BY <1>1 DEF HandlerInv, AtItsPlace, WroteSoFar, ToldSoFar
  <1>5. AtItsPlace(r)'
    BY <1>1, <1>2, <1>3, <1>4 DEF AtItsPlace, Running
  <1>6. WroteSoFar(r)'
    BY <1>1, <1>2 DEF HandlerInv, WroteSoFar, Running, IsBatch, services
  <1>7. ToldSoFar(r)' /\ TellsWrites(r)' /\ LeavesAtMostTask(r)'
    BY <1>1, <1>2, <1>3, <1>4
    DEF ToldSoFar, TellsWrites, LeavesAtMostTask, Known, AuditTells, services, Running
  <1> QED  BY <1>5, <1>6, <1>7 DEF HandlerInv

\* A failed call ends the plan; what it wrote before stays written.
LEMMA CallFailsInv ==
  ASSUME TypeOK, NEW r \in Requests, HandlerInv(r), CallFails(r)
  PROVE  HandlerInv(r)'
  <1>1. /\ pc[r] = "create" \/ HasAction(r)
        /\ pc[r] # "create" => Action(r).action # "CREATE_CALENDAR_EVENT"
        /\ Ends(r, Reply("failed")) /\ UNCHANGED <<intent, position, wrote, lost>>
    BY DEF CallFails
  <1>2. ~IsBatch(r)
    <2>1. CASE pc[r] = "create"
      BY <2>1, CreateAction DEF HandlerInv
    <2>2. CASE pc[r] # "create"
      <3>1. /\ intent[r] \in ValidIntents /\ position[r] \in 1..Len(Plan(intent[r]))
            /\ Action(r) = Plan(intent[r])[position[r]]
        BY <1>1, Acting DEF HandlerInv
      <3> QED  BY <1>1, <2>2, <3>1, BatchPlan DEF IsBatch
    <2> QED  BY <2>1, <2>2
  <1> QED  BY <1>1, <1>2, EndsBefore DEF ReplyStatuses


\* Every step of a handler keeps what is known of it.
LEMMA StepInv ==
  ASSUME TypeOK, NEW r \in Requests, HandlerInv(r), Step(r)
  PROVE  HandlerInv(r)'
  BY BeginInv, ClarifyInv, ReadInv, MutateContextInv, CreateEventInv, FindExistingInv,
     CreateTaskInv, GetTaskInv, ScheduleInv, FinishInv, CallFailsInv
     DEF Step

-----------------------------------------------------------------------------
(* What handlers know of each other.                                          *)

\* A step changes nothing of another handler.
Elsewhere(r) ==
  \A x \in Requests \ {r} :
    /\ pc'[x] = pc[x] /\ intent'[x] = intent[x] /\ position'[x] = position[x]
    /\ current'[x] = current[x] /\ wrote'[x] = wrote[x] /\ lost'[x] = lost[x]
    /\ audit'[x] = audit[x] /\ reply'[x] = reply[x] /\ before'[x] = before[x]

\* A step of one handler leaves the memory of the others alone.
LEMMA StepElsewhere ==
  ASSUME TypeOK, NEW r \in Requests, Step(r)
  PROVE  Elsewhere(r)
  <1>1. ASSUME NEW i \in Intents, NEW h \in Hours, Begin(r, i, h)  PROVE  Elsewhere(r)
    BY <1>1 DEF Begin, Elsewhere, TypeOK, Ends, services
  <1>2. CASE Clarify(r) \/ Finish(r) \/ CallFails(r)
    BY <1>2 DEF Clarify, Finish, CallFails, Elsewhere, TypeOK, Ends, services
  <1>3. CASE Read(r) \/ MutateContext(r)
    BY <1>3 DEF Read, MutateContext, Elsewhere, TypeOK, Advance, Writes, services
  <1>4. CASE CreateEvent(r)
    BY <1>4 DEF CreateEvent, Elsewhere, TypeOK, Advance, Writes, Item
  <1>5. CASE FindExisting(r)
    BY <1>5 DEF FindExisting, Elsewhere, TypeOK, Advance, Ends, services
  <1>6. CASE CreateTask(r)
    BY <1>6 DEF CreateTask, Elsewhere, TypeOK, Advance, Ends, Writes, LosesAnswer
  <1>7. CASE GetTask(r)
    BY <1>7 DEF GetTask, Elsewhere, TypeOK, Ends, services
  <1>8. CASE Schedule(r)
    BY <1>8 DEF Schedule, Elsewhere, TypeOK, Advance, Ends, Writes, LosesAnswer
  <1> QED  BY <1>1, <1>2, <1>3, <1>4, <1>5, <1>6, <1>7, <1>8 DEF Step

\* What a step may do to tasks and to the histories.
LEMMA StepTasks ==
  ASSUME TypeOK, NEW r \in Requests, HandlerInv(r), Step(r)
  PROVE  /\ edited' = edited /\ pc[r] # "done" /\ wrote[r] \subseteq wrote'[r]
         /\ \/ before' = before
            \/ before'[r] = {x \in Requests : pc[x] = "done"} /\ pc'[r] # "create"
         /\ tasks' = tasks \/ CreateTask(r)
         /\ pc'[r] = "create" => FindExisting(r)
  <1>1. ASSUME NEW i \in Intents, NEW h \in Hours, Begin(r, i, h)
        PROVE  /\ edited' = edited /\ pc[r] = "idle" /\ wrote' = wrote /\ tasks' = tasks
               /\ before'[r] = {x \in Requests : pc[x] = "done"} /\ pc'[r] # "create"
    BY <1>1 DEF Begin, Ends, services, TypeOK
  <1>2. CASE Clarify(r) \/ Finish(r) \/ CallFails(r)
    BY <1>2
    DEF Clarify, Finish, CallFails, Ends, services, TypeOK, HasAction, Doing
  <1>3. CASE Read(r) \/ MutateContext(r) \/ CreateEvent(r)
    BY <1>3
    DEF Read, MutateContext, CreateEvent, Advance, Writes, services, TypeOK, HasAction, Doing
  <1>4. CASE FindExisting(r)
    BY <1>4 DEF FindExisting, services, HasAction, Doing
  <1>5. CASE CreateTask(r)
    BY <1>5 DEF CreateTask, Advance, Ends, Writes, LosesAnswer, TypeOK, HasAction, Doing
  <1>6. CASE GetTask(r)
    BY <1>6 DEF GetTask, Ends, services, TypeOK, HasAction, Doing
  <1>7. CASE Schedule(r)
    BY <1>7 DEF Schedule, Advance, Ends, Writes, LosesAnswer, TypeOK, HasAction, Doing
  <1> QED  BY <1>1, <1>2, <1>3, <1>4, <1>5, <1>6, <1>7 DEF Step

\* A search that found nothing: no open task has the title.
LEMMA NothingFound ==
  ASSUME TypeOK, NEW title \in Titles, Matches(title) = {}, NEW t \in Tasks
  PROVE  ~Answers(t, title)
  BY IntakeAssumption DEF Matches, Answers, TypeOK

\* What a handler schedules is what it was asked for: the task it was given, the one
\* its search chose, or the one it has just made.
LEMMA StepSelects ==
  ASSUME TypeOK, \A r \in Requests : HandlerInv(r), Overlaps, NEW r \in Requests, Step(r),
         Running(r)', current'[r] # None, intent'[r].kind = "SCHEDULE_TASK"
  PROVE  AskedFor(r, current[r].id)'
  <1>1. CASE FindExisting(r)
    <2>1. Doing(r, "CREATE_TASK") /\ AtItsPlace(r)
      BY <1>1 DEF FindExisting, HandlerInv
    <2>2. /\ UNCHANGED <<tasks, edited, intent, before>>
          /\ Action(r).title = intent[r].title /\ intent[r].title \in Titles
          /\ intent[r].kind = "SCHEDULE_TASK" => intent[r].task = None
      BY <1>1, <2>1, CreateAction DEF FindExisting, services
    <2>3. CASE current'[r] = current[r]
      <3>1. Running(r)
        BY <2>1 DEF Running, Doing, HasAction
      <3> QED  BY <2>2, <2>3, <3>1 DEF Overlaps, AskedFor, Open
    <2>4. ASSUME NEW t \in Matches(intent[r].title), Matches(intent[r].title) = {t},
                 current' = [current EXCEPT ![r] = [id |-> t, row |-> tasks[t]]]
          PROVE  AskedFor(r, current[r].id)'
      <3>1. current'[r].id = t
        BY <2>4 DEF TypeOK
      <3>2. Open(t) /\ intent[r].title \in Contained[tasks[t].title]
        BY <2>2, <2>4, IntakeAssumption DEF Matches
      <3>3. ASSUME NEW o \in Tasks, Open(o), tasks[o].title = intent[r].title
            PROVE  tasks[t].title = intent[r].title
        BY <2>4, <3>3 DEF Matches
      <3> QED  BY <2>2, <3>1, <3>2, <3>3 DEF AskedFor, Open
    <2> QED  BY <1>1, <2>2, <2>3, <2>4 DEF FindExisting
  <1>2. CASE CreateTask(r)
    <2>1. pc'[r] = "next" /\ current'[r] = [id |-> r, row |-> NewTask(r)]
      BY <1>2 DEF CreateTask, LosesAnswer, Ends, Advance, Running, TypeOK
    <2>2. /\ tasks'[r] = NewTask(r) /\ UNCHANGED <<edited, intent, before>>
      BY <1>2, IntakeAssumption DEF CreateTask, TypeOK
    <2>3. /\ Action(r).title = intent[r].title /\ intent[r].title \in Titles
          /\ intent[r].task = None
      BY <1>2, <2>2, CreateAction DEF CreateTask, HandlerInv
    <2>4. /\ NewTask(r).title = intent[r].title /\ NewTask(r).done = FALSE
          /\ NewTask(r) # None
      <3>1. Action(r).title \in Titles /\ Action(r).deadline \in Int \cup {None}
        BY <1>2, CreateAction DEF CreateTask, HandlerInv
      <3>2. DueDatetime(Action(r).deadline) \in Int \cup {None}
        BY <3>1 DEF DueDatetime, At
      <3>3. NewTask(r) \in TaskRows
        BY <3>1, <3>2 DEF TaskRows, NewTask
      <3> QED  BY <2>3, <3>3, IntakeAssumption DEF NewTask
    <2> QED  BY <2>1, <2>2, <2>3, <2>4, IntakeAssumption DEF AskedFor, Open
  <1>3. CASE GetTask(r)
    <2>1. /\ Action(r).task = intent[r].task /\ intent[r].task # None
          /\ UNCHANGED <<intent>>
      BY <1>3, ScheduledTask DEF GetTask, HandlerInv
    <2>2. current'[r].id = Action(r).task
      BY <1>3 DEF GetTask, TypeOK
    <2> QED  BY <2>1, <2>2 DEF AskedFor
  <1>4. ASSUME NEW i \in Intents, NEW h \in Hours, Begin(r, i, h)
        PROVE  FALSE
    BY <1>4 DEF Begin, HandlerInv, AtItsPlace
  <1>5. CASE ~FindExisting(r) /\ ~CreateTask(r) /\ ~GetTask(r)
             /\ ~\E i \in Intents, h \in Hours : Begin(r, i, h)
    <2>1. UNCHANGED <<tasks, edited, intent, before, current>> /\ pc[r] = "next"
      <3>1. CASE Clarify(r) \/ Finish(r) \/ CallFails(r)
        BY <3>1 DEF Clarify, Finish, CallFails, Ends, Running, TypeOK
      <3>2. CASE Read(r) \/ MutateContext(r) \/ CreateEvent(r) \/ Schedule(r)
        BY <3>2
        DEF Read, MutateContext, CreateEvent, Schedule, services, Doing, HasAction
      <3> QED  BY <1>5, <3>1, <3>2 DEF Step
    <2> QED  BY <2>1 DEF Overlaps, Running, AskedFor, Open
  <1> QED  BY <1>1, <1>2, <1>3, <1>4, <1>5

\* A step of a handler keeps what the others know.
LEMMA StepOverlaps ==
  ASSUME TypeOK, \A r \in Requests : HandlerInv(r), Overlaps, NEW r \in Requests, Step(r)
  PROVE  Overlaps'
  <1>1. Elsewhere(r)
    BY StepElsewhere
  <1>2. /\ edited' = edited /\ pc[r] # "done" /\ wrote[r] \subseteq wrote'[r]
        /\ \/ before' = before
           \/ before'[r] = {x \in Requests : pc[x] = "done"} /\ pc'[r] # "create"
        /\ tasks' = tasks \/ CreateTask(r)
        /\ pc'[r] = "create" => FindExisting(r)
    BY StepTasks
  <1>3. ASSUME NEW x \in Requests, NEW y \in before'[x]
        PROVE  pc'[y] = "done"
    <2>1. y \in Requests /\ pc[y] = "done"
      BY <1>1, <1>2, <1>3 DEF Overlaps, Elsewhere, TypeOK
    <2> QED  BY <1>1, <1>2, <2>1 DEF Elsewhere
  <1>4. ASSUME NEW x \in Requests, tasks'[x] # None
        PROVE  TaskCreated(x) \in wrote'[x]
    <2>1. CASE tasks'[x] = tasks[x]
      BY <1>1, <1>2, <1>4, <2>1 DEF Overlaps, Elsewhere
    <2>2. CASE tasks'[x] # tasks[x]
      <3>1. CreateTask(r) /\ x = r
        BY <1>2, <2>2, IntakeAssumption DEF CreateTask, TypeOK
      <3> QED  BY <3>1 DEF CreateTask, Writes, TypeOK
    <2> QED  BY <2>1, <2>2
  <1>5. ASSUME NEW x \in Requests, pc'[x] = "create", NEW t \in Tasks \ edited',
               Answers(t, Action(x).title)'
        PROVE  t \in Requests \ before'[x]
    <2>1. CASE x = r
      <3>1. FindExisting(r) /\ HasAction(r) /\ Action(r).action = "CREATE_TASK"
        BY <1>2, <1>5, <2>1 DEF FindExisting, Doing
      <3>2. tasks' = tasks /\ Action(r)' = Action(r) /\ Matches(Action(r).title) = {}
        BY <1>5, <2>1, <3>1 DEF FindExisting, services, Action, Advance, Ends, TypeOK
      <3>3. Action(r).title \in Titles
        BY <3>1, CreateAction DEF HandlerInv, Doing
      <3> QED  BY <1>5, <2>1, <3>2, <3>3, NothingFound DEF Answers, Open
    <2>2. CASE x # r
      <3>1. pc[x] = "create" /\ before'[x] = before[x] /\ Action(x)' = Action(x)
        BY <1>1, <1>5, <2>2 DEF Elsewhere, Action
      <3>2. CASE tasks'[t] = tasks[t]
        BY <1>2, <1>5, <3>1, <3>2 DEF Overlaps, Answers, Open
      <3>3. CASE tasks'[t] # tasks[t]
        <4>1. t = r
          BY <1>2, <3>3 DEF CreateTask, TypeOK
        <4>2. r \notin before[x]
          BY <1>2 DEF Overlaps
        <4> QED  BY <3>1, <4>1, <4>2
      <3> QED  BY <3>2, <3>3
    <2> QED  BY <2>1, <2>2
  <1>6. ASSUME NEW x \in Requests, Running(x)', current'[x] # None,
               intent'[x].kind = "SCHEDULE_TASK"
        PROVE  AskedFor(x, current[x].id)'
    <2>1. CASE x = r
      BY <1>6, <2>1, StepSelects
    <2>2. CASE x # r
      <3>1. /\ Running(x) /\ current[x] # None /\ intent[x].kind = "SCHEDULE_TASK"
            /\ current'[x] = current[x] /\ intent'[x] = intent[x] /\ before'[x] = before[x]
        BY <1>1, <1>6, <2>2 DEF Elsewhere, Running
      <3>2. AskedFor(x, current[x].id) /\ r \in Requests \ before[x]
        BY <1>2, <3>1 DEF Overlaps
      <3>3. CASE tasks' = tasks
        BY <1>2, <3>1, <3>2, <3>3 DEF AskedFor, Open
      <3>4. CASE CreateTask(r)
        <4>1. tasks[r] = None
          <5>1. wrote[r] = {}
            BY <3>4, CreateAction, BeforeAction DEF CreateTask, Doing, HandlerInv
          <5> QED  BY <5>1 DEF Overlaps
        <4>2. \A t \in Tasks \ {r} : tasks'[t] = tasks[t]
          BY <3>4 DEF CreateTask, TypeOK
        <4>3. current[x].id \in Tasks
          BY <3>1, TypeGroups DEF ReadTypes, ReadTasks
        <4> QED  BY <1>2, <3>1, <3>2, <4>1, <4>2, <4>3 DEF AskedFor, Open
      <3> QED  BY <1>2, <3>3, <3>4
    <2> QED  BY <2>1, <2>2
  <1> QED  BY <1>3, <1>4, <1>5, <1>6 DEF Overlaps


-----------------------------------------------------------------------------
(* Users.                                                                   *)

\* A user changes one task that was there, or adds one of its own.
UserStep(t, row) ==
  /\ Edit(t, row) /\ t \in Tasks /\ row \in TaskRows
  /\ tasks[t] # None \/ t \in ForeignTasks

\* A user changes one task to another row of its type.
LEMMA UserSteps ==
  ASSUME TypeOK, NEW t \in Tasks, NEW title \in Titles,
         UserCompletes(t) \/ UserAdds(t, title) \/ UserRenames(t, title)
  PROVE  \E row : UserStep(t, row)
  <1>1. CASE UserAdds(t, title)
    <2>1. [title |-> title, done |-> FALSE, due |-> None] \in TaskRows
      BY DEF TaskRows
    <2> QED  BY <1>1, <2>1 DEF UserAdds, UserStep
  <1>2. CASE UserCompletes(t)
    <2>1. tasks[t] \in TaskRows
      BY <1>2 DEF UserCompletes, Open, TypeOK
    <2>2. [tasks[t] EXCEPT !.done = TRUE] \in TaskRows
      BY <2>1 DEF TaskRows
    <2> QED  BY <1>2, <2>2 DEF UserCompletes, Open, UserStep
  <1>3. CASE UserRenames(t, title)
    <2>1. tasks[t] \in TaskRows
      BY <1>3 DEF UserRenames, TypeOK
    <2>2. [tasks[t] EXCEPT !.title = title] \in TaskRows
      BY <2>1 DEF TaskRows
    <2> QED  BY <1>3, <2>2 DEF UserRenames, UserStep
  <1> QED  BY <1>1, <1>2, <1>3

\* A user who changes a task, once, keeps the invariant.
LEMMA UserInv ==
  ASSUME ProgressInv, NEW t, NEW row, UserStep(t, row)
  PROVE  ProgressInv'
  <1>1. /\ tasks' = [tasks EXCEPT ![t] = row] /\ edited' = edited \cup {t}
        /\ t \in Tasks /\ row \in TaskRows /\ t \notin edited
        /\ UNCHANGED <<pc, intent, hour, position, current, scheduled, results, audit, reply,
                       wrote, lost, before, failures>>
    BY DEF UserStep, Edit
  <1>2. ControlTypes /\ ToldTypes /\ ReadTypes /\ AskedTypes /\ TaskTypes
    BY TypeGroups DEF ProgressInv
  <1>3. TypeOK'
    <2>1. TaskTypes'
      BY <1>1, <1>2, PutAt DEF TaskTypes
    <2>2. ControlTypes' /\ ToldTypes' /\ ReadTypes' /\ AskedTypes'
      BY <1>1, <1>2 DEF ControlTypes, ToldTypes, ReadTypes, AskedTypes
    <2> QED  BY <2>1, <2>2, TypeGroupsNext
  <1>4. ASSUME NEW r \in Requests PROVE HandlerInv(r)'
    BY <1>1, Frame DEF ProgressInv
  <1>5. Overlaps'
    <2>1. ASSUME NEW r \in Requests PROVE \A x \in before'[r] : pc'[x] = "done"
      BY <1>1 DEF ProgressInv, Overlaps
    <2>2. ASSUME NEW r \in Requests, tasks'[r] # None PROVE TaskCreated(r) \in wrote'[r]
      <3>1. tasks[r] # None
        BY <1>1, <1>2, <2>2, IntakeAssumption DEF UserStep, TaskTypes
      <3> QED  BY <1>1, <3>1 DEF ProgressInv, Overlaps
    <2>3. ASSUME NEW r \in Requests, pc'[r] = "create", NEW u \in Tasks \ edited',
                 Answers(u, Action(r).title)'
          PROVE  u \in Requests \ before'[r]
      <3>1. u # t /\ tasks'[u] = tasks[u] /\ u \notin edited /\ Action(r)' = Action(r)
        BY <1>1, <1>2 DEF TaskTypes, Action
      <3> QED  BY <1>1, <2>3, <3>1 DEF ProgressInv, Overlaps, Answers, Open
    <2>4. ASSUME NEW r \in Requests, Running(r)', current'[r] # None,
                 intent'[r].kind = "SCHEDULE_TASK"
          PROVE  AskedFor(r, current[r].id)'
      <3>1. AskedFor(r, current[r].id)
        BY <1>1, <2>4 DEF ProgressInv, Overlaps, Running
      <3>2. \A u \in Tasks \ {t} : tasks'[u] = tasks[u]
        BY <1>1, <1>2 DEF TaskTypes
      <3>3. current[r].id \in Tasks
        BY <1>1, <1>2, <2>4 DEF ReadTypes, ReadTasks
      <3> QED  BY <1>1, <3>1, <3>2, <3>3 DEF AskedFor, Open
    <2> QED  BY <2>1, <2>2, <2>3, <2>4 DEF Overlaps
  <1> QED  BY <1>3, <1>4, <1>5 DEF ProgressInv

-----------------------------------------------------------------------------
(* The theorems.                                                            *)

\* The invariant holds at first.
LEMMA InitInv == Init => ProgressInv
  <1> SUFFICES ASSUME Init PROVE ProgressInv
    OBVIOUS
  <1>1. PICK initial \in InitialTasks :
          tasks = [t \in Tasks |-> IF t \in ForeignTasks THEN initial[t] ELSE None]
    BY DEF Init
  <1>2. initial \in [ForeignTasks -> TaskRows \cup {None}]
    BY IntakeAssumption
  <1>3. TaskTypes
    BY <1>1, <1>2 DEF TaskTypes, Init
  <1>4. ControlTypes /\ ToldTypes /\ AskedTypes
    BY DEF Init, ControlTypes, ToldTypes, AskedTypes, Labels, ClockHours
  <1>5. ReadTypes
    BY DEF Init, ReadTypes
  <1>6. ASSUME NEW r \in Requests PROVE HandlerInv(r)
    <2>1. AtItsPlace(r) /\ WroteSoFar(r)
      BY DEF Init, AtItsPlace, WroteSoFar, Running
    <2>2. ToldSoFar(r) /\ TellsWrites(r) /\ LeavesAtMostTask(r)
      BY NoneTold
      DEF Init, ToldSoFar, TellsWrites, LeavesAtMostTask, Known, AuditTells, Running
    <2> QED  BY <2>1, <2>2 DEF HandlerInv
  <1>7. Overlaps
    <2>1. \A r \in Requests : tasks[r] = None
      BY <1>1, IntakeAssumption
    <2> QED  BY <2>1 DEF Overlaps, Init
  <1> QED  BY <1>3, <1>4, <1>5, <1>6, <1>7, TypeGroups DEF ProgressInv

\* Every step keeps the invariant.
LEMMA NextInv == ProgressInv /\ [Next]_vars => ProgressInv'
  <1> SUFFICES ASSUME ProgressInv, [Next]_vars PROVE ProgressInv'
    OBVIOUS
  <1>1. ASSUME NEW r \in Requests, Step(r) PROVE ProgressInv'
    <2>1. TypeOK'
      BY <1>1, StepTypes DEF ProgressInv, HandlerInv
    <2>2. HandlerInv(r)'
      BY <1>1, StepInv DEF ProgressInv
    <2>3. Elsewhere(r)
      BY <1>1, StepElsewhere DEF ProgressInv
    <2>4. ASSUME NEW x \in Requests \ {r} PROVE HandlerInv(x)'
      BY <2>3, Frame DEF ProgressInv, Elsewhere
    <2>5. Overlaps'
      BY <1>1, StepOverlaps DEF ProgressInv
    <2> QED  BY <2>1, <2>2, <2>4, <2>5 DEF ProgressInv
  <1>2. ASSUME NEW t \in Tasks, UserCompletes(t) PROVE ProgressInv'
    <2>1. tasks[t] \in TaskRows
      BY <1>2 DEF UserCompletes, Open, ProgressInv, TypeOK
    <2>2. tasks[t].title \in Titles
      BY <2>1 DEF TaskRows
    <2> QED  BY <1>2, <2>2, UserSteps, UserInv DEF ProgressInv
  <1>3. ASSUME NEW t \in Tasks, NEW title \in Titles,
               UserAdds(t, title) \/ UserRenames(t, title)
        PROVE  ProgressInv'
    BY <1>3, UserSteps, UserInv DEF ProgressInv
  <1>4. CASE UNCHANGED vars
    <2>1. UNCHANGED <<tasks, pc, intent, hour, position, current, scheduled, results, audit,
                      reply, wrote, lost, before, edited, failures>>
      BY <1>4 DEF vars
    <2>2. TypeOK'
      BY <2>1 DEF ProgressInv, TypeOK
    <2>3. \A r \in Requests : HandlerInv(r)'
      BY <2>1, Frame DEF ProgressInv
    <2>4. Overlaps'
      BY <2>1 DEF ProgressInv, Overlaps, Answers, Open, Action, AskedFor, Running
    <2> QED  BY <2>2, <2>3, <2>4 DEF ProgressInv
  <1> QED  BY <1>1, <1>2, <1>3, <1>4 DEF Next

\* Types, what each place in the plan implies, and what handlers know of each other:
\* whatever fails, a handler has written what its position says, and before an action
\* its records tell of all of it.
THEOREM ProgressInvHolds == Spec => []ProgressInv
  BY InitInv, NextInv, PTL DEF Spec

\* Whatever fails and whoever interferes, the records of an answer name only changes its
\* calls made, and all of them but for those a service did not confirm and one of the
\* registry behind an UNCHANGED.
THEOREM ReplyTellsWritesHolds == Spec => []ReplyTellsWrites
  <1>1. ProgressInv => ReplyTellsWrites
    BY DEF ProgressInv, HandlerInv, ReplyTellsWrites
  <1> QED  BY <1>1, ProgressInvHolds, PTL

\* A request that fails leaves at most the task it was going to schedule, or a change
\* whose answer was lost; one that was refused or asked about leaves nothing.
THEOREM FailureLeavesAtMostTaskHolds == Spec => []FailureLeavesAtMostTask
  <1>1. ProgressInv => FailureLeavesAtMostTask
    BY DEF ProgressInv, HandlerInv, FailureLeavesAtMostTask
  <1> QED  BY <1>1, ProgressInvHolds, PTL

\* A request to schedule by title creates a task only if every open task with the title
\* was made by a handler that overlapped it or changed by a user.
THEOREM CreatesOnlyIfNoneHolds == Spec => CreatesOnlyIfNone
  <1>1. ProgressInv /\ [Next]_vars =>
          [\A r \in Requests : pc[r] = "create" /\ tasks'[r] # tasks[r] =>
             \A t \in Tasks \ edited :
               Answers(t, Action(r).title) => t \in Requests \ before[r]]_vars
    BY DEF ProgressInv, Overlaps
  <1> QED  BY <1>1, ProgressInvHolds, PTL DEF Spec, CreatesOnlyIfNone

\* The bounds of a search are those of the day and the part of it that were asked for.
LEMMA BoundsAsAsked ==
  ASSUME TypeOK, NEW r \in Requests, AtItsPlace(r), Doing(r, "SCHEDULE_WORK_BLOCK"),
         current[r] # None,
         NEW s, s.earliest = Earliest(Action(r), hour[r]),
         s.deadline = Latest(Action(r), current[r].row), s.earliest < s.deadline
  PROVE  InTheTimeAskedFor(r, s)
  <1> DEFINE i == intent[r]
             a == Action(r)
             w == IF a.window = None THEN WholeDay ELSE a.window
             part == IF i.constraint = None THEN "" ELSE i.constraint.rest
             day == IF i.deadline # None THEN i.deadline
                    ELSE IF i.constraint = None THEN None
                    ELSE IF i.constraint.day = "today" THEN 0
                    ELSE IF i.constraint.day = "tomorrow" THEN 1 ELSE None
  <1>1. /\ i \in ValidIntents /\ a.deadline = Deadline(i) /\ hour[r] \in ClockHours
        /\ a.window = IF i.constraint = None THEN None ELSE Window(i.constraint.rest)
    BY ScheduledTask DEF TypeOK
  <1>2. i.constraint \in Constraints \cup {None} /\ i.deadline \in Int \cup {None}
    BY <1>1, IntentFields
  <1>3. day = a.deadline /\ a.deadline \in Int \cup {None}
    <2>1. day = Deadline(i)
      BY DEF Deadline, NamedDay, Today
    <2> QED  BY <1>1, <2>1, DeadlineType
  <1>4. /\ w.from = IF part = "afternoon" THEN 12 ELSE IF part = "evening" THEN 17 ELSE 9
        /\ w.to = IF part = "morning" THEN 12 ELSE IF part = "afternoon" THEN 17 ELSE 22
    <2>1. CASE part \in {"morning", "afternoon", "evening"}
      <3>1. a.window = Window(part) /\ Window(part) \in Windows
        BY <1>1, <2>1 DEF Window, Windows, ClockHours
      <3> QED  BY <2>1, <3>1, IntakeAssumption DEF Window
    <2>2. CASE part \notin {"morning", "afternoon", "evening"}
      <3>1. a.window = None
        BY <1>1, <2>2 DEF Window
      <3> QED  BY <2>2, <3>1 DEF WholeDay
    <2> QED  BY <2>1, <2>2
  <1>5. /\ a.deadline = None => s.earliest = At(0, hour[r])
        /\ a.deadline # None =>
             /\ s.deadline = At(a.deadline, w.to)
             /\ s.earliest = IF a.deadline = 0 /\ At(a.deadline, w.from) < At(0, hour[r])
                             THEN At(0, hour[r]) ELSE At(a.deadline, w.from)
    BY DEF Earliest, Latest, Today
  <1> HIDE DEF w, a
  <1>6. day = None \/ day >= 0 => s.earliest >= hour[r]
    <2>1. hour[r] \in 0..23 /\ At(0, hour[r]) = hour[r]
      BY <1>1 DEF ClockHours, At
    <2>2. CASE a.deadline = None
      BY <1>5, <2>1, <2>2
    <2>3. CASE a.deadline # None
      <3>1. a.deadline \in Int /\ day = a.deadline
        BY <1>3, <2>3
      <3>2. w.from \in {9, 12, 17}
        BY <1>4
      <3>3. CASE a.deadline >= 1
        <4>1. At(a.deadline, w.from) >= hour[r]
          BY <2>1, <3>1, <3>2, <3>3 DEF At
        <4> QED  BY <1>5, <2>3, <3>1, <3>3, <4>1
      <3>4. CASE a.deadline = 0
        <4>1. At(a.deadline, w.from) \in Int
          BY <3>1, <3>2 DEF At
        <4> QED  BY <1>5, <2>1, <2>3, <3>4, <4>1
      <3>5. CASE a.deadline < 0
        BY <3>1, <3>5, IntakeAssumption
      <3> QED  BY <3>1, <3>3, <3>4, <3>5
    <2> QED  BY <2>2, <2>3
  <1>7. day # None => s.earliest >= 24 * day + w.from /\ s.deadline <= 24 * day + w.to
    <2>1. SUFFICES ASSUME day # None
                   PROVE  s.earliest >= 24 * day + w.from /\ s.deadline <= 24 * day + w.to
      OBVIOUS
    <2>2. a.deadline # None /\ a.deadline \in Int /\ day = a.deadline
      BY <1>3, <2>1
    <2>3. w.from \in Int /\ w.to \in Int /\ hour[r] \in Int
      BY <1>1, <1>4 DEF ClockHours
    <2> HIDE DEF day
    <2>4. At(a.deadline, w.from) = 24 * day + w.from /\ At(a.deadline, w.to) = 24 * day + w.to
          /\ At(0, hour[r]) \in Int /\ At(a.deadline, w.from) \in Int /\ 24 * day + w.to \in Int
      BY <2>2, <2>3 DEF At
    <2> QED  BY <1>5, <2>2, <2>4
  <1> QED  BY <1>4, <1>6, <1>7 DEF InTheTimeAskedFor

\* A block is put for the task asked for, in the time asked for, whoever interferes.
THEOREM ScheduledAsAskedHolds == Spec => ScheduledAsAsked
  <1>1. ASSUME ProgressInv, [Next]_vars, NEW r \in Requests, scheduled'[r] # scheduled[r]
        PROVE  AskedFor(r, current[r].id) /\ InTheTimeAskedFor(r, scheduled'[r])
    <2>1. Schedule(r)
      <3>1. ASSUME NEW x \in Requests, Step(x), ~Schedule(x) PROVE scheduled' = scheduled
        BY <3>1
        DEF Step, Begin, Clarify, Read, MutateContext, CreateEvent, FindExisting, CreateTask,
            GetTask, Finish, CallFails
      <3>2. ASSUME NEW x \in Requests, Schedule(x) PROVE x = r
        BY <1>1, <3>2 DEF ProgressInv, TypeOK, Schedule
      <3>3. (\E x \in Requests : Step(x)) \/ scheduled' = scheduled
        BY <1>1 DEF Next, UserCompletes, UserAdds, UserRenames, Edit, vars
      <3> QED  BY <1>1, <3>1, <3>2, <3>3
    <2>2. /\ Doing(r, "SCHEDULE_WORK_BLOCK") /\ current[r] # None /\ AtItsPlace(r)
          /\ TypeOK
      BY <1>1, <2>1 DEF Schedule, ProgressInv, HandlerInv
    <2>3. AskedFor(r, current[r].id)
      BY <1>1, <2>2, ScheduledTask DEF ProgressInv, Overlaps, Running, Doing, HasAction
    <2>4. PICK s \in {"NEW", "UPDATED", "UNCHANGED", "RECOMMENDATION_ONLY"} :
            ScheduleWrites(r, s) /\ ScheduleAnswers(r, s)
      BY <1>1, <2>1, ScheduleOutcome DEF ScheduleWrites, ScheduleLoses
    <2>5. scheduled'[r] = ScheduleAnswer(r, s)
      BY <2>2, <2>4 DEF ScheduleAnswers, TypeOK
    <2>6. /\ scheduled'[r].earliest = Earliest(Action(r), hour[r])
          /\ scheduled'[r].deadline = Latest(Action(r), current[r].row)
          /\ scheduled'[r].earliest < scheduled'[r].deadline
      BY <2>4, <2>5 DEF ScheduleAnswer, ScheduleWrites
    <2>7. InTheTimeAskedFor(r, scheduled'[r])
      BY <2>2, <2>6, BoundsAsAsked
    <2> QED  BY <2>3, <2>7
  <1>2. ProgressInv /\ [Next]_vars =>
          [\A r \in Requests : scheduled'[r] # scheduled[r] =>
             AskedFor(r, current[r].id) /\ InTheTimeAskedFor(r, scheduled'[r])]_vars
    BY <1>1
  <1> QED  BY <1>2, ProgressInvHolds, PTL DEF Spec, ScheduledAsAsked


-----------------------------------------------------------------------------
(* The results of a batch.                                                  *)

\* What BatchSoFar(r) speaks of.
SameBatch(r) ==
  /\ results'[r] = results[r] /\ intent'[r] = intent[r]
  /\ wrote'[r] \ lost'[r] = wrote[r] \ lost[r]

\* Handlers keep their results when they neither run on nor answer.
LEMMA BatchFrame ==
  ASSUME NEW r \in Requests, BatchSoFar(r), SameBatch(r),
         pc'[r] = pc[r], position'[r] = position[r], reply'[r] = reply[r]
  PROVE  BatchSoFar(r)'
  BY DEF BatchSoFar, SameBatch, Running, IsBatch, Known

\* A request that fails or is not clear has no batch in its answer.
LEMMA BatchEnds ==
  ASSUME TypeOK, NEW r \in Requests, BatchSoFar(r), SameBatch(r), NEW s, Ends(r, Reply(s))
  PROVE  BatchSoFar(r)'
  <1>1. pc'[r] = "done" /\ reply'[r].batch = None
    BY DEF Ends, TypeOK, Reply
  <1> QED  BY <1>1 DEF BatchSoFar, SameBatch, Running, IsBatch, Known

\* Any action that does not create an event is one of a request without results.
LEMMA NoBatch ==
  ASSUME NEW r \in Requests, BatchSoFar(r), ~IsBatch(r)',
         results'[r] = results[r], intent'[r] = intent[r],
         reply'[r] # None => reply'[r].batch = None
  PROVE  BatchSoFar(r)'
  BY DEF BatchSoFar, IsBatch

\* Sequences grow by one.
LEMMA OneMore ==
  ASSUME NEW S, NEW q \in Seq(S), NEW x \in S
  PROVE  /\ Append(q, x) \in Seq(S) /\ Append(q, x) # <<>>
         /\ Len(q) \in Nat /\ Len(Append(q, x)) = Len(q) + 1
         /\ Append(q, x)[Len(q) + 1] = x
         /\ \A n \in 1..Len(q) : Append(q, x)[n] = q[n]
  <1>1. Append(q, x) \in Seq(S) /\ Len(Append(q, x)) = Len(q) + 1 /\ Len(q) \in Nat
        /\ Append(q, x)[Len(q) + 1] = x /\ \A n \in 1..Len(q) : Append(q, x)[n] = q[n]
    BY AppendProperties, LenProperties
  <1> QED  BY <1>1

\* The item of a day says whether its event is there for sure.
LEMMA CreateEventBatch ==
  ASSUME TypeOK, NEW r \in Requests, HandlerInv(r), BatchSoFar(r), CreateEvent(r)
  PROVE  BatchSoFar(r)'
  <1> DEFINE day == DayOf(Action(r).start)
             first == intent[r].range.first
             E(n) == EventCreated(first + n - 1)
  <1>1. Doing(r, "CREATE_CALENDAR_EVENT") /\ AtItsPlace(r)
    BY DEF CreateEvent, HandlerInv
  <1>2. /\ intent[r] \in ValidIntents /\ IsBatch(r) /\ position[r] \in Nat \ {0}
        /\ first \in Int /\ day = first + position[r] - 1
    BY <1>1, EventAction DEF TypeOK
  <1>3. intent[r] # None /\ pc[r] = "next"
    BY <1>1, <1>2, IntakeAssumption DEF Doing, HasAction
  <1>4. wrote[r] \subseteq {E(n) : n \in 1..(position[r] - 1)} /\ lost[r] \subseteq wrote[r]
    BY <1>2, <1>3 DEF HandlerInv, WroteSoFar
  <1>5. \A n \in 1..(position[r] - 1) : E(n) # E(position[r])
    BY <1>2 DEF EventCreated, Change
  <1>6. E(position[r]) \notin wrote[r] /\ EventCreated(day) = E(position[r])
    BY <1>2, <1>4, <1>5
  <1>7. /\ pc'[r] = "next" /\ position'[r] = position[r] + 1
        /\ intent' = intent /\ reply' = reply /\ reply[r] = None
    BY <1>1, <1>3 DEF CreateEvent, Advance, TypeOK, AtItsPlace
  <1>8. /\ Len(results[r]) = position[r] - 1
        /\ \A n \in 1..Len(results[r]) : results[r][n] = "CREATED" <=> E(n) \in wrote[r] \ lost[r]
    BY <1>2, <1>3 DEF BatchSoFar, Running, Known
  <1> HIDE DEF E, day
  <1>9. PICK s \in {"CREATED", "FAILED"} :
          /\ results'[r] = Append(results[r], s)
          /\ wrote'[r] \ lost'[r] = (wrote[r] \ lost[r])
                                    \cup (IF s = "CREATED" THEN {E(position[r])} ELSE {})
    <2>1. CASE Item(r, "CREATED") /\ Writes(r, EventCreated(day)) /\ UNCHANGED lost
      <3>1. /\ results'[r] = Append(results[r], "CREATED")
            /\ wrote'[r] = wrote[r] \cup {E(position[r])} /\ lost'[r] = lost[r]
        BY <1>6, <2>1 DEF Item, Writes, TypeOK
      <3>2. wrote'[r] \ lost'[r] = (wrote[r] \ lost[r]) \cup {E(position[r])}
        BY <1>4, <1>6, <3>1
      <3> QED  BY <3>1, <3>2
    <2>2. CASE Item(r, "FAILED") /\ UNCHANGED <<wrote, lost>>
      <3>1. results'[r] = Append(results[r], "FAILED")
        BY <2>2 DEF Item, TypeOK
      <3> QED  BY <2>2, <3>1
    <2>3. CASE /\ Item(r, "FAILED") /\ Writes(r, EventCreated(day))
               /\ lost' = [lost EXCEPT ![r] = @ \cup {EventCreated(day)}]
      <3>1. /\ results'[r] = Append(results[r], "FAILED")
            /\ wrote'[r] = wrote[r] \cup {E(position[r])}
            /\ lost'[r] = lost[r] \cup {E(position[r])}
        BY <1>6, <2>3 DEF Item, Writes, TypeOK
      <3>2. wrote'[r] \ lost'[r] = wrote[r] \ lost[r]
        BY <1>4, <1>6, <3>1
      <3> QED  BY <3>1, <3>2
    <2>4. CreateEvent(r) =>
            \/ Item(r, "CREATED") /\ Writes(r, EventCreated(day)) /\ UNCHANGED lost
            \/ Item(r, "FAILED") /\ UNCHANGED <<wrote, lost>>
            \/ /\ Item(r, "FAILED") /\ Writes(r, EventCreated(day))
               /\ lost' = [lost EXCEPT ![r] = @ \cup {EventCreated(day)}]
      BY DEF CreateEvent, day
    <2> QED  BY <2>1, <2>2, <2>3, <2>4
  <1>10. results[r] \in Seq({"CREATED", "FAILED"})
    BY DEF TypeOK
  <1>11. /\ Len(results'[r]) = position[r] /\ results'[r][position[r]] = s
         /\ \A n \in 1..(position[r] - 1) : results'[r][n] = results[r][n]
    BY <1>2, <1>8, <1>9, <1>10, OneMore
  <1>12. ASSUME NEW n \in 1..Len(results'[r])
         PROVE  results'[r][n] = "CREATED" <=> E(n) \in wrote'[r] \ lost'[r]
    <2>1. CASE n = position[r]
      <3>1. E(n) \notin wrote[r] \ lost[r]
        BY <1>6, <2>1
      <3> QED  BY <1>9, <1>11, <2>1, <3>1
    <2>2. CASE n # position[r]
      <3>1. n \in 1..(position[r] - 1) /\ n \in 1..Len(results[r])
        BY <1>2, <1>8, <1>11, <2>2
      <3>2. E(n) # E(position[r]) /\ results'[r][n] = results[r][n]
        BY <1>5, <1>11, <3>1
      <3>3. E(n) \in wrote'[r] \ lost'[r] <=> E(n) \in wrote[r] \ lost[r]
        BY <1>9, <3>2
      <3> QED  BY <1>8, <3>1, <3>2, <3>3
    <2> QED  BY <2>1, <2>2
  <1>13. IsBatch(r)' /\ intent'[r] # None /\ Len(results'[r]) = position'[r] - 1
    BY <1>2, <1>3, <1>7, <1>11 DEF IsBatch
  <1>14. \A n \in 1..Len(results'[r]) :
           results'[r][n] = "CREATED" <=> EventCreated(intent'[r].range.first + n - 1) \in Known(r)'
    BY <1>7, <1>12 DEF E, Known
  <1> QED  BY <1>7, <1>13, <1>14 DEF BatchSoFar

\* A batch that came to its end is answered with the counts of its results.
LEMMA FinishBatch ==
  ASSUME TypeOK, NEW r \in Requests, HandlerInv(r), BatchSoFar(r), Finish(r)
  PROVE  BatchSoFar(r)'
  <1>1. /\ pc[r] = "next" /\ position[r] > Len(Plan(intent[r])) /\ Ends(r, Answer(r))
        /\ UNCHANGED <<services, intent, position, results>>
    BY DEF Finish
  <1>2. pc'[r] = "done" /\ reply'[r] = Answer(r) /\ SameBatch(r) /\ position'[r] = position[r]
    BY <1>1 DEF Ends, TypeOK, SameBatch, services
  <1>3. CASE results[r] = <<>>
    <2>1. reply'[r].batch = None
      BY <1>2, <1>3 DEF Answer
    <2> QED  BY <1>2, <1>3, <2>1 DEF BatchSoFar, SameBatch, Running, IsBatch, Known
  <1>4. CASE results[r] # <<>>
    <2>1. /\ IsBatch(r) /\ intent[r] \in ValidIntents /\ intent[r] # None
          /\ AtItsPlace(r) /\ Running(r)
      BY <1>1, <1>4, RunningIntent DEF BatchSoFar, HandlerInv, Running
    <2>2. Len(Plan(intent[r])) \in Nat /\ position[r] \in Nat
      BY <2>1, BatchPlan, BatchRange DEF IsBatch, TypeOK
    <2>3. position[r] <= Len(Plan(intent[r])) + 1
      BY <2>1 DEF AtItsPlace
    <2>4. position[r] - 1 = Len(Plan(intent[r]))
      BY <1>1, <2>2, <2>3
    <2>5. Len(results[r]) = position[r] - 1
      BY <2>1 DEF BatchSoFar
    <2>6. reply'[r].batch = Batch(results[r])
      BY <1>2, <1>4 DEF Answer
    <2>7. /\ IsBatch(r)' /\ intent'[r] # None /\ ~Running(r)'
          /\ reply'[r].batch = Batch(results'[r])
          /\ Len(results'[r]) = position'[r] - 1
          /\ Len(results'[r]) = Len(Plan(intent'[r]))
      BY <1>2, <2>1, <2>4, <2>5, <2>6 DEF SameBatch, IsBatch, Running
    <2> QED  BY <1>2, <2>7 DEF BatchSoFar, SameBatch, IsBatch, Known
  <1> QED  BY <1>3, <1>4

\* A request that begins has no results.
LEMMA BeginBatch ==
  ASSUME TypeOK, NEW r \in Requests, HandlerInv(r), BatchSoFar(r),
         NEW i \in Intents, NEW h \in Hours, Begin(r, i, h)
  PROVE  BatchSoFar(r)'
  <1>1. /\ pc[r] = "idle" /\ intent[r] = None /\ reply[r] = None /\ position[r] = 1
        /\ wrote[r] = {} /\ lost[r] = {}
    BY DEF Begin, HandlerInv, AtItsPlace
  <1>2. results[r] = <<>>
    BY <1>1 DEF BatchSoFar
  <1>3. results'[r] = <<>> /\ position'[r] = 1 /\ Len(results'[r]) = 0
    BY <1>1, <1>2 DEF Begin
  <1>4. reply'[r] # None => reply'[r].batch = None
    BY <1>1 DEF Begin, Ends, TypeOK, Reply
  <1> QED  BY <1>3, <1>4 DEF BatchSoFar

\* Every step of a handler keeps what is known of its results.
LEMMA StepBatch ==
  ASSUME TypeOK, NEW r \in Requests, HandlerInv(r), BatchSoFar(r), Step(r)
  PROVE  BatchSoFar(r)'
  <1>p. AtItsPlace(r)
    BY DEF HandlerInv
  <1>1. ASSUME NEW i \in Intents, NEW h \in Hours, Begin(r, i, h)  PROVE  BatchSoFar(r)'
    BY <1>1, BeginBatch
  <1>2. CASE Clarify(r)
    BY <1>2, BatchEnds DEF Clarify, SameBatch, services
  <1>3. CASE CallFails(r)
    BY <1>3, BatchEnds DEF CallFails, SameBatch
  <1>4. CASE CreateEvent(r)
    BY <1>4, CreateEventBatch
  <1>5. CASE Finish(r)
    BY <1>5, FinishBatch
  <1>6. CASE Read(r) \/ MutateContext(r)
    <2>1. /\ HasAction(r) /\ Action(r).action # "CREATE_CALENDAR_EVENT"
          /\ Advance(r) /\ UNCHANGED <<intent, results>>
      BY <1>6 DEF Read, MutateContext, ReadOnly, Doing
    <2>2. ~IsBatch(r)
      BY <1>p, <2>1, Acting, BatchPlan DEF IsBatch
    <2>3. reply[r] = None
      BY <1>p, <2>1 DEF AtItsPlace, HasAction
    <2> QED  BY <2>1, <2>2, <2>3, NoBatch DEF Advance, IsBatch
  <1>7. CASE FindExisting(r)
    <2>1. ~IsBatch(r) /\ reply[r] = None
      BY <1>7, <1>p, CreateAction DEF FindExisting, AtItsPlace, Doing, HasAction
    <2>2. UNCHANGED <<intent, results>>
      BY <1>7 DEF FindExisting
    <2>3. reply'[r] # None => reply'[r].batch = None
      BY <1>7, <2>1 DEF FindExisting, Ends, Advance, Reply, TypeOK
    <2> QED  BY <2>1, <2>2, <2>3, NoBatch DEF IsBatch
  <1>8. CASE CreateTask(r)
    <2>1. ~IsBatch(r) /\ reply[r] = None
      BY <1>8, <1>p, CreateAction DEF CreateTask, AtItsPlace, Doing, HasAction
    <2>2. UNCHANGED <<intent, results>>
      BY <1>8 DEF CreateTask
    <2>3. reply'[r] # None => reply'[r].batch = None
      BY <1>8, <2>1 DEF CreateTask, LosesAnswer, Ends, Advance, Reply, TypeOK
    <2> QED  BY <2>1, <2>2, <2>3, NoBatch DEF IsBatch
  <1>9. CASE GetTask(r)
    <2>1. ~IsBatch(r) /\ reply[r] = None
      BY <1>9, <1>p, ScheduledTask DEF GetTask, AtItsPlace, Doing, HasAction
    <2>2. UNCHANGED <<intent, results>>
      BY <1>9 DEF GetTask
    <2>3. reply'[r] # None => reply'[r].batch = None
      BY <1>9, <2>1 DEF GetTask, Ends, Reply, TypeOK
    <2> QED  BY <2>1, <2>2, <2>3, NoBatch DEF IsBatch
  <1>10. CASE Schedule(r)
    <2>1. ~IsBatch(r) /\ reply[r] = None
      BY <1>10, <1>p, ScheduledTask DEF Schedule, AtItsPlace, Doing, HasAction
    <2>2. UNCHANGED <<intent, results>>
      BY <1>10 DEF Schedule
    <2>3. Ends(r, Reply("failed")) \/ Advance(r)
      BY <1>10, ScheduleOutcome DEF ScheduleWrites, ScheduleAnswers, ScheduleLoses
    <2>4. reply'[r] # None => reply'[r].batch = None
      BY <2>1, <2>3 DEF Ends, Advance, Reply, TypeOK
    <2> QED  BY <2>1, <2>2, <2>4, NoBatch DEF IsBatch
  <1> QED
    BY <1>1, <1>2, <1>3, <1>4, <1>5, <1>6, <1>7, <1>8, <1>9, <1>10 DEF Step

\* Only a handler that creates an event adds to its results.
LEMMA StepResults ==
  ASSUME TypeOK, NEW r \in Requests, Step(r), NEW x \in Requests \ {r}
  PROVE  results'[x] = results[x]
  BY DEF Step, Begin, Clarify, Read, MutateContext, CreateEvent, Item, FindExisting, CreateTask,
         GetTask, Schedule, Finish, CallFails, TypeOK

\* Every step keeps the whole invariant.
LEMMA NextBatch == IndInv /\ [Next]_vars => IndInv'
  <1> SUFFICES ASSUME IndInv, [Next]_vars PROVE IndInv'
    OBVIOUS
  <1>0. ProgressInv' /\ ProgressInv /\ TypeOK /\ \A r \in Requests : HandlerInv(r) /\ BatchSoFar(r)
    BY NextInv DEF IndInv, ProgressInv
  <1>1. ASSUME NEW r \in Requests, Step(r), NEW x \in Requests PROVE BatchSoFar(x)'
    <2>1. CASE x = r
      BY <1>0, <1>1, <2>1, StepBatch
    <2>2. CASE x # r
      <3>1. Elsewhere(r) /\ results'[x] = results[x]
        BY <1>0, <1>1, <2>2, StepElsewhere, StepResults
      <3> QED  BY <1>0, <2>2, <3>1, BatchFrame DEF Elsewhere, SameBatch
    <2> QED  BY <2>1, <2>2
  <1>2. CASE ~\E r \in Requests : Step(r)
    <2>1. UNCHANGED <<pc, intent, position, results, reply, wrote, lost>>
      BY <1>2 DEF Next, UserCompletes, UserAdds, UserRenames, Edit, vars
    <2> QED  BY <1>0, <2>1, BatchFrame DEF SameBatch, IndInv
  <1> QED  BY <1>0, <1>1, <1>2 DEF IndInv

\* Types, what each place in the plan implies, what handlers know of each other, and
\* what the results of a batch say.
THEOREM IndInvHolds == Spec => []IndInv
  <1>1. Init => IndInv
    <2>1. Init => \A r \in Requests : BatchSoFar(r)
      BY DEF Init, BatchSoFar, Running
    <2> QED  BY <2>1, InitInv DEF IndInv
  <1> QED  BY <1>1, NextBatch, PTL DEF Spec

\* As many elements as there are in the image of an injection.
LEMMA ImageCount ==
  ASSUME NEW S, IsFiniteSet(S), NEW f, \A x, y \in S : f[x] = f[y] => x = y
  PROVE  Cardinality({f[x] : x \in S}) = Cardinality(S)
  <1> DEFINE T == {f[x] : x \in S}
             g == [x \in S |-> f[x]]
  <1>1. g \in [S -> T] /\ \A x \in S : g[x] = f[x]
    OBVIOUS
  <1>2. g \in Injection(S, T)
    BY <1>1 DEF Injection, IsInjective
  <1>3. ASSUME NEW u \in T PROVE \E x \in S : g[x] = u
    BY <1>1
  <1>4. g \in Bijection(S, T)
    BY <1>1, <1>2, <1>3 DEF Bijection, Surjection
  <1>5. ExistsBijection(S, T)
    BY <1>4 DEF ExistsBijection
  <1> QED  BY <1>5, FS_Bijection

\* The counts of a batch of results that say what is in the calendar.
LEMMA CountsTell ==
  ASSUME NEW items \in Seq({"CREATED", "FAILED"}), items # <<>>,
         NEW event, \A m, n \in 1..Len(items) : event[m] = event[n] => m = n,
         NEW days, \A n \in 1..Len(items) : event[n] \in days,
         \A d \in days : \E n \in 1..Len(items) : d = event[n],
         NEW known, known \subseteq days,
         \A n \in 1..Len(items) : items[n] = "CREATED" <=> event[n] \in known
  PROVE  /\ Batch(items).completed = Cardinality(known)
         /\ Batch(items).failed = Cardinality(days \ known)
         /\ Batch(items).total = Batch(items).completed + Batch(items).failed
         /\ Batch(items).status = "COMPLETE" <=> known = days
         /\ Batch(items).status = "FAILED" <=> known = {}
  <1> DEFINE all == 1..Len(items)
             made == {n \in DOMAIN items : items[n] = "CREATED"}
  <1>1. Len(items) \in Nat /\ Len(items) >= 1 /\ DOMAIN items = all
    <2>1. Len(items) \in Nat /\ DOMAIN items = all /\ Len(items) # 0
      BY LenProperties, EmptySeq
    <2> QED  BY <2>1
  <1>2. IsFiniteSet(all) /\ Cardinality(all) = Len(items)
    BY <1>1, Interval
  <1>3. made \subseteq all /\ \A n \in all : n \in made <=> event[n] \in known
    BY <1>1
  <1> HIDE DEF made
  <1>4. known = {event[n] : n \in made} /\ days \ known = {event[n] : n \in all \ made}
    BY <1>3
  <1>5. /\ IsFiniteSet(made) /\ IsFiniteSet(all \ made)
        /\ Cardinality(made) \in Nat /\ Cardinality(all \ made) \in Nat
        /\ Cardinality(all \ made) = Len(items) - Cardinality(made)
    <2>1. IsFiniteSet(made) /\ IsFiniteSet(all \ made)
      BY <1>2, <1>3, FS_Subset, FS_Difference
    <2>2. Cardinality(all \ made) = Cardinality(all) - Cardinality(all \cap made)
      BY <1>2, FS_Difference
    <2>3. all \cap made = made
      BY <1>3
    <2> QED  BY <1>2, <2>1, <2>2, <2>3, FS_CardinalityType
  <1> HIDE DEF all
  <1>i. \A m, n \in all : event[m] = event[n] => m = n
    BY DEF all
  <1>6. Cardinality(known) = Cardinality(made)
    <2>1. \A m, n \in made : event[m] = event[n] => m = n
      BY <1>3, <1>i
    <2>2. Cardinality({event[n] : n \in made}) = Cardinality(made)
      BY <1>5, <2>1, ImageCount
    <2> QED  BY <1>4, <2>2, Zenon
  <1>7. Cardinality(days \ known) = Cardinality(all \ made)
    <2>1. \A m, n \in all \ made : event[m] = event[n] => m = n
      BY <1>i
    <2>2. Cardinality({event[n] : n \in all \ made}) = Cardinality(all \ made)
      BY <1>5, <2>1, ImageCount
    <2> QED  BY <1>4, <2>2, Zenon
  <1>8. Cardinality(made) = 0 <=> known = {}
    <2>1. Cardinality(made) = 0 <=> made = {}
      BY <1>5, FS_EmptySet
    <2>2. made = {} <=> known = {}
      <3>1. \A n \in made : event[n] \in known
        BY <1>3
      <3>2. \A k \in known : \E n \in made : k = event[n]
        BY <1>4
      <3> QED  BY <3>1, <3>2
    <2> QED  BY <2>1, <2>2
  <1>9. Cardinality(all \ made) = 0 <=> known = days
    <2>1. Cardinality(all \ made) = 0 <=> all \ made = {}
      BY <1>5, FS_EmptySet
    <2>2. all \ made = {} <=> days \ known = {}
      <3>1. \A n \in all \ made : event[n] \in days \ known
        BY <1>4
      <3>2. \A d \in days \ known : \E n \in all \ made : d = event[n]
        BY <1>4
      <3> QED  BY <3>1, <3>2
    <2>3. days \ known = {} <=> known = days
      OBVIOUS
    <2> QED  BY <2>1, <2>2, <2>3
  <1>10. /\ Batch(items).completed = Cardinality(made) /\ Batch(items).total = Len(items)
         /\ Batch(items).failed = Len(items) - Cardinality(made)
         /\ Batch(items).status = IF Len(items) - Cardinality(made) = 0 THEN "COMPLETE"
                                  ELSE IF Cardinality(made) = 0 THEN "FAILED" ELSE "PARTIAL"
    BY DEF Batch, made
  <1> QED  BY <1>1, <1>5, <1>6, <1>7, <1>8, <1>9, <1>10

\* The events of the days from first to last, numbered.
LEMMA DaysOfBatch ==
  ASSUME NEW first \in Int, NEW last \in Int, first <= last
  PROVE  {EventCreated(d) : d \in first..last} =
           {EventCreated(first + n - 1) : n \in 1..(last - first + 1)}
  <1>1. ASSUME NEW d \in first..last
        PROVE  d - first + 1 \in 1..(last - first + 1) /\ first + (d - first + 1) - 1 = d
    OBVIOUS
  <1>2. ASSUME NEW n \in 1..(last - first + 1)
        PROVE  first + n - 1 \in first..last
    OBVIOUS
  <1> QED  BY <1>1, <1>2

\* However many calls fail, the counts of a batch are those of the events in the
\* calendar that its handler knows of, and complete means every day asked for.
THEOREM BatchTellsWhatHappenedHolds == Spec => []BatchTellsWhatHappened
  <1>1. ASSUME IndInv, NEW r \in Requests, reply[r] # None, reply[r].batch # None,
               NEW days,
               days = {EventCreated(d) : d \in intent[r].range.first..intent[r].range.last}
        PROVE  /\ wrote[r] \subseteq days
               /\ reply[r].batch.completed = Cardinality(Known(r))
               /\ reply[r].batch.failed = Cardinality(days \ Known(r))
               /\ reply[r].batch.total = reply[r].batch.completed + reply[r].batch.failed
               /\ reply[r].batch.status = "COMPLETE" <=> Known(r) = days
               /\ reply[r].batch.status = "FAILED" <=> Known(r) = {}
    <2> DEFINE items == results[r]
               first == intent[r].range.first
               event == [n \in 1..Len(items) |-> EventCreated(first + n - 1)]
    <2>1. /\ TypeOK /\ HandlerInv(r) /\ BatchSoFar(r)
      BY <1>1 DEF IndInv, ProgressInv
    <2>2. /\ intent[r] # None /\ IsBatch(r) /\ reply[r].batch = Batch(items)
          /\ Len(items) = position[r] - 1 /\ Len(items) = Len(Plan(intent[r]))
          /\ \A n \in 1..Len(items) :
               items[n] = "CREATED" <=> EventCreated(first + n - 1) \in Known(r)
      BY <1>1, <2>1 DEF BatchSoFar
    <2>3. intent[r] \in ValidIntents /\ items \in Seq({"CREATED", "FAILED"})
      BY <2>1, <2>2 DEF TypeOK
    <2>4. /\ first \in Int /\ intent[r].range.last \in Int /\ first <= intent[r].range.last
          /\ Len(items) = intent[r].range.last - first + 1
      BY <2>2, <2>3, BatchPlan, BatchRange DEF IsBatch, Occurrences
    <2>5. items # <<>>
      BY <2>4
    <2>6. wrote[r] \subseteq {EventCreated(first + n - 1) : n \in 1..Len(items)}
      BY <2>1, <2>2 DEF HandlerInv, WroteSoFar
    <2>7. days = {event[n] : n \in 1..Len(items)}
      <3>1. days = {EventCreated(first + n - 1) : n \in 1..Len(items)}
        BY <1>1, <2>4, DaysOfBatch
      <3> QED  BY <3>1
    <2>8. \A m, n \in 1..Len(items) : event[m] = event[n] => m = n
      <3>1. ASSUME NEW m \in 1..Len(items), NEW n \in 1..Len(items), event[m] = event[n]
            PROVE  m = n
        <4>1. EventCreated(first + m - 1) = EventCreated(first + n - 1)
          BY <3>1
        <4>2. first + m - 1 = first + n - 1
          BY <4>1 DEF EventCreated, Change
        <4>3. first \in Int /\ m \in Int /\ n \in Int
          BY <2>4
        <4> QED  BY <4>2, <4>3
      <3> QED  BY <3>1
    <2>9. wrote[r] \subseteq days /\ Known(r) \subseteq days
      BY <2>6, <2>7 DEF Known
    <2>10. \A n \in 1..Len(items) : items[n] = "CREATED" <=> event[n] \in Known(r)
      BY <2>2
    <2>b. reply[r].batch = Batch(items)
      BY <2>2
    <2>d. /\ \A n \in 1..Len(items) : event[n] \in days
          /\ \A d \in days : \E n \in 1..Len(items) : d = event[n]
      BY <2>7
    <2>s. items \in Seq({"CREATED", "FAILED"}) /\ Known(r) \subseteq days
      BY <2>3, <2>9
    <2> HIDE DEF items, event
    <2>11. /\ Batch(items).completed = Cardinality(Known(r))
           /\ Batch(items).failed = Cardinality(days \ Known(r))
           /\ Batch(items).total = Batch(items).completed + Batch(items).failed
           /\ Batch(items).status = "COMPLETE" <=> Known(r) = days
           /\ Batch(items).status = "FAILED" <=> Known(r) = {}
      BY <2>5, <2>8, <2>10, <2>d, <2>s, CountsTell
    <2> QED  BY <2>9, <2>11, <2>b
  <1>2. IndInv => BatchTellsWhatHappened
    BY <1>1 DEF BatchTellsWhatHappened
  <1> QED  BY <1>2, IndInvHolds, PTL
=============================================================================
