# Beacon API in TLA+

A formal model of the parts of Beacon that are hard to test: a conversation
service that must run an action at most once although clients repeat messages,
handlers overlap and processes die; a scheduler that shares an external
calendar with other handlers and with people; the interval arithmetic that
finds free time; the registry of what a user has taught; an executor that
carries out a plan call by call and undoes nothing; a brief put together from
services that fail independently; and migrations that several servers run at
once and that may be interrupted anywhere. TLC checks the models on small
instances, TLAPS proves the most important properties for every value of the
constants.

## Inventory

| Component (under `src/app`) | State | Operations | What makes it correct | Status |
| --- | --- | --- | --- | --- |
| Conversation turns (`conversation/service.py`, `conversation/repository.py`, `api/conversation.py`) | SQLite tables of sessions, turns and messages; one handler per request | `converse`: `begin_turn`, `history`, provider rounds, `record_tool_call`, execution, `record_tool_result`, `complete` | one turn per session at a time, one execution per message, one answer per message, no claim that nothing backs | `Conversation*`, `MessageLedger` |
| Provider and tools (`conversation/gemini.py`, `tools.py`, `prompts.py`) | none (external model) | a model turn; validation of a call | may answer anything | as classes of turns |
| Availability engine (`services/availability.py`, `fetch_busy_intervals`) | local to a request | fetch, merge, scan each day, rank | every option is free, every gap is offered, the search ends | `Availability` |
| Scheduler (`services/scheduler.py`, `api/scheduling.py`) | the calendars (external), one handler per request | `schedule_task`, `create_calendar_event` | one block per task, no collision, a repeat to the same bounds writes nothing, nobody else's events are touched | `Scheduler` |
| CalDAV client (`services/caldav_client.py`) | none | the calls of the scheduler, the executor and the brief | filters and writes what it was asked to | with its callers |
| Context registry (`context/`) | entities, aliases, facts, relationships | create, add, deprecate, query | what is taught is found, references stay unambiguous, a forget takes one record | `ContextRegistry` |
| Migrations (`context/database.py`) | the tables of the file, `schema_migrations` | `upgrade`, `downgrade` | a version row means that its script ran; every server gets to serve | `Migrations` |
| Intent planner (`intake/planner.py`) | none | intent to plan | a pure function: the day, the window and the events asked for | `Planner` |
| Intent executor (`intake/executor.py`, `services/interaction.py`) | one handler per request; Vikunja is external | execute the actions in order | the answer tells what was written (but for what the registry does behind `UNCHANGED`), a failure leaves at most the task, a task is created only if there is none | `Intake` |
| Intent interpreters (`intake/rules.py`, `intake/gemini.py`) | none | sentence to intent | text processing | not modelled |
| Daily brief (`services/daily_brief.py`) | none | calendar, tasks, travel, weather, conflicts | a failed section does not take the others with it; every overlap is found | `DailyBrief` |
| Dashboard (`services/dashboard.py`) | none | projection of the brief | says nothing the brief does not | `DailyBrief` |
| Vikunja, Home Assistant, Waze clients | none | HTTP | external | as calls of `Intake` and `DailyBrief` that answer or fail |
| Command line, settings, security | none | rendering, wiring, comparison of a key | | not modelled |

How they interact: an HTTP request runs either as a coroutine (`converse`, which
awaits only the model) or in a thread pool (`schedule_task`, `interact`). The
conversation hands one validated intent to the executor, which calls Vikunja,
the scheduler, the registry or the brief; the scheduler asks the availability
engine for the best slot and the CalDAV client for everything else. Every server
migrates the SQLite file when it starts. Persistent
state is the SQLite file (registry and conversation) and the two external
services. Nothing spans SQLite and a service in one transaction, and no call to
CalDAV is conditional on what was read before; most hazards come from there.
`PROJECT.json` lists them one by one, at the line where they bite.

## Modules

### `ConversationModel`, `ConversationRepository`, `Conversation`

`ConversationModel` holds the data and the pure decisions of `service.py`: what a
model turn is (the class of its calls, the class of its text), what an execution
may come to, and the functions from outcomes to statuses and sentences.
`ConversationRepository` holds the three tables; an operator is one transaction.
`Conversation` is `ConversationService.converse`, one handler per request, with
one action per transaction, per provider call and for the execution:

| Code | Action |
| --- | --- |
| request validation | `Receive` |
| `begin_turn` | `BeginRefused`, `BeginReplays`, `BeginTurn` |
| `history` | `ReadHistory` |
| `_begin_with_retry`, direct replies, call counts | `ProviderBegin`, `ProviderBeginFails` |
| `_repair` round | `ProviderRepair` |
| `record_tool_call`, `_execute`, `record_tool_result` | `RecordToolCall`, `Execute`, `RecordToolResult` |
| `_render` round | `ProviderRender` |
| `complete` | `Complete` |
| an exception nobody catches; death of the process | `HandlerAborts`, `ProcessDies` |

The container runs one worker, in which only the provider is awaited; the model
lets other handlers in between any two steps, which covers several workers too. A
repeated message is another request with the same session, key and text; the
client's own timeout needs no action, since it only leads to such a repeat.

`MessageLedger` is the abstract specification: a session works on one message at a
time, a message is performed at most once, and its answer is given once and names an
outcome iff it was performed; a message whose handling was cut off stays open. `Conversation` implements it through `Ledger == INSTANCE ...`,
with the ledger's state computed from turn rows and execution counts.

### `Availability`

`fetch_busy_intervals` followed by `build_availability`, one action per turn of
a loop: `Fetch` drops and clips events, `MergeNext` is an iteration of `_merge`,
`StartDay`, `SkipRegion`, `TakeRegion`, `LeaveRegions` and `EndDay` are the
branches of the day and region loops, `Rank` sorts and truncates. Times are
minutes on the wall clock of `BEACON_TIMEZONE`; the code's datetimes share one
`ZoneInfo`, so Python adds and compares wall clock readings as well. Scores are in
tenths of a point, rounded half to even like `round(_, 1)`. Seconds, titles, calendar
names, and elapsed time across a change of the clock are left out.

### `Scheduler`

Handlers on a thread pool, each a sequence of calls to one CalDAV server:
`Begin` (task and bounds), `FindTaskEvents`, `FindSlot` (busy read and decision),
`CreateEvent`, or `LoadEvent` and `SaveEvent`. The clock moves (`Tick`), and a request
without `earliest_iso` begins where it is: `_resolve_bounds` reads it for the search
for a block (`searched`) and again for the slot (`earliest`). `Exact` says when the
comparison of bounds is one of slots: `_same_bounds` compares fractions of a second,
which a start read off the clock has and a stored event has not, so that without
whole seconds a block at the beginning of the bounds may be written again. Any call may fail before it has an
effect, and the answer to a write may be lost. Users add, delete, move and unmark
events between any two calls. Time is divided into slots that hold a block with
its buffers, and a gap is offered from its beginning, in an order that depends
on the bounds: this is what `Availability` establishes one level below. All requests
of an instance ask for blocks of one length. The identity of an event stands for its UID and href, so the check that the UID has
not changed has nothing to compare here. `save` replaces the resource by what was
loaded: the server is external, and the code sends no condition along.

### `ContextRegistry`

The seven mutations of `ContextRegistryService`, each one transaction and so one
step, with every refusal as a disjunct of its own. A table is a function from
the rows it has (the `UNIQUE` key stands for the id) to the column `active`;
rows are never deleted. An operation's entity is looked up as
`create_or_get_entity` does, a forget's reference as `resolve` does, and `reply`
keeps the last status and call, so that properties can speak of what a client
was told. A transaction that raises changes nothing: that is the promise of
SQLite the model starts from. Names and texts are their normal forms. The
initial database is a parameter: a new one, one where entities of several types
share a name and an alias, as the tests insert them and the refusals are written
for, or one with an inactive entity.

### `Planner`, `Intake`

`Planner` is the pure part: which intents the validator of `StructuredIntent`
lets through (`ValidIntents`), what a time constraint means, and `Plan(i)`, the
list of actions that `ActionPlanner.plan` returns. Days are numbers (0 is the
day of the request), times are hours, and a title stands for its normal form;
`Contained` is the substring relation of the titles of an instance.

`Intake` extends it with `InteractionService` and `ActionExecutor`: one handler
per request on a thread pool, one action per call to a service.

| Code | Action |
| --- | --- |
| interpretation, `plan`, its `ValueError` | `Begin` |
| `REQUEST_CLARIFICATION` | `Clarify` |
| `GENERATE_BRIEF`, `QUERY_CONTEXT` | `Read` |
| `MUTATE_CONTEXT` | `MutateContext` (one transaction of `ContextRegistry`) |
| `CREATE_CALENDAR_EVENT`, and its caught error | `CreateEvent` |
| `_create_or_resolve`: `list_tasks` and the choice | `FindExisting` |
| `create_task` | `CreateTask` |
| `get_task` before scheduling by id | `GetTask` |
| `_schedule_bounds` and `schedule_task` | `Schedule` (one call of `Scheduler`) |
| `_result`, `CalendarBatchResult` | `Finish` |
| a call that raises | `CallFails`, or a disjunct of the action |
| people who use Vikunja | `UserAdds`, `UserCompletes`, `UserRenames` |

A call fails before it has an effect, or has it and its answer is lost; either
ends the request, except in a batch of events, where it is one failed item.
`wrote` and `lost` record what a handler's calls really changed, which the code
does not know; the properties compare them with what it tells. A context mutation
that answers `UNCHANGED` may or may not have written: `MayHide` says so, and it is the
only record that stands for a change without telling of it. A new task bears
the name of the handler that made it.

### `DailyBrief`

`DailyBriefService.build`, one action per call or per turn of a loop:
`ReadCalendar`, `ReadTasks`, `WithoutTravel`, `Estimate` and `EstimatesEnd` (from
home to each place), `Between` and `BetweenEnds` (from one event to the next),
`ReadWeather`, `Answer`; `Project` is the dashboard made of the answer. What the
services hold is the `scenario`, fixed during a brief: nothing here writes. Times
are slots. Events have an `id` besides their `uid`, because occurrences of a
recurring event share the latter, and a conflict names its two events by `id`.
Python sorts by calendar and title where start and end are equal; the model
takes every order that agrees with the first two keys. An event may end when it
begins, or before.

### `Migrations`

`ContextDatabase.upgrade` by several servers on one file, and `downgrade`.
`Statement` is one statement of a script, which SQLite commits by itself;
`Insert` puts the version row in the transaction that the next `executescript`
or the end of the `with` commits (`Commit`). A pending row is a write lock. A
server whose row is already there fails with an integrity error and is started
again by the container (`restart: unless-stopped`); `Crash` kills a server at any
point. `Drop`, `DeleteRow` and `CrashOfDowngrade` are the downgrade, which the
documentation reserves for an isolated database. The scripts are constants:
`ScriptAssumption` says what they have to be like, `MCMigrations` gives the
tables and indexes of the repository's four scripts with their references, and
TLC evaluates the assumption on them.

The definitions whose comment begins with "Fault:" are not part of any
specification; each is a plausible mistake in the definition that follows it,
used to show that a property notices.

## Runs

| Run | Instance | Question |
| --- | --- | --- |
| `turns` | 2 requests, 2 sessions, 2 keys, 2 texts, every model turn, every outcome, one crash or abort | do rows tell what happened, are claims backed, are settled turns final |
| `interleavings` | 3 requests, 2 sessions, 2 keys, 2 texts, few model turns, one crash or abort | session lock, at most once, transcript, prompt, one answer, refinement, inductive invariant |
| `liveness` | 2 requests, no failures, fairness | every request is answered, every session released |
| `fallback` (violation) | 1 message | the fixed sentence denies an action that was done |
| `search` | 3 kinds of requests over one or two days, every calendar of up to three events of a set, starts on a grid of 15 minutes | first fits, no missed gap, no double booking, ranking, termination, inductive invariant |
| `buffers` (violation) | 1 request, 1 event | an event just outside the bounds has no buffer inside |
| `lifecycle` | 3 handlers, 2 tasks, 2 calendars, 3 slots, a reach of 1 slot, a clock in the second slot that may move to the third, bounds read off it, named, and named with a fraction of a second; one failed call or one edit | single block, collisions, repeats, foreign events, inductive invariant |
| `registry` | 2 types, 3 names, 2 spellings of one value, 1 predicate, 1 link; three kinds of databases; 2 entities and 2 records, and one call beyond | taught is found, ambiguity, forgetting, repeats, inductive invariant |
| `aliases` (violation) | the same, new database | an active alias denotes another entity |
| `requests` | 2 requests, 3 tasks, 2 titles of which one contains the other, every kind of intent, two hours of the day, batches of one and two days, one failed call or edit | do answers tell what was written, what does a failure leave, is a task created only if there is none, is the block where it was asked for, inductive invariant |
| `brief` | days of 4 slots, up to 3 events with and without place, uid and length, 3 kinds of task lists, travel off, without home and on, up to 2 failed calls | every overlap, no silent gap, dashboard against brief, inductive invariant |
| `upgrades` | 3 servers, the real scripts, one crash, fairness | does a row mean that its script ran, is every interruption a beginning of the schema, does every server get to serve, inductive invariant |

Why the bounds suffice. The conversation's conflicts arise between two requests
for one session; the third request is there for a repeat that meets a live turn
and a settled one. One failure is enough because each leaves a turn behind that
nobody will complete, and a second adds another session, not another
situation; the model's turns are enumerated by class in `turns`, and cut down to
the classes that reach different branches in `interleavings`. Three events give
the merge every relation of intervals (nested, touching, overlapping, apart) with
one more to follow; two days give the loop a first and a last one. In `lifecycle`
two handlers race and the third finds the damage; a reach of one slot makes both
found and unfound blocks possible; one tick gives two calls other bounds. The calendars
are empty at first: a block that an earlier process left is like one of a handler that
is done, and users may add an appointment or a marked copy. In `registry` two entities compete for a name
or an alias and the third name is the alias; states with a third record are
checked but not followed. In `requests` a repeat, or a race, needs two
handlers, and the foreign task is the one that matches in part; 10 and 20 o'clock
lie before, inside and after the parts of a day. In `brief` two events are a pair and the third
is the one the inner loop must not miss behind a short one; two failures show
that one does not hide another. In `upgrades` the third server is the one that
goes on when one is dead and one has failed on the other's row. The bounds of
the models themselves are `MaxFailures`, `MaxFaults`, `MaxCrashes`, `MaxEntities`
and `MaxRows`; an event or a task is edited at most once.

Deadlock is checked in the registry, which answers every call, and in the
migrations, where servers that wait for a lock could wait for each other. It is
not in the other models: their work is finite and the system stops when all requests are answered.

Three runs show where the code and its documentation part; `PROJECT.json` quotes
the lines. They are not defects of the models: each is a state the code reaches.

## Fairness

`Conversation`: weak fairness of each handler's steps, in `liveness` only. Every
await ends, in an answer, an error or the timeout of the provider; the other
steps are synchronous. No fairness is assumed of clients, of crashes or of the
model's choice among its answers, and no failure is allowed in that run: a
handler that dies leaves its session locked for good, by design
(`docs/roadmap.md`: "uncertain execution remains locked rather than risking a
duplicate write"). `Availability`: weak fairness of the one sequential
computation. `Migrations`: weak fairness of a server's next step of an upgrade
(its process runs; the lock is released when the row is committed or its holder
dies) and of the restart of a failed one, which `docker-compose.yml` asks for;
crashes are finitely many, downgrades and stops are never forced. `Scheduler`,
`Intake` and `DailyBrief` state no liveness: a handler is a straight line of calls,
each with a timeout.

## Proofs

All proofs are for arbitrary constants, from the `ASSUME`s next to them (finite
bounds appear only where the code has them; `None` is outside the sets it is
added to).

* `ConversationProofs`: `TypeCorrect`, `SessionLockHolds`, `AtMostOnceHolds`, from
  `CoreInv`. Neither the lock nor at-most-once is inductive: a lock that agrees with
  the table now may be freed by a handler that does not hold it, and a second turn for
  a message may be about to execute. `CoreInv` adds what each position of a handler
  implies about its row (`HandlerInv`), the two-way agreement of `active_turn_id` and
  status `processing` (`LockInv`), and that a message has one turn per session, which
  counts its executions (`ExecutionInv`). Two more follow from it. `OneWayOutHolds`:
  `begin_turn` has exactly one way out for every request, which would fail if a
  message could have two turns, one to replay and one to refuse. `HandlersAdvanceHolds`:
  every step brings some handler closer to its end and none farther from it,
  measured by `StepsLeft`, so no handler loops whatever the model answers.
* `ConversationLedgerProofs`: `IndInvHolds`, `RowTellsExecutionHolds`,
  `ClaimsAreBackedHolds`, `AnswersAgreeHolds`, `TranscriptInOrderHolds`,
  `PromptIsSettledHolds`, `SettledTurnsAreFinalHolds` and `ImplementsLedgerHolds`:
  with the theorems above, every safety property that passing runs check of the conversation, for any
  number of sessions, handlers and failures and whatever the model answers. `IndInv` is
  `CoreInv` and two more parts. `RecordInv` says how far a row is behind its handler
  (`InStep`), what the row tells (`Recorded`, `Agrees`) and that a client knows what
  the row says (`Informed`). `TranscriptInv` says that turns are numbered as they
  begin and the active one is the last (`Numbered`), that a message tells of what the
  row of its turn has (`Witnessed`) and follows those of earlier turns (`Precedes`),
  and what a handler reads (`Prompted`). In the refinement `BeginTurn` is the ledger's
  `Open`, `Execute` its `Perform`, `Complete` its `Answer`, and every other step, crashes
  included, leaves it alone; a message has one turn (`ExecutionInv`), so the ledger's
  functions can be read off that turn (`LedgerSees`).
* `AvailabilityProofs`: `CandidatesAreFirstFitsHolds`, `EveryGapIsOfferedHolds`,
  `NothingDoubleBookedHolds`, `EarlierPreferredHolds`, `EveryStepAdvancesHolds`,
  `IndInvHolds`, for every request, set of minutes and finite calendar. `SearchInv`
  follows the search: merged regions are apart and in order (`OrderInv`) and cover
  the buffered events, no more and no less (`CoverInv`); the cursor is the end of what
  was scanned (`CursorInv`); what lies before it has been offered (`OfferInv`).
  `IndInv` adds that a candidate's score is that of the place it has on its day
  (`ScoreInv`, `PlaceInv`) and that the answer is the `Shortlist`. That an earlier
  start is not dropped for a later one of its class then comes down to rounding:
  half-even division is monotone (`RoundedMonotone`), so is the score, and fewer
  candidates are ahead of the better one than the answer has room for. Every
  step of the search makes the quadruple `Left` (phase, intervals, days, regions)
  smaller in lexicographic order.
* `SchedulerProofs`: `AtMostOneBlockHolds`, `NothingCollidesHolds`,
  `WritesOnlyItsTaskHolds`, `RepeatsAreUnchangedHolds`, `IndInvHolds`, for any number
  of handlers, edits and failures. The idea is `ReadInv`: what a handler has read
  stays true, except for events that a user edited or that a handler wrote which was
  not done when this one began. Such writes come from handlers that are running, and
  those are never in `before`. `BoundsInv` says where the bounds of the two searches
  come from while the clock moves. With the positions this is `PositionInv`. For repeats
  `IndInv` also keeps what a handler found (`FoundInv`), why it chose the slot it chose
  (`ChosenInv`), and that what a handler that is done wrote is still there
  unless somebody else touched it (`WrittenInv`): a repeat to the same bounds reads the
  same calendar, chooses the same best slot (`Best`) and has nothing to write. The
  theorem is about requests that name their earliest start in whole seconds (`Exact`):
  the others start from another bound at each call, and it is false of them.
* `ContextRegistryProofs`: `InductiveHolds`, `AmbiguityNeverGrowsHolds`,
  `TaughtIsFoundHolds`, `ForgetsAtMostOneHolds`, `RepeatsChangeNothingHolds`, for any
  types, names and initial database whose active aliases hang on active
  entities. `Effect` says what a step may do to the sets of active rows, one
  lemma per operation shows it, and the theorems follow from it. Reachability
  (`RecordsAreReachable`) is needed for the second: an entity that came back
  with an active alias of its own could clash with the one that took it over.
  `LastCallStands` is needed for repeats: what the last answer confirmed is
  still so in the tables, and the same call finds it done.
* `IntakeProofs`: `ReplyTellsWritesHolds`, `FailureLeavesAtMostTaskHolds`,
  `CreatesOnlyIfNoneHolds`, `ScheduledAsAskedHolds`, `BatchTellsWhatHappenedHolds`,
  `IndInvHolds`, for any number of requests, failures and edits and any intents. In
  `ProgressInv` a position in the plan says what has been written (`WroteSoFar`) and
  told (`ToldSoFar`: before every action all of it, at the end all but what an
  `UNCHANGED` of the registry may hide); for the task, `Overlaps` says that what a search found stays true
  but for users and for handlers that overlap this one, since nobody acts any more who
  was done before. `IndInv` adds `BatchSoFar`, which matches the results of a batch
  with the events that the handler knows it created, day by day.
* `DailyBriefProofs`: `OverlapsReportedHolds`, `NothingMissingSilentlyHolds`,
  `DashboardAgreesHolds`, `IndInvHolds`, for any events, tasks and number of failures.
  That the inner loop may stop at the first late event needs the order of the list
  (`AsRead`); the warnings are counted against the failed calls (`WarnedOf`, with
  `FailedOnce` so that a call is not counted twice); that ranking keeps every
  task needs that the ranking order is total (`TaskOrder`). For the dashboard two
  parts say that nothing is put in the place of what is missing
  (`NothingInstead`) and that the summary is of these events and tasks
  (`SummaryTells`); the lemmas on ranks and on `Without` show that its priority
  tasks begin with the first of all open tasks and list none twice.
* `MigrationsProofs`: `IndInvHolds`, `SchemaIsWholeHolds`, `ServersAdvanceHolds`, for any
  scripts that satisfy `ScriptAssumption`, any number of servers and crashes. `Upgrading` says
  that a server is past the tables its line presupposes, and that only one row is
  ever pending; `Undoing` that a downgrade is alone and how far it has come.
  The third says that servers cannot make each other fail for ever: the crashes that are
  left, the versions a server does not know of, its stage, version and line are, in
  lexicographic order, smaller after each of its steps, even the one that fails on
  another's row (it then knows of that row), and no larger after the steps of others.

Every safety invariant and action property of a passing run is stated by a
theorem. Only model-checked: `EveryRequestAnswered`, `SessionsAreReleased`,
`Terminates` and `EventuallyReady`, since the prover does not reason about
fairness and `ENABLED`. The other half of the argument is proved:
`HandlersAdvance`, `EveryStepAdvances` and `ServersAdvance` give the measure that
the steps decrease, and `OneWayOut` that the first step of a handler is always
possible. No run lists these four; they are stated in `Conversation`,
`Availability` and `Migrations` for the proofs.

## Not modelled

Wording, usage counters, provider interaction ids and logging; the switch that
disables the conversation; parsing of iCalendar, of dates and of sentences; the
HTTP that the clients of Vikunja, Home Assistant, Waze and the model exchange;
the command line and the rendering of pages; the comparison of the API key. The
interpreters, the CLI and the settings keep no state, and what could go wrong in
them is text.

Some things the models leave alone and a reader should know of:

* An edit of an event between `load` and `save` of `update_event` is overwritten
  (`caldav_client.py:354`); the model has the edit, no property forbids the loss.
* A block of a task in another busy calendar counts as busy for the first request
  and is ignored afterwards (`scheduler.py:146`).
* A repeated request without `earliest_iso`, the default, begins at another time
  (`services/scheduler.py:84`): in a free gap it moves the block and answers
  `UPDATED`. `docs/scheduling.md:129` promises no more than "usually idempotent", and
  `RepeatsAreUnchanged` speaks of named whole-second bounds only.
* The registry answers `UNCHANGED` although it wrote when a correction names a value
  that is active already, while others are deprecated
  (`context/repository.py:176`, `context/service.py:92`), and when an entity comes back
  (`context/repository.py:53`, `context/service.py:37`). `ContextRegistry` has these
  writes; the executor's records cannot tell of them, and `ReplyTellsWrites` excepts
  them.
* The registry reads an answer to a query on several connections
  (`context/service.py:129`); a reference to several entities is refused everywhere
  but in the forgetting of a fact (`context/service.py:171`).
* A first message without `session_id` opens a session, so its repeat is a message of
  another session and may be executed again; `AtMostOnce` is about messages within a
  session (`conversation/repository.py:65`).
* `list_tasks` is one read here; the code reads pages of 100
  (`services/vikunja_client.py:56`), and a task that moves between pages may be missed
  or seen twice. `CreatesOnlyIfNone` and the brief's tasks are for what one read sees.
* A calendar that is configured but does not exist is skipped without a warning
  (`services/caldav_client.py:185`); `NothingMissingSilently` is about calls that raise.
* With one fault, TLC sees the batch status `FAILED` for a batch of one day only;
  `BatchTellsWhatHappenedHolds` covers longer ones.
* A title of punctuation only is contained in every title
  (`intake/executor.py:334`), and a repeated batch creates its events again
  (`intake/executor.py:107`): Vikunja is asked for a match, the calendar is not.
* Occurrences of a recurring event share a UID, so the time to leave may be that
  of another one (`services/dashboard.py:155`); `DashboardAgrees` excludes them.
* Sentences that claim success are let through for a mutation that was declined
  (`conversation/service.py:420`).

## Plan

1. Done: `Conversation` (with `MessageLedger`), `Availability`, `Scheduler`,
   `ContextRegistry`, and their first proofs.
2. Done: `Planner` and `Intake`, `DailyBrief`, `Migrations`, with the proofs of
   their inductive invariants and most properties.
3. Done: the safety properties of `Conversation` and the refinement of
   `MessageLedger`, proved.
4. Done: the remaining safety and action properties of all models, and the
   measures of `Conversation`, `Availability` and `Migrations`.
5. Left: specifications more abstract than `Scheduler` and `Intake`, for them to
   implement, and the proofs that they do.
