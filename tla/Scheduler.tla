------------------------------- MODULE Scheduler -------------------------------
(***************************************************************************)
(* SchedulerService.schedule_task and create_calendar_event: handlers on a   *)
(* thread pool, each a sequence of calls to one external CalDAV server that   *)
(* the users of the calendars edit meanwhile.                               *)
(*                                                                         *)
(* Time is divided into slots, each long enough for one block and its        *)
(* buffers; the Availability module looks inside them.  All requests ask for *)
(* blocks of one length.  A block is found again by the marker in its         *)
(* description: "Vikunja task ID: <id>".                                   *)
(*                                                                         *)
(* The clock moves, up to LastSlot.  A request that names no earliest start    *)
(* begins where the clock is: the slot in which a block from then on would lie. *)
(*                                                                         *)
(* Failures: a call fails before it has an effect, or its answer is lost.    *)
(***************************************************************************)
EXTENDS Integers, FiniteSets

CONSTANTS Requests,     \* the handlers of an instance
          ForeignIds,   \* events that others made
          Tasks,        \* Vikunja tasks
          Calendars,    \* display names
          LastSlot,     \* slots are 1..LastSlot
          Reach,        \* slots in the 365 days around the bounds of a request
          Rows,         \* the requests an instance considers
          InitialEvents,\* the contents of the calendars it starts from
          AddedEvents,  \* what users may add to them
          InitialNow,   \* the slots the clock may be in then
          MaxFaults,    \* bound of the model: changes by users, failed calls
          None

Slots == 1..LastSlot
EventIds == Requests \cup ForeignIds

\* An event of somebody else has no marker, unless its owner copied one.
Events == [calendar : Calendars, slot : Slots, marker : Tasks \cup {None}]

\* CalendarEventMatch: the event and its bounds.
Matched == [id : EventIds, slot : Slots]

\* earliest_iso: the earliest start if it is named, and whole: in whole seconds.
\* deadline: the one named, or the due date that the task had.
\* rank: the order of _score_option over the slots, for each earliest start.
\* A request without task is a CalendarEventCreateRequest for slot earliest_iso.
RequestRows ==
  {q \in [task : Tasks \cup {None}, calendar : Calendars, busy : SUBSET Calendars,
          earliest_iso : Slots \cup {None}, whole : BOOLEAN, deadline : Slots,
          rank : [Slots -> [Slots -> Nat]], create : BOOLEAN] :
     /\ \A from, s, t \in Slots : q.rank[from][s] = q.rank[from][t] => s = t
     /\ q.task = None => q.create /\ q.earliest_iso # None}

ASSUME SchedulerAssumption ==
  /\ Requests \cap ForeignIds = {}
  /\ LastSlot \in Nat \ {0} /\ Reach \in Nat
  /\ Rows \subseteq RequestRows
  /\ InitialNow \subseteq Slots /\ AddedEvents \subseteq Events
  /\ InitialEvents \subseteq [ForeignIds -> Events \cup {None}]
  /\ None \notin Requests \cup Tasks \cup Slots \cup Events \cup RequestRows \cup Matched
  /\ MaxFaults \in Nat

VARIABLES now,        \* the slot the clock is in
          events,     \* the calendars: event id -> event, or None (external)
          pc,         \* where each handler is
          row,        \* its request
          searched,   \* the earliest start of its search for a block, 0 before
          earliest,   \* the earliest start of its search for a slot, 0 before
          existing,   \* the block it found
          selected,   \* the slot it chose, 0 before
          body,       \* the event as it last loaded it
          report,     \* its answer
          writer,     \* history: the handler that last wrote an event
          edited,     \* history: events that users changed
          before,     \* history: handlers that were done when this one began
          version,    \* history: number of changes to the calendars
          seen,       \* history: version when the handler began
          failures    \* history: failed calls

handlers == <<pc, row, searched, earliest, existing, selected, body, report>>
history == <<writer, edited, before, version, seen, failures>>
vars == <<now, events, handlers, history>>

Labels == {"idle", "find", "busy", "create", "load", "save", "done"}

Reports == {"NEW", "UNCHANGED", "UPDATED", "RECOMMENDATION_ONLY", "CREATED",
            "refused", "multiple_task_events", "no_availability", "not_found",
            "failed"}

Init ==
  /\ now \in InitialNow
  /\ \E initial \in InitialEvents :
       events = [e \in EventIds |-> IF e \in ForeignIds THEN initial[e] ELSE None]
  /\ pc = [r \in Requests |-> "idle"]
  /\ row = [r \in Requests |-> None]
  /\ searched = [r \in Requests |-> 0]
  /\ earliest = [r \in Requests |-> 0]
  /\ existing = [r \in Requests |-> None]
  /\ selected = [r \in Requests |-> 0]
  /\ body = [r \in Requests |-> None]
  /\ report = [r \in Requests |-> None]
  /\ writer = [e \in EventIds |-> None]
  /\ edited = {}
  /\ before = [r \in Requests |-> {}]
  /\ version = 0
  /\ seen = [r \in Requests |-> 0]
  /\ failures = 0

FaultAllowed == Cardinality(edited) + failures < MaxFaults

Goto(r, label) == pc' = [pc EXCEPT ![r] = label] /\ UNCHANGED report
Answer(r, status) == pc' = [pc EXCEPT ![r] = "done"]
                     /\ report' = [report EXCEPT ![r] = status]

-----------------------------------------------------------------------------
(* The clock, and the request.                                             *)

Tick ==
  /\ now < LastSlot
  /\ now' = now + 1
  /\ UNCHANGED <<events, handlers, history>>

\* _resolve_bounds.
Resolve(q) == IF q.earliest_iso = None THEN now ELSE q.earliest_iso

\* VikunjaClient.get_task, and the bounds.  Refused: no such task, a task that is
\* done, one without a due date.
Begin(r, q) ==
  /\ pc[r] = "idle"
  /\ row' = [row EXCEPT ![r] = q]
  /\ before' = [before EXCEPT ![r] = {x \in Requests : pc[x] = "done"}]
  /\ seen' = [seen EXCEPT ![r] = version]
  /\ IF q.task = None
     THEN /\ Goto(r, "create")
          /\ selected' = [selected EXCEPT ![r] = q.earliest_iso]
          /\ UNCHANGED searched
     ELSE /\ Goto(r, "find") \/ Answer(r, "refused")
          /\ searched' = [searched EXCEPT ![r] = Resolve(q)]
          /\ UNCHANGED selected
  /\ UNCHANGED <<now, events, earliest, existing, body, writer, edited, version, failures>>

-----------------------------------------------------------------------------
(* find_task_events: blocks are looked for in the destination only.          *)

Within(r, e, distance) ==
  /\ searched[r] - distance <= events[e].slot
  /\ events[e].slot <= row[r].deadline + distance

\* Fault: the search is not extended beyond the bounds.
MatchesInBounds(r) ==
  {e \in EventIds : /\ events[e] # None
                    /\ events[e].calendar = row[r].calendar
                    /\ events[e].marker = row[r].task
                    /\ Within(r, e, 0)}

Matches(r) ==
  {e \in EventIds : /\ events[e] # None
                    /\ events[e].calendar = row[r].calendar
                    /\ events[e].marker = row[r].task
                    /\ Within(r, e, Reach)}

\* find_slot, which comes next, resolves the bounds again.
GoOn(r) ==
  /\ earliest' = [earliest EXCEPT ![r] = Resolve(row[r])]
  /\ Goto(r, "busy")

FindTaskEvents(r) ==
  LET matches == Matches(r) IN
  /\ pc[r] = "find"
  /\ \/ /\ Cardinality(matches) > 1
        /\ Answer(r, "multiple_task_events")
        /\ UNCHANGED <<earliest, existing>>
     \/ /\ matches = {}
        /\ GoOn(r)
        /\ UNCHANGED existing
     \/ \E e \in matches :
          /\ matches = {e}
          /\ existing' = [existing EXCEPT ![r] = [id |-> e, slot |-> events[e].slot]]
          /\ GoOn(r)
  /\ UNCHANGED <<now, events, row, searched, selected, body, history>>

-----------------------------------------------------------------------------
(* find_slot, and what follows from it.                                     *)

\* Fault: a block does not count as busy, whatever its task.
TakenByOthers(q, excluded) ==
  {events[e].slot : e \in {e \in EventIds : /\ events[e] # None
                                            /\ events[e].calendar \in q.busy
                                            /\ events[e].marker = None}}

\* Fault: the block itself counts as busy.
TakenByAll(q, excluded) ==
  {events[e].slot : e \in {e \in EventIds : /\ events[e] # None
                                            /\ events[e].calendar \in q.busy}}

\* A known block does not stand in its own way, in any calendar.
Taken(q, excluded) ==
  {events[e].slot : e \in {e \in EventIds : /\ events[e] # None
                                            /\ events[e].calendar \in q.busy
                                            /\ ~(excluded /\ events[e].marker = q.task)}}

\* Free gaps are offered from their beginning.
Options(q, from, taken) ==
  {s \in from..q.deadline : s \notin taken /\ (s = from \/ s - 1 \in taken)}

\* _same_bounds compares fractions of a second, which the calendars do not keep: where
\* a block begins with the bounds, it is told apart from one in the same slot unless
\* the earliest start is named, and in whole seconds.
Exact(q) == q.earliest_iso # None /\ q.whole

FindSlot(r) ==
  LET q == row[r]
      from == earliest[r]
      options == Options(q, from, Taken(q, existing[r] # None))
  IN
  /\ pc[r] = "busy"
  /\ \/ from > q.deadline /\ Answer(r, "refused") /\ UNCHANGED selected
     \/ options = {} /\ Answer(r, "no_availability") /\ UNCHANGED selected
     \/ \E s \in options :
          /\ \A o \in options : q.rank[from][s] <= q.rank[from][o]
          /\ selected' = [selected EXCEPT ![r] = s]
          /\ IF ~q.create THEN Answer(r, "RECOMMENDATION_ONLY")
             ELSE IF existing[r] = None THEN Goto(r, "create")
             ELSE \/ existing[r].slot = s /\ Answer(r, "UNCHANGED")
                  \/ /\ existing[r].slot # s \/ (s = from /\ ~Exact(q))
                     /\ Goto(r, "load")
  /\ UNCHANGED <<now, events, row, searched, earliest, existing, body, history>>

-----------------------------------------------------------------------------
(* Writing.  Each write may succeed although its answer is lost.            *)

\* The calendars change: e becomes event, by the hand of r.
Writes(r, e, event) ==
  /\ events' = [events EXCEPT ![e] = event]
  /\ writer' = [writer EXCEPT ![e] = r]
  /\ version' = version + 1

Answered(r, status) ==
  \/ Answer(r, status) /\ UNCHANGED failures
  \/ FaultAllowed /\ failures' = failures + 1 /\ Answer(r, "failed")

\* CalDAVService.create_event: nothing is looked up again.
CreateEvent(r) ==
  LET q == row[r] IN
  /\ pc[r] = "create"
  /\ Writes(r, r, [calendar |-> q.calendar, slot |-> selected[r], marker |-> q.task])
  /\ Answered(r, IF q.task = None THEN "CREATED" ELSE "NEW")
  /\ UNCHANGED <<now, row, searched, earliest, existing, selected, body, edited, before, seen>>

\* Fault: the marker is not looked at again.
LoadEventUnverified(r) ==
  LET e == existing[r].id IN
  /\ pc[r] = "load"
  /\ IF events[e] = None
     THEN Answer(r, "not_found") /\ UNCHANGED body
     ELSE Goto(r, "save") /\ body' = [body EXCEPT ![r] = events[e]]
  /\ UNCHANGED <<now, events, row, searched, earliest, existing, selected, history>>

\* update_event: load and verify.  The bounds are not compared with those found.
LoadEvent(r) ==
  LET e == existing[r].id IN
  /\ pc[r] = "load"
  /\ IF events[e] = None \/ events[e].marker # row[r].task
     THEN Answer(r, "not_found") /\ UNCHANGED body
     ELSE Goto(r, "save") /\ body' = [body EXCEPT ![r] = events[e]]
  /\ UNCHANGED <<now, events, row, searched, earliest, existing, selected, history>>

\* save(no_create=True) puts the whole loaded body, with the new bounds.
SaveEvent(r) ==
  LET e == existing[r].id IN
  /\ pc[r] = "save"
  /\ IF events[e] = None
     THEN Answer(r, "not_found") /\ UNCHANGED <<events, writer, version, failures>>
     ELSE /\ Writes(r, e, [body[r] EXCEPT !.slot = selected[r]])
          /\ Answered(r, "UPDATED")
  /\ UNCHANGED <<now, row, searched, earliest, existing, selected, body, edited, before, seen>>

\* A call fails before it has an effect, or the event has a shape Beacon refuses.
CallFails(r) ==
  /\ pc[r] \notin {"idle", "done"}
  /\ FaultAllowed
  /\ failures' = failures + 1
  /\ Answer(r, "failed")
  /\ UNCHANGED <<now, events, row, searched, earliest, existing, selected, body, writer,
                 edited, before, version, seen>>

-----------------------------------------------------------------------------
(* The users of the calendars; they change an event at most once.  Moving one  *)
(* to another calendar is deleting one resource and making another.          *)

Edit(e, event) ==
  /\ e \notin edited /\ FaultAllowed
  /\ events' = [events EXCEPT ![e] = event]
  /\ edited' = edited \cup {e}
  /\ version' = version + 1
  /\ UNCHANGED <<now, handlers, writer, before, seen, failures>>

UserAdds(e, event) == e \in ForeignIds /\ events[e] = None /\ Edit(e, event)
UserDeletes(e) == events[e] # None /\ Edit(e, None)
UserReschedules(e, s) ==
  /\ events[e] # None /\ events[e].slot # s
  /\ Edit(e, [events[e] EXCEPT !.slot = s])
UserRemovesMarker(e) ==
  /\ events[e] # None /\ events[e].marker # None
  /\ Edit(e, [events[e] EXCEPT !.marker = None])

-----------------------------------------------------------------------------

Step(r) ==
  \/ \E q \in Rows : Begin(r, q)
  \/ FindTaskEvents(r) \/ FindSlot(r)
  \/ CreateEvent(r) \/ LoadEvent(r) \/ SaveEvent(r)
  \/ CallFails(r)

Next ==
  \/ Tick
  \/ \E r \in Requests : Step(r)
  \/ \E e \in EventIds :
       \/ \E event \in AddedEvents : UserAdds(e, event)
       \/ UserDeletes(e)
       \/ \E s \in Slots : UserReschedules(e, s)
       \/ UserRemovesMarker(e)

Spec == Init /\ [][Next]_vars

-----------------------------------------------------------------------------
(* Safety.  Handlers that overlap, and edits by users, may defeat the search  *)
(* (docs/scheduling.md, "Idempotency and race limitations"); nothing else may. *)

TypeOK ==
  /\ now \in Slots
  /\ events \in [EventIds -> Events \cup {None}]
  /\ pc \in [Requests -> Labels]
  /\ row \in [Requests -> Rows \cup {None}]
  /\ searched \in [Requests -> 0..LastSlot]
  /\ earliest \in [Requests -> 0..LastSlot]
  /\ existing \in [Requests -> Matched \cup {None}]
  /\ selected \in [Requests -> 0..LastSlot]
  /\ body \in [Requests -> Events \cup {None}]
  /\ report \in [Requests -> Reports \cup {None}]
  /\ writer \in [EventIds -> Requests \cup {None}]
  /\ edited \subseteq EventIds
  /\ before \in [Requests -> SUBSET Requests]
  /\ version \in Nat
  /\ seen \in [Requests -> Nat]
  /\ failures \in Nat

\* Event e is as a handler left it that was not done when r began.
Concurrent(r, e) == writer[e] # None /\ writer[e] \notin before[r]

\* A block of r's task that its search should see.
InSight(r, e) ==
  /\ events[e] # None
  /\ events[e].calendar = row[r].calendar
  /\ events[e].marker = row[r].task
  /\ Within(r, e, Reach)

\* Something at the slot r chose, in a calendar it looked at.
InTheWay(r, e) ==
  /\ events[e] # None
  /\ events[e].calendar \in row[r].busy
  /\ events[e].slot = selected[r]

\* The step writes event e by the hand of r, for a task.
PutsBlock(r, e) ==
  /\ pc[r] \in {"create", "save"} /\ pc'[r] = "done"
  /\ events'[e] # events[e]
  /\ row[r].task # None

\* README: "at most one work block per task in the destination calendar".  When
\* a handler creates a block, every other block of the task within its reach
\* was written by a handler that overlapped it, or changed by a user.
AtMostOneBlock ==
  [][\A r \in Requests : PutsBlock(r, r) =>
       \A e \in EventIds \ edited : InSight(r, e) => Concurrent(r, e)]_vars

\* A block is never put where a busy calendar already has something, be it
\* another block, unless that came from an overlapping handler or a user, or is
\* a block of the same task that the handler had found.
NothingCollides ==
  [][\A r \in Requests, e \in EventIds : PutsBlock(r, e) =>
       \A other \in EventIds \ (edited \cup {e}) : InTheWay(r, other) =>
         \/ Concurrent(r, other)
         \/ existing[r] # None /\ events[other].marker = row[r].task]_vars

\* r repeats the request of q, to the very bounds (a deadline left to the task is the
\* same as long as its due date is), and nothing but the write of q happened between
\* the beginning of q and now.
Repeats(r, q) ==
  /\ row[r] = row[q]
  /\ seen[r] = seen[q] + 1 /\ version = seen[r]
  /\ \E e \in EventIds : writer[e] = q
  /\ \A e \in EventIds :
       events[e] # None /\ events[e].marker = row[q].task => writer[e] = q

\* docs/scheduling.md: sequential requests are "usually" idempotent.  Repeating a
\* request that names its earliest start in whole seconds, if nothing interfered with
\* it, writes nothing, however long after and even if the answer to the first was
\* lost: the block just written is found, does not stand in its own way and is chosen
\* again.  A request without earliest_iso starts from the clock again, and may move
\* the block each time.
RepeatsAreUnchanged ==
  [][\A r, q \in Requests :
       pc[r] = "busy" /\ pc'[r] # "busy" /\ Exact(row[r]) /\ Repeats(r, q)
         => report'[r] \in {"UNCHANGED", "failed"}]_vars

\* What a handler changes carries the marker of its task afterwards, and an
\* event that lost the marker before the reload is never written.
WritesOnlyItsTask ==
  [][\A r \in Requests, e \in EventIds : PutsBlock(r, e) =>
       /\ events'[e].marker = row[r].task
       /\ events'[e].calendar = row[r].calendar
       /\ events'[e].slot = selected[r]]_vars

-----------------------------------------------------------------------------
(* The inductive invariant.                                                *)

\* What the position of a handler implies.
HandlerInv(r) ==
  /\ pc[r] # "idle" => row[r] # None
  /\ pc[r] \in {"find", "busy", "load", "save"} => row[r].task # None
  /\ pc[r] \in {"create", "load", "save"} => selected[r] \in Slots
  /\ pc[r] \in {"load", "save"} => existing[r] # None
  /\ pc[r] = "create" => existing[r] = None
  /\ events[r] # None \/ r \in edited => pc[r] = "done"
  /\ \A x \in before[r] : pc[x] = "done"

\* An earliest start that the request names is the one both searches use; without it
\* each has read the clock for itself, in this order.
BoundsInv(r) ==
  /\ pc[r] # "idle" /\ row[r].task # None =>
       IF row[r].earliest_iso = None THEN searched[r] <= now
       ELSE searched[r] = row[r].earliest_iso
  /\ pc[r] = "busy" => earliest[r] # 0
  /\ earliest[r] # 0 =>
       /\ pc[r] \notin {"idle", "find"} /\ row[r].task # None
       /\ IF row[r].earliest_iso = None
          THEN searched[r] <= earliest[r] /\ earliest[r] <= now
          ELSE earliest[r] = row[r].earliest_iso

\* The block a handler found stays in its calendar or is gone for good.
ExistingInv(r) ==
  existing[r] # None =>
    LET e == existing[r].id IN
    /\ pc[r] \notin {"idle", "find"}
    /\ IF events[e] = None THEN e \in edited
       ELSE events[e].calendar = row[r].calendar

\* A handler is about to save a block of its own task.
BodyInv(r) ==
  pc[r] = "save" =>
    /\ body[r] # None
    /\ body[r].marker = row[r].task
    /\ body[r].calendar = row[r].calendar

\* What a handler has read stays true but for concurrent handlers and users.
ReadInv(r) ==
  pc[r] \in {"busy", "create", "load", "save"} /\ row[r].task # None =>
    /\ pc[r] \in {"busy", "create"} /\ existing[r] = None =>
         \A e \in EventIds \ edited : InSight(r, e) => Concurrent(r, e)
    /\ pc[r] \in {"create", "load", "save"} =>
         \A e \in EventIds \ edited : InTheWay(r, e) =>
           \/ Concurrent(r, e)
           \/ existing[r] # None /\ events[e].marker = row[r].task

\* Every step of handlers and users preserves this much by itself.
PositionInv ==
  /\ TypeOK
  /\ \A r \in Requests :
       HandlerInv(r) /\ BoundsInv(r) /\ ExistingInv(r) /\ BodyInv(r) /\ ReadInv(r)

\* As long as nothing has changed since a handler began, its search would find
\* again what it found.
FoundInv(r) ==
  /\ pc[r] \in {"busy", "create", "load", "save"}
  /\ row[r].task # None
  /\ version = seen[r]
  => IF existing[r] = None
     THEN Matches(r) = {}
     ELSE /\ Matches(r) = {existing[r].id}
          /\ events[existing[r].id].slot = existing[r].slot

\* Slot s is the one that find_slot chooses among those not taken.
Best(q, from, s, taken) ==
  /\ s \in Options(q, from, taken)
  /\ \A o \in Options(q, from, taken) : q.rank[from][s] <= q.rank[from][o]

\* As long as nothing has changed, it would choose again what it chose.
ChosenInv(r) ==
  pc[r] \in {"create", "load", "save"} /\ row[r].task # None =>
    /\ row[r].create
    /\ earliest[r] # 0 /\ selected[r] \in earliest[r]..row[r].deadline
    /\ version = seen[r] =>
         Best(row[r], earliest[r], selected[r], Taken(row[r], existing[r] # None))

\* A handler writes once, at its end.  If its write is the only change since it
\* began, its block is where it chose; and if that is the only block of the
\* task, a search that leaves it out would choose the same slot.
WrittenInv(r) ==
  \A e \in EventIds : writer[e] = r =>
    /\ pc[r] = "done" /\ version > seen[r]
    /\ \A f \in EventIds : writer[f] = r => f = e
    /\ row[r].task # None /\ version = seen[r] + 1 =>
         /\ events[e] = [calendar |-> row[r].calendar, slot |-> selected[r],
                         marker |-> row[r].task]
         /\ row[r].create
         /\ earliest[r] # 0 /\ selected[r] \in earliest[r]..row[r].deadline
         /\ (\A f \in EventIds : events[f] # None /\ events[f].marker = row[r].task
                                  => f = e)
            => Best(row[r], earliest[r], selected[r], Taken(row[r], TRUE))

\* Inductive: every step of handlers and users preserves it.
IndInv ==
  /\ PositionInv
  /\ \A r \in Requests :
       seen[r] <= version /\ FoundInv(r) /\ ChosenInv(r) /\ WrittenInv(r)

=============================================================================
