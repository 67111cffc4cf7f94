--------------------------- MODULE SchedulerProofs ---------------------------
(***************************************************************************)
(* Proofs about Scheduler, for every set of handlers, tasks, calendars and    *)
(* slots, every order of preference, and any number of edits and failures.   *)
(***************************************************************************)
EXTENDS Scheduler, TLAPS

-----------------------------------------------------------------------------
(* Types of requests and events.                                           *)

\* What a request may hold (ScheduleTaskRequest, CalendarEventCreateRequest).
LEMMA RowType ==
  ASSUME NEW q \in RequestRows
  PROVE  /\ q # None
         /\ q.task \in Tasks \cup {None} /\ q.calendar \in Calendars
         /\ q.earliest_iso \in Slots \cup {None} /\ q.deadline \in Slots
         /\ q.task = None => q.earliest_iso \in Slots
         /\ q.busy \subseteq Calendars
         /\ q.create \in BOOLEAN
<1>1. /\ q \in [task : Tasks \cup {None}, calendar : Calendars, busy : SUBSET Calendars,
                earliest_iso : Slots \cup {None}, whole : BOOLEAN, deadline : Slots,
                rank : [Slots -> [Slots -> Nat]], create : BOOLEAN]
      /\ q.task = None => q.earliest_iso # None
  BY DEF RequestRows
<1>2. q # None
  BY SchedulerAssumption
<1>3. q.task = None => q.earliest_iso \in Slots
  BY <1>1
<1>4. QED BY <1>1, <1>2, <1>3

\* An event, or None, and never both.
LEMMA EventType ==
  ASSUME NEW event \in Events
  PROVE  /\ event # None
         /\ event.calendar \in Calendars /\ event.slot \in Slots
         /\ event.marker \in Tasks \cup {None}
         /\ \A s \in Slots : [event EXCEPT !.slot = s] \in Events
         /\ [event EXCEPT !.marker = None] \in Events
<1>1. event # None
  BY SchedulerAssumption
<1>2. QED BY <1>1 DEF Events

\* A handler begins idle and the calendars hold events of others.
LEMMA InitPositionInv == Init => PositionInv
<1>. SUFFICES ASSUME Init PROVE PositionInv
  OBVIOUS
<1>1. PICK initial \in InitialEvents :
        events = [e \in EventIds |-> IF e \in ForeignIds THEN initial[e] ELSE None]
  BY DEF Init
<1>2. initial \in [ForeignIds -> Events \cup {None}]
  BY <1>1, SchedulerAssumption
<1>3. events \in [EventIds -> Events \cup {None}]
  BY <1>1, <1>2
<1>4. TypeOK
  <2>1. LastSlot \in Nat \ {0}
    BY SchedulerAssumption
  <2>2. /\ selected \in [Requests -> 0..LastSlot]
        /\ searched \in [Requests -> 0..LastSlot]
        /\ earliest \in [Requests -> 0..LastSlot]
        /\ now \in Slots
    BY <2>1, SchedulerAssumption DEF Init
  <2>3. /\ pc \in [Requests -> Labels]
        /\ row \in [Requests -> Rows \cup {None}]
        /\ existing \in [Requests -> Matched \cup {None}]
        /\ body \in [Requests -> Events \cup {None}]
        /\ report \in [Requests -> Reports \cup {None}]
    BY DEF Init, Labels
  <2>4. /\ writer \in [EventIds -> Requests \cup {None}]
        /\ edited \subseteq EventIds
        /\ before \in [Requests -> SUBSET Requests]
        /\ version \in Nat
        /\ seen \in [Requests -> Nat]
        /\ failures \in Nat
    BY DEF Init
  <2>5. QED BY <1>3, <2>2, <2>3, <2>4 DEF TypeOK
<1>5. \A r \in Requests : events[r] = None
  BY <1>1, SchedulerAssumption DEF EventIds
<1>6. ASSUME NEW r \in Requests
      PROVE  HandlerInv(r) /\ BoundsInv(r) /\ ExistingInv(r) /\ BodyInv(r) /\ ReadInv(r)
  BY <1>5 DEF Init, HandlerInv, BoundsInv, ExistingInv, BodyInv, ReadInv
<1>7. QED BY <1>4, <1>6 DEF PositionInv

-----------------------------------------------------------------------------
(* What a step of one handler means for the others.                          *)

\* r moves and nobody else does.
OthersStay(r) ==
  \A x \in Requests \ {r} :
    /\ pc'[x] = pc[x] /\ row'[x] = row[x] /\ existing'[x] = existing[x]
    /\ selected'[x] = selected[x] /\ body'[x] = body[x]
    /\ searched'[x] = searched[x] /\ earliest'[x] = earliest[x]
    /\ before'[x] = before[x]

\* A call that only reads leaves what is known of the other handlers as it is.
LEMMA QuietForOthers ==
  ASSUME PositionInv, NEW r \in Requests, pc[r] # "done", OthersStay(r),
         UNCHANGED <<now, events, writer, edited>>
  PROVE  \A x \in Requests \ {r} :
           (HandlerInv(x) /\ BoundsInv(x) /\ ExistingInv(x) /\ BodyInv(x) /\ ReadInv(x))'
<1>. TAKE x \in Requests \ {r}
<1>0. /\ HandlerInv(x) /\ BoundsInv(x) /\ ExistingInv(x) /\ BodyInv(x) /\ ReadInv(x)
      /\ before[x] \subseteq Requests
  BY DEF PositionInv, TypeOK
<1>1. HandlerInv(x)'
  BY <1>0 DEF OthersStay, HandlerInv
<1>2. ExistingInv(x)'
  BY <1>0 DEF OthersStay, ExistingInv
<1>3. BodyInv(x)'
  BY <1>0 DEF OthersStay, BodyInv
<1>4. ReadInv(x)'
  BY <1>0 DEF OthersStay, ReadInv, InSight, InTheWay, Within, Concurrent
<1>5. BoundsInv(x)'
  BY <1>0 DEF OthersStay, BoundsInv
<1>6. QED BY <1>1, <1>2, <1>3, <1>4, <1>5

\* A write of r to an event is concurrent for everybody who is not done, as
\* long as the event stays in its calendar.
LEMMA WriteForOthers ==
  ASSUME PositionInv, NEW r \in Requests, pc[r] # "done", OthersStay(r),
         NEW e \in EventIds, NEW event \in Events,
         e = r \/ (events[e] # None /\ events[e].calendar = event.calendar),
         Writes(r, e, event), UNCHANGED <<now, edited>>, pc'[r] = "done"
  PROVE  \A x \in Requests \ {r} :
           (HandlerInv(x) /\ BoundsInv(x) /\ ExistingInv(x) /\ BodyInv(x) /\ ReadInv(x))'
<1>. TAKE x \in Requests \ {r}
<1>0. /\ HandlerInv(x) /\ BoundsInv(x) /\ ExistingInv(x) /\ BodyInv(x) /\ ReadInv(x)
      /\ HandlerInv(r)
      /\ before[x] \subseteq Requests
      /\ events \in [EventIds -> Events \cup {None}]
      /\ writer \in [EventIds -> Requests \cup {None}]
      /\ existing[x] \in Matched \cup {None}
  BY DEF PositionInv, TypeOK
<1>1. /\ \A y \in EventIds \ {e} : events'[y] = events[y] /\ writer'[y] = writer[y]
      /\ events'[e] = event /\ writer'[e] = r
  BY <1>0 DEF Writes
<1>2. r \notin before[x]
  BY <1>0 DEF HandlerInv
<1>3. x \in EventIds /\ r \in EventIds
  BY DEF EventIds
<1>4. HandlerInv(x)'
  <2>1. events'[x] # None => events[x] # None
    BY <1>1, <1>3
  <2>2. QED BY <1>0, <2>1 DEF OthersStay, HandlerInv
<1>5. ExistingInv(x)'
  <2>1. events[r] = None /\ r \notin edited
    BY <1>0 DEF HandlerInv
  <2>2. ASSUME existing[x] # None
        PROVE  existing[x].id \in EventIds
    BY <1>0, <2>2 DEF Matched
  <2>3. CASE existing[x] = None
    BY <2>3 DEF OthersStay, ExistingInv
  <2>4. CASE existing[x] # None /\ existing[x].id # e
    BY <1>0, <1>1, <2>2, <2>4 DEF OthersStay, ExistingInv
  <2>5. CASE existing[x] # None /\ existing[x].id = e
    <3>1. e # r
      BY <1>0, <2>1, <2>5 DEF ExistingInv
    <3>2. event.calendar = row[x].calendar
      BY <1>0, <2>5, <3>1 DEF ExistingInv
    <3>3. event # None
      BY EventType
    <3>4. QED BY <1>0, <1>1, <2>5, <3>2, <3>3 DEF OthersStay, ExistingInv
  <2>6. QED BY <2>3, <2>4, <2>5
<1>6. BodyInv(x)'
  BY <1>0 DEF OthersStay, BodyInv
<1>7. Concurrent(x, e)'
  BY <1>1, <1>2, SchedulerAssumption DEF OthersStay, Concurrent
<1>8. ReadInv(x)'
  BY <1>0, <1>1, <1>7 DEF OthersStay, ReadInv, InSight, InTheWay, Within, Concurrent
<1>9. BoundsInv(x)'
  BY <1>0 DEF OthersStay, BoundsInv
<1>10. QED BY <1>4, <1>5, <1>6, <1>8, <1>9

-----------------------------------------------------------------------------
(* One lemma per action.                                                   *)

\* Begin starts a handler on a request that is well formed and knows who is done.
LEMMA BeginStep ==
  ASSUME PositionInv, NEW r \in Requests, NEW q \in Rows, Begin(r, q)
  PROVE  PositionInv'
<1>. USE DEF Goto, Answer
<1>0. TypeOK /\ HandlerInv(r) /\ BoundsInv(r) /\ ExistingInv(r) /\ pc[r] = "idle"
  BY DEF PositionInv, Begin
<1>1. q \in RequestRows
  BY SchedulerAssumption
<1>2. /\ q # None /\ q.task \in Tasks \cup {None}
        /\ q.earliest_iso \in Slots \cup {None} /\ (q.task = None => q.earliest_iso \in Slots)
  BY <1>1, RowType
<1>3. TypeOK'
  <2>1. /\ pc' \in [Requests -> Labels]
        /\ row' \in [Requests -> Rows \cup {None}]
        /\ report' \in [Requests -> Reports \cup {None}]
    BY <1>0, <1>1 DEF Begin, TypeOK, Labels, Reports
  <2>2. selected' \in [Requests -> 0..LastSlot] /\ searched' \in [Requests -> 0..LastSlot]
    BY <1>0, <1>2, SchedulerAssumption DEF Begin, TypeOK, Slots, Resolve
  <2>3. /\ before' \in [Requests -> SUBSET Requests]
        /\ seen' \in [Requests -> Nat]
    BY <1>0 DEF Begin, TypeOK
  <2>4. QED BY <1>0, <2>1, <2>2, <2>3 DEF Begin, TypeOK
<1>4. OthersStay(r)
  BY <1>0 DEF Begin, TypeOK, OthersStay
<1>5. \A x \in Requests \ {r} :
        (HandlerInv(x) /\ BoundsInv(x) /\ ExistingInv(x) /\ BodyInv(x) /\ ReadInv(x))'
  BY <1>0, <1>4, QuietForOthers DEF Begin
<1>6. /\ row'[r] = q /\ pc'[r] \in {"create", "find", "done"}
      /\ q.task # None => searched'[r] = Resolve(q)
      /\ earliest'[r] = earliest[r] /\ earliest[r] = 0 /\ now' = now /\ now \in Slots
      /\ pc'[r] = "create" => q.task = None /\ selected'[r] = q.earliest_iso
      /\ pc'[r] = "find" => q.task # None
      /\ existing'[r] = None
      /\ before'[r] = {x \in Requests : pc[x] = "done"}
  <2>1. earliest[r] = 0
    BY <1>0 DEF BoundsInv
  <2>2. QED BY <1>0, <2>1 DEF Begin, TypeOK, ExistingInv
<1>7. (HandlerInv(r) /\ BoundsInv(r) /\ ExistingInv(r) /\ BodyInv(r) /\ ReadInv(r))'
  <2>1. HandlerInv(r)'
    <3>1. \A x \in before'[r] : pc'[x] = "done"
      BY <1>0, <1>6 DEF Begin, TypeOK
    <3>2. events'[r] = None /\ r \notin edited'
      BY <1>0 DEF Begin, HandlerInv
    <3>3. QED BY <1>2, <1>6, <3>1, <3>2 DEF HandlerInv
  <2>2. ExistingInv(r)'
    BY <1>6 DEF ExistingInv
  <2>3. BodyInv(r)'
    BY <1>6 DEF BodyInv
  <2>4. ReadInv(r)'
    BY <1>6 DEF ReadInv
  <2>5. BoundsInv(r)'
    BY <1>6, SchedulerAssumption DEF BoundsInv, Resolve, Slots
  <2>6. QED BY <2>1, <2>2, <2>3, <2>4, <2>5
<1>8. QED BY <1>3, <1>5, <1>7 DEF PositionInv

\* FindTaskEvents ends the handler, finds nothing within its reach, or one block.
LEMMA FindTaskEventsStep ==
  ASSUME PositionInv, NEW r \in Requests, FindTaskEvents(r)
  PROVE  PositionInv'
<1>. USE DEF Goto, Answer, GoOn
<1>0. /\ TypeOK /\ HandlerInv(r) /\ BoundsInv(r) /\ pc[r] = "find" /\ existing[r] = None
      /\ row[r].task # None /\ row[r] # None /\ earliest[r] = 0
      /\ now \in Slots /\ row[r].earliest_iso \in Slots \cup {None}
  <2>1. /\ TypeOK /\ HandlerInv(r) /\ BoundsInv(r) /\ pc[r] = "find" /\ existing[r] = None
        /\ row[r].task # None /\ row[r] # None /\ earliest[r] = 0
    BY DEF PositionInv, FindTaskEvents, ExistingInv, HandlerInv, BoundsInv
  <2>2. row[r] \in RequestRows /\ now \in Slots
    BY <2>1, SchedulerAssumption DEF TypeOK
  <2>3. QED BY <2>1, <2>2, RowType
<1>1. \/ pc' = [pc EXCEPT ![r] = "done"] /\ existing' = existing
      \/ /\ pc' = [pc EXCEPT ![r] = "busy"] /\ existing' = existing
         /\ Matches(r) = {}
      \/ \E e \in Matches(r) :
           /\ pc' = [pc EXCEPT ![r] = "busy"]
           /\ existing' = [existing EXCEPT ![r] = [id |-> e, slot |-> events[e].slot]]
  BY <1>0 DEF FindTaskEvents
<1>2. ASSUME NEW e \in Matches(r)
      PROVE  /\ [id |-> e, slot |-> events[e].slot] \in Matched
             /\ events[e] # None /\ events[e].calendar = row[r].calendar
  <2>1. /\ e \in EventIds /\ events[e] \in Events
        /\ events[e] # None /\ events[e].calendar = row[r].calendar
    BY <1>0 DEF Matches, TypeOK
  <2>2. QED BY <2>1, EventType DEF Matched
<1>3. TypeOK'
  <2>1. existing' \in [Requests -> Matched \cup {None}]
    BY <1>0, <1>1, <1>2 DEF TypeOK
  <2>2. pc' \in [Requests -> Labels] /\ report' \in [Requests -> Reports \cup {None}]
    BY <1>0, <1>1 DEF TypeOK, Labels, Reports, FindTaskEvents
  <2>3. earliest' \in [Requests -> 0..LastSlot]
    <3>1. Resolve(row[r]) \in 0..LastSlot
      BY <1>0, SchedulerAssumption DEF Resolve, Slots
    <3>2. earliest' = earliest \/ earliest' = [earliest EXCEPT ![r] = Resolve(row[r])]
      BY DEF FindTaskEvents
    <3>3. QED BY <1>0, <3>1, <3>2 DEF TypeOK
  <2>4. UNCHANGED <<now, events, row, searched, selected, body, history>>
    BY DEF FindTaskEvents
  <2>5. QED BY <1>0, <2>1, <2>2, <2>3, <2>4 DEF TypeOK, history
<1>4. OthersStay(r)
  <2>1. earliest' = earliest \/ earliest' = [earliest EXCEPT ![r] = Resolve(row[r])]
    BY DEF FindTaskEvents
  <2>2. \A x \in Requests \ {r} : earliest'[x] = earliest[x]
    BY <1>0, <2>1 DEF TypeOK
  <2>3. \A x \in Requests \ {r} : pc'[x] = pc[x] /\ existing'[x] = existing[x]
    BY <1>0, <1>1 DEF TypeOK
  <2>4. UNCHANGED <<row, searched, selected, body, before>>
    BY DEF FindTaskEvents, history
  <2>5. QED BY <2>2, <2>3, <2>4 DEF OthersStay
<1>5. \A x \in Requests \ {r} :
        (HandlerInv(x) /\ BoundsInv(x) /\ ExistingInv(x) /\ BodyInv(x) /\ ReadInv(x))'
  BY <1>0, <1>4, QuietForOthers DEF FindTaskEvents, history
<1>6. /\ pc'[r] \in {"busy", "done"}
      /\ UNCHANGED <<now, events, row, searched, edited, before>>
      /\ earliest'[r] \in {earliest[r], Resolve(row[r])}
      /\ pc'[r] = "busy" => earliest'[r] = Resolve(row[r])
  BY <1>0, <1>1 DEF FindTaskEvents, history, TypeOK
<1>7. (HandlerInv(r) /\ BoundsInv(r) /\ ExistingInv(r) /\ BodyInv(r) /\ ReadInv(r))'
  <2>1. HandlerInv(r)'
    BY <1>0, <1>1, <1>6 DEF HandlerInv, TypeOK
  <2>2. ExistingInv(r)'
    <3>1. CASE existing'[r] = None
      BY <3>1 DEF ExistingInv
    <3>2. ASSUME NEW e \in Matches(r),
                 existing' = [existing EXCEPT ![r] = [id |-> e, slot |-> events[e].slot]]
          PROVE  ExistingInv(r)'
      <4>1. existing'[r].id = e
        BY <1>0, <3>2 DEF TypeOK
      <4>2. QED BY <1>2, <1>6, <4>1 DEF ExistingInv
    <3>3. QED BY <1>0, <1>1, <3>1, <3>2
  <2>3. BodyInv(r)'
    BY <1>6 DEF BodyInv
  <2>4. ReadInv(r)'
    <3>1. SUFFICES ASSUME pc'[r] = "busy", existing'[r] = None, NEW e \in EventIds \ edited
                   PROVE  ~InSight(r, e)'
      BY <1>6 DEF ReadInv, FindTaskEvents, history
    <3>2. Matches(r) = {}
      <4>1. ASSUME NEW f \in Matches(r),
                   existing' = [existing EXCEPT ![r] = [id |-> f, slot |-> events[f].slot]]
            PROVE  FALSE
        BY <1>0, <1>2, <3>1, <4>1, SchedulerAssumption DEF TypeOK
      <4>2. QED BY <1>0, <1>1, <3>1, <4>1 DEF TypeOK
    <3>3. ~InSight(r, e)
      BY <3>1, <3>2 DEF Matches, InSight
    <3>4. QED BY <1>6, <3>3 DEF InSight, Within
  <2>5. BoundsInv(r)'
    BY <1>0, <1>6, SchedulerAssumption DEF BoundsInv, Resolve, Slots
  <2>6. QED BY <2>1, <2>2, <2>3, <2>4, <2>5
<1>8. QED BY <1>3, <1>5, <1>7 DEF PositionInv

\* FindSlot ends the handler or chooses a slot at which no busy calendar has
\* anything but blocks of the task itself.
LEMMA FindSlotStep ==
  ASSUME PositionInv, NEW r \in Requests, FindSlot(r)
  PROVE  PositionInv'
<1>. USE DEF Goto, Answer
<1>0. /\ TypeOK /\ HandlerInv(r) /\ BoundsInv(r) /\ ExistingInv(r) /\ ReadInv(r)
      /\ pc[r] = "busy" /\ earliest[r] \in Slots
      /\ row[r].task # None /\ row[r] # None /\ row[r] \in RequestRows
  <2>1. /\ TypeOK /\ HandlerInv(r) /\ BoundsInv(r) /\ ExistingInv(r) /\ ReadInv(r)
        /\ pc[r] = "busy" /\ row[r].task # None /\ row[r] # None
    BY DEF PositionInv, FindSlot, HandlerInv
  <2>2. earliest[r] \in 0..LastSlot /\ earliest[r] # 0 /\ row[r] \in Rows
    BY <2>1 DEF TypeOK, BoundsInv
  <2>3. QED BY <2>1, <2>2, SchedulerAssumption DEF Slots
<1>1. UNCHANGED <<now, events, row, searched, earliest, existing, body, writer, edited,
                  before, version, seen, failures>>
  BY DEF FindSlot, history
<1>2. \/ pc' = [pc EXCEPT ![r] = "done"] /\ UNCHANGED selected
      \/ \E s \in Options(row[r], earliest[r], Taken(row[r], existing[r] # None)) :
           /\ selected' = [selected EXCEPT ![r] = s]
           /\ \/ pc' = [pc EXCEPT ![r] = "done"]
              \/ existing[r] = None /\ pc' = [pc EXCEPT ![r] = "create"]
              \/ existing[r] # None /\ pc' = [pc EXCEPT ![r] = "load"]
  BY DEF FindSlot
<1>3. ASSUME NEW s \in Options(row[r], earliest[r], Taken(row[r], existing[r] # None))
      PROVE  /\ s \in Slots
             /\ s \notin Taken(row[r], existing[r] # None)
  BY <1>0, RowType, SchedulerAssumption DEF Options, Slots
<1>4. TypeOK'
  <2>1. selected' \in [Requests -> 0..LastSlot]
    BY <1>0, <1>2, <1>3, SchedulerAssumption DEF TypeOK, Slots
  <2>2. pc' \in [Requests -> Labels]
    BY <1>0, <1>2 DEF TypeOK, Labels
  <2>3. report' \in [Requests -> Reports \cup {None}]
    BY <1>0 DEF TypeOK, Reports, FindSlot
  <2>4. QED BY <1>0, <1>1, <2>1, <2>2, <2>3 DEF TypeOK
<1>5. OthersStay(r)
  BY <1>0, <1>1, <1>2 DEF TypeOK, OthersStay
<1>6. \A x \in Requests \ {r} :
        (HandlerInv(x) /\ BoundsInv(x) /\ ExistingInv(x) /\ BodyInv(x) /\ ReadInv(x))'
  BY <1>0, <1>1, <1>5, QuietForOthers
<1>7. (HandlerInv(r) /\ BoundsInv(r) /\ ExistingInv(r) /\ BodyInv(r) /\ ReadInv(r))'
  <2>1. pc'[r] \in {"create", "load", "done"}
    BY <1>0, <1>2 DEF TypeOK
  <2>2. HandlerInv(r)'
    BY <1>0, <1>1, <1>2, <1>3, <2>1 DEF HandlerInv, TypeOK
  <2>3. ExistingInv(r)'
    BY <1>0, <1>1, <2>1 DEF ExistingInv
  <2>4. BodyInv(r)'
    BY <2>1 DEF BodyInv
  <2>7. BoundsInv(r)'
    BY <1>0, <1>1, <2>1 DEF BoundsInv
  <2>5. ReadInv(r)'
    <3>1. pc'[r] = "create" /\ existing'[r] = None =>
            \A e \in EventIds \ edited' : InSight(r, e)' => Concurrent(r, e)'
      BY <1>0, <1>1 DEF ReadInv, InSight, Within, Concurrent
    <3>2. ASSUME pc'[r] \in {"create", "load"}, NEW e \in EventIds, InTheWay(r, e)'
          PROVE  existing'[r] # None /\ events'[e].marker = row'[r].task
      <4>1. PICK s \in Options(row[r], earliest[r], Taken(row[r], existing[r] # None)) :
              selected' = [selected EXCEPT ![r] = s]
        BY <1>0, <1>2, <3>2 DEF TypeOK
      <4>2. selected'[r] = s
        BY <1>0, <4>1 DEF TypeOK
      <4>3. /\ events[e] # None /\ events[e].calendar \in row[r].busy
            /\ events[e].slot \notin Taken(row[r], existing[r] # None)
        BY <1>1, <1>3, <3>2, <4>2 DEF InTheWay
      <4>4. QED BY <1>1, <4>3 DEF Taken
    <3>3. QED BY <2>1, <3>1, <3>2 DEF ReadInv
  <2>6. QED BY <2>2, <2>3, <2>4, <2>5, <2>7
<1>8. QED BY <1>4, <1>6, <1>7 DEF PositionInv

\* CreateEvent adds one event of its own and ends the handler.
LEMMA CreateEventStep ==
  ASSUME PositionInv, NEW r \in Requests, CreateEvent(r)
  PROVE  PositionInv'
<1>. USE DEF Answer
<1>. DEFINE event == [calendar |-> row[r].calendar, slot |-> selected[r],
                      marker |-> row[r].task]
<1>0. /\ TypeOK /\ HandlerInv(r) /\ pc[r] = "create" /\ selected[r] \in Slots
      /\ existing[r] = None /\ row[r] \in RequestRows /\ BoundsInv(r)
  BY SchedulerAssumption DEF PositionInv, TypeOK, CreateEvent, HandlerInv
<1>1. event \in Events /\ r \in EventIds
  BY <1>0, RowType DEF Events, EventIds
<1>2. /\ Writes(r, r, event) /\ pc' = [pc EXCEPT ![r] = "done"]
      /\ UNCHANGED <<now, row, searched, earliest, existing, selected, body, edited, before,
                     seen>>
  BY DEF CreateEvent, Answered
<1>3. TypeOK'
  <2>1. /\ events' \in [EventIds -> Events \cup {None}]
        /\ writer' \in [EventIds -> Requests \cup {None}]
        /\ version' \in Nat
    BY <1>0, <1>1, <1>2 DEF TypeOK, Writes
  <2>2. pc' \in [Requests -> Labels]
    BY <1>0, <1>2 DEF TypeOK, Labels
  <2>3. report' \in [Requests -> Reports \cup {None}] /\ failures' \in Nat
    BY <1>0 DEF CreateEvent, Answered, TypeOK, Reports
  <2>4. QED BY <1>0, <1>2, <2>1, <2>2, <2>3 DEF TypeOK
<1>4. OthersStay(r)
  BY <1>0, <1>2 DEF TypeOK, OthersStay
<1>5. pc'[r] = "done"
  BY <1>0, <1>2 DEF TypeOK
<1>6. \A x \in Requests \ {r} :
        (HandlerInv(x) /\ BoundsInv(x) /\ ExistingInv(x) /\ BodyInv(x) /\ ReadInv(x))'
  <2>. HIDE DEF event
  <2>1. QED BY <1>0, <1>1, <1>2, <1>4, <1>5, WriteForOthers
<1>7. (HandlerInv(r) /\ BoundsInv(r) /\ ExistingInv(r) /\ BodyInv(r) /\ ReadInv(r))'
  <2>1. HandlerInv(r)'
    BY <1>0, <1>2, <1>5 DEF HandlerInv, TypeOK
  <2>2. BoundsInv(r)'
    BY <1>0, <1>2, <1>5 DEF BoundsInv
  <2>3. QED BY <1>0, <1>2, <1>5, <2>1, <2>2 DEF ExistingInv, BodyInv, ReadInv
<1>8. QED BY <1>3, <1>6, <1>7 DEF PositionInv

\* LoadEvent ends the handler or goes on with a body that bears its marker.
LEMMA LoadEventStep ==
  ASSUME PositionInv, NEW r \in Requests, LoadEvent(r)
  PROVE  PositionInv'
<1>. USE DEF Goto, Answer
<1>0. /\ TypeOK /\ HandlerInv(r) /\ BoundsInv(r) /\ ExistingInv(r) /\ ReadInv(r)
      /\ pc[r] = "load"
      /\ existing[r] # None /\ row[r].task # None
      /\ existing[r] \in Matched \cup {None}
  BY DEF PositionInv, LoadEvent, HandlerInv, TypeOK
<1>1. UNCHANGED <<now, events, row, searched, earliest, existing, selected, writer, edited,
                  before, version, seen, failures>>
  BY DEF LoadEvent, history
<1>2. existing[r].id \in EventIds
  BY <1>0 DEF Matched
<1>3. \/ pc' = [pc EXCEPT ![r] = "done"] /\ UNCHANGED body
      \/ /\ pc' = [pc EXCEPT ![r] = "save"]
         /\ body' = [body EXCEPT ![r] = events[existing[r].id]]
         /\ events[existing[r].id] # None
         /\ events[existing[r].id].marker = row[r].task
  BY DEF LoadEvent
<1>4. TypeOK'
  <2>1. body' \in [Requests -> Events \cup {None}]
    BY <1>0, <1>2, <1>3 DEF TypeOK
  <2>2. pc' \in [Requests -> Labels]
    BY <1>0, <1>3 DEF TypeOK, Labels
  <2>3. report' \in [Requests -> Reports \cup {None}]
    BY <1>0 DEF LoadEvent, TypeOK, Reports
  <2>4. QED BY <1>0, <1>1, <2>1, <2>2, <2>3 DEF TypeOK
<1>5. OthersStay(r)
  BY <1>0, <1>1, <1>3 DEF TypeOK, OthersStay
<1>6. \A x \in Requests \ {r} :
        (HandlerInv(x) /\ BoundsInv(x) /\ ExistingInv(x) /\ BodyInv(x) /\ ReadInv(x))'
  BY <1>0, <1>1, <1>5, QuietForOthers
<1>7. (HandlerInv(r) /\ BoundsInv(r) /\ ExistingInv(r) /\ BodyInv(r) /\ ReadInv(r))'
  <2>1. pc'[r] \in {"save", "done"}
    BY <1>0, <1>3 DEF TypeOK
  <2>2. HandlerInv(r)'
    BY <1>0, <1>1, <1>3, <2>1 DEF HandlerInv, TypeOK
  <2>3. ExistingInv(r)'
    BY <1>0, <1>1, <2>1 DEF ExistingInv
  <2>4. BodyInv(r)'
    BY <1>0, <1>1, <1>3 DEF BodyInv, ExistingInv, TypeOK
  <2>5. ReadInv(r)'
    BY <1>0, <1>1, <2>1 DEF ReadInv, InTheWay, Concurrent
  <2>6. BoundsInv(r)'
    BY <1>0, <1>1, <2>1 DEF BoundsInv
  <2>7. QED BY <2>2, <2>3, <2>4, <2>5, <2>6
<1>8. QED BY <1>4, <1>6, <1>7 DEF PositionInv

\* SaveEvent moves the block within its calendar, if it is still there, and ends
\* the handler.
LEMMA SaveEventStep ==
  ASSUME PositionInv, NEW r \in Requests, SaveEvent(r)
  PROVE  PositionInv'
<1>. USE DEF Answer
<1>. DEFINE e == existing[r].id
            event == [body[r] EXCEPT !.slot = selected[r]]
<1>0. /\ TypeOK /\ HandlerInv(r) /\ BoundsInv(r) /\ ExistingInv(r) /\ BodyInv(r)
      /\ pc[r] = "save"
      /\ selected[r] \in Slots /\ existing[r] # None
      /\ existing[r] \in Matched \cup {None} /\ body[r] \in Events \cup {None}
  BY DEF PositionInv, SaveEvent, HandlerInv, TypeOK
<1>1. e \in EventIds
  BY <1>0 DEF Matched
<1>2. /\ event \in Events
      /\ events[e] # None => events[e].calendar = event.calendar
  <2>1. body[r] \in Events /\ body[r].calendar = row[r].calendar
    BY <1>0 DEF BodyInv
  <2>2. event \in Events /\ event.calendar = body[r].calendar
    BY <1>0, <2>1 DEF Events
  <2>3. QED BY <1>0, <2>1, <2>2 DEF ExistingInv
<1>3. /\ pc' = [pc EXCEPT ![r] = "done"]
      /\ \/ UNCHANGED <<events, writer, version>>
         \/ events[e] # None /\ Writes(r, e, event)
      /\ UNCHANGED <<now, row, searched, earliest, existing, selected, body, edited, before,
                     seen>>
  BY DEF SaveEvent, Answered
<1>4. TypeOK'
  <2>1. /\ events' \in [EventIds -> Events \cup {None}]
        /\ writer' \in [EventIds -> Requests \cup {None}]
        /\ version' \in Nat
    <3>. HIDE DEF event, e
    <3>1. QED BY <1>0, <1>1, <1>2, <1>3 DEF TypeOK, Writes
  <2>2. pc' \in [Requests -> Labels]
    BY <1>0, <1>3 DEF TypeOK, Labels
  <2>3. report' \in [Requests -> Reports \cup {None}] /\ failures' \in Nat
    BY <1>0 DEF SaveEvent, Answered, TypeOK, Reports
  <2>4. QED BY <1>0, <1>3, <2>1, <2>2, <2>3 DEF TypeOK
<1>5. OthersStay(r)
  BY <1>0, <1>3 DEF TypeOK, OthersStay
<1>6. pc'[r] = "done"
  BY <1>0, <1>3 DEF TypeOK
<1>7. \A x \in Requests \ {r} :
        (HandlerInv(x) /\ BoundsInv(x) /\ ExistingInv(x) /\ BodyInv(x) /\ ReadInv(x))'
  <2>. HIDE DEF event, e
  <2>1. CASE UNCHANGED <<events, writer, version>>
    BY <1>0, <1>3, <1>5, <2>1, QuietForOthers
  <2>2. CASE events[e] # None /\ Writes(r, e, event)
    BY <1>0, <1>1, <1>2, <1>3, <1>5, <1>6, <2>2, WriteForOthers
  <2>3. QED BY <1>3, <2>1, <2>2
<1>8. (HandlerInv(r) /\ BoundsInv(r) /\ ExistingInv(r) /\ BodyInv(r) /\ ReadInv(r))'
  <2>1. HandlerInv(r)'
    BY <1>0, <1>3, <1>6 DEF HandlerInv, TypeOK
  <2>2. ExistingInv(r)'
    <3>1. UNCHANGED events \/ events' = [events EXCEPT ![e] = event]
      BY <1>3 DEF Writes
    <3>2. events[e] # None => event.calendar = row[r].calendar
      BY <1>0, <1>2 DEF ExistingInv
    <3>. HIDE DEF event
    <3>3. QED BY <1>0, <1>1, <1>2, <1>3, <1>6, <3>1, <3>2, EventType
              DEF ExistingInv, TypeOK
  <2>3. BoundsInv(r)'
    BY <1>0, <1>3, <1>6 DEF BoundsInv
  <2>4. QED BY <1>6, <2>1, <2>2, <2>3 DEF BodyInv, ReadInv
<1>9. QED BY <1>4, <1>7, <1>8 DEF PositionInv

\* A failed call ends the handler and changes nothing else.
LEMMA CallFailsStep ==
  ASSUME PositionInv, NEW r \in Requests, CallFails(r)
  PROVE  PositionInv'
<1>. USE DEF Answer
<1>0. /\ TypeOK /\ HandlerInv(r) /\ BoundsInv(r) /\ ExistingInv(r)
      /\ pc[r] # "idle" /\ pc[r] # "done"
  BY DEF PositionInv, CallFails
<1>1. TypeOK'
  <2>1. pc' \in [Requests -> Labels] /\ report' \in [Requests -> Reports \cup {None}]
    BY <1>0 DEF CallFails, TypeOK, Labels, Reports
  <2>2. QED BY <1>0, <2>1 DEF CallFails, TypeOK
<1>2. OthersStay(r) /\ pc'[r] = "done"
  BY <1>0 DEF CallFails, TypeOK, OthersStay
<1>3. \A x \in Requests \ {r} :
        (HandlerInv(x) /\ BoundsInv(x) /\ ExistingInv(x) /\ BodyInv(x) /\ ReadInv(x))'
  BY <1>0, <1>2, QuietForOthers DEF CallFails
<1>4. HandlerInv(r)'
  BY <1>0, <1>2 DEF CallFails, HandlerInv, TypeOK
<1>5. (BoundsInv(r) /\ ExistingInv(r) /\ BodyInv(r) /\ ReadInv(r))'
  BY <1>0, <1>2 DEF CallFails, BoundsInv, ExistingInv, BodyInv, ReadInv
<1>6. QED BY <1>1, <1>3, <1>4, <1>5 DEF PositionInv

-----------------------------------------------------------------------------
(* The users of the calendars.                                             *)

\* What the four edits have in common: an event keeps its calendar, and the
\* events of Beacon are only edited when they exist.
Edited(e, event) ==
  /\ Edit(e, event)
  /\ event \in Events \cup {None}
  /\ events[e] = None => e \in ForeignIds /\ event # None
  /\ events[e] # None /\ event # None => event.calendar = events[e].calendar

\* Users edit as Edited says.
LEMMA UsersEdit ==
  ASSUME TypeOK, NEW e \in EventIds,
         \/ \E event \in AddedEvents : UserAdds(e, event)
         \/ UserDeletes(e)
         \/ \E s \in Slots : UserReschedules(e, s)
         \/ UserRemovesMarker(e)
  PROVE  \E event \in Events \cup {None} : Edited(e, event)
<1>0. events[e] \in Events \cup {None}
  BY DEF TypeOK
<1>1. ASSUME NEW event \in Events, UserAdds(e, event)
      PROVE  Edited(e, event)
  BY <1>1, EventType DEF UserAdds, Edited
<1>2. CASE UserDeletes(e)
  BY <1>2 DEF UserDeletes, Edited
<1>3. ASSUME NEW s \in Slots, UserReschedules(e, s)
      PROVE  /\ [events[e] EXCEPT !.slot = s] \in Events
             /\ Edited(e, [events[e] EXCEPT !.slot = s])
  <2>1. events[e] \in Events
    BY <1>0, <1>3 DEF UserReschedules
  <2>2. /\ [events[e] EXCEPT !.slot = s] \in Events
        /\ [events[e] EXCEPT !.slot = s].calendar = events[e].calendar
    BY <2>1 DEF Events
  <2>3. QED BY <1>3, <2>1, <2>2, EventType DEF UserReschedules, Edited
<1>4. ASSUME UserRemovesMarker(e)
      PROVE  /\ [events[e] EXCEPT !.marker = None] \in Events
             /\ Edited(e, [events[e] EXCEPT !.marker = None])
  <2>1. events[e] \in Events
    BY <1>0, <1>4 DEF UserRemovesMarker
  <2>2. /\ [events[e] EXCEPT !.marker = None] \in Events
        /\ [events[e] EXCEPT !.marker = None].calendar = events[e].calendar
    BY <2>1 DEF Events
  <2>3. QED BY <1>4, <2>1, <2>2, EventType DEF UserRemovesMarker, Edited
<1>5. AddedEvents \subseteq Events
  BY SchedulerAssumption
<1>6. QED BY <1>1, <1>2, <1>3, <1>4, <1>5

\* An edited event is exempt from what handlers know of it ever after.
LEMMA EditStep ==
  ASSUME PositionInv, NEW e \in EventIds, NEW event \in Events \cup {None}, Edited(e, event)
  PROVE  PositionInv'
<1>0. /\ TypeOK
      /\ UNCHANGED <<now, pc, row, searched, earliest, existing, selected, body, report, writer,
                     before, seen, failures>>
      /\ e \notin edited
      /\ events' = [events EXCEPT ![e] = event]
      /\ edited' = edited \cup {e} /\ version' = version + 1
  BY DEF PositionInv, Edited, Edit, handlers
<1>1. TypeOK'
  <2>1. events' \in [EventIds -> Events \cup {None}]
    BY <1>0 DEF TypeOK
  <2>2. edited' \subseteq EventIds /\ version' \in Nat
    BY <1>0 DEF TypeOK
  <2>3. QED BY <1>0, <2>1, <2>2 DEF TypeOK
<1>2. /\ events'[e] = event
      /\ \A f \in EventIds \ {e} : events'[f] = events[f]
  BY <1>0 DEF TypeOK
<1>3. ASSUME NEW r \in Requests
      PROVE  (HandlerInv(r) /\ BoundsInv(r) /\ ExistingInv(r) /\ BodyInv(r) /\ ReadInv(r))'
  <2>0. /\ HandlerInv(r) /\ BoundsInv(r) /\ ExistingInv(r) /\ BodyInv(r) /\ ReadInv(r)
        /\ existing[r] \in Matched \cup {None}
        /\ before[r] \subseteq Requests
    BY <1>0 DEF PositionInv, TypeOK
  <2>1. HandlerInv(r)'
    <3>1. r \in EventIds /\ r \notin ForeignIds
      BY SchedulerAssumption DEF EventIds
    <3>2. events'[r] # None \/ r \in edited' => events[r] # None \/ r \in edited
      BY <1>0, <1>2, <3>1 DEF Edited
    <3>3. QED BY <1>0, <2>0, <3>2 DEF HandlerInv
  <2>2. ExistingInv(r)'
    <3>1. CASE existing[r] = None
      BY <1>0, <3>1 DEF ExistingInv
    <3>2. CASE existing[r] # None /\ existing[r].id # e
      BY <1>0, <1>2, <2>0, <3>2 DEF ExistingInv, Matched
    <3>3. CASE existing[r] # None /\ existing[r].id = e
      <4>1. events[e] # None /\ events[e].calendar = row[r].calendar
        BY <1>0, <2>0, <3>3 DEF ExistingInv
      <4>2. QED BY <1>0, <1>2, <2>0, <3>3, <4>1 DEF ExistingInv, Edited
    <3>4. QED BY <3>1, <3>2, <3>3
  <2>3. BodyInv(r)'
    BY <1>0, <2>0 DEF BodyInv
  <2>4. ReadInv(r)'
    BY <1>0, <1>2, <2>0 DEF ReadInv, InSight, InTheWay, Within, Concurrent
  <2>5. BoundsInv(r)'
    BY <1>0, <2>0 DEF BoundsInv
  <2>6. QED BY <2>1, <2>2, <2>3, <2>4, <2>5
<1>4. QED BY <1>1, <1>3 DEF PositionInv

\* Time goes by without anybody learning of it.
LEMMA TickStep ==
  ASSUME PositionInv, Tick
  PROVE  PositionInv'
<1>0. /\ TypeOK /\ now \in Int /\ now' = now + 1 /\ now' \in Slots
      /\ UNCHANGED <<events, handlers, history>>
  BY SchedulerAssumption DEF PositionInv, TypeOK, Tick, Slots
<1>1. TypeOK'
  BY <1>0 DEF TypeOK, handlers, history
<1>2. ASSUME NEW r \in Requests
      PROVE  (HandlerInv(r) /\ BoundsInv(r) /\ ExistingInv(r) /\ BodyInv(r) /\ ReadInv(r))'
  <2>0. HandlerInv(r) /\ BoundsInv(r) /\ ExistingInv(r) /\ BodyInv(r) /\ ReadInv(r)
    BY DEF PositionInv
  <2>1. searched[r] \in Int /\ earliest[r] \in Int
    BY <1>0, SchedulerAssumption DEF TypeOK
  <2>2. (HandlerInv(r) /\ ExistingInv(r) /\ BodyInv(r))'
    BY <1>0, <2>0 DEF handlers, history, HandlerInv, ExistingInv, BodyInv
  <2>3. ReadInv(r)'
    BY <1>0, <2>0 DEF handlers, history, ReadInv, InSight, InTheWay, Within, Concurrent
  <2>4. BoundsInv(r)'
    BY <1>0, <2>0, <2>1 DEF handlers, BoundsInv
  <2>5. QED BY <2>2, <2>3, <2>4
<1>3. QED BY <1>1, <1>2 DEF PositionInv

-----------------------------------------------------------------------------
(* The theorems.                                                           *)

\* Every step of handlers and users preserves the invariant.
LEMMA NextPositionInv == PositionInv /\ [Next]_vars => PositionInv'
<1>. SUFFICES ASSUME PositionInv, [Next]_vars PROVE PositionInv'
  OBVIOUS
<1>1. ASSUME NEW r \in Requests, Step(r)
      PROVE  PositionInv'
  BY <1>1, BeginStep, FindTaskEventsStep, FindSlotStep, CreateEventStep,
     LoadEventStep, SaveEventStep, CallFailsStep DEF Step
<1>2. ASSUME NEW e \in EventIds,
             \/ \E event \in AddedEvents : UserAdds(e, event)
             \/ UserDeletes(e)
             \/ \E s \in Slots : UserReschedules(e, s)
             \/ UserRemovesMarker(e)
      PROVE  PositionInv'
  <2>1. TypeOK
    BY DEF PositionInv
  <2>2. \E event \in Events \cup {None} : Edited(e, event)
    BY <1>2, <2>1, UsersEdit
  <2>3. QED BY <2>2, EditStep
<1>3. CASE UNCHANGED vars
  BY <1>3 DEF vars, handlers, history, PositionInv, TypeOK, HandlerInv, BoundsInv, ExistingInv,
              BodyInv, ReadInv, InSight, InTheWay, Within, Concurrent
<1>4. QED BY <1>1, <1>2, <1>3, TickStep DEF Next

\* It holds in every reachable state, whatever handlers and users do.
THEOREM PositionInvHolds == Spec => []PositionInv
  BY InitPositionInv, NextPositionInv, PTL DEF Spec

-----------------------------------------------------------------------------
(* What a handler remembers of the calendars.                              *)

Remembers(r) ==
  seen[r] <= version /\ FoundInv(r) /\ ChosenInv(r) /\ WrittenInv(r)

\* A handler that is not done has written nothing.
LEMMA NothingWritten ==
  ASSUME NEW r \in Requests, WrittenInv(r), pc[r] # "done"
  PROVE  \A e \in EventIds : writer[e] # r
BY DEF WrittenInv

\* A call that only reads leaves what the other handlers remember as it is.
LEMMA QuietRemembers ==
  ASSUME NEW r \in Requests, OthersStay(r), UNCHANGED <<events, writer, version>>,
         \A x \in Requests \ {r} : Remembers(x) /\ seen'[x] = seen[x]
  PROVE  \A x \in Requests \ {r} : Remembers(x)'
<1>. TAKE x \in Requests \ {r}
<1>0. /\ seen[x] <= version /\ FoundInv(x) /\ ChosenInv(x) /\ WrittenInv(x)
      /\ seen'[x] = seen[x] /\ version' = version /\ events' = events
      /\ writer' = writer
  BY DEF Remembers
<1>1. /\ pc'[x] = pc[x] /\ row'[x] = row[x] /\ existing'[x] = existing[x]
      /\ selected'[x] = selected[x] /\ searched'[x] = searched[x]
      /\ earliest'[x] = earliest[x]
  BY DEF OthersStay
<1>2. Matches(x)' = Matches(x)
  BY <1>0, <1>1 DEF Matches, Within
<1>3. /\ Taken(row[x], existing[x] # None)' = Taken(row[x], existing[x] # None)
      /\ Taken(row[x], TRUE)' = Taken(row[x], TRUE)
  BY <1>0, <1>1 DEF Taken
<1>4. FoundInv(x)'
  BY <1>0, <1>1, <1>2 DEF FoundInv
<1>5. ChosenInv(x)'
  BY <1>0, <1>1, <1>3 DEF ChosenInv, Best, Options
<1>6. WrittenInv(x)'
  <2>1. Best(row[x], earliest[x], selected[x], Taken(row[x], TRUE))'
          <=> Best(row[x], earliest[x], selected[x], Taken(row[x], TRUE))
    BY <1>1, <1>3 DEF Best, Options
  <2>2. ASSUME NEW e \in EventIds, writer[e] = x
        PROVE  /\ pc'[x] = "done" /\ version' > seen'[x]
               /\ \A f \in EventIds : writer'[f] = x => f = e
    BY <1>0, <1>1, <2>2 DEF WrittenInv
  <2>3. ASSUME NEW e \in EventIds, writer[e] = x,
               row[x].task # None, version = seen[x] + 1
        PROVE  /\ events'[e] = [calendar |-> row'[x].calendar, slot |-> selected'[x],
                                marker |-> row'[x].task]
               /\ row'[x].create
               /\ earliest'[x] # 0 /\ selected'[x] \in earliest'[x]..row'[x].deadline
    BY <1>0, <1>1, <2>3 DEF WrittenInv
  <2>4. ASSUME NEW e \in EventIds, writer[e] = x,
               row[x].task # None, version = seen[x] + 1,
               \A f \in EventIds : events[f] # None /\ events[f].marker = row[x].task
                                  => f = e
        PROVE  Best(row[x], earliest[x], selected[x], Taken(row[x], TRUE))'
    BY <1>0, <2>1, <2>4 DEF WrittenInv
  <2>5. ASSUME NEW e \in EventIds, writer'[e] = x,
               row'[x].task # None, version' = seen'[x] + 1,
               \A f \in EventIds : events'[f] # None /\ events'[f].marker = row'[x].task
                                  => f = e
        PROVE  Best(row[x], earliest[x], selected[x], Taken(row[x], TRUE))'
    <3>1. /\ writer[e] = x /\ row[x].task # None /\ version = seen[x] + 1
          /\ \A f \in EventIds : events[f] # None /\ events[f].marker = row[x].task
                                => f = e
      BY <1>0, <1>1, <2>5
    <3>2. QED BY <2>4, <3>1
  <2>6. QED BY <1>0, <1>1, <2>2, <2>3, <2>5 DEF WrittenInv
<1>7. QED BY <1>0, <1>4, <1>5, <1>6 DEF Remembers

\* Once the calendars have changed, a handler claims nothing about them but
\* that its own write is long past.
LEMMA ChangeRemembers ==
  ASSUME NEW x \in Requests, Remembers(x), version \in Nat, seen[x] \in Nat,
         version' = version + 1,
         \A e \in EventIds : writer'[e] = x => writer[e] = x,
         pc'[x] = pc[x], row'[x] = row[x], selected'[x] = selected[x],
         earliest'[x] = earliest[x], seen'[x] = seen[x]
  PROVE  Remembers(x)'
<1>0. /\ seen[x] <= version /\ ChosenInv(x) /\ WrittenInv(x)
  BY DEF Remembers
<1>1. seen'[x] < version'
  BY <1>0
<1>2. FoundInv(x)'
  BY <1>1 DEF FoundInv
<1>3. ChosenInv(x)'
  BY <1>0, <1>1 DEF ChosenInv
<1>4. WrittenInv(x)'
  <2>1. SUFFICES ASSUME NEW e \in EventIds, writer'[e] = x
                 PROVE  /\ pc'[x] = "done" /\ version' > seen'[x]
                        /\ \A f \in EventIds : writer'[f] = x => f = e
                        /\ version' # seen'[x] + 1
    BY DEF WrittenInv
  <2>2. /\ pc[x] = "done" /\ version > seen[x]
        /\ \A f \in EventIds : writer[f] = x => f = e
    BY <1>0, <2>1 DEF WrittenInv
  <2>3. QED BY <1>1, <2>2
<1>5. QED BY <1>1, <1>2, <1>3, <1>4 DEF Remembers

\* What the invariant says of one handler.
LEMMA IndInvOf ==
  ASSUME IndInv, NEW r \in Requests
  PROVE  /\ TypeOK /\ HandlerInv(r) /\ BoundsInv(r) /\ ExistingInv(r) /\ BodyInv(r)
         /\ ReadInv(r)
         /\ Remembers(r) /\ seen[r] \in Nat /\ version \in Nat
BY DEF IndInv, PositionInv, Remembers, TypeOK

\* A handler that ends without a write has nothing to remember.
LEMMA EndRemembers ==
  ASSUME IndInv, NEW r \in Requests, pc[r] # "done", pc'[r] = "done",
         UNCHANGED <<writer, version, seen>>
  PROVE  Remembers(r)'
<1>1. \A e \in EventIds : writer[e] # r
  BY IndInvOf, NothingWritten DEF Remembers
<1>2. seen[r] <= version
  BY IndInvOf DEF Remembers
<1>3. QED BY <1>1, <1>2 DEF Remembers, FoundInv, ChosenInv, WrittenInv

\* A handler begins with the calendars as they are and has written nothing.
LEMMA BeginRemembers ==
  ASSUME IndInv, NEW r \in Requests, NEW q \in Rows, Begin(r, q)
  PROVE  \A x \in Requests : Remembers(x)'
<1>. USE DEF Goto, Answer
<1>0. /\ TypeOK /\ ExistingInv(r) /\ pc[r] = "idle" /\ version \in Nat
      /\ \A x \in Requests : Remembers(x)
  BY IndInvOf DEF Begin
<1>1. /\ OthersStay(r) /\ UNCHANGED <<events, writer, version>>
      /\ \A x \in Requests \ {r} : seen'[x] = seen[x]
  BY <1>0 DEF Begin, TypeOK, OthersStay
<1>2. \A x \in Requests \ {r} : Remembers(x)'
  BY <1>0, <1>1, QuietRemembers
<1>3. Remembers(r)'
  <2>1. /\ row'[r] = q /\ seen'[r] = version /\ pc'[r] \in {"create", "find", "done"}
        /\ pc'[r] = "create" => q.task = None
    BY <1>0 DEF Begin, TypeOK
  <2>2. \A e \in EventIds : writer'[e] # r
    BY <1>0, <1>1, NothingWritten DEF Remembers
  <2>3. FoundInv(r)' /\ ChosenInv(r)'
    BY <2>1 DEF FoundInv, ChosenInv
  <2>4. WrittenInv(r)'
    BY <2>2 DEF WrittenInv
  <2>5. QED BY <1>0, <1>1, <2>1, <2>3, <2>4 DEF Remembers
<1>4. QED BY <1>2, <1>3

\* A search that has just been made would find the same again.
LEMMA FindTaskEventsRemembers ==
  ASSUME IndInv, NEW r \in Requests, FindTaskEvents(r)
  PROVE  \A x \in Requests : Remembers(x)'
<1>. USE DEF Goto, Answer, GoOn
<1>0. /\ TypeOK /\ ExistingInv(r) /\ pc[r] = "find" /\ existing[r] = None
      /\ \A x \in Requests : Remembers(x)
  BY IndInvOf DEF FindTaskEvents, ExistingInv
<1>1. /\ OthersStay(r) /\ UNCHANGED <<events, row, searched, writer, version, seen>>
      /\ \A x \in Requests \ {r} : seen'[x] = seen[x]
  <2>1. earliest' = earliest \/ earliest' = [earliest EXCEPT ![r] = Resolve(row[r])]
    BY DEF FindTaskEvents
  <2>2. \A x \in Requests \ {r} : earliest'[x] = earliest[x]
    BY <1>0, <2>1 DEF TypeOK
  <2>3. \A x \in Requests \ {r} : pc'[x] = pc[x] /\ existing'[x] = existing[x]
    BY <1>0 DEF FindTaskEvents, TypeOK
  <2>4. UNCHANGED <<events, row, searched, selected, body, before, writer, version, seen>>
    BY DEF FindTaskEvents, history
  <2>5. QED BY <2>2, <2>3, <2>4 DEF OthersStay
<1>2. \A x \in Requests \ {r} : Remembers(x)'
  BY <1>0, <1>1, QuietRemembers
<1>3. \/ pc'[r] = "done"
      \/ pc'[r] = "busy" /\ existing'[r] = None /\ Matches(r) = {}
      \/ \E e \in Matches(r) :
           /\ pc'[r] = "busy" /\ Matches(r) = {e}
           /\ existing'[r] = [id |-> e, slot |-> events[e].slot]
  BY <1>0 DEF FindTaskEvents, TypeOK
<1>4. ASSUME pc'[r] = "done"
      PROVE  Remembers(r)'
  <2>1. pc[r] # "done" /\ UNCHANGED <<writer, version, seen>>
    BY <1>0, <1>1
  <2>2. QED BY <1>4, <2>1, EndRemembers
<1>5. ASSUME pc'[r] = "busy",
             \/ existing'[r] = None /\ Matches(r) = {}
             \/ \E e \in Matches(r) :
                  /\ Matches(r) = {e}
                  /\ existing'[r] = [id |-> e, slot |-> events[e].slot]
      PROVE  Remembers(r)'
  <2>1. Matches(r)' = Matches(r)
    BY <1>1 DEF Matches, Within
  <2>2. ASSUME NEW e \in Matches(r)
        PROVE  [id |-> e, slot |-> events[e].slot] # None
    <3>1. e \in EventIds /\ events[e] \in Events
      BY <1>0 DEF Matches, TypeOK
    <3>2. [id |-> e, slot |-> events[e].slot] \in Matched
      BY <3>1, EventType DEF Matched
    <3>3. QED BY <3>2, SchedulerAssumption
  <2>3. FoundInv(r)'
    <3>1. CASE existing'[r] = None /\ Matches(r) = {}
      BY <2>1, <3>1 DEF FoundInv
    <3>2. ASSUME NEW e \in Matches(r), Matches(r) = {e},
                 existing'[r] = [id |-> e, slot |-> events[e].slot]
          PROVE  FoundInv(r)'
      <4>1. existing'[r] # None /\ existing'[r].id = e /\ existing'[r].slot = events[e].slot
        BY <2>2, <3>2
      <4>2. Matches(r)' = {e} /\ events' = events
        BY <1>1, <2>1, <3>2
      <4>3. QED BY <4>1, <4>2 DEF FoundInv
    <3>3. QED BY <1>5, <3>1, <3>2
  <2>4. ChosenInv(r)'
    BY <1>5 DEF ChosenInv
  <2>5. WrittenInv(r)'
    BY <1>0, <1>1, NothingWritten DEF Remembers, WrittenInv
  <2>6. QED BY <1>0, <1>1, <2>3, <2>4, <2>5 DEF Remembers
<1>6. QED BY <1>2, <1>3, <1>4, <1>5

\* The slot that is chosen is the best of those that are not taken.
LEMMA FindSlotRemembers ==
  ASSUME IndInv, NEW r \in Requests, FindSlot(r)
  PROVE  \A x \in Requests : Remembers(x)'
<1>. USE DEF Goto, Answer
<1>0. /\ TypeOK /\ pc[r] = "busy" /\ \A x \in Requests : Remembers(x)
      /\ row[r] # None /\ row[r].task # None /\ row[r] \in RequestRows
      /\ earliest[r] # 0
  BY IndInvOf, SchedulerAssumption DEF FindSlot, HandlerInv, BoundsInv, TypeOK
<1>1. /\ OthersStay(r)
      /\ UNCHANGED <<events, row, searched, earliest, existing, writer, version, seen>>
      /\ \A x \in Requests \ {r} : seen'[x] = seen[x]
  BY <1>0 DEF FindSlot, history, TypeOK, OthersStay
<1>2. \A x \in Requests \ {r} : Remembers(x)'
  BY <1>0, <1>1, QuietRemembers
<1>3. PICK taken : taken = Taken(row[r], existing[r] # None)
  OBVIOUS
<1>4. \/ pc'[r] = "done"
      \/ /\ pc'[r] \in {"create", "load"}
         /\ row[r].create
         /\ Best(row[r], earliest[r], selected'[r], taken)
  <2>1. row[r].create \in BOOLEAN
    BY <1>0, RowType
  <2>2. \/ pc'[r] = "done"
        \/ \E s \in Options(row[r], earliest[r], taken) :
             /\ \A o \in Options(row[r], earliest[r], taken) :
                  row[r].rank[earliest[r]][s] <= row[r].rank[earliest[r]][o]
             /\ selected' = [selected EXCEPT ![r] = s]
             /\ row[r].create /\ pc'[r] \in {"create", "load"}
    BY <1>0, <1>3, <2>1 DEF FindSlot, TypeOK
  <2>3. QED BY <1>0, <2>2 DEF Best, TypeOK
<1>5. ASSUME pc'[r] = "done"
      PROVE  Remembers(r)'
  <2>1. pc[r] # "done" /\ UNCHANGED <<writer, version, seen>>
    BY <1>0, <1>1
  <2>2. QED BY <1>5, <2>1, EndRemembers
<1>6. ASSUME pc'[r] \in {"create", "load"}, row[r].create,
             Best(row[r], earliest[r], selected'[r], taken)
      PROVE  Remembers(r)'
  <2>1. Matches(r)' = Matches(r)
    BY <1>1 DEF Matches, Within
  <2>2. Taken(row[r], existing[r] # None)' = taken
    BY <1>1, <1>3 DEF Taken
  <2>3. FoundInv(r)'
    BY <1>0, <1>1, <1>6, <2>1 DEF Remembers, FoundInv
  <2>4. earliest[r] # 0 /\ selected'[r] \in earliest[r]..row[r].deadline
    BY <1>0, <1>6 DEF Best, Options
  <2>5. ChosenInv(r)'
    BY <1>1, <1>6, <2>2, <2>4 DEF ChosenInv, Best, Options
  <2>6. WrittenInv(r)'
    BY <1>0, <1>1, NothingWritten DEF Remembers, WrittenInv
  <2>7. QED BY <1>0, <1>1, <2>3, <2>5, <2>6 DEF Remembers
<1>7. QED BY <1>2, <1>4, <1>5, <1>6

\* Loading the block changes nothing of what was found and chosen.
LEMMA LoadEventRemembers ==
  ASSUME IndInv, NEW r \in Requests, LoadEvent(r)
  PROVE  \A x \in Requests : Remembers(x)'
<1>. USE DEF Goto, Answer
<1>0. /\ TypeOK /\ pc[r] = "load" /\ \A x \in Requests : Remembers(x)
  BY IndInvOf DEF LoadEvent
<1>1. /\ OthersStay(r)
      /\ UNCHANGED <<now, events, row, searched, earliest, existing, selected, writer,
                     version, seen>>
      /\ \A x \in Requests \ {r} : seen'[x] = seen[x]
      /\ pc'[r] \in {"save", "done"}
  BY <1>0 DEF LoadEvent, history, TypeOK, OthersStay
<1>2. \A x \in Requests \ {r} : Remembers(x)'
  BY <1>0, <1>1, QuietRemembers
<1>3. ASSUME pc'[r] = "done"
      PROVE  Remembers(r)'
  <2>1. pc[r] # "done" /\ UNCHANGED <<writer, version, seen>>
    BY <1>0, <1>1
  <2>2. QED BY <1>3, <2>1, EndRemembers
<1>4. ASSUME pc'[r] = "save"
      PROVE  Remembers(r)'
  <2>1. Matches(r)' = Matches(r)
    BY <1>1 DEF Matches, Within
  <2>2. Taken(row[r], existing[r] # None)' = Taken(row[r], existing[r] # None)
    BY <1>1 DEF Taken
  <2>3. FoundInv(r)'
    BY <1>0, <1>1, <1>4, <2>1 DEF Remembers, FoundInv
  <2>4. ChosenInv(r)'
    BY <1>0, <1>1, <1>4, <2>2 DEF Remembers, ChosenInv, Best, Options
  <2>5. WrittenInv(r)'
    BY <1>0, <1>1, NothingWritten DEF Remembers, WrittenInv
  <2>6. seen'[r] <= version'
    BY <1>0, <1>1 DEF Remembers
  <2>7. QED BY <2>3, <2>4, <2>5, <2>6 DEF Remembers
<1>5. QED BY <1>1, <1>2, <1>3, <1>4

\* A call that fails ends its handler.
LEMMA CallFailsRemembers ==
  ASSUME IndInv, NEW r \in Requests, CallFails(r)
  PROVE  \A x \in Requests : Remembers(x)'
<1>. USE DEF Answer
<1>0. /\ TypeOK /\ pc[r] # "done" /\ \A x \in Requests : Remembers(x)
  BY IndInvOf DEF CallFails
<1>1. /\ OthersStay(r) /\ UNCHANGED <<events, writer, version, seen>>
      /\ \A x \in Requests \ {r} : seen'[x] = seen[x]
      /\ pc'[r] = "done"
  BY <1>0 DEF CallFails, TypeOK, OthersStay
<1>2. \A x \in Requests \ {r} : Remembers(x)'
  BY <1>0, <1>1, QuietRemembers
<1>3. Remembers(r)'
  BY <1>0, <1>1, EndRemembers
<1>4. QED BY <1>2, <1>3

\* A write by r is a change that the other handlers have not made.
LEMMA WriteRemembers ==
  ASSUME IndInv, NEW r \in Requests, OthersStay(r), UNCHANGED seen,
         NEW e \in EventIds, NEW event, Writes(r, e, event)
  PROVE  \A x \in Requests \ {r} : Remembers(x)'
<1>. TAKE x \in Requests \ {r}
<1>1. /\ TypeOK /\ Remembers(x) /\ seen[x] \in Nat /\ version \in Nat
  BY IndInvOf
<1>2. /\ pc'[x] = pc[x] /\ row'[x] = row[x] /\ selected'[x] = selected[x]
      /\ earliest'[x] = earliest[x] /\ seen'[x] = seen[x] /\ version' = version + 1
  BY DEF OthersStay, Writes
<1>3. \A f \in EventIds : writer'[f] = x => writer[f] = x
  BY <1>1 DEF Writes, TypeOK
<1>4. QED BY <1>1, <1>2, <1>3, ChangeRemembers

\* What the handler that wrote has to remember: where its block is and that the
\* slot is the best of those its own block leaves.
LEMMA WriterRemembers ==
  ASSUME IndInv, NEW r \in Requests, pc[r] # "done", pc'[r] = "done",
         NEW e \in EventIds, NEW event, Writes(r, e, event),
         UNCHANGED <<row, earliest, selected, seen>>,
         row[r].task # None /\ version = seen[r] =>
           /\ event = [calendar |-> row[r].calendar, slot |-> selected[r],
                       marker |-> row[r].task]
           /\ row[r].create
           /\ earliest[r] # 0 /\ selected[r] \in earliest[r]..row[r].deadline
           /\ (\A f \in EventIds : events'[f] # None /\ events'[f].marker = row[r].task
                                     => f = e)
              => Best(row[r], earliest[r], selected[r], Taken(row[r], TRUE)')
  PROVE  Remembers(r)'
<1>0. TypeOK /\ Remembers(r) /\ seen[r] \in Nat /\ version \in Nat
  BY IndInvOf
<1>1. /\ row'[r] = row[r] /\ selected'[r] = selected[r] /\ seen'[r] = seen[r]
      /\ earliest'[r] = earliest[r] /\ version' = version + 1
  BY DEF Writes
<1>2. events'[e] = event
  BY <1>0 DEF Writes, TypeOK
<1>3. \A f \in EventIds : writer'[f] = r => f = e
  <2>1. \A f \in EventIds : writer[f] # r
    BY <1>0, NothingWritten DEF Remembers
  <2>2. QED BY <1>0, <2>1 DEF Writes, TypeOK
<1>4. seen[r] <= version
  BY <1>0 DEF Remembers
<1>5. FoundInv(r)' /\ ChosenInv(r)'
  BY DEF FoundInv, ChosenInv
<1>6. WrittenInv(r)'
  <2>1. ASSUME row[r].task # None, version + 1 = seen[r] + 1,
               \A f \in EventIds : events'[f] # None /\ events'[f].marker = row[r].task
                                     => f = e
        PROVE  Best(row[r], earliest[r], selected[r], Taken(row[r], TRUE))'
    <3>1. version = seen[r]
      BY <1>0, <2>1
    <3>2. Best(row[r], earliest[r], selected[r], Taken(row[r], TRUE)')
      BY <2>1, <3>1
    <3>3. Taken(row[r], TRUE)' = Taken(row[r], TRUE)'
      OBVIOUS
    <3>4. QED BY <1>1, <3>2 DEF Best, Options, Taken
  <2>2. ASSUME row[r].task # None, version + 1 = seen[r] + 1
        PROVE  /\ event = [calendar |-> row[r].calendar, slot |-> selected[r],
                           marker |-> row[r].task]
               /\ row[r].create
               /\ earliest[r] # 0 /\ selected[r] \in earliest[r]..row[r].deadline
    <3>1. version = seen[r]
      BY <1>0, <2>2
    <3>2. QED BY <2>2, <3>1
  <2>3. SUFFICES ASSUME NEW g \in EventIds, writer'[g] = r
                 PROVE  /\ pc'[r] = "done" /\ version' > seen'[r]
                        /\ \A f \in EventIds : writer'[f] = r => f = g
                        /\ row'[r].task # None /\ version' = seen'[r] + 1 =>
                             /\ events'[g] = [calendar |-> row'[r].calendar,
                                              slot |-> selected'[r],
                                              marker |-> row'[r].task]
                             /\ row'[r].create
                             /\ earliest'[r] # 0
                             /\ selected'[r] \in earliest'[r]..row'[r].deadline
                             /\ (\A f \in EventIds :
                                   events'[f] # None /\ events'[f].marker = row'[r].task
                                     => f = g)
                                => Best(row[r], earliest[r], selected[r], Taken(row[r], TRUE))'
    BY DEF WrittenInv
  <2>4. g = e
    BY <1>3, <2>3
  <2>5. pc'[r] = "done" /\ version' > seen'[r]
    BY <1>0, <1>1, <1>4
  <2>6. QED BY <1>1, <1>2, <1>3, <2>1, <2>2, <2>4, <2>5
<1>7. QED BY <1>0, <1>1, <1>4, <1>5, <1>6 DEF Remembers

\* A block is created where nothing of its task was, so the slots that others
\* take are the same before and after.
LEMMA CreateEventRemembers ==
  ASSUME IndInv, NEW r \in Requests, CreateEvent(r)
  PROVE  \A x \in Requests : Remembers(x)'
<1>. USE DEF Answer
<1>0. /\ TypeOK /\ HandlerInv(r) /\ Remembers(r) /\ pc[r] = "create"
      /\ existing[r] = None /\ events[r] = None /\ r \in EventIds
  BY IndInvOf DEF CreateEvent, HandlerInv, EventIds
<1>1. PICK event : event = [calendar |-> row[r].calendar, slot |-> selected[r],
                            marker |-> row[r].task]
  OBVIOUS
<1>2. /\ Writes(r, r, event) /\ pc' = [pc EXCEPT ![r] = "done"]
      /\ UNCHANGED <<now, row, searched, earliest, existing, selected, body, edited, before,
                     seen>>
  BY <1>1 DEF CreateEvent, Answered
<1>3. OthersStay(r) /\ pc'[r] = "done"
  BY <1>0, <1>2 DEF TypeOK, OthersStay
<1>4. \A x \in Requests \ {r} : Remembers(x)'
  BY <1>0, <1>2, <1>3, WriteRemembers
<1>5. ASSUME row[r].task # None, version = seen[r]
      PROVE  /\ row[r].create
             /\ earliest[r] # 0 /\ selected[r] \in earliest[r]..row[r].deadline
             /\ Best(row[r], earliest[r], selected[r], Taken(row[r], FALSE))
  BY <1>0, <1>5 DEF Remembers, ChosenInv
<1>6. ASSUME \A f \in EventIds : events'[f] # None /\ events'[f].marker = row[r].task
                                   => f = r
      PROVE  Taken(row[r], TRUE)' = Taken(row[r], FALSE)
  <2>1. /\ events'[r] = event /\ event.marker = row[r].task
        /\ \A f \in EventIds \ {r} : events'[f] = events[f]
        /\ row'[r] = row[r]
    BY <1>0, <1>1, <1>2 DEF Writes, TypeOK
  <2>2. \A f \in EventIds :
          (/\ events'[f] # None /\ events'[f].calendar \in row[r].busy
           /\ ~(events'[f].marker = row[r].task))
          <=> (events[f] # None /\ events[f].calendar \in row[r].busy)
    BY <1>0, <1>6, <2>1
  <2>3. \A f \in EventIds : events[f] # None => events'[f] = events[f]
    BY <1>0, <2>1
  <2>4. QED BY <2>1, <2>2, <2>3 DEF Taken
<1>7. Remembers(r)'
  <2>1. row'[r] = row[r] /\ UNCHANGED <<row, earliest, selected, seen>> /\ pc[r] # "done"
    BY <1>0, <1>2
  <2>2. ASSUME row[r].task # None, version = seen[r],
               \A f \in EventIds : events'[f] # None /\ events'[f].marker = row[r].task
                                     => f = r
        PROVE  Best(row[r], earliest[r], selected[r], Taken(row[r], TRUE)')
    BY <1>5, <1>6, <2>2
  <2>3. QED BY <1>0, <1>1, <1>2, <1>3, <1>5, <2>1, <2>2, WriterRemembers
<1>8. QED BY <1>4, <1>7

\* A block is moved that did not stand in its own way before and does not after.
LEMMA SaveEventRemembers ==
  ASSUME IndInv, NEW r \in Requests, SaveEvent(r)
  PROVE  \A x \in Requests : Remembers(x)'
<1>. USE DEF Answer
<1>0. /\ TypeOK /\ HandlerInv(r) /\ BodyInv(r) /\ Remembers(r) /\ pc[r] = "save"
      /\ existing[r] # None /\ existing[r] \in Matched \cup {None}
      /\ body[r] \in Events \cup {None} /\ \A x \in Requests : Remembers(x)
  BY IndInvOf DEF SaveEvent, HandlerInv, TypeOK
<1>1. PICK e : e = existing[r].id
  OBVIOUS
<1>2. e \in EventIds
  BY <1>0, <1>1 DEF Matched
<1>3. PICK event : event = [body[r] EXCEPT !.slot = selected[r]]
  OBVIOUS
<1>4. event = [calendar |-> row[r].calendar, slot |-> selected[r],
               marker |-> row[r].task]
  BY <1>0, <1>3 DEF BodyInv, Events
<1>5. /\ pc' = [pc EXCEPT ![r] = "done"]
      /\ \/ UNCHANGED <<events, writer, version>>
         \/ events[e] # None /\ Writes(r, e, event)
      /\ UNCHANGED <<now, row, searched, earliest, existing, selected, body, edited, before,
                     seen>>
  BY <1>1, <1>3 DEF SaveEvent, Answered
<1>6. OthersStay(r) /\ pc'[r] = "done" /\ pc[r] # "done"
  BY <1>0, <1>5 DEF TypeOK, OthersStay
<1>7. CASE UNCHANGED <<events, writer, version>>
  <2>1. \A x \in Requests \ {r} : seen'[x] = seen[x]
    BY <1>5
  <2>2. \A x \in Requests \ {r} : Remembers(x)'
    BY <1>0, <1>6, <1>7, <2>1, QuietRemembers
  <2>3. UNCHANGED <<writer, version, seen>>
    BY <1>5, <1>7
  <2>4. Remembers(r)'
    BY <1>6, <2>3, EndRemembers
  <2>5. QED BY <2>2, <2>4
<1>8. CASE events[e] # None /\ Writes(r, e, event)
  <2>1. \A x \in Requests \ {r} : Remembers(x)'
    BY <1>2, <1>5, <1>6, <1>8, WriteRemembers
  <2>2. ASSUME row[r].task # None, version = seen[r]
        PROVE  /\ row[r].create
               /\ earliest[r] # 0 /\ selected[r] \in earliest[r]..row[r].deadline
               /\ Best(row[r], earliest[r], selected[r], Taken(row[r], TRUE)')
    <3>1. /\ row[r].create /\ earliest[r] # 0 /\ selected[r] \in earliest[r]..row[r].deadline
          /\ Best(row[r], earliest[r], selected[r], Taken(row[r], TRUE))
      BY <1>0, <2>2 DEF Remembers, ChosenInv
    <3>2. events[e].marker = row[r].task
      BY <1>0, <1>1, <2>2 DEF Remembers, FoundInv, Matches
    <3>3. /\ events'[e] = event /\ event.marker = row[r].task
          /\ \A f \in EventIds \ {e} : events'[f] = events[f]
          /\ row'[r] = row[r]
      <4>1. event.marker = row[r].task
        BY <1>4
      <4>2. row' = row
        BY <1>5
      <4>3. QED BY <1>0, <1>2, <1>8, <4>1, <4>2 DEF Writes, TypeOK
    <3>4. Taken(row[r], TRUE)' = Taken(row[r], TRUE)
      <4>1. \A f \in EventIds :
              (/\ events'[f] # None /\ events'[f].calendar \in row[r].busy
               /\ ~(events'[f].marker = row[r].task))
              <=> (/\ events[f] # None /\ events[f].calendar \in row[r].busy
                   /\ ~(events[f].marker = row[r].task))
        BY <1>8, <3>2, <3>3
      <4>2. \A f \in EventIds : ~(events[f].marker = row[r].task) => events'[f] = events[f]
        BY <3>2, <3>3
      <4>3. QED BY <3>3, <4>1, <4>2 DEF Taken
    <3>5. QED BY <3>1, <3>4
  <2>3. UNCHANGED <<row, earliest, selected, seen>>
    BY <1>5
  <2>4. Remembers(r)'
    BY <1>2, <1>4, <1>6, <1>8, <2>2, <2>3, WriterRemembers
  <2>5. QED BY <2>1, <2>4
<1>9. QED BY <1>5, <1>7, <1>8

\* An edit by a user is a change no handler has made.
LEMMA EditRemembers ==
  ASSUME IndInv, NEW e \in EventIds, NEW event, Edit(e, event)
  PROVE  \A x \in Requests : Remembers(x)'
<1>. TAKE x \in Requests
<1>1. /\ Remembers(x) /\ seen[x] \in Nat /\ version \in Nat
  BY IndInvOf
<1>2. /\ UNCHANGED <<pc, row, earliest, selected, seen, writer>> /\ version' = version + 1
  BY DEF Edit, handlers
<1>3. QED BY <1>1, <1>2, ChangeRemembers

\* The calendars do not change by themselves.
LEMMA TickRemembers ==
  ASSUME IndInv, Tick
  PROVE  \A x \in Requests : Remembers(x)'
<1>. TAKE x \in Requests
<1>1. Remembers(x) /\ UNCHANGED <<events, handlers, history>>
  BY IndInvOf DEF Tick
<1>2. Matches(x)' = Matches(x)
  BY <1>1 DEF handlers, Matches, Within
<1>3. /\ Taken(row[x], existing[x] # None)' = Taken(row[x], existing[x] # None)
      /\ Taken(row[x], TRUE)' = Taken(row[x], TRUE)
  BY <1>1 DEF handlers, Taken
<1>4. QED BY <1>1, <1>2, <1>3
          DEF handlers, history, Remembers, FoundInv, ChosenInv, WrittenInv, Best, Options

\* Nothing was read, chosen or written yet.
LEMMA InitRemembers == Init => \A r \in Requests : Remembers(r)
BY SchedulerAssumption DEF Init, Remembers, FoundInv, ChosenInv, WrittenInv

\* Every step of handlers and users preserves the whole invariant.
LEMMA NextIndInv == IndInv /\ [Next]_vars => IndInv'
<1>. SUFFICES ASSUME IndInv, [Next]_vars PROVE IndInv'
  OBVIOUS
<1>0. PositionInv /\ \A r \in Requests : Remembers(r)
  BY IndInvOf DEF IndInv
<1>1. PositionInv'
  BY <1>0, NextPositionInv
<1>2. \A x \in Requests : Remembers(x)'
  <2>1. ASSUME NEW r \in Requests, Step(r)
        PROVE  \A x \in Requests : Remembers(x)'
    BY <2>1, BeginRemembers, FindTaskEventsRemembers, FindSlotRemembers,
       CreateEventRemembers, LoadEventRemembers, SaveEventRemembers,
       CallFailsRemembers DEF Step
  <2>2. ASSUME NEW e \in EventIds,
               \/ \E event \in AddedEvents : UserAdds(e, event)
               \/ UserDeletes(e)
               \/ \E s \in Slots : UserReschedules(e, s)
               \/ UserRemovesMarker(e)
        PROVE  \A x \in Requests : Remembers(x)'
    <3>1. \E event : Edit(e, event)
      BY <2>2 DEF UserAdds, UserDeletes, UserReschedules, UserRemovesMarker
    <3>2. QED BY <3>1, EditRemembers
  <2>3. CASE UNCHANGED vars
    BY <1>0, <2>3 DEF vars, handlers, history, Remembers, FoundInv, ChosenInv,
       WrittenInv, Matches, Within, Taken, Best, Options
  <2>4. QED BY <2>1, <2>2, <2>3, TickRemembers DEF Next
<1>3. QED BY <1>1, <1>2 DEF IndInv, Remembers

\* The whole invariant holds in every reachable state: besides what the
\* positions imply, what a handler would find and choose again as long as
\* nobody changed the calendars.
THEOREM IndInvHolds == Spec => []IndInv
<1>1. Init => IndInv
  BY InitPositionInv, InitRemembers DEF IndInv, Remembers
<1>2. QED BY <1>1, NextIndInv, PTL DEF Spec

\* What the step that ends a write does.
LEMMA BlockPut ==
  ASSUME PositionInv, [Next]_vars, NEW r \in Requests, NEW e \in EventIds, PutsBlock(r, e)
  PROVE  (CreateEvent(r) /\ e = r) \/ (SaveEvent(r) /\ e = existing[r].id)
<1>0. TypeOK
  BY DEF PositionInv
<1>1. ASSUME NEW x \in Requests, Step(x)
      PROVE  x = r
  <2>1. CASE x # r
    <3>1. pc'[r] = pc[r]
      BY <1>0, <1>1, <2>1 DEF Step, Begin, FindTaskEvents, FindSlot, CreateEvent,
         LoadEvent, SaveEvent, CallFails, GoOn, Goto, Answer, Answered, TypeOK
    <3>2. QED BY <3>1 DEF PutsBlock
  <2>2. QED BY <2>1
<1>2. ASSUME NEW f \in EventIds,
             \/ \E event \in AddedEvents : UserAdds(f, event)
             \/ UserDeletes(f)
             \/ \E s \in Slots : UserReschedules(f, s)
             \/ UserRemovesMarker(f)
      PROVE  FALSE
  <2>1. UNCHANGED pc
    BY <1>2 DEF UserAdds, UserDeletes, UserReschedules, UserRemovesMarker, Edit, handlers
  <2>2. QED BY <2>1 DEF PutsBlock
<1>3. ~UNCHANGED vars /\ ~Tick
  BY DEF vars, handlers, PutsBlock, Tick
<1>4. Step(r)
  BY <1>1, <1>2, <1>3 DEF Next
<1>5. CASE CreateEvent(r)
  BY <1>0, <1>5 DEF CreateEvent, Writes, PutsBlock, TypeOK
<1>6. CASE SaveEvent(r)
  BY <1>0, <1>6 DEF SaveEvent, Writes, PutsBlock, TypeOK
<1>7. QED
  BY <1>4, <1>5, <1>6 DEF Step, Begin, FindTaskEvents, FindSlot, LoadEvent,
     CallFails, PutsBlock

\* A second block of a task appears in a calendar only if handlers overlapped or
\* a user had a hand in it, for any number of handlers, edits and failures.
THEOREM AtMostOneBlockHolds == Spec => AtMostOneBlock
<1>1. ASSUME PositionInv, [Next]_vars, NEW r \in Requests, PutsBlock(r, r),
             NEW e \in EventIds \ edited, InSight(r, e)
      PROVE  Concurrent(r, e)
  <2>1. r \in EventIds
    BY DEF EventIds
  <2>2. HandlerInv(r) /\ ExistingInv(r) /\ ReadInv(r)
    BY <1>1 DEF PositionInv
  <2>3. CreateEvent(r) \/ (SaveEvent(r) /\ r = existing[r].id)
    BY <1>1, <2>1, BlockPut
  <2>4. CASE CreateEvent(r)
    BY <1>1, <2>2, <2>4 DEF CreateEvent, HandlerInv, ReadInv, PutsBlock
  <2>5. CASE SaveEvent(r) /\ r = existing[r].id
    BY <2>2, <2>5 DEF SaveEvent, HandlerInv, ExistingInv
  <2>6. QED BY <2>3, <2>4, <2>5
<1>2. PositionInv /\ [Next]_vars =>
        [\A r \in Requests : PutsBlock(r, r) =>
           \A e \in EventIds \ edited : InSight(r, e) => Concurrent(r, e)]_vars
  BY <1>1
<1>3. QED BY <1>2, PositionInvHolds, PTL DEF Spec, AtMostOneBlock

\* No block is put on something its handler could have seen, for any number of
\* handlers, edits and failures.
THEOREM NothingCollidesHolds == Spec => NothingCollides
<1>1. ASSUME PositionInv, [Next]_vars, NEW r \in Requests, NEW e \in EventIds,
             PutsBlock(r, e), NEW other \in EventIds \ (edited \cup {e}),
             InTheWay(r, other)
      PROVE  \/ Concurrent(r, other)
             \/ existing[r] # None /\ events[other].marker = row[r].task
  BY <1>1 DEF PositionInv, ReadInv, PutsBlock
<1>2. PositionInv /\ [Next]_vars =>
        [\A r \in Requests, e \in EventIds : PutsBlock(r, e) =>
           \A other \in EventIds \ (edited \cup {e}) : InTheWay(r, other) =>
             \/ Concurrent(r, other)
             \/ existing[r] # None /\ events[other].marker = row[r].task]_vars
  BY <1>1
<1>3. QED BY <1>2, PositionInvHolds, PTL DEF Spec, NothingCollides

\* Handlers write nothing but blocks of their own task, at the slot they chose,
\* in the calendar they were asked for.
THEOREM WritesOnlyItsTaskHolds == Spec => WritesOnlyItsTask
<1>1. ASSUME PositionInv, [Next]_vars, NEW r \in Requests, NEW e \in EventIds, PutsBlock(r, e)
      PROVE  /\ events'[e].marker = row[r].task
             /\ events'[e].calendar = row[r].calendar
             /\ events'[e].slot = selected[r]
  <2>1. TypeOK /\ BodyInv(r) /\ r \in EventIds
    BY <1>1 DEF PositionInv, EventIds
  <2>2. (CreateEvent(r) /\ e = r) \/ (SaveEvent(r) /\ e = existing[r].id)
    BY <1>1, BlockPut
  <2>3. CASE CreateEvent(r) /\ e = r
    <3>1. events'[e] = [calendar |-> row[r].calendar, slot |-> selected[r],
                        marker |-> row[r].task]
      BY <2>1, <2>3 DEF CreateEvent, Writes, TypeOK
    <3>2. QED BY <3>1
  <2>4. CASE SaveEvent(r) /\ e = existing[r].id
    <3>1. events'[e] = [body[r] EXCEPT !.slot = selected[r]]
      BY <1>1, <2>1, <2>4 DEF SaveEvent, Writes, TypeOK, PutsBlock
    <3>2. body[r] \in Events /\ body[r].marker = row[r].task
            /\ body[r].calendar = row[r].calendar
      BY <2>1, <2>4 DEF SaveEvent, BodyInv, TypeOK
    <3>3. QED BY <3>1, <3>2 DEF Events
  <2>5. QED BY <2>2, <2>3, <2>4
<1>2. PositionInv /\ [Next]_vars =>
        [\A r \in Requests, e \in EventIds : PutsBlock(r, e) =>
           /\ events'[e].marker = row[r].task
           /\ events'[e].calendar = row[r].calendar
           /\ events'[e].slot = selected[r]]_vars
  BY <1>1
<1>3. QED BY <1>2, PositionInvHolds, PTL DEF Spec, WritesOnlyItsTask


\* A handler that is looking for a slot goes on by FindSlot or by a failed call.
LEMMA LeavesBusy ==
  ASSUME IndInv, [Next]_vars, NEW r \in Requests, pc[r] = "busy", pc'[r] # "busy"
  PROVE  FindSlot(r) \/ CallFails(r)
<1>0. TypeOK
  BY DEF IndInv, PositionInv
<1>1. ASSUME NEW x \in Requests, Step(x)
      PROVE  x = r
  <2>1. ASSUME x # r PROVE pc'[r] = pc[r]
    BY <1>0, <1>1, <2>1 DEF Step, Begin, FindTaskEvents, FindSlot, CreateEvent,
       LoadEvent, SaveEvent, CallFails, GoOn, Goto, Answer, Answered, TypeOK
  <2>2. QED BY <2>1
<1>2. ASSUME NEW f \in EventIds,
             \/ \E event \in AddedEvents : UserAdds(f, event)
             \/ UserDeletes(f)
             \/ \E s \in Slots : UserReschedules(f, s)
             \/ UserRemovesMarker(f)
      PROVE  FALSE
  <2>1. UNCHANGED pc
    BY <1>2 DEF UserAdds, UserDeletes, UserReschedules, UserRemovesMarker, Edit, handlers
  <2>2. QED BY <2>1
<1>3. ~UNCHANGED vars /\ ~Tick
  BY DEF vars, handlers, Tick
<1>4. Step(r)
  BY <1>1, <1>2, <1>3 DEF Next
<1>5. QED
  BY <1>4 DEF Step, Begin, FindTaskEvents, CreateEvent, LoadEvent, SaveEvent

\* A search after the one write of q finds the block of q, where q chose to put
\* it, and leaves it out when it looks for a slot.
LEMMA RepeatFinds ==
  ASSUME IndInv, NEW r \in Requests, NEW q \in Requests, pc[r] = "busy",
         Exact(row[r]), Repeats(r, q)
  PROVE  /\ existing[r] # None /\ existing[r].slot = selected[q]
         /\ row[r].create /\ row[r] \in RequestRows /\ earliest[r] \in Slots
         /\ Best(row[r], earliest[r], selected[q], Taken(row[r], TRUE))
<1>0. /\ TypeOK /\ FoundInv(r) /\ WrittenInv(q) /\ BoundsInv(r) /\ BoundsInv(q)
      /\ row[r] = row[q] /\ row[q].task # None /\ row[r] \in RequestRows
      /\ version = seen[r] /\ version = seen[q] + 1
  <2>1. /\ TypeOK /\ FoundInv(r) /\ WrittenInv(q) /\ BoundsInv(r) /\ BoundsInv(q)
        /\ HandlerInv(r)
    BY IndInvOf DEF Remembers
  <2>2. row[r] # None /\ row[r].task # None
    BY <2>1 DEF HandlerInv
  <2>3. row[r] \in RequestRows
    BY <2>1, <2>2, SchedulerAssumption DEF TypeOK
  <2>4. QED BY <2>1, <2>2, <2>3 DEF Repeats
<1>1. PICK e \in EventIds : writer[e] = q
  BY DEF Repeats
<1>2. /\ \A f \in EventIds : writer[f] = q => f = e
      /\ events[e] = [calendar |-> row[q].calendar, slot |-> selected[q],
                      marker |-> row[q].task]
      /\ row[q].create
      /\ earliest[q] # 0 /\ selected[q] \in earliest[q]..row[q].deadline
      /\ (\A f \in EventIds : events[f] # None /\ events[f].marker = row[q].task => f = e)
           => Best(row[q], earliest[q], selected[q], Taken(row[q], TRUE))
  BY <1>0, <1>1 DEF WrittenInv
<1>3. \A f \in EventIds : events[f] # None /\ events[f].marker = row[q].task => f = e
  BY <1>2 DEF Repeats
<1>bounds. /\ row[r].earliest_iso \in Slots
      /\ searched[r] = row[r].earliest_iso
      /\ earliest[r] = row[r].earliest_iso /\ earliest[q] = row[r].earliest_iso
  <2>1. row[r].earliest_iso # None
    BY DEF Exact
  <2>2. row[r].earliest_iso \in Slots
    BY <1>0, <2>1, RowType
  <2>3. searched[r] = row[r].earliest_iso /\ earliest[r] = row[r].earliest_iso
    BY <1>0, <2>1 DEF BoundsInv
  <2>4. earliest[q] = row[r].earliest_iso
    BY <1>0, <1>2, <2>1 DEF BoundsInv
  <2>5. QED BY <2>2, <2>3, <2>4
<1>4. events[e] # None
  <2>1. selected[q] \in Slots
    BY <1>0, <1>2, <1>bounds, RowType, SchedulerAssumption DEF Slots
  <2>2. events[e] \in Events
    BY <1>0, <1>2, <2>1, RowType DEF Events
  <2>3. QED BY <2>2, EventType
<1>5. e \in Matches(r)
  <2>1. searched[r] = earliest[q] /\ row[r].deadline \in Int /\ earliest[q] \in Int
    BY <1>0, <1>bounds, RowType, SchedulerAssumption DEF Slots
  <2>2. Within(r, e, Reach)
    BY <1>0, <1>2, <2>1, SchedulerAssumption DEF Within
  <2>3. QED BY <1>0, <1>2, <1>4, <2>2 DEF Matches
<1>6. existing[r] # None /\ existing[r].id = e /\ events[e].slot = existing[r].slot
  BY <1>0, <1>5 DEF FoundInv
<1>7. Best(row[q], earliest[q], selected[q], Taken(row[q], TRUE))
  BY <1>2, <1>3
<1>8. Best(row[r], earliest[r], selected[q], Taken(row[r], TRUE))
  BY <1>0, <1>7, <1>bounds
<1>9. existing[r].slot = selected[q] /\ row[r].create
  BY <1>0, <1>2, <1>6
<1>10. QED BY <1>0, <1>6, <1>8, <1>bounds, <1>9

\* A request that names its earliest start in whole seconds, repeated to the same
\* deadline after a write that nothing interfered with and whose answer may have been
\* lost, writes nothing: for any number of handlers and slots, every order of preference
\* and any time gone by, it finds the block, does not let it stand in its own way, and
\* chooses the slot it is in.
THEOREM RepeatsAreUnchangedHolds == Spec => RepeatsAreUnchanged
<1>1. ASSUME IndInv, [Next]_vars, NEW r \in Requests, NEW q \in Requests,
             pc[r] = "busy", pc'[r] # "busy", Exact(row[r]), Repeats(r, q)
      PROVE  report'[r] \in {"UNCHANGED", "failed"}
  <2>0. TypeOK /\ HandlerInv(r)
    BY <1>1, IndInvOf
  <2>1. CASE CallFails(r)
    BY <2>0, <2>1 DEF CallFails, Answer, TypeOK
  <2>2. CASE FindSlot(r)
    <3>1. PICK taken : taken = Taken(row[r], TRUE)
      OBVIOUS
    <3>. DEFINE from == earliest[r]
                rank == row[r].rank[from]
                options == Options(row[r], from, taken)
    <3>2. /\ existing[r] # None /\ existing[r].slot = selected[q]
          /\ row[r].create /\ row[r] \in RequestRows /\ from \in Slots
          /\ Best(row[r], from, selected[q], taken)
      BY <1>1, <3>1, RepeatFinds
    <3>3. Taken(row[r], existing[r] # None) = taken
      BY <3>1, <3>2 DEF Taken
    <3>4. options # {} /\ from <= row[r].deadline
      BY <3>2, RowType, SchedulerAssumption DEF Best, Options, Slots
    <3>5. PICK s \in options :
            /\ \A o \in options : rank[s] <= rank[o]
            /\ \/ existing[r].slot = s /\ Answer(r, "UNCHANGED")
               \/ existing[r].slot # s
      <4>1. /\ ~(from > row[r].deadline) /\ row[r].deadline \in Int /\ from \in Int
        BY <3>2, <3>4, RowType, SchedulerAssumption DEF Slots
      <4>2. QED BY <1>1, <2>2, <3>2, <3>3, <3>4, <4>1 DEF FindSlot
    <3>6. s = selected[q]
      <4>1. s \in Slots /\ selected[q] \in Slots
        BY <3>2, <3>5, RowType, SchedulerAssumption DEF Best, Options, Slots
      <4>2. /\ rank[s] \in Nat /\ rank[selected[q]] \in Nat
            /\ rank[s] = rank[selected[q]] => s = selected[q]
        BY <3>2, <4>1 DEF RequestRows
      <4>3. rank[s] <= rank[selected[q]] /\ rank[selected[q]] <= rank[s]
        BY <3>2, <3>5 DEF Best
      <4>4. QED BY <4>2, <4>3
    <3>7. QED BY <2>0, <3>2, <3>5, <3>6 DEF Answer, TypeOK
  <2>3. QED BY <1>1, <2>1, <2>2, LeavesBusy
<1>2. IndInv /\ [Next]_vars =>
        [\A r, q \in Requests :
           pc[r] = "busy" /\ pc'[r] # "busy" /\ Exact(row[r]) /\ Repeats(r, q)
             => report'[r] \in {"UNCHANGED", "failed"}]_vars
  BY <1>1
<1>3. QED BY <1>2, IndInvHolds, PTL DEF Spec, RepeatsAreUnchanged
=============================================================================
