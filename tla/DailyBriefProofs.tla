--------------------------- MODULE DailyBriefProofs ---------------------------
(***************************************************************************)
(* What holds of every brief, whatever the calendars hold and whichever calls *)
(* fail.                                                                     *)
(***************************************************************************)
EXTENDS DailyBrief, FiniteSetTheorems, SequenceTheorems, TLAPS

-----------------------------------------------------------------------------
(* The calls.                                                               *)

\* The first numbers, and how many they are.
LEMMA Interval ==
  ASSUME NEW k \in Nat
  PROVE  IsFiniteSet(1..k) /\ Cardinality(1..k) = k
  <1>1. 1 \in Int /\ k \in Int
    OBVIOUS
  <1>2. IsFiniteSet(1..k) /\ Cardinality(1..k) = IF 1 > k THEN 0 ELSE k - 1 + 1
    BY <1>1, FS_Interval
  <1>3. (IF 1 > k THEN 0 ELSE k - 1 + 1) = k
    OBVIOUS
  <1> QED
    BY <1>2, <1>3

\* The events read are the ones of the day, each once, by their beginnings.
LEMMA OrderingsOf ==
  ASSUME NEW S, IsFiniteSet(S), S \subseteq Events, NEW s \in Orderings(S)
  PROVE  /\ s \in Seq(Events)
         /\ {s[n] : n \in DOMAIN s} = S
         /\ \A m, n \in DOMAIN s : m < n => s[m] # s[n] /\ s[m].start <= s[n].start
<1>1. Cardinality(S) \in Nat
  BY FS_CardinalityType
<1> DEFINE N == Cardinality(S)
<1>2. s \in [1..N -> S] /\ \A i, j \in 1..N : i < j => s[i] # s[j] /\ ~Before(s[j], s[i])
  BY DEF Orderings
<1>3. s \in Seq(Events)
  BY <1>1, <1>2
<1>4. \A e \in Events : e.start \in Int
  BY BriefAssumption
<1>5. \A m, n \in DOMAIN s : m < n => s[m] # s[n] /\ s[m].start <= s[n].start
  BY <1>1, <1>2, <1>4 DEF Before
<1>6. {s[n] : n \in 1..N} = S
  <2>1. IsFiniteSet(1..N) /\ Cardinality(1..N) = N
    BY <1>1, Interval
  <2>2. s \in Injection(1..N, S)
    <3>1. \A i, j \in 1..N : i # j => s[i] # s[j]
      BY <1>1, <1>2
    <3> QED
      BY <1>2, <3>1 DEF Injection, IsInjective
  <2>3. s \in Surjection(1..N, S)
    <3> HIDE DEF N
    <3> QED
      BY <2>1, <2>2, FS_Injection DEF N
  <2> QED
    BY <1>2, <2>3 DEF Surjection
<1> QED
  BY <1>2, <1>3, <1>5, <1>6


\* A scenario and the events of its day.
LEMMA ScenarioFacts ==
  ASSUME TypeOK
  PROVE  /\ scenario.now \in Int /\ scenario.travel \in {"off", "no home", "on"}
         /\ scenario.events \subseteq Events /\ scenario.tasks \subseteq Tasks
         /\ HeldToday \subseteq Events /\ IsFiniteSet(HeldToday)
<1>1. scenario \in ScenarioRows /\ IsFiniteSet(scenario.events)
  BY DEF TypeOK, Held
<1>2. scenario.events \subseteq Events /\ scenario.tasks \subseteq Tasks
  BY <1>1 DEF ScenarioRows
<1>3. HeldToday \in SUBSET scenario.events
  BY DEF HeldToday
<1> QED
  BY <1>1, <1>2, <1>3, FS_Subset DEF ScenarioRows

\* Events begin and end at a time, and the calls of Waze take some.
LEMMA EventFacts ==
  ASSUME TypeOK
  PROVE  /\ \A n \in DOMAIN events :
              events[n] \in Events /\ events[n].start \in Int /\ events[n].end \in Int
         /\ DOMAIN events = 1..Len(events) /\ Len(events) \in Nat
         /\ \A n \in DOMAIN events, minutes \in Minutes : LeaveBy(events[n], minutes) \in Int
<1>1. events \in Seq(Events)
  BY DEF TypeOK
<1>2. \A e \in Events : e.start \in Int /\ e.end \in Int
  BY BriefAssumption
<1>3. Minutes \subseteq Nat /\ TravelBuffer \in Nat
  BY BriefAssumption
<1>4. DOMAIN events = 1..Len(events) /\ Len(events) \in Nat /\ \A n \in DOMAIN events : events[n] \in Events
  BY <1>1
<1>5. \A n \in DOMAIN events, minutes \in Minutes : LeaveBy(events[n], minutes) \in Int
  <2> TAKE n \in DOMAIN events, minutes \in Minutes
  <2>1. events[n].start \in Int /\ minutes \in Nat
    BY <1>2, <1>3, <1>4
  <2> QED
    BY <1>3, <2>1 DEF LeaveBy
<1> QED
  BY <1>2, <1>4, <1>5

\* What a call leaves of failed and warnings.
LEMMA CallTypes ==
  ASSUME TypeOK, NEW code \in Codes, Succeeds \/ Fails(code)
  PROVE  failed' \subseteq Codes \X Nat /\ warnings' \in Seq(Codes)
<1>1. failed \subseteq Codes \X Nat /\ warnings \in Seq(Codes) /\ position \in Nat
  BY DEF TypeOK
<1>2. CASE Succeeds
  BY <1>1, <1>2 DEF Succeeds
<1>3. CASE Fails(code)
  BY <1>1, <1>3 DEF Fails
<1> QED
  BY <1>2, <1>3

-----------------------------------------------------------------------------
(* Types.                                                                   *)

\* The variables have their types at first.
LEMMA TypeInit ==
  Init => TypeOK
<1> SUFFICES ASSUME Init PROVE TypeOK
  OBVIOUS
<1>1. scenario \in ScenarioRows /\ Held(scenario)
  BY BriefAssumption DEF Init
<1> QED
  BY <1>1 DEF Init, TypeOK

\* Every step keeps the types.
LEMMA TypeStep ==
  TypeOK /\ [Next]_vars => TypeOK'
<1> SUFFICES ASSUME TypeOK, [Next]_vars PROVE TypeOK'
  OBVIOUS
<1> USE DEF Codes, ConflictTypes
<1>1. CASE ReadCalendar
  <2>1. failed' \subseteq Codes \X Nat /\ warnings' \in Seq(Codes)
    BY <1>1, CallTypes DEF ReadCalendar
  <2>2. events' \in Seq(Events)
    <3>1. CASE events' \in Orderings(HeldToday)
      BY <3>1, ScenarioFacts, OrderingsOf
    <3>2. CASE UNCHANGED events
      BY <3>2 DEF TypeOK
    <3> QED
      BY <1>1, <3>1, <3>2 DEF ReadCalendar, HeldToday
  <2> QED
    BY <1>1, <2>1, <2>2 DEF ReadCalendar, TypeOK
<1>2. CASE ReadTasks
  <2>1. failed' \subseteq Codes \X Nat /\ warnings' \in Seq(Codes)
    BY <1>2, CallTypes DEF ReadTasks
  <2>2. tasks' \subseteq Tasks
    BY <1>2, ScenarioFacts DEF ReadTasks, TypeOK
  <2> QED
    BY <1>2, <2>1, <2>2 DEF ReadTasks, TypeOK
<1>3. CASE WithoutTravel
  BY <1>3 DEF WithoutTravel, TypeOK
<1>4. CASE Estimate
  <2>1. failed' \subseteq Codes \X Nat /\ warnings' \in Seq(Codes)
    BY <1>4, CallTypes DEF Estimate
  <2>2. position \in DOMAIN events /\ position' \in Nat \ {0}
    BY <1>4, EventFacts DEF Estimate, AtEvent, ToNextEvent, TypeOK
  <2>3. travel' \in Seq(Estimates) /\ \A c \in conflicts' : c.type \in ConflictTypes
    <3>1. CASE UNCHANGED <<travel, conflicts>>
      BY <3>1 DEF TypeOK
    <3>2. ASSUME NEW minutes \in Minutes, Estimated(events[position], LeaveBy(events[position], minutes))
          PROVE  travel' \in Seq(Estimates) /\ \A c \in conflicts' : c.type \in ConflictTypes
      <4>1. [event |-> events[position], leaveBy |-> LeaveBy(events[position], minutes)] \in Estimates
        BY <2>2, EventFacts DEF Estimates
      <4> QED
        BY <3>2, <4>1 DEF Estimated, Conflict, TypeOK
    <3> QED
      BY <1>4, <3>1, <3>2 DEF Estimate
  <2> QED
    BY <1>4, <2>1, <2>2, <2>3 DEF Estimate, AtEvent, ToNextEvent, TypeOK
<1>5. CASE EstimatesEnd
  BY <1>5 DEF EstimatesEnd, TypeOK
<1>6. CASE Between
  <2>1. failed' \subseteq Codes \X Nat /\ warnings' \in Seq(Codes)
    BY <1>6, CallTypes DEF Between
  <2>2. \A c \in conflicts' : c.type \in ConflictTypes
    BY <1>6 DEF Between, Conflict, TypeOK
  <2> QED
    BY <1>6, <2>1, <2>2 DEF Between, ToNextEvent, TypeOK
<1>7. CASE BetweenEnds
  BY <1>7 DEF BetweenEnds, TypeOK
<1>8. CASE ReadWeather
  <2>1. failed' \subseteq Codes \X Nat /\ warnings' \in Seq(Codes)
    BY <1>8, CallTypes DEF ReadWeather
  <2> QED
    BY <1>8, <2>1 DEF ReadWeather, TypeOK
<1>9. CASE Answer
  BY <1>9 DEF Answer, TypeOK
<1>10. CASE Project
  BY <1>10 DEF Project, TypeOK
<1>11. CASE UNCHANGED vars
  BY <1>11 DEF vars, TypeOK
<1> QED
  BY <1>1, <1>2, <1>3, <1>4, <1>5, <1>6, <1>7, <1>8, <1>9, <1>10, <1>11 DEF Next


-----------------------------------------------------------------------------
(* Failed calls and warnings.                                               *)

\* Failures are not forgotten, and the scenario stays what it is.
LEMMA FailuresStay ==
  ASSUME [Next]_vars
  PROVE  failed \subseteq failed' /\ scenario' = scenario
  BY DEF Next, vars, ReadCalendar, ReadTasks, WithoutTravel, Estimate, EstimatesEnd, Between,
         BetweenEnds, ReadWeather, Answer, Project, Succeeds, Fails

\* A warning more for a failure more.
LEMMA WarningAdded ==
  ASSUME TypeOK, IsFiniteSet(failed), NEW c \in Codes, Fails(c), <<c, position>> \notin failed,
         NEW code \in Codes, WarnedOf(code)
  PROVE  WarnedOf(code)'
<1>1. /\ warnings \in Seq(Codes) /\ warnings' = Append(warnings, c)
      /\ failed' = failed \cup {<<c, position>>}
  BY DEF TypeOK, Fails
<1> DEFINE n == Len(warnings) + 1
<1>2. IsFiniteSet(WarningsFor(code)) /\ n \notin WarningsFor(code)
  <2>1. IsFiniteSet(1..Len(warnings))
    <3>1. Len(warnings) \in Nat
      BY <1>1
    <3> QED
      BY <3>1, Interval
  <2>2. WarningsFor(code) \in SUBSET (1..Len(warnings))
    BY <1>1 DEF WarningsFor
  <2> QED
    BY <1>1, <2>1, <2>2, FS_Subset
<1>3. IsFiniteSet(FailuresOf(code)) /\ <<c, position>> \notin FailuresOf(code)
  <2>1. FailuresOf(code) \in SUBSET failed
    BY DEF FailuresOf
  <2> QED
    BY <2>1, FS_Subset
<1>4. CASE code = c
  <2>1. WarningsFor(code)' = WarningsFor(code) \cup {n}
    BY <1>1, <1>4 DEF WarningsFor
  <2>2. FailuresOf(code)' = FailuresOf(code) \cup {<<c, position>>}
    BY <1>1, <1>4 DEF FailuresOf
  <2>3. Cardinality(WarningsFor(code)') = Cardinality(WarningsFor(code)) + 1
    BY <1>2, <2>1, FS_AddElement
  <2>4. Cardinality(FailuresOf(code)') = Cardinality(FailuresOf(code)) + 1
    BY <1>3, <2>2, FS_AddElement
  <2> QED
    BY <2>3, <2>4 DEF WarnedOf
<1>5. CASE code # c
  <2>1. WarningsFor(code)' = WarningsFor(code)
    BY <1>1, <1>5 DEF WarningsFor
  <2>2. FailuresOf(code)' = FailuresOf(code)
    BY <1>1, <1>5 DEF FailuresOf
  <2> QED
    BY <2>1, <2>2 DEF WarnedOf
<1> QED
  BY <1>4, <1>5

\* A call that is not made twice keeps the count.
LEMMA CallCounts ==
  ASSUME TypeOK, IsFiniteSet(failed), NEW c \in Codes, Succeeds \/ Fails(c),
         <<c, position>> \notin failed
  PROVE  /\ IsFiniteSet(failed')
         /\ \A code \in Codes : WarnedOf(code) => WarnedOf(code)'
         /\ \A f \in failed' : f \in failed \/ f = <<c, position>>
<1>1. CASE Succeeds
  BY <1>1 DEF Succeeds, WarnedOf, WarningsFor, FailuresOf
<1>2. CASE Fails(c)
  <2>1. failed' = failed \cup {<<c, position>>}
    BY <1>2 DEF Fails
  <2>2. IsFiniteSet(failed')
    BY <2>1, FS_AddElement
  <2> QED
    BY <1>2, <2>1, <2>2, WarningAdded
<1> QED
  BY <1>1, <1>2

FailuresInv ==
  /\ IsFiniteSet(failed) /\ \A f \in failed : FailedOnce(f)
  /\ \A code \in Codes \ {"TRAVEL_NOT_CONFIGURED"} : WarnedOf(code)

\* At first nothing has failed and no warning is given.
LEMMA FailuresInit ==
  Init => FailuresInv
<1> SUFFICES ASSUME Init PROVE FailuresInv
  OBVIOUS
<1>1. failed = {} /\ warnings = <<>>
  BY DEF Init
<1>2. \A code : WarningsFor(code) = {} /\ FailuresOf(code) = {}
  BY <1>1 DEF WarningsFor, FailuresOf
<1> QED
  BY <1>1, <1>2, FS_EmptySet DEF FailuresInv, WarnedOf

\* Every step keeps the warnings and the failed calls in agreement.
LEMMA FailuresStep ==
  ASSUME TypeOK, FailuresInv, [Next]_vars
  PROVE  FailuresInv'
<1>0. position \in Nat /\ (\A f \in failed : FailedOnce(f) /\ f[2] \in Nat) /\ IsFiniteSet(failed)
  BY DEF TypeOK, FailuresInv
<1> USE DEF Codes
<1>1. CASE ReadCalendar
  <2>1. pc = "calendar" /\ pc' = "tasks" /\ position' = position
    BY <1>1 DEF ReadCalendar
  <2>2. <<"CALENDAR_UNAVAILABLE", position>> \notin failed
    BY <1>0, <2>1 DEF FailedOnce
  <2>3. Succeeds \/ Fails("CALENDAR_UNAVAILABLE")
    BY <1>1 DEF ReadCalendar
  <2>4. \A f \in failed' : FailedOnce(f)'
    BY <1>0, <2>1, <2>2, <2>3, CallCounts DEF FailedOnce, Passed
  <2> QED
    BY <1>0, <2>2, <2>3, <2>4, CallCounts DEF FailuresInv
<1>2. CASE ReadTasks
  <2>1. pc = "tasks" /\ pc' = "travel" /\ position' = position
    BY <1>2 DEF ReadTasks
  <2>2. <<"VIKUNJA_UNAVAILABLE", position>> \notin failed
    BY <1>0, <2>1 DEF FailedOnce
  <2>3. Succeeds \/ Fails("VIKUNJA_UNAVAILABLE")
    BY <1>2 DEF ReadTasks
  <2>4. \A f \in failed' : FailedOnce(f)'
    BY <1>0, <2>1, <2>2, <2>3, CallCounts DEF FailedOnce, Passed
  <2> QED
    BY <1>0, <2>2, <2>3, <2>4, CallCounts DEF FailuresInv
<1>3. CASE WithoutTravel
  <2>1. pc = "travel" /\ pc' = "weather" /\ failed' = failed
        /\ (warnings' = warnings \/ warnings' = Append(warnings, "TRAVEL_NOT_CONFIGURED"))
    BY <1>3 DEF WithoutTravel
  <2>2. \A f \in failed' : FailedOnce(f)'
    BY <1>0, <2>1 DEF FailedOnce, Passed
  <2>3. \A code \in Codes \ {"TRAVEL_NOT_CONFIGURED"} : WarningsFor(code)' = WarningsFor(code)
    <3>1. warnings \in Seq(Codes)
      BY DEF TypeOK
    <3> QED
      BY <2>1, <3>1 DEF WarningsFor
  <2> QED
    BY <1>0, <2>1, <2>2, <2>3 DEF FailuresInv, WarnedOf, FailuresOf
<1>4. CASE Estimate
  <2>1. pc = "travel" /\ pc' = "travel" /\ position' = position + 1
    BY <1>4 DEF Estimate, AtEvent, ToNextEvent
  <2>2. <<"TRAVEL_ESTIMATE_FAILED", position>> \notin failed
    BY <1>0, <2>1 DEF FailedOnce, Passed
  <2>3. Succeeds \/ Fails("TRAVEL_ESTIMATE_FAILED")
    BY <1>4 DEF Estimate
  <2>4. \A f \in failed' : FailedOnce(f)'
    BY <1>0, <2>1, <2>2, <2>3, CallCounts DEF FailedOnce, Passed
  <2> QED
    BY <1>0, <2>2, <2>3, <2>4, CallCounts DEF FailuresInv
<1>5. CASE EstimatesEnd
  <2>1. pc = "travel" /\ pc' = "between" /\ position' = 1 /\ failed' = failed /\ warnings' = warnings
    BY <1>5 DEF EstimatesEnd
  <2>2. \A f \in failed' : FailedOnce(f)'
    BY <1>0, <2>1 DEF FailedOnce, Passed
  <2> QED
    BY <1>0, <2>1, <2>2 DEF FailuresInv, WarnedOf, WarningsFor, FailuresOf
<1>6. CASE Between
  <2>1. pc = "between" /\ pc' = "between" /\ position' = position + 1
    BY <1>6 DEF Between, ToNextEvent
  <2>2. <<"SEQUENTIAL_TRAVEL_FAILED", position>> \notin failed
    BY <1>0, <2>1 DEF FailedOnce
  <2>3. Succeeds \/ Fails("SEQUENTIAL_TRAVEL_FAILED")
    BY <1>6 DEF Between
  <2>4. \A f \in failed' : FailedOnce(f)'
    BY <1>0, <2>1, <2>2, <2>3, CallCounts DEF FailedOnce, Passed
  <2> QED
    BY <1>0, <2>2, <2>3, <2>4, CallCounts DEF FailuresInv
<1>7. CASE BetweenEnds
  <2>1. pc = "between" /\ pc' = "weather" /\ failed' = failed /\ warnings' = warnings
    BY <1>7 DEF BetweenEnds
  <2>2. \A f \in failed' : FailedOnce(f)'
    BY <1>0, <2>1 DEF FailedOnce, Passed
  <2> QED
    BY <1>0, <2>1, <2>2 DEF FailuresInv, WarnedOf, WarningsFor, FailuresOf
<1>8. CASE ReadWeather
  <2>1. pc = "weather" /\ pc' = "answer" /\ position' = position
    BY <1>8 DEF ReadWeather
  <2>2. <<"WEATHER_UNAVAILABLE", position>> \notin failed
    BY <1>0, <2>1 DEF FailedOnce
  <2>3. Succeeds \/ Fails("WEATHER_UNAVAILABLE")
    BY <1>8 DEF ReadWeather
  <2>4. \A f \in failed' : FailedOnce(f)'
    BY <1>0, <2>1, <2>2, <2>3, CallCounts DEF FailedOnce, Passed
  <2> QED
    BY <1>0, <2>2, <2>3, <2>4, CallCounts DEF FailuresInv
<1>9. CASE Answer \/ Project \/ UNCHANGED vars
  <2>1. failed' = failed /\ warnings' = warnings /\ position' = position
        /\ (pc' = pc \/ (pc = "answer" /\ pc' = "done"))
    BY <1>9 DEF Answer, Project, vars
  <2>2. \A f \in failed' : FailedOnce(f)'
    BY <1>0, <2>1 DEF FailedOnce, Passed
  <2> QED
    BY <1>0, <2>1, <2>2 DEF FailuresInv, WarnedOf, WarningsFor, FailuresOf
<1> QED
  BY <1>1, <1>2, <1>3, <1>4, <1>5, <1>6, <1>7, <1>8, <1>9 DEF Next


-----------------------------------------------------------------------------
(* What was read.                                                           *)

\* Every step keeps what was read as it was read.
LEMMA ReadStep ==
  ASSUME TypeOK, AsRead, [Next]_vars
  PROVE  AsRead'
<1>1. scenario' = scenario /\ HeldToday' = HeldToday
  BY FailuresStay DEF HeldToday, Target, Today
<1>2. \A code : Failed(code) => Failed(code)'
  BY FailuresStay DEF Failed
<1>3. CASE ReadCalendar
  <2>1. pc' = "tasks" /\ pc = "calendar"
    BY <1>3 DEF ReadCalendar
  <2>2. CASE events' \in Orderings(HeldToday)
    <3>1. {events'[n] : n \in DOMAIN events'} = HeldToday
      BY <2>2, ScenarioFacts, OrderingsOf
    <3>2. \A m, n \in DOMAIN events' : m < n => events'[m] # events'[n] /\ events'[m].start <= events'[n].start
      BY <2>2, ScenarioFacts, OrderingsOf
    <3> QED
      BY <1>1, <2>1, <3>1, <3>2 DEF AsRead
  <2>3. CASE Fails("CALENDAR_UNAVAILABLE") /\ UNCHANGED events
    <3>1. <<"CALENDAR_UNAVAILABLE", position>> \in failed'
      BY <2>3 DEF Fails
    <3>2. Failed("CALENDAR_UNAVAILABLE")'
      BY <3>1 DEF Failed
    <3> QED
      BY <1>1, <2>1, <2>3, <3>2 DEF AsRead
  <2> QED
    BY <1>3, <2>2, <2>3 DEF ReadCalendar, HeldToday
<1>4. CASE ReadTasks
  <2>1. pc' = "travel" /\ pc = "tasks" /\ events' = events
    BY <1>4 DEF ReadTasks
  <2>2. Failed("VIKUNJA_UNAVAILABLE")' \/ tasks' = scenario'.tasks
    <3>1. CASE Fails("VIKUNJA_UNAVAILABLE")
      <4>1. <<"VIKUNJA_UNAVAILABLE", position>> \in failed'
        BY <3>1 DEF Fails
      <4> QED
        BY <4>1 DEF Failed
    <3> QED
      BY <1>1, <1>4, <3>1 DEF ReadTasks
  <2> QED
    BY <1>1, <1>2, <2>1, <2>2 DEF AsRead
<1>5. CASE ~ReadCalendar /\ ~ReadTasks
  <2>1. events' = events /\ tasks' = tasks
    BY <1>5 DEF Next, vars, WithoutTravel, Estimate, EstimatesEnd, Between, BetweenEnds,
                ReadWeather, Answer, Project
  <2>2. pc' = pc \/ (pc \notin {"calendar", "tasks"} /\ pc' \notin {"calendar", "tasks"})
    BY <1>5 DEF Next, vars, WithoutTravel, Estimate, EstimatesEnd, Between, BetweenEnds,
                ReadWeather, Answer, Project, AtEvent, ToNextEvent
  <2> QED
    BY <1>1, <1>2, <2>1, <2>2 DEF AsRead
<1> QED
  BY <1>3, <1>4, <1>5

-----------------------------------------------------------------------------
(* The loop over the places.                                                *)

\* Estimates are counted as before when neither they nor the events change.
LEMMA SameEstimates ==
  ASSUME travel' = travel, events' = events
  PROVE  \A n : HasEstimate(n)' <=> HasEstimate(n)
  BY DEF HasEstimate

\* A call that is no travel estimate leaves the failed estimates as they are.
LEMMA OtherFailures ==
  ASSUME NEW c, c # "TRAVEL_ESTIMATE_FAILED", Succeeds \/ Fails(c)
  PROVE  \A n : <<"TRAVEL_ESTIMATE_FAILED", n>> \in failed' <=>
                <<"TRAVEL_ESTIMATE_FAILED", n>> \in failed
  BY DEF Succeeds, Fails

\* A step that makes no estimate and passes no further event but all that are left.
LEMMA TravelKept ==
  ASSUME TravelSoFar, travel' = travel, events' = events, scenario' = scenario,
         \A n : <<"TRAVEL_ESTIMATE_FAILED", n>> \in failed' <=>
                <<"TRAVEL_ESTIMATE_FAILED", n>> \in failed,
         pc \notin {"calendar", "tasks"}, pc' \notin {"calendar", "tasks"},
         \A n \in DOMAIN events : Passed(n)' /\ scenario.travel = "on" => Passed(n),
         \A n \in DOMAIN events : Passed(n) => Passed(n)'
  PROVE  TravelSoFar'
<1>1. \A n : HasEstimate(n)' <=> HasEstimate(n)
  BY SameEstimates
<1> QED
  BY <1>1 DEF TravelSoFar

\* Every step keeps the estimates of the events passed so far.
LEMMA TravelStep ==
  ASSUME TypeOK, AsRead, FailuresInv, TravelSoFar, [Next]_vars
  PROVE  TravelSoFar'
<1>0. position \in Nat /\ scenario' = scenario /\ DOMAIN events = 1..Len(events) /\ Len(events) \in Nat
  BY FailuresStay, EventFacts DEF TypeOK
<1>1. CASE ReadCalendar
  <2>1. pc' = "tasks" /\ position' = 1 /\ travel' = <<>>
    BY <1>1 DEF ReadCalendar, TravelSoFar
  <2> QED
    BY <2>1 DEF TravelSoFar, HasEstimate
<1>2. CASE ReadTasks
  <2>1. pc' = "travel" /\ position' = 1 /\ travel' = <<>> /\ events' = events
    BY <1>2 DEF ReadTasks, TravelSoFar
  <2>2. \A n \in DOMAIN events' : ~Passed(n)'
    BY <1>0, <2>1 DEF Passed
  <2> QED
    BY <2>1, <2>2 DEF TravelSoFar, HasEstimate
<1>3. CASE WithoutTravel
  <2>1. /\ pc = "travel" /\ pc' = "weather" /\ scenario.travel # "on"
        /\ UNCHANGED <<travel, events, failed>>
    BY <1>3 DEF WithoutTravel
  <2>2. \A n : Passed(n)'
    BY <2>1 DEF Passed
  <2> QED
    BY <1>0, <2>1, <2>2, TravelKept
<1>4. CASE Estimate
  <2> DEFINE e == events[position]
  <2>1. /\ pc = "travel" /\ pc' = "travel" /\ position' = position + 1 /\ events' = events
        /\ scenario.travel = "on" /\ position \in DOMAIN events
    BY <1>0, <1>4 DEF Estimate, AtEvent, ToNextEvent, TypeOK
  <2>p. PICK p \in DOMAIN events : p = position
    BY <2>1
  <2>2. \A n \in DOMAIN events : Passed(n)' <=> Passed(n) \/ n = p
    BY <1>0, <2>1, <2>p DEF Passed
  <2>3. ~HasEstimate(p) /\ <<"TRAVEL_ESTIMATE_FAILED", p>> \notin failed
    BY <1>0, <2>1, <2>p DEF TravelSoFar, FailuresInv, FailedOnce, Passed
  <2>4. \A n \in DOMAIN events : n # p => events[n] # e
    BY <1>0, <2>1, <2>p DEF AsRead
  <2>5. \A n \in DOMAIN events : n # p =>
          (HasEstimate(n)' <=> HasEstimate(n))
          /\ (<<"TRAVEL_ESTIMATE_FAILED", n>> \in failed' <=> <<"TRAVEL_ESTIMATE_FAILED", n>> \in failed)
    <3>1. CASE UNCHANGED travel
      BY <1>4, <2>1, <2>p, <3>1, SameEstimates DEF Estimate, Succeeds, Fails
    <3>2. ASSUME NEW leaveBy, travel' = Append(travel, [event |-> e, leaveBy |-> leaveBy]), Succeeds
          PROVE  \A n \in DOMAIN events : n # p =>
                   (HasEstimate(n)' <=> HasEstimate(n))
                   /\ (<<"TRAVEL_ESTIMATE_FAILED", n>> \in failed' <=> <<"TRAVEL_ESTIMATE_FAILED", n>> \in failed)
      <4>1. travel \in Seq(Estimates)
        BY DEF TypeOK
      <4>2. /\ DOMAIN travel' = DOMAIN travel \cup {Len(travel) + 1}
            /\ \A k \in DOMAIN travel : travel'[k] = travel[k]
            /\ travel'[Len(travel) + 1].event = e
        BY <3>2, <4>1
      <4> QED
        BY <2>1, <2>p, <2>4, <3>2, <4>2 DEF HasEstimate, Succeeds
    <3> QED
      BY <1>4, <3>1, <3>2 DEF Estimate, Estimated
  <2>6. /\ e.location # None =>
             (<<"TRAVEL_ESTIMATE_FAILED", p>> \notin failed' <=> HasEstimate(p)')
        /\ \A k \in DOMAIN travel' : \E n \in DOMAIN events : travel'[k].event = events[n]
    <3>1. CASE e.location = None /\ UNCHANGED travel
      BY <3>1 DEF TravelSoFar
    <3>2. CASE Fails("TRAVEL_ESTIMATE_FAILED") /\ UNCHANGED travel
      <4>1. <<"TRAVEL_ESTIMATE_FAILED", p>> \in failed'
        BY <2>p, <3>2 DEF Fails
      <4>2. ~HasEstimate(p)'
        BY <2>1, <2>p, <2>3, <3>2 DEF HasEstimate
      <4> QED
        BY <3>2, <4>1, <4>2 DEF TravelSoFar
    <3>3. ASSUME NEW leaveBy, travel' = Append(travel, [event |-> e, leaveBy |-> leaveBy]), Succeeds
          PROVE  /\ (<<"TRAVEL_ESTIMATE_FAILED", p>> \notin failed' <=> HasEstimate(p)')
                 /\ \A k \in DOMAIN travel' : \E n \in DOMAIN events : travel'[k].event = events[n]
      <4>1. travel \in Seq(Estimates)
        BY DEF TypeOK
      <4>2. /\ DOMAIN travel' = DOMAIN travel \cup {Len(travel) + 1}
            /\ \A k \in DOMAIN travel : travel'[k] = travel[k]
            /\ travel'[Len(travel) + 1].event = e
        BY <3>3, <4>1
      <4>3. HasEstimate(p)'
        BY <2>1, <2>p, <4>2 DEF HasEstimate
      <4>4. <<"TRAVEL_ESTIMATE_FAILED", p>> \notin failed'
        BY <2>3, <3>3 DEF Succeeds
      <4>5. \A k \in DOMAIN travel' : \E n \in DOMAIN events : travel'[k].event = events[n]
        BY <2>1, <2>p, <4>2 DEF TravelSoFar
      <4> QED
        BY <4>3, <4>4, <4>5
    <3> QED
      BY <1>4, <3>1, <3>2, <3>3 DEF Estimate, Estimated
  <2>7. \A n \in DOMAIN events : HasEstimate(n)' => Passed(n)'
    BY <2>2, <2>5 DEF TravelSoFar
  <2>8. \A n \in DOMAIN events : events[n].location # None /\ Passed(n)' =>
          (<<"TRAVEL_ESTIMATE_FAILED", n>> \notin failed' <=> HasEstimate(n)')
    <3> TAKE n \in DOMAIN events
    <3>1. CASE n = p
      BY <2>6, <2>p, <3>1
    <3>2. CASE n # p
      BY <2>1, <2>p, <2>2, <2>5, <3>2 DEF TravelSoFar
    <3> QED
      BY <3>1, <3>2
  <2> QED
    BY <2>1, <2>p, <2>6, <2>7, <2>8 DEF TravelSoFar
<1>5. CASE EstimatesEnd
  <2>1. /\ pc = "travel" /\ pc' = "between" /\ position > Len(events)
        /\ UNCHANGED <<travel, events, failed>>
    BY <1>5 DEF EstimatesEnd
  <2>2. \A n \in DOMAIN events : Passed(n) /\ Passed(n)'
    BY <1>0, <2>1 DEF Passed
  <2> QED
    BY <1>0, <2>1, <2>2, TravelKept
<1>6. CASE Between
  <2>1. /\ pc = "between" /\ pc' = "between" /\ UNCHANGED <<travel, events>>
        /\ Succeeds \/ Fails("SEQUENTIAL_TRAVEL_FAILED")
    BY <1>6 DEF Between, ToNextEvent
  <2>2. \A n : Passed(n) /\ Passed(n)'
    BY <2>1 DEF Passed
  <2> QED
    BY <1>0, <2>1, <2>2, TravelKept, OtherFailures
<1>7. CASE BetweenEnds
  <2>1. pc = "between" /\ pc' = "weather" /\ UNCHANGED <<travel, events, failed>>
    BY <1>7 DEF BetweenEnds
  <2>2. \A n : Passed(n) /\ Passed(n)'
    BY <2>1 DEF Passed
  <2> QED
    BY <1>0, <2>1, <2>2, TravelKept
<1>8. CASE ReadWeather
  <2>1. /\ pc = "weather" /\ pc' = "answer" /\ UNCHANGED <<travel, events>>
        /\ Succeeds \/ Fails("WEATHER_UNAVAILABLE")
    BY <1>8 DEF ReadWeather
  <2>2. \A n : Passed(n) /\ Passed(n)'
    BY <2>1 DEF Passed
  <2> QED
    BY <1>0, <2>1, <2>2, TravelKept, OtherFailures
<1>9. CASE Answer
  <2>1. pc = "answer" /\ pc' = "done" /\ UNCHANGED <<travel, events, failed>>
    BY <1>9 DEF Answer
  <2>2. \A n : Passed(n) /\ Passed(n)'
    BY <2>1 DEF Passed
  <2> QED
    BY <1>0, <2>1, <2>2, TravelKept
<1>10. CASE Project \/ UNCHANGED vars
  <2>1. UNCHANGED <<pc, position, scenario, travel, events, failed>>
    BY <1>10 DEF Project, vars
  <2> QED
    BY <2>1 DEF TravelSoFar, HasEstimate, Passed
<1> QED
  BY <1>1, <1>2, <1>3, <1>4, <1>5, <1>6, <1>7, <1>8, <1>9, <1>10 DEF Next


-----------------------------------------------------------------------------
(* The answer.                                                              *)

\* At first there is no answer to tell anything.
LEMMA TellsInit ==
  Init => BriefTells
  BY DEF Init, BriefTells

\* Every step keeps what the answer tells.
LEMMA TellsStep ==
  ASSUME TypeOK, FailuresInv, BriefTells, [Next]_vars
  PROVE  BriefTells'
<1>0. scenario' = scenario /\ \A code : Failed(code) => Failed(code)'
  BY FailuresStay DEF Failed
<1>1. CASE Estimate \/ Between
  <2>1. /\ pc' \notin {"answer", "done"} /\ pc \notin {"answer", "done"} /\ weather' = weather
    BY <1>1 DEF Estimate, AtEvent, Between, ToNextEvent
  <2>2. \A c \in conflicts' : c.type \in {"LEAVE_BY_PASSED", "INSUFFICIENT_TRAVEL_TIME"}
    <3>1. CASE Estimate
      <4>1. ASSUME NEW minutes, Estimated(events[position], LeaveBy(events[position], minutes))
            PROVE  \A c \in conflicts' : c.type \in {"LEAVE_BY_PASSED", "INSUFFICIENT_TRAVEL_TIME"}
        <5>1. Conflict("LEAVE_BY_PASSED", {events[position].id}).type = "LEAVE_BY_PASSED"
          BY DEF Conflict
        <5>2. \A c \in conflicts' : c \in conflicts \/ c = Conflict("LEAVE_BY_PASSED", {events[position].id})
          BY <4>1 DEF Estimated
        <5> QED
          BY <5>1, <5>2 DEF BriefTells
      <4>2. UNCHANGED conflicts \/ \E minutes \in Minutes :
              Estimated(events[position], LeaveBy(events[position], minutes))
        BY <3>1 DEF Estimate
      <4>3. CASE UNCHANGED conflicts
        BY <4>3 DEF BriefTells
      <4> QED
        BY <4>1, <4>2, <4>3
    <3>2. CASE Between
      BY <3>2 DEF Between, Conflict, BriefTells
    <3> QED
      BY <1>1, <3>1, <3>2
  <2> QED
    BY <2>1, <2>2 DEF BriefTells
<1>2. CASE ReadWeather
  <2>1. pc = "weather" /\ pc' = "answer" /\ conflicts' = conflicts /\ weather = None
    BY <1>2 DEF ReadWeather, BriefTells
  <2>2. scenario.weather => (weather' = None <=> Failed("WEATHER_UNAVAILABLE")')
    <3>1. ~Failed("WEATHER_UNAVAILABLE")
      BY <2>1 DEF Failed, FailuresInv, FailedOnce
    <3>2. CASE Succeeds /\ scenario.weather
      <4>1. weather' = "conditions"
        BY <1>2, <3>2 DEF ReadWeather, Succeeds, Fails
      <4>2. weather' # None
        BY <4>1, BriefAssumption
      <4>3. failed' = failed
        BY <3>2 DEF Succeeds
      <4> QED
        BY <3>1, <4>2, <4>3 DEF Failed
    <3>3. CASE Fails("WEATHER_UNAVAILABLE") /\ UNCHANGED weather
      <4>1. <<"WEATHER_UNAVAILABLE", position>> \in failed'
        BY <3>3 DEF Fails
      <4> QED
        BY <2>1, <3>3, <4>1 DEF Failed
    <3> QED
      BY <1>2, <3>2, <3>3 DEF ReadWeather
  <2> QED
    BY <1>0, <2>1, <2>2 DEF BriefTells
<1>3. CASE Answer
  <2>1. /\ pc = "answer" /\ pc' = "done"
        /\ UNCHANGED <<scenario, events, tasks, travel, conflicts, weather, failed>>
    BY <1>3 DEF Answer
  <2>2. OverlapConflicts' = OverlapConflicts
    BY <2>1 DEF OverlapConflicts, ReachedFrom, Overlap
  <2>3. Ranked(Overdue)' = Ranked(Overdue) /\ Ranked(DueToday)' = Ranked(DueToday)
    BY <2>1 DEF Overdue, DueToday, Incomplete, Target, Today
  <2>4. /\ brief'.events = {e \in {events[n] : n \in DOMAIN events} : ~e.block}
        /\ brief'.blocks = {e \in {events[n] : n \in DOMAIN events} : e.block}
        /\ brief'.conflicts = OverlapConflicts \cup conflicts
        /\ brief'.overdue = Ranked(Overdue) /\ brief'.dueToday = Ranked(DueToday)
    BY <1>3 DEF Answer
  <2>5. brief'.events \cup brief'.blocks = {events'[n] : n \in DOMAIN events'}
    <3>1. \A n \in DOMAIN events : events[n].block \in BOOLEAN
      BY EventFacts, BriefAssumption
    <3> QED
      BY <2>1, <2>4, <3>1
  <2>6. Failed("WEATHER_UNAVAILABLE")' <=> Failed("WEATHER_UNAVAILABLE")
    BY <2>1 DEF Failed
  <2> QED
    BY <2>1, <2>2, <2>3, <2>4, <2>5, <2>6 DEF BriefTells
<1>4. CASE ~Estimate /\ ~Between /\ ~ReadWeather /\ ~Answer
  <2>1. /\ UNCHANGED <<conflicts, weather, brief>>
        /\ pc' \in {"answer", "done"} <=> pc \in {"answer", "done"}
        /\ pc' = "done" <=> pc = "done"
    BY <1>4 DEF Next, vars, ReadCalendar, ReadTasks, WithoutTravel, EstimatesEnd, BetweenEnds, Project
  <2>2. pc = "done" => UNCHANGED <<events, tasks, failed>>
    BY <1>4 DEF Next, vars, ReadCalendar, ReadTasks, WithoutTravel, EstimatesEnd, BetweenEnds, Project
  <2>3. pc = "answer" => failed' = failed
    BY <1>4 DEF Next, vars, ReadCalendar, ReadTasks, WithoutTravel, EstimatesEnd, BetweenEnds, Project
  <2>4. pc \in {"answer", "done"} => (Failed("WEATHER_UNAVAILABLE")' <=> Failed("WEATHER_UNAVAILABLE"))
    BY <2>2, <2>3 DEF Failed
  <2>5. pc = "done" => /\ OverlapConflicts' = OverlapConflicts
                       /\ Ranked(Overdue)' = Ranked(Overdue)
                       /\ Ranked(DueToday)' = Ranked(DueToday)
    BY <1>0, <2>2 DEF OverlapConflicts, ReachedFrom, Overlap, Overdue, DueToday, Incomplete, Target, Today
  <2> QED
    BY <1>0, <2>1, <2>2, <2>4, <2>5 DEF BriefTells
<1> QED
  BY <1>1, <1>2, <1>3, <1>4

\* A call that fails leaves the empty list that was there before.
LEMMA NothingStep ==
  ASSUME TypeOK, FailuresInv, NothingInstead, [Next]_vars
  PROVE  NothingInstead'
<1>1. CASE ReadCalendar
  <2>1. /\ pc = "calendar" /\ pc' = "tasks" /\ tasks' = tasks /\ events = <<>> /\ tasks = {}
    BY <1>1 DEF ReadCalendar, NothingInstead
  <2>2. ~Failed("CALENDAR_UNAVAILABLE")
    BY <2>1 DEF Failed, FailuresInv, FailedOnce
  <2>3. UNCHANGED events \/ ~Failed("CALENDAR_UNAVAILABLE")'
    BY <1>1, <2>2 DEF ReadCalendar, Succeeds, Failed
  <2> QED
    BY <2>1, <2>3 DEF NothingInstead
<1>2. CASE ReadTasks
  <2>1. /\ pc = "tasks" /\ pc' = "travel" /\ events' = events /\ tasks = {}
    BY <1>2 DEF ReadTasks, NothingInstead
  <2>2. ~Failed("VIKUNJA_UNAVAILABLE")
    BY <2>1 DEF Failed, FailuresInv, FailedOnce
  <2>3. UNCHANGED tasks \/ ~Failed("VIKUNJA_UNAVAILABLE")'
    BY <1>2, <2>2 DEF ReadTasks, Succeeds, Failed
  <2>4. Failed("CALENDAR_UNAVAILABLE")' => Failed("CALENDAR_UNAVAILABLE")
    BY <1>2 DEF ReadTasks, Succeeds, Fails, Failed
  <2> QED
    BY <2>1, <2>3, <2>4 DEF NothingInstead
<1>3. CASE ~ReadCalendar /\ ~ReadTasks
  <2>1. /\ UNCHANGED <<events, tasks>>
        /\ pc' = "calendar" <=> pc = "calendar"
        /\ pc' \in {"calendar", "tasks"} <=> pc \in {"calendar", "tasks"}
    BY <1>3 DEF Next, vars, WithoutTravel, Estimate, AtEvent, EstimatesEnd, Between, BetweenEnds,
                ReadWeather, Answer, Project, ToNextEvent
  <2>2. \A code \in {"CALENDAR_UNAVAILABLE", "VIKUNJA_UNAVAILABLE"} :
          Failed(code)' => Failed(code)
    BY <1>3 DEF Next, vars, WithoutTravel, Estimate, EstimatesEnd, Between, BetweenEnds,
                ReadWeather, Answer, Project, Succeeds, Fails, Failed
  <2> QED
    BY <2>1, <2>2 DEF NothingInstead
<1> QED
  BY <1>1, <1>2, <1>3

\* Nothing changes once the brief is answered but the dashboard, which is made once.
LEMMA AfterAnswer ==
  ASSUME [Next]_vars, pc = "done"
  PROVE  /\ UNCHANGED <<pc, scenario, events, tasks, travel, brief>>
         /\ dashboard' = dashboard \/ dashboard' = Dashboard
  BY DEF Next, vars, ReadCalendar, ReadTasks, WithoutTravel, Estimate, AtEvent, EstimatesEnd,
         Between, BetweenEnds, ReadWeather, Answer, Project

\* Every step keeps what the summary and the dashboard tell.
LEMMA SummaryStep ==
  ASSUME TypeOK, SummaryTells, [Next]_vars
  PROVE  SummaryTells'
<1>1. CASE pc = "done"
  <2>1. UNCHANGED <<pc, scenario, events, tasks, travel, brief>>
    BY <1>1, AfterAnswer
  <2>2. Dashboard' = Dashboard
    BY <2>1 DEF Dashboard, PriorityTasks, DashboardLeaveBy
  <2>3. Highest' = Highest /\ NextEvent' = NextEvent
    BY <2>1 DEF Highest, Incomplete, NextEvent, Target, Today
  <2>4. SpokenLeaveBy(NextEvent)' = SpokenLeaveBy(NextEvent)
    BY <2>1, <2>3 DEF SpokenLeaveBy
  <2>5. dashboard' = dashboard \/ dashboard' = Dashboard
    BY <1>1, AfterAnswer
  <2> QED
    BY <1>1, <2>1, <2>2, <2>3, <2>4, <2>5 DEF SummaryTells
<1>2. CASE Answer
  <2>1. UNCHANGED <<scenario, events, tasks, travel, dashboard>> /\ pc = "answer"
    BY <1>2 DEF Answer
  <2>2. Highest' = Highest /\ NextEvent' = NextEvent
    BY <2>1 DEF Highest, Incomplete, NextEvent, Target, Today
  <2>3. SpokenLeaveBy(NextEvent)' = SpokenLeaveBy(NextEvent)
    BY <2>1, <2>2 DEF SpokenLeaveBy
  <2>4. /\ brief'.highest = Highest /\ brief'.next = NextEvent
        /\ brief'.leaveBy = IF NextEvent = None THEN None ELSE SpokenLeaveBy(NextEvent)
    BY <1>2 DEF Answer
  <2>5. dashboard' = None
    BY <2>1 DEF TypeOK
  <2> QED
    BY <2>2, <2>3, <2>4, <2>5 DEF SummaryTells
<1>3. CASE pc # "done" /\ ~Answer
  <2>1. pc' # "done" /\ dashboard' = dashboard
    BY <1>3 DEF Next, vars, ReadCalendar, ReadTasks, WithoutTravel, Estimate, AtEvent,
                EstimatesEnd, Between, BetweenEnds, ReadWeather, Project, ToNextEvent
  <2>2. dashboard = None
    BY <1>3 DEF TypeOK
  <2> QED
    BY <2>1, <2>2 DEF SummaryTells
<1> QED
  BY <1>1, <1>2, <1>3

\* The inductive invariant: what has been read, what the loops have done, which calls
\* failed, and that a brief and its dashboard are made of it.
THEOREM IndInvHolds ==
  Spec => []IndInv
<1>1. Init => IndInv
  <2> SUFFICES ASSUME Init PROVE IndInv
    OBVIOUS
  <2>1. TypeOK /\ FailuresInv /\ BriefTells
    BY TypeInit, FailuresInit, TellsInit
  <2>2. AsRead
    BY DEF Init, AsRead
  <2>3. TravelSoFar
    BY DEF Init, TravelSoFar, HasEstimate
  <2>4. NothingInstead /\ SummaryTells
    BY DEF Init, NothingInstead, SummaryTells
  <2> QED
    BY <2>1, <2>2, <2>3, <2>4 DEF IndInv, FailuresInv
<1>2. IndInv /\ [Next]_vars => IndInv'
  <2> SUFFICES ASSUME IndInv, [Next]_vars PROVE IndInv'
    OBVIOUS
  <2>1. TypeOK /\ AsRead /\ TravelSoFar /\ BriefTells /\ FailuresInv
    BY DEF IndInv, FailuresInv
  <2>2. TypeOK' /\ AsRead' /\ TravelSoFar' /\ BriefTells' /\ FailuresInv'
    BY <2>1, TypeStep, ReadStep, TravelStep, TellsStep, FailuresStep
  <2>3. NothingInstead' /\ SummaryTells'
    BY <2>1, NothingStep, SummaryStep DEF IndInv
  <2> QED
    BY <2>2, <2>3 DEF IndInv, FailuresInv
<1> QED
  BY <1>1, <1>2, PTL DEF Spec

-----------------------------------------------------------------------------
(* Overlaps.                                                                *)

\* As events are sorted, the inner loop ends too early for no event.
LEMMA LoopReaches ==
  ASSUME IndInv, NEW i \in DOMAIN events, NEW j \in DOMAIN events
  PROVE  ReachedFrom(i, j) <=> i < j /\ events[j].start < events[i].end
<1>1. i \in Nat /\ j \in Nat /\ DOMAIN events = 1..Len(events) /\ Len(events) \in Nat
  BY EventFacts DEF IndInv
<1>2. \A n \in DOMAIN events : events[n].start \in Int /\ events[n].end \in Int
  BY EventFacts DEF IndInv
<1>3. \A m, n \in DOMAIN events : m < n => events[m].start <= events[n].start
  BY DEF IndInv, AsRead
<1>4. ASSUME ReachedFrom(i, j) PROVE i < j /\ events[j].start < events[i].end
  BY <1>1, <1>4 DEF ReachedFrom
<1>5. ASSUME i < j, events[j].start < events[i].end PROVE ReachedFrom(i, j)
  <2> SUFFICES ASSUME NEW k \in (i + 1)..j PROVE events[k].start < events[i].end
    BY <1>5 DEF ReachedFrom
  <2>1. k \in DOMAIN events /\ (k = j \/ k < j)
    BY <1>1
  <2>2. events[k].start <= events[j].start
    BY <1>2, <1>3, <2>1
  <2> QED
    BY <1>2, <1>5, <2>1, <2>2
<1> QED
  BY <1>4, <1>5

\* A pair of events that overlap, in either order.
Overlapping(a, b) == a # b /\ a.start < b.end /\ b.start < a.end

\* An overlap is reported alike from both of its events.
LEMMA OverlapSymmetric ==
  ASSUME NEW a, NEW b
  PROVE  /\ Overlap(a, b) = Overlap(b, a)
         /\ Overlap(a, b) = Conflict(IF a.block = b.block THEN "OVERLAPPING_EVENTS"
                                     ELSE "WORK_BLOCK_OVERLAP", {a.id, b.id})
         /\ Overlap(a, b).type \in {"WORK_BLOCK_OVERLAP", "OVERLAPPING_EVENTS"}
<1>1. {a.id, b.id} = {b.id, a.id}
  OBVIOUS
<1> QED
  BY <1>1 DEF Overlap, Conflict

\* The loops over the sorted list report the overlaps of the set of events.
LEMMA OverlapsOfTheDay ==
  ASSUME IndInv, {events[n] : n \in DOMAIN events} = HeldToday
  PROVE  OverlapConflicts =
         {Overlap(p[1], p[2]) : p \in {p \in HeldToday \X HeldToday : Overlapping(p[1], p[2])}}
<1>1. DOMAIN events = 1..Len(events) /\ Len(events) \in Nat
  BY EventFacts DEF IndInv
<1>2. \A m, n \in DOMAIN events : m < n => events[m] # events[n] /\ events[m].start <= events[n].start
  BY DEF IndInv, AsRead
<1>3. \A n \in DOMAIN events : events[n] \in HeldToday /\ events[n].start \in Int /\ events[n].end \in Int
  BY EventFacts DEF IndInv
<1> DEFINE Pairs == {p \in (DOMAIN events) \X (DOMAIN events) :
                       ReachedFrom(p[1], p[2]) /\ events[p[1]].start < events[p[2]].end}
           Held2 == {p \in HeldToday \X HeldToday : Overlapping(p[1], p[2])}
<1>4. ASSUME NEW i \in DOMAIN events, NEW j \in DOMAIN events
      PROVE  <<i, j>> \in Pairs <=> i < j /\ Overlapping(events[i], events[j])
  <2>1. ReachedFrom(i, j) <=> i < j /\ events[j].start < events[i].end
    BY LoopReaches
  <2> QED
    BY <1>2, <2>1 DEF Overlapping
<1>5. ASSUME NEW c \in OverlapConflicts
      PROVE  c \in {Overlap(p[1], p[2]) : p \in Held2}
  <2>1. PICK p \in Pairs : c = Overlap(events[p[1]], events[p[2]])
    BY DEF OverlapConflicts
  <2>2. PICK i \in DOMAIN events, j \in DOMAIN events : p = <<i, j>>
    BY <2>1
  <2>3. <<events[i], events[j]>> \in Held2
    BY <1>3, <1>4, <2>1, <2>2
  <2>4. c = Overlap(events[i], events[j])
    BY <2>1, <2>2
  <2> HIDE DEF Held2
  <2> QED
    BY <2>3, <2>4
<1>6. ASSUME NEW c \in {Overlap(p[1], p[2]) : p \in Held2}
      PROVE  c \in OverlapConflicts
  <2>1. PICK p \in Held2 : c = Overlap(p[1], p[2])
    OBVIOUS
  <2>2. PICK i \in DOMAIN events, j \in DOMAIN events : p[1] = events[i] /\ p[2] = events[j]
    BY <2>1
  <2>3. Overlapping(events[i], events[j]) /\ c = Overlap(events[i], events[j])
    BY <2>1, <2>2
  <2>4. CASE i < j
    <3>1. <<i, j>> \in Pairs
      BY <1>4, <2>3, <2>4
    <3> HIDE DEF Pairs
    <3>2. c \in {Overlap(events[q[1]], events[q[2]]) : q \in Pairs}
      BY <2>3, <3>1
    <3> QED
      BY <3>2 DEF OverlapConflicts, Pairs
  <2>5. CASE j < i
    <3>1. <<j, i>> \in Pairs
      BY <1>4, <2>3, <2>5 DEF Overlapping
    <3>2. c = Overlap(events[j], events[i])
      BY <2>3, OverlapSymmetric
    <3> HIDE DEF Pairs
    <3>3. c \in {Overlap(events[q[1]], events[q[2]]) : q \in Pairs}
      BY <3>1, <3>2
    <3> QED
      BY <3>3 DEF OverlapConflicts, Pairs
  <2>6. i # j
    BY <2>3 DEF Overlapping
  <2> QED
    BY <1>1, <2>4, <2>5, <2>6
<1> QED
  BY <1>5, <1>6

\* _overlaps: the conflicts of a brief are the pairs of events that overlap, whatever
\* the order in which the calendars returned them.
THEOREM OverlapsReportedHolds ==
  Spec => []OverlapsReported
<1>1. IndInv => OverlapsReported
  <2> SUFFICES ASSUME IndInv, pc = "done", ~Failed("CALENDAR_UNAVAILABLE")
        PROVE  {c \in brief.conflicts : c.type \in {"WORK_BLOCK_OVERLAP", "OVERLAPPING_EVENTS"}} =
               {Conflict(IF p[1].block = p[2].block THEN "OVERLAPPING_EVENTS" ELSE "WORK_BLOCK_OVERLAP",
                         {p[1].id, p[2].id}) :
                  p \in {p \in HeldToday \X HeldToday :
                           p[1] # p[2] /\ p[1].start < p[2].end /\ p[2].start < p[1].end}}
    BY DEF OverlapsReported
  <2>1. {events[n] : n \in DOMAIN events} = HeldToday
    BY DEF IndInv, AsRead
  <2>2. brief.conflicts = OverlapConflicts \cup conflicts
    BY DEF IndInv, BriefTells
  <2>3. \A c \in conflicts : c.type \notin {"WORK_BLOCK_OVERLAP", "OVERLAPPING_EVENTS"}
    BY DEF IndInv, BriefTells
  <2>4. \A c \in OverlapConflicts : c.type \in {"WORK_BLOCK_OVERLAP", "OVERLAPPING_EVENTS"}
    BY OverlapSymmetric DEF OverlapConflicts
  <2>5. {c \in brief.conflicts : c.type \in {"WORK_BLOCK_OVERLAP", "OVERLAPPING_EVENTS"}} = OverlapConflicts
    BY <2>2, <2>3, <2>4
  <2>6. OverlapConflicts =
          {Overlap(p[1], p[2]) : p \in {p \in HeldToday \X HeldToday : Overlapping(p[1], p[2])}}
    BY <2>1, OverlapsOfTheDay
  <2>7. \A p : Overlap(p[1], p[2]) =
                 Conflict(IF p[1].block = p[2].block THEN "OVERLAPPING_EVENTS" ELSE "WORK_BLOCK_OVERLAP",
                          {p[1].id, p[2].id})
    BY OverlapSymmetric
  <2>8. {p \in HeldToday \X HeldToday : Overlapping(p[1], p[2])} =
        {p \in HeldToday \X HeldToday :
           p[1] # p[2] /\ p[1].start < p[2].end /\ p[2].start < p[1].end}
    BY DEF Overlapping
  <2> DEFINE S == {p \in HeldToday \X HeldToday :
                     p[1] # p[2] /\ p[1].start < p[2].end /\ p[2].start < p[1].end}
  <2>9. OverlapConflicts = {Overlap(p[1], p[2]) : p \in S}
    BY <2>6, <2>8
  <2> HIDE DEF S
  <2> DEFINE Told(p) == Conflict(IF p[1].block = p[2].block THEN "OVERLAPPING_EVENTS"
                                 ELSE "WORK_BLOCK_OVERLAP", {p[1].id, p[2].id})
             Found(p) == Overlap(p[1], p[2])
  <2>10. OverlapConflicts = {Told(p) : p \in S}
    <3>1. \A p : Found(p) = Told(p)
      BY <2>7
    <3>2. OverlapConflicts = {Found(p) : p \in S}
      BY <2>9
    <3> HIDE DEF Told, Found
    <3> QED
      BY <3>1, <3>2
  <2> QED
    BY <2>5, <2>10 DEF S
<1> QED
  BY <1>1, IndInvHolds, PTL

-----------------------------------------------------------------------------
(* The order of the tasks.                                                  *)

\* TaskBefore is a total order of tasks with different ids.
LEMMA TaskOrder ==
  ASSUME NEW S, S \subseteq Tasks, \A t, u \in S : t.id = u.id => t = u
  PROVE  /\ \A t \in S : ~TaskBefore(t, t)
         /\ \A t, u \in S : t # u => TaskBefore(t, u) \/ TaskBefore(u, t)
         /\ \A t, u, v \in S : TaskBefore(t, u) /\ TaskBefore(u, v) => TaskBefore(t, v)
<1>1. \A t \in S : t.id \in Int /\ t.priority \in Int /\ (t.due \in Int \/ t.due = None)
  BY BriefAssumption
<1>2. None \notin Int
  BY BriefAssumption
<1>3. \A t \in S : ~TaskBefore(t, t)
  BY <1>1, <1>2 DEF TaskBefore
<1>4. ASSUME NEW t \in S, NEW u \in S, t # u PROVE TaskBefore(t, u) \/ TaskBefore(u, t)
  <2>1. t.id # u.id
    BY <1>4
  <2> QED
    BY <1>1, <1>2, <2>1 DEF TaskBefore
<1>5. ASSUME NEW t \in S, NEW u \in S, NEW v \in S, TaskBefore(t, u), TaskBefore(u, v)
      PROVE  TaskBefore(t, v)
  BY <1>1, <1>2, <1>5 DEF TaskBefore
<1> QED
  BY <1>3, <1>4, <1>5

\* Every task has a place of its own in the ranking.
LEMMA RankedHasAll ==
  ASSUME NEW S, S \subseteq Tasks, IsFiniteSet(S), \A t, u \in S : t.id = u.id => t = u,
         NEW t \in S
  PROVE  \E n \in DOMAIN Ranked(S) : Ranked(S)[n] = t
<1> DEFINE Ahead(v) == {u \in S : TaskBefore(u, v)}
           Rank(v) == Cardinality(Ahead(v))
<1>1. \A v \in S : ~TaskBefore(v, v)
  BY TaskOrder
<1>2. \A v \in S : IsFiniteSet(Ahead(v)) /\ Rank(v) \in Nat
  <2> TAKE v \in S
  <2>1. Ahead(v) \in SUBSET S
    OBVIOUS
  <2> QED
    BY <2>1, FS_Subset, FS_CardinalityType
<1>3. ASSUME NEW v \in S, NEW w \in S, TaskBefore(v, w) PROVE Rank(v) < Rank(w)
  <2>1. Ahead(v) \subseteq Ahead(w)
    BY <1>3, TaskOrder
  <2>2. v \in Ahead(w) /\ v \notin Ahead(v)
    BY <1>1, <1>3
  <2> HIDE DEF Ahead
  <2>3. Ahead(v) \in SUBSET Ahead(w) /\ Ahead(v) # Ahead(w)
    BY <2>1, <2>2
  <2> QED
    BY <1>2, <2>3, FS_Subset
<1>4. \A v \in S : Rank(v) = Rank(t) => v = t
  <2> TAKE v \in S
  <2>1. v # t => TaskBefore(v, t) \/ TaskBefore(t, v)
    BY TaskOrder
  <2>2. Rank(v) \in Nat /\ Rank(t) \in Nat
    BY <1>2
  <2>3. TaskBefore(v, t) => Rank(v) < Rank(t)
    BY <1>3
  <2>4. TaskBefore(t, v) => Rank(t) < Rank(v)
    BY <1>3
  <2> HIDE DEF Rank
  <2> QED
    BY <2>1, <2>2, <2>3, <2>4
<1>5. Rank(t) < Cardinality(S) /\ Cardinality(S) \in Nat
  <2>1. Ahead(t) \in SUBSET S /\ Ahead(t) # S
    BY <1>1
  <2> HIDE DEF Ahead
  <2> QED
    BY <2>1, FS_Subset, FS_CardinalityType
<1> DEFINE n == Rank(t) + 1
<1>6. n \in 1..Cardinality(S) /\ n - 1 = Rank(t)
  <2>1. Rank(t) \in Nat
    BY <1>2
  <2> HIDE DEF Rank
  <2> QED
    BY <1>5, <2>1
<1>7. (CHOOSE v \in S : Rank(v) = n - 1) = t
  <2> HIDE DEF Rank, n
  <2> QED
    BY <1>4, <1>6
<1> HIDE DEF n
<1>8. DOMAIN Ranked(S) = 1..Cardinality(S) /\ Ranked(S)[n] = t
  BY <1>6, <1>7 DEF Ranked
<1> QED
  BY <1>6, <1>8

-----------------------------------------------------------------------------
(* What comes first.                                                        *)

\* A relation that puts a set in order, and what is ahead of an element.
Orders(R, S) ==
  /\ \A x \in S : <<x, x>> \notin R
  /\ \A x, y \in S : x # y => <<x, y>> \in R \/ <<y, x>> \in R
  /\ \A x, y, z \in S : <<x, y>> \in R /\ <<y, z>> \in R => <<x, z>> \in R
AheadOf(R, S, x) == {y \in S : <<y, x>> \in R}

\* In a finite set that a relation puts in order every rank is taken.
LEMMA RankTaken ==
  ASSUME NEW S, IsFiniteSet(S), NEW R, Orders(R, S), NEW n \in 1..Cardinality(S)
  PROVE  \E x \in S : Cardinality(AheadOf(R, S, x)) = n - 1
<1> DEFINE Ahead(v) == {u \in S : <<u, v>> \in R}
           Rank(v) == Cardinality(Ahead(v))
           N == Cardinality(S)
           f == [v \in S |-> Rank(v) + 1]
<1> USE DEF Orders
<1>0. N \in Nat
  BY FS_CardinalityType
<1>1. \A v \in S : IsFiniteSet(Ahead(v)) /\ Rank(v) \in Nat /\ Rank(v) < N
  <2> TAKE v \in S
  <2>1. Ahead(v) \in SUBSET S /\ Ahead(v) # S
    OBVIOUS
  <2> HIDE DEF Ahead
  <2> QED
    BY <2>1, FS_Subset, FS_CardinalityType
<1>2. ASSUME NEW v \in S, NEW w \in S, <<v, w>> \in R PROVE Rank(v) < Rank(w)
  <2>1. Ahead(v) \subseteq Ahead(w)
    BY <1>2
  <2>2. v \in Ahead(w) /\ v \notin Ahead(v)
    BY <1>2
  <2>4. IsFiniteSet(Ahead(w)) /\ Rank(w) \in Nat /\ Rank(v) \in Nat
    BY <1>1
  <2> HIDE DEF Ahead
  <2>3. Ahead(v) \in SUBSET Ahead(w) /\ Ahead(v) # Ahead(w)
    BY <2>1, <2>2
  <2> QED
    BY <2>3, <2>4, FS_Subset
<1>3. \A v, w \in S : Rank(v) = Rank(w) => v = w
  <2> TAKE v, w \in S
  <2>1. v # w => <<v, w>> \in R \/ <<w, v>> \in R
    OBVIOUS
  <2>2. Rank(v) \in Nat /\ Rank(w) \in Nat
    BY <1>1
  <2>3. <<v, w>> \in R => Rank(v) < Rank(w)
    BY <1>2
  <2>4. <<w, v>> \in R => Rank(w) < Rank(v)
    BY <1>2
  <2> HIDE DEF Rank
  <2> QED
    BY <2>1, <2>2, <2>3, <2>4
<1> HIDE DEF Rank, N
<1>f. f \in [S -> {Rank(v) + 1 : v \in S}] /\ \A v \in S : f[v] = Rank(v) + 1
  OBVIOUS
<1> HIDE DEF f
<1>4. f \in Injection(S, 1..N)
  <2>1. f \in [S -> 1..N]
    <3>1. ASSUME NEW v \in S PROVE Rank(v) + 1 \in 1..N
      <4>1. Rank(v) \in Nat /\ Rank(v) < N
        BY <1>1
      <4> QED
        BY <1>0, <4>1
    <3> QED
      BY <1>f, <3>1
  <2>2. \A v, w \in S : f[v] = f[w] => v = w
    <3> TAKE v, w \in S
    <3>1. f[v] = Rank(v) + 1 /\ f[w] = Rank(w) + 1 /\ Rank(v) \in Nat /\ Rank(w) \in Nat
      BY <1>1, <1>f
    <3>2. f[v] = f[w] => Rank(v) = Rank(w)
      BY <3>1
    <3> QED
      BY <1>3, <3>2
  <2> QED
    BY <2>1, <2>2 DEF Injection, IsInjective
<1>5. f \in Surjection(S, 1..N)
  <2>1. IsFiniteSet(1..N) /\ Cardinality(1..N) = Cardinality(S)
    BY <1>0, Interval DEF N
  <2> QED
    BY <1>4, <2>1, FS_Injection
<1>6. PICK x \in S : f[x] = n
  <2>1. n \in 1..N
    BY DEF N
  <2> QED
    BY <1>5, <2>1 DEF Surjection
<1>7. Rank(x) = n - 1
  <2>1. f[x] = Rank(x) + 1 /\ Rank(x) \in Nat
    BY <1>1, <1>f
  <2> QED
    BY <1>6, <2>1
<1> QED
  BY <1>7 DEF Rank, AheadOf

\* One element at least is ahead of all others.
LEMMA FirstInOrder ==
  ASSUME NEW S, IsFiniteSet(S), S # {}, NEW R, Orders(R, S)
  PROVE  \E x \in S : \A y \in S : <<y, x>> \notin R
<1>1. 1 \in 1..Cardinality(S)
  <2>1. Cardinality(S) \in Nat /\ Cardinality(S) # 0
    BY FS_CardinalityType, FS_EmptySet
  <2> QED
    BY <2>1
<1>2. PICK x \in S : Cardinality(AheadOf(R, S, x)) = 1 - 1
  BY <1>1, RankTaken
<1>3. AheadOf(R, S, x) \in SUBSET S
  BY DEF AheadOf
<1>4. IsFiniteSet(AheadOf(R, S, x))
  BY <1>3, FS_Subset
<1>5. AheadOf(R, S, x) = {}
  BY <1>2, <1>4, FS_EmptySet
<1> QED
  BY <1>5 DEF AheadOf

\* The order of a set of tasks as a relation.
LEMMA TaskOrders ==
  ASSUME NEW S, S \subseteq Tasks, \A t, u \in S : t.id = u.id => t = u,
         NEW R, \A t, u \in S : <<t, u>> \in R <=> TaskBefore(t, u)
  PROVE  Orders(R, S)
<1>1. \A x \in S : <<x, x>> \notin R
  BY TaskOrder
<1>2. \A x, y \in S : x # y => <<x, y>> \in R \/ <<y, x>> \in R
  BY TaskOrder
<1>3. \A x, y, z \in S : <<x, y>> \in R /\ <<y, z>> \in R => <<x, z>> \in R
  BY TaskOrder
<1> QED
  BY <1>1, <1>2, <1>3 DEF Orders

\* A finite set of tasks that is not empty has one that no other goes before.
LEMMA FirstTask ==
  ASSUME NEW S, S \subseteq Tasks, IsFiniteSet(S), S # {},
         \A t, u \in S : t.id = u.id => t = u
  PROVE  \E t \in S : \A u \in S : ~TaskBefore(u, t)
<1> DEFINE R == {p \in S \X S : TaskBefore(p[1], p[2])}
<1>1. \A t, u \in S : <<t, u>> \in R <=> TaskBefore(t, u)
  OBVIOUS
<1> HIDE DEF R
<1>2. Orders(R, S)
  BY <1>1, TaskOrders
<1>3. PICK t \in S : \A u \in S : <<u, t>> \notin R
  BY <1>2, FirstInOrder
<1> QED
  BY <1>1, <1>3

\* A finite set of numbers that is not empty has a least one.
LEMMA LeastNumber ==
  ASSUME NEW S, S \subseteq Nat, IsFiniteSet(S), S # {}
  PROVE  \E k \in S : \A l \in S : k <= l
<1> DEFINE R == {p \in S \X S : p[1] < p[2]}
<1>1. \A k, l \in S : <<k, l>> \in R <=> k < l
  OBVIOUS
<1> HIDE DEF R
<1>2. \A x \in S : <<x, x>> \notin R
  BY <1>1
<1>3. \A x, y \in S : x # y => <<x, y>> \in R \/ <<y, x>> \in R
  BY <1>1
<1>4. ASSUME NEW x \in S, NEW y \in S, NEW z \in S, <<x, y>> \in R, <<y, z>> \in R
      PROVE  <<x, z>> \in R
  <2>1. x < y /\ y < z /\ x \in Nat /\ y \in Nat /\ z \in Nat
    BY <1>1, <1>4
  <2>2. x < z
    BY <2>1
  <2> QED
    BY <1>1, <2>2
<1>5. Orders(R, S)
  BY <1>2, <1>3, <1>4 DEF Orders
<1>6. PICK k \in S : \A l \in S : <<l, k>> \notin R
  BY <1>5, FirstInOrder
<1>7. ASSUME NEW l \in S PROVE k <= l
  <2>1. ~(l < k) /\ l \in Nat /\ k \in Nat
    BY <1>1, <1>6
  <2> QED
    BY <2>1
<1> QED
  BY <1>7

\* The first element of a list that is a hit, if there is one, is a hit.
LEMMA FirstOfIsHit ==
  ASSUME NEW S, NEW seq \in Seq(S), NEW hits, hits \subseteq DOMAIN seq,
         FirstOf(seq, hits) # None
  PROVE  \E k \in hits : FirstOf(seq, hits) = seq[k]
<1>1. DOMAIN seq = 1..Len(seq) /\ Len(seq) \in Nat
  BY LenProperties
<1>2. hits \subseteq Nat /\ IsFiniteSet(hits) /\ hits # {}
  <2>1. IsFiniteSet(1..Len(seq))
    BY <1>1, Interval
  <2> QED
    BY <1>1, <2>1, FS_Subset DEF FirstOf
<1>3. \E k \in hits : \A l \in hits : k <= l
  BY <1>2, LeastNumber
<1> QED
  BY <1>2, <1>3 DEF FirstOf

\* The ranking has each task once.
LEMMA RankedIs ==
  ASSUME NEW S, S \subseteq Tasks, IsFiniteSet(S), \A t, u \in S : t.id = u.id => t = u
  PROVE  /\ Ranked(S) \in Seq(S)
         /\ {Ranked(S)[n] : n \in DOMAIN Ranked(S)} = S
         /\ \A m, n \in DOMAIN Ranked(S) : Ranked(S)[m] = Ranked(S)[n] => m = n
<1> DEFINE R == {p \in S \X S : TaskBefore(p[1], p[2])}
           N == Cardinality(S)
           Rank(t) == Cardinality({u \in S : TaskBefore(u, t)})
<1>0. N \in Nat
  BY FS_CardinalityType
<1>1. \A t, u \in S : <<t, u>> \in R <=> TaskBefore(t, u)
  OBVIOUS
<1> HIDE DEF R
<1>2. ASSUME NEW n \in 1..N PROVE \E t \in S : Rank(t) = n - 1
  <2>1. Orders(R, S)
    BY <1>1, TaskOrders
  <2>2. PICK t \in S : Cardinality(AheadOf(R, S, t)) = n - 1
    BY <2>1, RankTaken
  <2>3. AheadOf(R, S, t) = {u \in S : TaskBefore(u, t)}
    BY <1>1 DEF AheadOf
  <2> QED
    BY <2>2, <2>3
<1>3. /\ DOMAIN Ranked(S) = 1..N /\ Ranked(S) = [n \in 1..N |-> Ranked(S)[n]]
      /\ \A n \in 1..N : Ranked(S)[n] = CHOOSE t \in S : Rank(t) = n - 1
  <2>1. Ranked(S) = [n \in 1..N |-> CHOOSE t \in S : Rank(t) = n - 1]
    BY DEF Ranked
  <2> HIDE DEF Rank, N
  <2> QED
    BY <2>1
<1> HIDE DEF Rank, N
<1>4. \A n \in 1..N : Ranked(S)[n] \in S /\ Rank(Ranked(S)[n]) = n - 1
  BY <1>2, <1>3
<1>5. Ranked(S) \in Seq(S)
  <2>1. Ranked(S) \in [1..N -> S]
    BY <1>3, <1>4
  <2> QED
    BY <1>0, <2>1
<1>6. \A m, n \in 1..N : Ranked(S)[m] = Ranked(S)[n] => m = n
  <2> TAKE m, n \in 1..N
  <2>1. Ranked(S)[m] = Ranked(S)[n] => m - 1 = n - 1
    BY <1>4
  <2> QED
    BY <1>0, <2>1
<1>7. \A t \in S : \E n \in 1..N : Ranked(S)[n] = t
  BY <1>3, RankedHasAll
<1>8. {Ranked(S)[n] : n \in DOMAIN Ranked(S)} = S
  BY <1>3, <1>4, <1>7
<1> QED
  BY <1>3, <1>5, <1>6, <1>8

\* build: what a call was for is missing only if the call failed, and then a warning
\* says so, for every service and every event.
THEOREM NothingMissingSilentlyHolds ==
  Spec => []NothingMissingSilently
<1>1. IndInv => NothingMissingSilently
  <2> SUFFICES ASSUME IndInv, pc = "done" PROVE NothingMissingSilently
    BY DEF NothingMissingSilently
  <2>1. ~Failed("CALENDAR_UNAVAILABLE") => brief.events \cup brief.blocks = HeldToday
    BY DEF IndInv, AsRead, BriefTells
  <2>2. ASSUME ~Failed("VIKUNJA_UNAVAILABLE")
        PROVE  /\ \A t \in OpenTasks : t.due # None /\ DayOf(t.due) < Target =>
                    \E n \in DOMAIN brief.overdue : brief.overdue[n] = t
               /\ \A t \in OpenTasks : t.due # None /\ DayOf(t.due) = Target =>
                    \E n \in DOMAIN brief.dueToday : brief.dueToday[n] = t
    <3>1. tasks = scenario.tasks /\ tasks \subseteq Tasks /\ Incomplete = OpenTasks
      BY <2>2 DEF IndInv, AsRead, TypeOK, Incomplete, OpenTasks
    <3>2. IsFiniteSet(tasks) /\ \A t, u \in tasks : t.id = u.id => t = u
      BY <3>1 DEF IndInv, TypeOK, Held
    <3>3. Overdue \in SUBSET tasks /\ DueToday \in SUBSET tasks
      BY DEF Overdue, DueToday, Incomplete
    <3>4. IsFiniteSet(Overdue) /\ IsFiniteSet(DueToday)
      BY <3>2, <3>3, FS_Subset
    <3>5. brief.overdue = Ranked(Overdue) /\ brief.dueToday = Ranked(DueToday)
      BY DEF IndInv, BriefTells
    <3>6. \A t \in Overdue : \E n \in DOMAIN Ranked(Overdue) : Ranked(Overdue)[n] = t
      BY <3>1, <3>2, <3>3, <3>4, RankedHasAll
    <3>7. \A t \in DueToday : \E n \in DOMAIN Ranked(DueToday) : Ranked(DueToday)[n] = t
      BY <3>1, <3>2, <3>3, <3>4, RankedHasAll
    <3> QED
      BY <3>1, <3>5, <3>6, <3>7 DEF Overdue, DueToday
  <2>3. scenario.travel = "on" =>
          \A n \in DOMAIN events : events[n].location # None =>
            (<<"TRAVEL_ESTIMATE_FAILED", n>> \notin failed <=>
               \E k \in DOMAIN travel : travel[k].event = events[n])
    BY DEF IndInv, TravelSoFar, Passed, HasEstimate
  <2>4. scenario.weather => (weather = None <=> Failed("WEATHER_UNAVAILABLE"))
    BY DEF IndInv, BriefTells
  <2>5. \A code \in Codes \ {"TRAVEL_NOT_CONFIGURED"} :
          Cardinality({n \in DOMAIN warnings : warnings[n] = code}) =
          Cardinality({f \in failed : f[1] = code})
    BY DEF IndInv, WarnedOf, WarningsFor, FailuresOf
  <2> QED
    BY <2>1, <2>2, <2>3, <2>4, <2>5 DEF NothingMissingSilently
<1> QED
  BY <1>1, IndInvHolds, PTL

-----------------------------------------------------------------------------
(* The dashboard.                                                           *)

\* A list p without x, whose place is k or behind the end: nothing moves before k, and
\* everything moves up behind it.
Once(p) == \A m, n \in DOMAIN p : p[m] = p[n] => m = n
Closed(p, x, k, w) ==
  /\ Len(w) = IF k <= Len(p) THEN Len(p) - 1 ELSE Len(p)
  /\ \A n \in 1..Len(p) : p[n] = x <=> n = k
  /\ \A n \in 1..Len(w) : w[n] = IF n < k THEN p[n] ELSE p[n + 1]

\* A list without one of its elements keeps the others in their order.
LEMMA WithoutOne ==
  ASSUME NEW S, NEW p \in Seq(S), NEW x, Once(p)
  PROVE  /\ Without(p, x) \in Seq(S)
         /\ \E k \in 1..(Len(p) + 1) : Closed(p, x, k, Without(p, x))
<1> USE DEF Once, Closed
<1>1. DOMAIN p = 1..Len(p) /\ Len(p) \in Nat /\ \A n \in 1..Len(p) : p[n] \in S
  BY LenProperties
<1>2. CASE \E n \in DOMAIN p : p[n] = x
  <2> DEFINE k == CHOOSE k \in DOMAIN p : p[k] = x
             w == [n \in 1..(Len(p) - 1) |-> IF n < k THEN p[n] ELSE p[n + 1]]
  <2>1. k \in DOMAIN p /\ p[k] = x
    BY <1>2
  <2>2. Without(p, x) = w
    BY <1>2 DEF Without
  <2> HIDE DEF k
  <2>3. k \in 1..Len(p) /\ Len(p) - 1 \in Nat
    BY <1>1, <2>1
  <2>4. /\ w \in [1..(Len(p) - 1) -> S]
        /\ \A n \in 1..(Len(p) - 1) : w[n] = IF n < k THEN p[n] ELSE p[n + 1]
    <3>1. \A n \in 1..(Len(p) - 1) : n \in 1..Len(p) /\ n + 1 \in 1..Len(p)
      BY <1>1
    <3> QED
      BY <1>1, <3>1
  <2> HIDE DEF w
  <2>5. w \in Seq(S) /\ Len(w) = Len(p) - 1
    BY <2>3, <2>4
  <2>6. \A n \in 1..Len(p) : p[n] = x <=> n = k
    BY <1>1, <2>1
  <2>7. /\ k \in 1..(Len(p) + 1) /\ k <= Len(p)
    BY <1>1, <2>3
  <2> QED
    BY <2>2, <2>4, <2>5, <2>6, <2>7
<1>3. CASE ~\E n \in DOMAIN p : p[n] = x
  <2> DEFINE k == Len(p) + 1
  <2>1. Without(p, x) = p
    BY <1>3 DEF Without
  <2>2. k \in 1..(Len(p) + 1) /\ ~(k <= Len(p)) /\ \A n \in 1..Len(p) : n < k /\ n # k
    BY <1>1
  <2>3. \A n \in 1..Len(p) : p[n] # x
    BY <1>1, <1>3
  <2> HIDE DEF k
  <2> QED
    BY <2>1, <2>2, <2>3
<1> QED
  BY <1>2, <1>3

\* The candidates q of the groups o and d with h as the highest: h first, nothing
\* twice, all of o, and that before whatever d adds behind h.
Apart(o, d) == \A m \in DOMAIN o, n \in DOMAIN d : o[m] # d[n]
Heads(o, d, h, q) ==
  /\ Len(q) >= 1 /\ q[1] = h
  /\ \A m, n \in 1..Len(q) : q[m] = q[n] => m = n
  /\ \A m \in DOMAIN o : \E i \in 1..Len(q) : q[i] = o[m]
  /\ \A n \in 2..Len(q), j \in DOMAIN d : q[n] = d[j] =>
       \A m \in DOMAIN o : \E i \in 1..n : q[i] = o[m]

\* The candidates: the highest, then the first group, then the second.
LEMMA Candidates ==
  ASSUME NEW S, NEW o \in Seq(S), NEW d \in Seq(S), NEW h \in S,
         Once(o), Once(d), Apart(o, d),
         NEW q, q = <<h>> \o Without(o \o d, h)
  PROVE  q \in Seq(S) /\ Heads(o, d, h, q)
<1> USE DEF Apart, Heads
<1> DEFINE p == o \o d
           w == Without(p, h)
<1>0. /\ \A m, n \in DOMAIN o : o[m] = o[n] => m = n
      /\ \A m, n \in DOMAIN d : d[m] = d[n] => m = n
  BY DEF Once
<1>1. /\ DOMAIN o = 1..Len(o) /\ Len(o) \in Nat /\ DOMAIN d = 1..Len(d) /\ Len(d) \in Nat
  BY LenProperties
<1>2. /\ p \in Seq(S) /\ Len(p) = Len(o) + Len(d) /\ DOMAIN p = 1..Len(p) /\ Len(p) \in Nat
      /\ \A i \in 1..Len(p) : p[i] = IF i <= Len(o) THEN o[i] ELSE d[i - Len(o)]
  BY ConcatProperties, LenProperties
<1> HIDE DEF p
<1>3. \A m, n \in DOMAIN p : p[m] = p[n] => m = n
  <2> SUFFICES ASSUME NEW m \in 1..Len(p), NEW n \in 1..Len(p), p[m] = p[n], m < n PROVE FALSE
    BY <1>2
  <2>1. CASE n <= Len(o)
    <3>1. m \in DOMAIN o /\ n \in DOMAIN o /\ p[m] = o[m] /\ p[n] = o[n] /\ m # n
      BY <1>1, <1>2, <2>1
    <3>2. o[m] = o[n]
      BY <3>1
    <3> QED
      BY <1>0, <3>1, <3>2
  <2>2. CASE m <= Len(o) /\ n > Len(o)
    <3>1. /\ m \in DOMAIN o /\ n - Len(o) \in DOMAIN d
          /\ p[m] = o[m] /\ p[n] = d[n - Len(o)]
      BY <1>1, <1>2, <2>2
    <3>2. o[m] = d[n - Len(o)]
      BY <3>1
    <3> QED
      BY <3>1, <3>2
  <2>3. CASE m > Len(o)
    <3>1. m - Len(o) \in DOMAIN d /\ n - Len(o) \in DOMAIN d
      BY <1>1, <1>2, <2>3
    <3>2. d[m - Len(o)] = d[n - Len(o)]
      BY <1>1, <1>2, <2>3
    <3>3. m - Len(o) = n - Len(o)
      BY <1>0, <3>1, <3>2
    <3> QED
      BY <1>1, <3>3
  <2> QED
    BY <1>1, <2>1, <2>2, <2>3
<1>4. PICK k \in 1..(Len(p) + 1) :
        /\ w \in Seq(S)
        /\ Len(w) = IF k <= Len(p) THEN Len(p) - 1 ELSE Len(p)
        /\ \A n \in 1..Len(p) : p[n] = h <=> n = k
        /\ \A n \in 1..Len(w) : w[n] = IF n < k THEN p[n] ELSE p[n + 1]
  <2>1. p \in Seq(S) /\ Once(p)
    BY <1>2, <1>3 DEF Once
  <2>2. w \in Seq(S) /\ \E k \in 1..(Len(p) + 1) : Closed(p, h, k, w)
    BY <2>1, WithoutOne
  <2> QED
    BY <2>2 DEF Closed
<1> HIDE DEF w
<1>5. Len(w) \in Nat
  BY <1>2, <1>4
<1>6. /\ q \in Seq(S) /\ Len(q) = Len(w) + 1 /\ q[1] = h
      /\ \A n \in 2..Len(q) : q[n] = w[n - 1]
  <2>1. <<h>> \in Seq(S) /\ Len(<<h>>) = 1 /\ <<h>>[1] = h
    OBVIOUS
  <2>2. q = <<h>> \o w
    BY DEF w, p
  <2>3. /\ q \in Seq(S) /\ Len(q) = 1 + Len(w)
        /\ \A i \in 1..1 + Len(w) : q[i] = IF i <= 1 THEN <<h>>[i] ELSE w[i - 1]
    <3>1. w \in Seq(S)
      BY <1>4
    <3>2. /\ <<h>> \o w \in Seq(S) /\ Len(<<h>> \o w) = Len(<<h>>) + Len(w)
          /\ \A i \in 1..Len(<<h>>) + Len(w) :
               (<<h>> \o w)[i] = IF i <= Len(<<h>>) THEN <<h>>[i] ELSE w[i - Len(<<h>>)]
      BY <2>1, <3>1, ConcatProperties
    <3> QED
      BY <2>1, <2>2, <3>2
  <2> QED
    BY <1>5, <2>1, <2>3
<1>7. ASSUME NEW n \in 2..Len(q)
      PROVE  /\ n - 1 < k => n - 1 \in 1..Len(p) /\ q[n] = p[n - 1]
             /\ n - 1 >= k => n \in 1..Len(p) /\ q[n] = p[n]
             /\ q[n] # h
  <2>1. n - 1 \in 1..Len(w) /\ q[n] = w[n - 1] /\ (n - 1) + 1 = n
    BY <1>5, <1>6
  <2>2. q[n] = IF n - 1 < k THEN p[n - 1] ELSE p[n]
    BY <1>4, <2>1
  <2>3. n - 1 < k => n - 1 \in 1..Len(p)
    BY <1>2, <1>4, <2>1
  <2>4. n - 1 >= k => n \in 1..Len(p)
    BY <1>2, <1>4, <2>1
  <2>5. n - 1 < k => q[n] # h
    BY <1>4, <2>2, <2>3
  <2>6. n - 1 >= k => q[n] # h
    BY <1>4, <2>1, <2>2, <2>4
  <2> QED
    BY <2>1, <2>2, <2>3, <2>4, <2>5, <2>6
<1>8. ASSUME NEW i \in 1..Len(p)
      PROVE  /\ i = k => q[1] = p[i]
             /\ i < k => i + 1 \in 2..Len(q) /\ q[i + 1] = p[i]
             /\ i > k => i \in 2..Len(q) /\ q[i] = p[i]
  <2>1. i = k => q[1] = p[i]
    BY <1>4, <1>6
  <2>2. ASSUME i < k PROVE i + 1 \in 2..Len(q) /\ q[i + 1] = p[i]
    <3>1. i + 1 \in 2..Len(q) /\ (i + 1) - 1 < k /\ (i + 1) - 1 = i
      BY <1>2, <1>4, <1>6, <2>2
    <3> QED
      BY <1>7, <3>1
  <2>3. ASSUME i > k PROVE i \in 2..Len(q) /\ q[i] = p[i]
    <3>1. i \in 2..Len(q) /\ i - 1 >= k
      BY <1>2, <1>4, <1>6, <2>3
    <3> QED
      BY <1>7, <3>1
  <2> QED
    BY <2>1, <2>2, <2>3
<1>9. \A m, n \in 1..Len(q) : q[m] = q[n] => m = n
  <2> SUFFICES ASSUME NEW m \in 1..Len(q), NEW n \in 1..Len(q), q[m] = q[n], m < n PROVE FALSE
    BY <1>5, <1>6
  <2>1. n \in 2..Len(q) /\ q[n] # h
    <3>1. n \in 2..Len(q)
      BY <1>5, <1>6
    <3> QED
      BY <1>7, <3>1
  <2>2. m \in 2..Len(q)
    BY <1>5, <1>6, <2>1
  <2>3. CASE n - 1 < k
    <3>1. m - 1 \in 1..Len(p) /\ n - 1 \in 1..Len(p) /\ p[m - 1] = p[n - 1]
      BY <1>7, <2>1, <2>2, <2>3
    <3>2. m - 1 = n - 1
      BY <1>2, <1>3, <3>1
    <3> QED
      BY <2>2, <3>2
  <2>4. CASE n - 1 >= k /\ m - 1 < k
    <3>1. m - 1 \in 1..Len(p) /\ n \in 1..Len(p) /\ p[m - 1] = p[n]
      BY <1>7, <2>1, <2>2, <2>4
    <3>2. m - 1 \in DOMAIN p /\ n \in DOMAIN p
      BY <1>2, <3>1
    <3>3. m - 1 = n
      BY <1>3, <3>1, <3>2
    <3> QED
      BY <2>2, <3>3
  <2>5. CASE m - 1 >= k
    <3>1. m \in 1..Len(p) /\ n \in 1..Len(p) /\ p[m] = p[n]
      BY <1>7, <2>1, <2>2, <2>5
    <3>2. m \in DOMAIN p /\ n \in DOMAIN p
      BY <1>2, <3>1
    <3> QED
      BY <1>3, <3>1, <3>2
  <2> QED
    BY <2>2, <2>3, <2>4, <2>5
<1>10. ASSUME NEW m \in DOMAIN o
       PROVE  m \in 1..Len(p) /\ p[m] = o[m]
  BY <1>1, <1>2
<1>11. ASSUME NEW m \in DOMAIN o
       PROVE  \E i \in 1..Len(q) : q[i] = o[m]
  <2>1. m = k \/ m < k \/ m > k
    BY <1>2, <1>10
  <2>2. 1 \in 1..Len(q) /\ \A i \in 2..Len(q) : i \in 1..Len(q)
    BY <1>5, <1>6
  <2> QED
    BY <1>8, <1>10, <2>1, <2>2
<1>12. ASSUME NEW n \in 2..Len(q), NEW j \in DOMAIN d, q[n] = d[j], NEW m \in DOMAIN o
       PROVE  \E i \in 1..n : q[i] = o[m]
  <2>1. PICK i \in 1..Len(p) : q[n] = p[i] /\ (i = n - 1 \/ (i = n /\ n - 1 >= k))
    BY <1>7
  <2>2. i > Len(o)
    <3> SUFFICES ASSUME i <= Len(o) PROVE FALSE
      BY <1>1, <2>1
    <3>1. i \in DOMAIN o /\ p[i] = o[i]
      BY <1>1, <1>2
    <3> QED
      BY <1>12, <2>1, <3>1
  <2>3. m \in 1..Len(p) /\ p[m] = o[m] /\ m < i
    BY <1>1, <1>10, <2>2
  <2>4. CASE m = k
    BY <1>8, <2>3, <2>4
  <2>5. CASE m < k
    <3>1. q[m + 1] = o[m]
      BY <1>8, <2>3, <2>5
    <3>2. m + 1 \in 1..n
      BY <2>1, <2>3
    <3> QED
      BY <3>1, <3>2
  <2>6. CASE m > k
    <3>1. q[m] = o[m]
      BY <1>8, <2>3, <2>6
    <3>2. m \in 1..n
      BY <2>1, <2>3
    <3> QED
      BY <3>1, <3>2
  <2> QED
    BY <2>3, <2>4, <2>5, <2>6
<1>13. Len(q) >= 1
  BY <1>5, <1>6
<1> QED
  BY <1>6, <1>9, <1>11, <1>12, <1>13

\* The list up to its limit.
LEMMA Shown ==
  ASSUME NEW S, NEW q \in Seq(S), NEW limit \in Nat \ {0}, NEW s, s = UpTo(limit, q)
  PROVE  /\ s \in Seq(S) /\ Len(s) = IF Len(q) <= limit THEN Len(q) ELSE limit
         /\ \A n \in 1..Len(s) : n \in 1..Len(q) /\ s[n] = q[n]
<1>1. Len(q) \in Nat /\ \A n \in 1..Len(q) : q[n] \in S
  BY LenProperties
<1>2. CASE Len(q) <= limit
  BY <1>1, <1>2 DEF UpTo
<1>3. CASE Len(q) > limit
  <2>1. s = SubSeq(q, 1, limit)
    BY <1>1, <1>3 DEF UpTo
  <2>2. \A i \in 1..limit : q[i] \in S
    BY <1>1, <1>3
  <2>3. /\ s \in Seq(S) /\ Len(s) = limit
        /\ \A i \in 1..(limit - 1 + 1) : s[i] = q[1 + i - 1]
    <3>1. /\ SubSeq(q, 1, limit) \in Seq(S)
          /\ Len(SubSeq(q, 1, limit)) = IF 1 <= limit THEN limit - 1 + 1 ELSE 0
          /\ \A i \in 1..(limit - 1 + 1) : SubSeq(q, 1, limit)[i] = q[1 + i - 1]
      BY <2>2, SubSeqProperties
    <3> QED
      BY <2>1, <3>1
  <2>4. \A i \in 1..limit : s[i] = q[i] /\ i \in 1..Len(q)
    BY <1>1, <1>3, <2>3
  <2> QED
    BY <1>1, <1>3, <2>3, <2>4
<1> QED
  BY <1>1, <1>2, <1>3

\* What the loops took an estimate for is an event of the day that the calendars held.
LEMMA EstimateOfToday ==
  ASSUME IndInv, pc = "done", NEW k \in DOMAIN travel
  PROVE  /\ travel[k].event \in HeldToday
         /\ travel[k] = [event |-> travel[k].event, leaveBy |-> travel[k].leaveBy]
<1>1. travel \in Seq(Estimates)
  BY DEF IndInv, TypeOK
<1>2. travel[k] \in Estimates
  BY <1>1
<1>3. PICK n \in DOMAIN events : travel[k].event = events[n]
  BY DEF IndInv, TravelSoFar
<1>4. events # <<>>
  BY <1>3
<1>5. {events[m] : m \in DOMAIN events} = HeldToday
  BY <1>4 DEF IndInv, AsRead, NothingInstead
<1> QED
  BY <1>2, <1>3, <1>5 DEF Estimates

\* An estimate that was looked up by uid, and by title where that is all there is, is
\* the one of that event unless another event bears its name.
LEMMA LookedUp ==
  ASSUME IndInv, pc = "done", NEW e, NEW hits, hits \subseteq DOMAIN travel,
         \A k \in hits : travel[k].event.uid = e.uid
                         /\ (e.uid = None => travel[k].event.title = e.title),
         NEW estimate, estimate = FirstOf(travel, hits)
  PROVE  RightLeaveBy(e, IF estimate = None THEN None ELSE estimate.leaveBy)
<1> SUFFICES ASSUME \A o \in HeldToday :
                      o.uid = e.uid /\ (e.uid # None \/ o.title = e.title) => o = e,
                    estimate # None
             PROVE  \E k \in DOMAIN travel :
                      travel[k] = [event |-> e, leaveBy |-> estimate.leaveBy]
  BY DEF RightLeaveBy
<1>1. travel \in Seq(Estimates)
  BY DEF IndInv, TypeOK
<1>2. PICK k \in hits : estimate = travel[k]
  BY <1>1, FirstOfIsHit
<1>3. /\ k \in DOMAIN travel /\ travel[k].event \in HeldToday
      /\ travel[k] = [event |-> travel[k].event, leaveBy |-> travel[k].leaveBy]
  BY <1>2, EstimateOfToday
<1>4. travel[k].event = e
  BY <1>2, <1>3
<1> QED
  BY <1>2, <1>3, <1>4

\* The groups and the highest of a brief.
LEMMA Groups ==
  ASSUME IndInv, pc = "done"
  PROVE  /\ Incomplete \subseteq Tasks /\ IsFiniteSet(Incomplete)
         /\ \A t, u \in Incomplete : t.id = u.id => t = u
         /\ Overdue \subseteq Incomplete /\ DueToday \subseteq Incomplete
         /\ IsFiniteSet(Overdue) /\ IsFiniteSet(DueToday)
         /\ \A t \in Overdue : t \notin DueToday
         /\ tasks # {} => Incomplete = OpenTasks
<1>1. tasks = {} \/ tasks = scenario.tasks
  BY DEF IndInv, AsRead, NothingInstead
<1>2. tasks \subseteq Tasks
  BY DEF IndInv, TypeOK
<1>3. IsFiniteSet(scenario.tasks) /\ \A t, u \in scenario.tasks : t.id = u.id => t = u
  BY DEF IndInv, TypeOK, Held
<1>4. IsFiniteSet(tasks) /\ \A t, u \in tasks : t.id = u.id => t = u
  BY <1>1, <1>3, FS_EmptySet
<1>5. /\ Incomplete \in SUBSET tasks /\ Overdue \in SUBSET tasks /\ DueToday \in SUBSET tasks
      /\ Overdue \subseteq Incomplete /\ DueToday \subseteq Incomplete
  BY DEF Incomplete, Overdue, DueToday
<1>6. IsFiniteSet(Incomplete) /\ IsFiniteSet(Overdue) /\ IsFiniteSet(DueToday)
  BY <1>4, <1>5, FS_Subset
<1>7. ASSUME NEW t \in Overdue PROVE t \notin DueToday
  <2>1. Target \in Int
    <3>1. scenario.now \in Int /\ scenario.date \in Int \cup {None} /\ DayLength \in Nat \ {0}
      BY BriefAssumption DEF IndInv, TypeOK, ScenarioRows
    <3>2. DayOf(scenario.now) \in Int
      BY <3>1 DEF DayOf
    <3> QED
      BY <3>1, <3>2 DEF Target, Today
  <2>2. DayOf(t.due) < Target
    BY <1>7 DEF Overdue
  <2>3. t \in DueToday => DayOf(t.due) = Target
    BY DEF DueToday
  <2> HIDE DEF Target
  <2> QED
    BY <2>1, <2>2, <2>3
<1>8. tasks # {} => Incomplete = OpenTasks
  BY <1>1 DEF Incomplete, OpenTasks
<1> QED
  BY <1>2, <1>4, <1>5, <1>6, <1>7, <1>8

\* The highest is one of the tasks that are open, if any is, and none goes before it.
LEMMA HighestIs ==
  ASSUME IndInv, pc = "done", Incomplete # {}
  PROVE  /\ Highest \in Incomplete /\ Highest # None
         /\ \A t \in Incomplete : ~TaskBefore(t, Highest)
<1>1. \E t \in Incomplete : \A u \in Incomplete : ~TaskBefore(u, t)
  BY Groups, FirstTask
<1>2. Highest \in Incomplete /\ \A u \in Incomplete : ~TaskBefore(u, Highest)
  BY <1>1 DEF Highest
<1>3. Highest # None
  BY <1>2, Groups, BriefAssumption
<1> QED
  BY <1>2, <1>3

\* The tasks of a dashboard, in the order in which it shows them.
LEMMA PriorityShows ==
  ASSUME IndInv, pc = "done", Incomplete # {}, NEW shown, shown = PriorityTasks
  PROVE  /\ Len(shown) <= PriorityTaskLimit /\ shown # <<>> /\ shown[1] = Highest
         /\ \A m, n \in DOMAIN shown : m # n => shown[m] # shown[n]
         /\ \A t \in Overdue :
              (\E n \in DOMAIN shown : shown[n] = t) \/ Len(shown) = PriorityTaskLimit
         /\ \A n \in 2..Len(shown) : shown[n] \in DueToday =>
              \A t \in Overdue : \E i \in DOMAIN shown : shown[i] = t
<1> DEFINE o == Ranked(Overdue)
           d == Ranked(DueToday)
           q == <<Highest>> \o Without(o \o d, Highest)
<1>1. /\ Overdue \subseteq Tasks /\ DueToday \subseteq Tasks
      /\ IsFiniteSet(Overdue) /\ IsFiniteSet(DueToday)
      /\ \A t, u \in Overdue : t.id = u.id => t = u
      /\ \A t, u \in DueToday : t.id = u.id => t = u
      /\ \A t \in Overdue : t \notin DueToday
  BY Groups
<1>2. Highest \in Tasks /\ Highest # None
  BY HighestIs, Groups
<1>3. /\ o \in Seq(Overdue) /\ {o[n] : n \in DOMAIN o} = Overdue /\ Once(o)
      /\ d \in Seq(DueToday) /\ {d[n] : n \in DOMAIN d} = DueToday /\ Once(d)
  <2>1. /\ o \in Seq(Overdue) /\ {o[n] : n \in DOMAIN o} = Overdue
        /\ \A m, n \in DOMAIN o : o[m] = o[n] => m = n
    BY <1>1, RankedIs
  <2>2. /\ d \in Seq(DueToday) /\ {d[n] : n \in DOMAIN d} = DueToday
        /\ \A m, n \in DOMAIN d : d[m] = d[n] => m = n
    BY <1>1, RankedIs
  <2> QED
    BY <2>1, <2>2 DEF Once
<1>4. shown = UpTo(PriorityTaskLimit, q)
  <2>1. brief.highest = Highest /\ brief.overdue = o /\ brief.dueToday = d
    BY DEF IndInv, SummaryTells, BriefTells
  <2> QED
    BY <1>2, <2>1 DEF PriorityTasks
<1> HIDE DEF o, d
<1>5. o \in Seq(Tasks) /\ d \in Seq(Tasks)
  <2>1. \A n \in DOMAIN o : o[n] \in Tasks
    BY <1>1, <1>3
  <2>2. \A n \in DOMAIN d : d[n] \in Tasks
    BY <1>1, <1>3
  <2> QED
    BY <1>3, <2>1, <2>2
<1>6. Apart(o, d)
  BY <1>1, <1>3 DEF Apart
<1>h. q \in Seq(Tasks) /\ Heads(o, d, Highest, q)
  BY <1>2, <1>3, <1>5, <1>6, Candidates
<1>7. /\ q \in Seq(Tasks) /\ Len(q) >= 1 /\ q[1] = Highest
      /\ \A m, n \in 1..Len(q) : q[m] = q[n] => m = n
      /\ \A m \in DOMAIN o : \E i \in 1..Len(q) : q[i] = o[m]
      /\ \A n \in 2..Len(q), j \in DOMAIN d : q[n] = d[j] =>
           \A m \in DOMAIN o : \E i \in 1..n : q[i] = o[m]
  BY <1>h DEF Heads
<1> HIDE DEF q
<1>8. PriorityTaskLimit \in Nat \ {0}
  BY BriefAssumption
<1>9. /\ shown \in Seq(Tasks)
      /\ Len(shown) = IF Len(q) <= PriorityTaskLimit THEN Len(q) ELSE PriorityTaskLimit
      /\ \A n \in 1..Len(shown) : n \in 1..Len(q) /\ shown[n] = q[n]
  BY <1>4, <1>7, <1>8, Shown
<1>10. Len(q) \in Nat /\ Len(shown) \in Nat /\ DOMAIN shown = 1..Len(shown)
  BY <1>7, <1>9, LenProperties
<1>11. Len(shown) <= PriorityTaskLimit /\ Len(shown) >= 1
  BY <1>7, <1>8, <1>9, <1>10
<1>12. shown # <<>> /\ shown[1] = Highest
  <2>1. 1 \in 1..Len(shown)
    BY <1>10, <1>11
  <2> QED
    BY <1>7, <1>9, <1>10, <2>1
<1>13. \A m, n \in DOMAIN shown : m # n => shown[m] # shown[n]
  BY <1>7, <1>9, <1>10
<1>14. ASSUME NEW t \in Overdue
       PROVE  (\E n \in DOMAIN shown : shown[n] = t) \/ Len(shown) = PriorityTaskLimit
  <2>1. PICK m \in DOMAIN o : o[m] = t
    BY <1>3
  <2>2. PICK i \in 1..Len(q) : q[i] = t
    BY <1>7, <2>1
  <2>3. Len(q) <= PriorityTaskLimit => i \in DOMAIN shown
    BY <1>9, <1>10
  <2>4. i \in DOMAIN shown => shown[i] = t
    BY <1>9, <1>10, <2>2
  <2> QED
    BY <1>9, <2>3, <2>4
<1>15. ASSUME NEW n \in 2..Len(shown), shown[n] \in DueToday, NEW t \in Overdue
       PROVE  \E i \in DOMAIN shown : shown[i] = t
  <2>1. n \in 1..Len(shown)
    BY <1>10
  <2>2. n \in 2..Len(q) /\ q[n] \in DueToday
    BY <1>9, <1>10, <1>15, <2>1
  <2>3. PICK j \in DOMAIN d : q[n] = d[j]
    BY <1>3, <2>2
  <2>4. PICK m \in DOMAIN o : o[m] = t
    BY <1>3
  <2>5. PICK i \in 1..n : q[i] = o[m]
    BY <1>7, <2>2, <2>3
  <2>6. i \in 1..Len(shown)
    BY <1>10, <2>1
  <2> QED
    BY <1>9, <1>10, <2>4, <2>5, <2>6
<1> QED
  BY <1>11, <1>12, <1>13, <1>14, <1>15

\* Whatever the calendars and Vikunja hold and whichever calls fail, the dashboard
\* shows the most urgent task first, no task twice, overdue ones before the others and
\* all of them in what needs attention, and it and the brief give no time to leave that
\* was estimated for another event.
THEOREM DashboardAgreesHolds ==
  Spec => []DashboardAgrees
<1>1. ASSUME IndInv, pc = "done", brief.next # None
      PROVE  RightLeaveBy(brief.next, brief.leaveBy)
  <2> DEFINE e == NextEvent
             hits == {k \in DOMAIN travel :
                        travel[k].event.uid = e.uid /\ travel[k].event.title = e.title}
  <2>1. brief.next = e /\ brief.leaveBy = SpokenLeaveBy(e)
    BY <1>1 DEF IndInv, SummaryTells
  <2>2. SpokenLeaveBy(e) = IF FirstOf(travel, hits) = None THEN None
                           ELSE FirstOf(travel, hits).leaveBy
    BY DEF SpokenLeaveBy
  <2>3. /\ hits \subseteq DOMAIN travel
        /\ \A k \in hits : travel[k].event.uid = e.uid
                           /\ (e.uid = None => travel[k].event.title = e.title)
    OBVIOUS
  <2> HIDE DEF e, hits
  <2> QED
    BY <1>1, <2>1, <2>2, <2>3, LookedUp
<1>2. ASSUME IndInv, pc = "done", NEW e
      PROVE  RightLeaveBy(e, DashboardLeaveBy(e))
  <2> DEFINE hits == {k \in DOMAIN travel :
                        /\ travel[k].event.uid = e.uid
                        /\ e.uid = None => travel[k].event.title = e.title}
  <2>1. DashboardLeaveBy(e) = IF FirstOf(travel, hits) = None THEN None
                              ELSE FirstOf(travel, hits).leaveBy
    BY DEF DashboardLeaveBy
  <2>2. /\ hits \subseteq DOMAIN travel
        /\ \A k \in hits : travel[k].event.uid = e.uid
                           /\ (e.uid = None => travel[k].event.title = e.title)
    OBVIOUS
  <2> HIDE DEF hits
  <2> QED
    BY <1>2, <2>1, <2>2, LookedUp
<1>3. ASSUME IndInv, dashboard # None, dashboard.status = "ok"
      PROVE  LET shown == dashboard.priority
                 isShown(t) == \E n \in DOMAIN shown : shown[n] = t
             IN /\ Len(shown) <= PriorityTaskLimit
                /\ \A m, n \in DOMAIN shown : m # n => shown[m] # shown[n]
                /\ tasks # {} => \A t \in OpenTasks : shown # <<>> /\ ~TaskBefore(t, shown[1])
                /\ \A t \in Overdue : isShown(t) \/ Len(shown) = PriorityTaskLimit
                /\ \A n \in 2..Len(shown) : shown[n] \in DueToday => \A t \in Overdue : isShown(t)
                /\ dashboard.attention = Overdue
                /\ dashboard.next = brief.next
                /\ dashboard.next # None => RightLeaveBy(dashboard.next, dashboard.leaveBy)
  <2>1. pc = "done" /\ dashboard = Dashboard
    BY <1>3 DEF IndInv, TypeOK, SummaryTells
  <2>2. /\ dashboard.priority = PriorityTasks
        /\ dashboard.attention = {brief.overdue[n] : n \in DOMAIN brief.overdue}
        /\ dashboard.next = brief.next
        /\ dashboard.next # None => dashboard.leaveBy = DashboardLeaveBy(brief.next)
    BY <1>3, <2>1 DEF Dashboard
  <2>3. dashboard.attention = Overdue
    <3>1. /\ Overdue \subseteq Tasks /\ IsFiniteSet(Overdue)
          /\ \A t, u \in Overdue : t.id = u.id => t = u
      BY <1>3, <2>1, Groups
    <3>2. {Ranked(Overdue)[n] : n \in DOMAIN Ranked(Overdue)} = Overdue
      BY <3>1, RankedIs
    <3>3. brief.overdue = Ranked(Overdue)
      BY <1>3, <2>1 DEF IndInv, BriefTells
    <3> QED
      BY <2>2, <3>2, <3>3
  <2>4. dashboard.next # None => RightLeaveBy(dashboard.next, dashboard.leaveBy)
    BY <1>2, <1>3, <2>1, <2>2
  <2>5. CASE Incomplete = {}
    <3>1. Highest = None /\ Overdue = {} /\ brief.highest = None
      BY <1>3, <2>1, <2>5, Groups DEF Highest, IndInv, SummaryTells
    <3>2. dashboard.priority = <<>>
      BY <2>2, <3>1 DEF PriorityTasks
    <3>3. PriorityTaskLimit \in Nat
      BY BriefAssumption
    <3>4. tasks # {} => OpenTasks = {}
      BY <1>3, <2>1, <2>5, Groups
    <3>5. PICK shown : shown = dashboard.priority
      OBVIOUS
    <3>6. /\ Len(shown) <= PriorityTaskLimit /\ shown = <<>>
          /\ \A m, n \in DOMAIN shown : m # n => shown[m] # shown[n]
          /\ \A n \in 2..Len(shown) : shown[n] \in DueToday =>
               \A t \in Overdue : \E i \in DOMAIN shown : shown[i] = t
      BY <3>1, <3>2, <3>3, <3>5
    <3>7. /\ \A t \in Overdue :
               (\E n \in DOMAIN shown : shown[n] = t) \/ Len(shown) = PriorityTaskLimit
          /\ tasks # {} => \A t \in OpenTasks : shown # <<>> /\ ~TaskBefore(t, shown[1])
      BY <3>1, <3>4
    <3>8. dashboard.attention = Overdue /\ dashboard.next = brief.next
      BY <2>2, <2>3
    <3> QED
      BY <2>4, <3>5, <3>6, <3>7, <3>8, Zenon
  <2>6. CASE Incomplete # {}
    <3>1. PICK shown : shown = PriorityTasks
      OBVIOUS
    <3>2. /\ Len(shown) <= PriorityTaskLimit /\ shown # <<>> /\ shown[1] = Highest
          /\ \A m, n \in DOMAIN shown : m # n => shown[m] # shown[n]
          /\ \A t \in Overdue :
               (\E n \in DOMAIN shown : shown[n] = t) \/ Len(shown) = PriorityTaskLimit
          /\ \A n \in 2..Len(shown) : shown[n] \in DueToday =>
               \A t \in Overdue : \E i \in DOMAIN shown : shown[i] = t
      BY <1>3, <2>1, <2>6, <3>1, PriorityShows
    <3>3. tasks # {} => \A t \in OpenTasks : ~TaskBefore(t, shown[1])
      BY <1>3, <2>1, <2>6, <3>2, HighestIs, Groups
    <3>4. dashboard.priority = shown
      BY <2>2, <3>1
    <3>5. dashboard.attention = Overdue /\ dashboard.next = brief.next
      BY <2>2, <2>3
    <3>6. tasks # {} => \A t \in OpenTasks : shown # <<>> /\ ~TaskBefore(t, shown[1])
      BY <3>2, <3>3
    <3> QED
      BY <2>4, <3>2, <3>4, <3>5, <3>6, Zenon
  <2> QED
    BY <2>5, <2>6
<1>4. IndInv => DashboardAgrees
  BY <1>1, <1>3 DEF DashboardAgrees
<1> QED
  BY <1>4, IndInvHolds, PTL
=============================================================================
