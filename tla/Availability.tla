----------------------------- MODULE Availability -----------------------------
(***************************************************************************)
(* POST /v1/availability: CalDAVService.fetch_busy_intervals, then          *)
(* build_availability of app/services/availability.py, one step per turn of   *)
(* a loop.                                                                 *)
(*                                                                         *)
(* Times are minutes since a midnight, on the wall clock of BEACON_TIMEZONE: *)
(* the code's datetimes share one ZoneInfo, so it adds and compares wall     *)
(* clock readings too.  Calendars and titles are left out.                   *)
(***************************************************************************)
EXTENDS Integers, Sequences, FiniteSets

CONSTANTS Requests,    \* the requests an instance considers
          Calendars,   \* the contents of the busy calendars it considers
          Minutes      \* the start times the properties speak of

RequestRows ==
  {row \in [earliest : Nat, deadline : Nat, duration : Nat, before : Nat,
            after : Nat, maxOptions : Nat, dailyStart : Nat, dailyEnd : Nat] :
     /\ row.deadline > row.earliest
     /\ 0 < row.duration /\ row.duration <= 1440
     /\ row.before <= 720 /\ row.after <= 720
     /\ 1 <= row.maxOptions /\ row.maxOptions <= 20
     /\ row.dailyStart < 1440 /\ row.dailyEnd < 1440}

Intervals == {i \in [start : Int, end : Int] : i.start <= i.end}

ASSUME InstanceAssumption ==
  /\ Requests \subseteq RequestRows
  /\ \A c \in Calendars : c \subseteq Intervals /\ IsFiniteSet(c)
  /\ Minutes \subseteq Int

VARIABLES pc,          \* the loop the engine is in
          q,           \* the request
          calendar,    \* the events in the calendars (external)
          events,      \* the busy intervals read from them
          pending,     \* buffered intervals not yet merged
          busy,        \* the merged regions, in order
          date,        \* current_date, in days
          index,       \* position of the scan in busy
          cursor,      \* the first minute not known to be taken
          candidates,  \* the options found
          options      \* the options returned

vars == <<pc, q, calendar, events, pending, busy, date, index, cursor,
          candidates, options>>

Later(a, b) == IF a >= b THEN a ELSE b
Earlier(a, b) == IF a <= b THEN a ELSE b

DayOf(minute) == minute \div 1440
HourOf(minute) == (minute % 1440) \div 60

Dates == DayOf(q.earliest)..DayOf(q.deadline)

WindowStart(d) == Later(d * 1440 + q.dailyStart, q.earliest)
WindowEnd(d) == Earlier(d * 1440 + q.dailyEnd, q.deadline)

Init ==
  /\ pc = "fetch"
  /\ q \in Requests
  /\ calendar \in Calendars
  /\ events = {} /\ pending = {} /\ busy = <<>>
  /\ date = DayOf(q.earliest) /\ index = 1 /\ cursor = 0
  /\ candidates = {} /\ options = {}

-----------------------------------------------------------------------------
(* Reading the calendars.                                                  *)

\* Fault: an event is dropped unless it lies within the bounds.
InBoundsEntirely(e) == e.start >= q.earliest /\ e.end <= q.deadline

InBounds(e) == ~(e.end <= q.earliest \/ e.start >= q.deadline)

Clipped(e) == [start |-> Later(e.start, q.earliest),
               end   |-> Earlier(e.end, q.deadline)]

Buffered(e) == [start |-> e.start - q.before, end |-> e.end + q.after]

Fetch ==
  /\ pc = "fetch"
  /\ events' = {Clipped(e) : e \in {e \in calendar : InBounds(e)}}
  /\ pending' = {Buffered(e) : e \in events'}
  /\ pc' = "merge"
  /\ UNCHANGED <<q, calendar, busy, date, index, cursor, candidates, options>>

-----------------------------------------------------------------------------
(* _merge: the buffered intervals in order of their start.                   *)

\* Fault: the end of the later interval wins.
JoinedToLater(region, x) == [start |-> region.start, end |-> x.end]

Joined(region, x) == [start |-> region.start, end |-> Later(region.end, x.end)]

MergeNext ==
  /\ pc = "merge"
  /\ \E x \in pending :
       /\ \A y \in pending : x.start <= y.start
       /\ pending' = pending \ {x}
       /\ busy' = IF busy # <<>> /\ x.start <= busy[Len(busy)].end
                  THEN [busy EXCEPT ![Len(busy)] = Joined(@, x)]
                  ELSE Append(busy, x)
  /\ UNCHANGED <<pc, q, calendar, events, date, index, cursor, candidates, options>>

MergeDone ==
  /\ pc = "merge" /\ pending = {}
  /\ pc' = "day"
  /\ UNCHANGED <<q, calendar, events, pending, busy, date, index, cursor,
                 candidates, options>>

-----------------------------------------------------------------------------
(* _score_option, in tenths of a point.                                    *)

Rounded(n, m) ==     \* n / m to the nearest integer, ties to the even one
  LET low == n \div m
      rest == 2 * (n % m)
  IN  IF rest < m \/ (rest = m /\ low % 2 = 0) THEN low ELSE low + 1

Daytime(start) == HourOf(start) \in 9..16
LateEvening(start) == HourOf(start) >= 20
Flexible(start, windowEnd) == windowEnd - (start + q.duration) >= 60

Score(start, windowEnd) ==
  Rounded(1000 * 48 - (start - q.earliest), 48)
    + (IF Daytime(start) THEN 100 ELSE 0)
    - (IF LateEvening(start) THEN 150 ELSE 0)
    + (IF Flexible(start, windowEnd) THEN 50 ELSE 0)

Option(start) ==
  [start |-> start, score |-> Score(start, WindowEnd(date))]

-----------------------------------------------------------------------------
(* One day of the search: walk the regions with the cursor.                  *)

StartDay ==
  /\ pc = "day" /\ date <= DayOf(q.deadline)
  /\ cursor' = WindowStart(date)
  /\ index' = 1
  /\ pc' = "scan"
  /\ UNCHANGED <<q, calendar, events, pending, busy, date, candidates, options>>

\* A region that is over before the cursor.
SkipRegion ==
  /\ pc = "scan" /\ index <= Len(busy)
  /\ busy[index].end <= cursor
  /\ index' = index + 1
  /\ UNCHANGED <<pc, q, calendar, events, pending, busy, date, cursor,
                 candidates, options>>

\* Fault: the gap before a region is taken for free up to its end.
TakeRegionToItsEnd ==
  /\ pc = "scan" /\ index <= Len(busy)
  /\ busy[index].end > cursor
  /\ busy[index].start < WindowEnd(date)
  /\ candidates' = IF busy[index].end - cursor >= q.duration
                   THEN candidates \cup {Option(cursor)} ELSE candidates
  /\ cursor' = busy[index].end
  /\ index' = index + 1
  /\ pc' = IF cursor' >= WindowEnd(date) THEN "tail" ELSE "scan"
  /\ UNCHANGED <<q, calendar, events, pending, busy, date, options>>

\* A region in the window: the gap before it may hold an option.
TakeRegion ==
  /\ pc = "scan" /\ index <= Len(busy)
  /\ busy[index].end > cursor
  /\ busy[index].start < WindowEnd(date)
  /\ candidates' = IF busy[index].start - cursor >= q.duration
                   THEN candidates \cup {Option(cursor)} ELSE candidates
  /\ cursor' = Later(cursor, busy[index].end)
  /\ index' = index + 1
  /\ pc' = IF cursor' >= WindowEnd(date) THEN "tail" ELSE "scan"
  /\ UNCHANGED <<q, calendar, events, pending, busy, date, options>>

\* No region left, or the next one begins after the window.
LeaveRegions ==
  /\ pc = "scan"
  /\ index <= Len(busy) =>
       busy[index].end > cursor /\ busy[index].start >= WindowEnd(date)
  /\ pc' = "tail"
  /\ UNCHANGED <<q, calendar, events, pending, busy, date, index, cursor,
                 candidates, options>>

\* Fault: a day that is full ends the search.
EndDayGivingUp ==
  /\ pc = "tail"
  /\ IF WindowEnd(date) - cursor >= q.duration
     THEN candidates' = candidates \cup {Option(cursor)} /\ date' = date + 1
     ELSE date' = DayOf(q.deadline) + 1 /\ UNCHANGED candidates
  /\ pc' = "day"
  /\ UNCHANGED <<q, calendar, events, pending, busy, index, cursor, options>>

\* Fault: the day is not advanced when it has nothing to offer.
EndDayStaying ==
  /\ pc = "tail"
  /\ IF WindowEnd(date) - cursor >= q.duration
     THEN candidates' = candidates \cup {Option(cursor)} /\ date' = date + 1
     ELSE UNCHANGED <<candidates, date>>
  /\ pc' = "day"
  /\ UNCHANGED <<q, calendar, events, pending, busy, index, cursor, options>>

\* The rest of the window after the last region.
EndDay ==
  /\ pc = "tail"
  /\ candidates' = IF WindowEnd(date) - cursor >= q.duration
                   THEN candidates \cup {Option(cursor)} ELSE candidates
  /\ date' = date + 1
  /\ pc' = "day"
  /\ UNCHANGED <<q, calendar, events, pending, busy, index, cursor, options>>

-----------------------------------------------------------------------------
(* Ranking: score descending, then start ascending.                          *)

\* Fault: the later of two equal options is preferred.
BetterLater(a, b) == a.score > b.score \/ (a.score = b.score /\ a.start > b.start)

Better(a, b) == a.score > b.score \/ (a.score = b.score /\ a.start < b.start)

\* The first maxOptions of the sorted list; two candidates never start together.
Shortlist ==
  {c \in candidates : Cardinality({b \in candidates : Better(b, c)}) < q.maxOptions}

Rank ==
  /\ pc = "day" /\ date > DayOf(q.deadline)
  /\ options' = Shortlist
  /\ pc' = "done"
  /\ UNCHANGED <<q, calendar, events, pending, busy, date, index, cursor, candidates>>

-----------------------------------------------------------------------------

Next ==
  \/ Fetch
  \/ MergeNext \/ MergeDone
  \/ StartDay \/ SkipRegion \/ TakeRegion \/ LeaveRegions \/ EndDay
  \/ Rank

Spec == Init /\ [][Next]_vars

\* A request is handled by one thread, which the loops never block.
FairSpec == Spec /\ WF_vars(Next)

-----------------------------------------------------------------------------
(* What a start time has to satisfy.                                       *)

\* The block that starts at s keeps clear of interval i.
Clear(s, i) == s + q.duration <= i.start \/ s >= i.end

\* It lies in the daily hours of day d.
InDay(s, d) == d * 1440 + q.dailyStart <= s /\ s + q.duration <= d * 1440 + q.dailyEnd

Fits(s) ==
  /\ q.earliest <= s /\ s + q.duration <= q.deadline
  /\ \E d \in Dates : InDay(s, d)
  /\ \A e \in events : Clear(s, Buffered(e))

\* Where a free gap can begin.
Anchor(s) ==
  \/ s = q.earliest
  \/ \E d \in Dates : s = d * 1440 + q.dailyStart
  \/ \E e \in events : s = Buffered(e).end

\* A candidate begins the gap that s lies in, on the same day.
Offered(s) ==
  \E c \in candidates :
    /\ c.start <= s
    /\ \E d \in Dates : InDay(c.start, d) /\ InDay(s, d)
    /\ \A e \in events : s + q.duration <= Buffered(e).start
                           \/ c.start >= Buffered(e).end

-----------------------------------------------------------------------------
(* Safety.                                                                 *)

\* The candidates are the earliest fits of the free gaps, and nothing else: a
\* minute is offered exactly if a gap begins there and the block fits.
CandidatesAreFirstFits ==
  pc = "done" =>
    \A s \in Minutes : (\E c \in candidates : c.start = s) <=> Anchor(s) /\ Fits(s)

\* No opening is missed: whenever the block fits anywhere, the gap it fits in
\* has been offered from its beginning; in particular no_availability is true
\* only if no minute fits.
EveryGapIsOffered == pc = "done" => \A s \in Minutes : Fits(s) => Offered(s)

\* No option overlaps an event of the busy calendars, however the event lies
\* across the bounds of the search.
NothingDoubleBooked ==
  \A o \in options, e \in calendar :
    o.start + q.duration <= e.start \/ o.start >= e.end

\* Of two candidates of the same class the earlier is returned first, in spite
\* of the rounding: dropping options never drops the earlier of the two.
EarlierPreferred ==
  \A o \in options, c \in candidates \ options :
    ( /\ Daytime(o.start) = Daytime(c.start)
      /\ LateEvening(o.start) = LateEvening(c.start)
      /\ Flexible(o.start, WindowEnd(DayOf(o.start)))
           = Flexible(c.start, WindowEnd(DayOf(c.start))) ) => o.start < c.start

\* Every request is answered: the search visits every day once.
Terminates == <>(pc = "done")

\* The loops that are left, the intervals to merge, the days to search, and how far
\* the day is: what the engine has still to do.
Left ==
  <<CASE pc = "fetch" -> 3 [] pc = "merge" -> 2 [] pc = "done" -> 0 [] OTHER -> 1,
    Cardinality(pending),
    DayOf(q.deadline) + 1 - date,
    CASE pc = "day" -> Len(busy) + 3 [] pc = "scan" -> Len(busy) + 2 - index [] OTHER -> 0>>

\* The lexicographic order of quadruples of numbers, which is well-founded.
Numbers == Nat \X Nat \X Nat \X Nat
Below(a, b) == \E k \in 1..4 : a[k] < b[k] /\ \A j \in 1..(k - 1) : a[j] = b[j]

\* No step of the engine is for nothing: whatever it does, less is left to be done.
Advances == Left \in Numbers /\ Left' \in Numbers /\ Below(Left', Left)
EveryStepAdvances == [][Advances]_vars

-----------------------------------------------------------------------------
(* What the documents say and the code does not.                           *)

\* docs/availability-engine.md: "Buffers expand busy time".  An option keeps the
\* requested distance from every event of the busy calendars.
BuffersAreKept ==
  \A o \in options, e \in calendar : Clear(o.start, Buffered(e))

-----------------------------------------------------------------------------
(* The inductive invariant.                                                *)

Loops == {"fetch", "merge", "day", "scan", "tail", "done"}

TypeOK ==
  /\ pc \in Loops
  /\ q \in Requests /\ calendar \in Calendars
  /\ events \subseteq Intervals /\ pending \subseteq Intervals
  /\ busy \in Seq(Intervals)
  /\ date \in Nat /\ date >= DayOf(q.earliest) /\ date <= DayOf(q.deadline) + 1
  /\ index \in Nat \ {0} /\ cursor \in Int
  /\ candidates \subseteq [start : Int, score : Int]
  /\ options \subseteq candidates

\* The regions are apart and in order, and the rest of the intervals come after.
OrderInv ==
  /\ \A i, j \in 1..Len(busy) : i < j => busy[i].end < busy[j].start
  /\ \A i \in 1..Len(busy) : \A x \in pending : busy[i].start <= x.start
  /\ pc # "merge" => pending = {}

\* Merging loses no busy minute and adds none.
CoverInv ==
  /\ \A x \in pending : \E e \in events : x = Buffered(e)
  /\ \A i \in 1..Len(busy) : \E e \in events : busy[i].end = Buffered(e).end
  /\ pc # "fetch" => \A e \in events :
       \/ Buffered(e) \in pending
       \/ \E i \in 1..Len(busy) :
            busy[i].start <= Buffered(e).start /\ Buffered(e).end <= busy[i].end
  /\ \A s \in Minutes : (\A e \in events : Clear(s, Buffered(e))) =>
       \A i \in 1..Len(busy) : Clear(s, busy[i])

\* Where the cursor stands.
CursorInv ==
  pc \in {"scan", "tail"} =>
    /\ date <= DayOf(q.deadline)
    /\ cursor >= WindowStart(date)
    /\ cursor = WindowStart(date) \/ \E e \in events : cursor = Buffered(e).end
    /\ \A i \in 1..Len(busy) :
         \/ busy[i].end <= cursor
         \/ pc = "scan" /\ i >= index
         \/ pc = "tail" /\ (cursor >= WindowEnd(date) \/ busy[i].start >= WindowEnd(date))

\* What has been offered so far.
Searched(s) ==
  \/ \E d \in Dates : d < date /\ InDay(s, d)
  \/ pc \in {"scan", "tail"} /\ InDay(s, date) /\ s < cursor

OfferInv ==
  /\ \A c \in candidates : Anchor(c.start) /\ Fits(c.start)
  /\ \A s \in Minutes : Fits(s) /\ Searched(s) => Offered(s)

\* Busy intervals lie within the bounds and cover what the calendars hold there.
FetchInv ==
  IF pc = "fetch"
  THEN events = {} /\ pending = {} /\ busy = <<>>
  ELSE events = {Clipped(e) : e \in {e \in calendar : InBounds(e)}}

\* What is still empty, and when the search is over.
PhaseInv ==
  /\ pc \in {"fetch", "merge"} => candidates = {} /\ date = DayOf(q.earliest)
  /\ pc # "done" => options = {}
  /\ pc = "done" => date > DayOf(q.deadline)

\* The search: every step preserves it.
SearchInv == /\ TypeOK /\ PhaseInv /\ FetchInv /\ OrderInv /\ CoverInv
             /\ CursorInv /\ OfferInv

\* What a candidate scored on the day it was found is what it scores on the day it
\* begins on, and there are finitely many of them to rank.
ScoreInv ==
  /\ IsFiniteSet(candidates)
  /\ \A c \in candidates : c.score = Score(c.start, WindowEnd(DayOf(c.start)))

\* What is to be merged is finite, and the scan does not leave the regions behind.
PlaceInv == IsFiniteSet(pending) /\ (pc = "scan" => index <= Len(busy) + 1)

\* Inductive: every step of the engine preserves it.
IndInv == SearchInv /\ ScoreInv /\ PlaceInv /\ (pc = "done" => options = Shortlist)
=============================================================================
