-------------------------- MODULE AvailabilityProofs --------------------------
(***************************************************************************)
(* Proofs about Availability, for every request, every calendar and every    *)
(* set of minutes: the options are the first fits of the free gaps, no gap is *)
(* missed, and no option overlaps an event.                                *)
(***************************************************************************)
EXTENDS Availability, SequenceTheorems, FiniteSetTheorems, TLAPS

-----------------------------------------------------------------------------
(* Days, windows, intervals.                                               *)

\* A minute has a day, and a later minute no earlier one.
LEMMA DayType ==
  /\ \A n \in Nat : DayOf(n) \in Nat
  /\ \A m, n \in Nat : m <= n => DayOf(m) <= DayOf(n)
  BY DEF DayOf

\* What the fields of a request are.
LEMMA RequestType ==
  ASSUME q \in Requests
  PROVE  /\ q.earliest \in Nat /\ q.deadline \in Nat /\ q.earliest < q.deadline
         /\ q.duration \in Nat /\ q.duration > 0
         /\ q.before \in Nat /\ q.after \in Nat
         /\ q.dailyStart \in Nat /\ q.dailyEnd \in Nat /\ q.dailyEnd < 1440
         /\ DayOf(q.earliest) \in Nat /\ DayOf(q.deadline) \in Nat
         /\ DayOf(q.earliest) <= DayOf(q.deadline)
<1>1. q \in RequestRows
  BY InstanceAssumption
<1>2. /\ q.earliest \in Nat /\ q.deadline \in Nat /\ q.earliest < q.deadline
      /\ q.duration \in Nat /\ q.duration > 0
      /\ q.before \in Nat /\ q.after \in Nat
      /\ q.dailyStart \in Nat /\ q.dailyEnd \in Nat /\ q.dailyEnd < 1440
  BY <1>1 DEF RequestRows
<1>3. q.earliest <= q.deadline
  BY <1>2
<1>4. DayOf(q.earliest) \in Nat /\ DayOf(q.deadline) \in Nat
  BY <1>2, DayType
<1>5. DayOf(q.earliest) <= DayOf(q.deadline)
  BY <1>2, <1>3, DayType
<1>6. QED BY <1>2, <1>4, <1>5

\* The window of a day is the daily hours, clamped to the bounds.
LEMMA WindowType ==
  ASSUME q \in Requests, NEW d \in Int
  PROVE  /\ WindowStart(d) \in Int /\ WindowEnd(d) \in Int
         /\ WindowStart(d) >= q.earliest
         /\ WindowStart(d) >= d * 1440 + q.dailyStart
         /\ WindowStart(d) = q.earliest \/ WindowStart(d) = d * 1440 + q.dailyStart
         /\ WindowEnd(d) <= q.deadline
         /\ WindowEnd(d) <= d * 1440 + q.dailyEnd
         /\ WindowEnd(d) = q.deadline \/ WindowEnd(d) = d * 1440 + q.dailyEnd
  BY RequestType DEF WindowStart, WindowEnd, Later, Earlier

\* A start in the daily hours and the bounds lies in the window, and so does
\* its end; a block in the window lies in the daily hours and the bounds.
LEMMA WindowAdmits ==
  ASSUME q \in Requests, NEW d \in Int, NEW s \in Int
  PROVE  /\ q.earliest <= s /\ InDay(s, d) => s >= WindowStart(d)
         /\ s + q.duration <= q.deadline /\ InDay(s, d) =>
              s + q.duration <= WindowEnd(d)
         /\ s >= WindowStart(d) /\ s + q.duration <= WindowEnd(d) =>
              InDay(s, d) /\ q.earliest <= s /\ s + q.duration <= q.deadline
<1> DEFINE day == d * 1440
<1>1. /\ q.earliest \in Nat /\ q.deadline \in Nat /\ q.duration \in Nat
      /\ q.dailyStart \in Nat /\ q.dailyEnd \in Nat
  BY RequestType
<1>2. day \in Int
  OBVIOUS
<1>3. /\ WindowStart(d) = Later(day + q.dailyStart, q.earliest)
      /\ WindowEnd(d) = Earlier(day + q.dailyEnd, q.deadline)
      /\ InDay(s, d) <=> day + q.dailyStart <= s /\ s + q.duration <= day + q.dailyEnd
  BY DEF WindowStart, WindowEnd, InDay
<1> HIDE DEF day
<1>4. QED BY <1>1, <1>2, <1>3 DEF Later, Earlier

\* Buffering and clipping give intervals.
LEMMA IntervalType ==
  ASSUME q \in Requests, NEW e \in Intervals
  PROVE  /\ Buffered(e) \in Intervals
         /\ InBounds(e) => Clipped(e) \in Intervals
         /\ e.start \in Int /\ e.end \in Int /\ e.start <= e.end
         /\ Buffered(e).start = e.start - q.before
         /\ Buffered(e).end = e.end + q.after
<1>1. /\ e.start \in Int /\ e.end \in Int /\ e.start <= e.end
  BY DEF Intervals
<1>2. Buffered(e) \in Intervals
  BY <1>1, RequestType DEF Buffered, Intervals
<1>3. ASSUME InBounds(e) PROVE Clipped(e) \in Intervals
  BY <1>1, <1>3, RequestType DEF Clipped, InBounds, Intervals, Later, Earlier
<1>4. QED BY <1>1, <1>2, <1>3 DEF Buffered

\* An option has a score.
LEMMA OptionType ==
  ASSUME q \in Requests, date \in Int, NEW start \in Int
  PROVE  /\ Option(start) \in [start : Int, score : Int]
         /\ Option(start).start = start
<1>1. \A n \in Int : Rounded(n, 48) \in Int
  BY DEF Rounded
<1>2. Rounded(1000 * 48 - (start - q.earliest), 48) \in Int
  BY <1>1, RequestType
<1>3. Score(start, WindowEnd(date)) \in Int
  BY <1>2 DEF Score
<1>4. QED BY <1>3 DEF Option

-----------------------------------------------------------------------------
(* The invariant holds initially.                                          *)

\* Nothing is read, merged or offered before the first step.
LEMMA InitSearch == Init => SearchInv
<1> SUFFICES ASSUME Init PROVE SearchInv
  OBVIOUS
<1>1. q \in Requests
  BY DEF Init
<1>2. busy = <<>> /\ Len(busy) = 0 /\ 1..Len(busy) = {} /\ busy \in Seq(Intervals)
  BY DEF Init
<1>3. TypeOK
  BY <1>1, <1>2, RequestType DEF Init, TypeOK, Loops
<1>4. OrderInv
  BY <1>2 DEF Init, OrderInv
<1>5. CoverInv
  BY <1>2 DEF Init, CoverInv
<1>6. OfferInv
  <2>1. \A s : ~Searched(s)
    BY <1>1, RequestType DEF Init, Searched, Dates
  <2>2. QED BY <2>1 DEF Init, OfferInv
<1>7. PhaseInv /\ FetchInv /\ CursorInv
  BY DEF Init, PhaseInv, FetchInv, CursorInv
<1>8. QED BY <1>3, <1>4, <1>5, <1>6, <1>7 DEF SearchInv

-----------------------------------------------------------------------------
(* Steps.                                                                  *)

\* While the request and the events stay, so does what a start has to satisfy.
LEMMA SameRequest ==
  ASSUME q' = q, events' = events, NEW s, NEW d, NEW e
  PROVE  /\ (Fits(s)' <=> Fits(s)) /\ (Anchor(s)' <=> Anchor(s))
         /\ (InDay(s, d)' <=> InDay(s, d)) /\ (Clear(s, e)' <=> Clear(s, e))
         /\ Buffered(e)' = Buffered(e) /\ Dates' = Dates
         /\ WindowStart(d)' = WindowStart(d) /\ WindowEnd(d)' = WindowEnd(d)
<1>1. Dates' = Dates
  BY DEF Dates
<1>2. \A x : Buffered(x)' = Buffered(x)
  BY DEF Buffered
<1>3. \A x, y : InDay(x, y)' <=> InDay(x, y)
  BY DEF InDay
<1>4. \A x, y : Clear(x, y)' <=> Clear(x, y)
  BY DEF Clear
<1>5. Fits(s)' <=> Fits(s)
  BY <1>1, <1>2, <1>3, <1>4 DEF Fits
<1>6. Anchor(s)' <=> Anchor(s)
  BY <1>1, <1>2 DEF Anchor
<1>7. WindowStart(d)' = WindowStart(d) /\ WindowEnd(d)' = WindowEnd(d)
  BY DEF WindowStart, WindowEnd
<1>8. QED BY <1>1, <1>2, <1>3, <1>4, <1>5, <1>6, <1>7

\* Nothing that has been offered is lost when candidates are added.
LEMMA OffersKept ==
  ASSUME q' = q, events' = events, candidates \subseteq candidates', NEW s, Offered(s)
  PROVE  Offered(s)'
<1>1. PICK c \in candidates :
        /\ c.start <= s
        /\ \E d \in Dates : InDay(c.start, d) /\ InDay(s, d)
        /\ \A e \in events : s + q.duration <= Buffered(e).start
                               \/ c.start >= Buffered(e).end
  BY DEF Offered
<1>2. Dates' = Dates /\ \A x : Buffered(x)' = Buffered(x)
  BY DEF Dates, Buffered
<1>3. \A x, y : InDay(x, y)' <=> InDay(x, y)
  BY DEF InDay
<1>4. QED BY <1>1, <1>2, <1>3 DEF Offered

\* Reading the calendars.
LEMMA FetchStep == SearchInv /\ Fetch => SearchInv'
<1> SUFFICES ASSUME SearchInv, Fetch PROVE SearchInv'
  OBVIOUS
<1> USE DEF SearchInv
<1>1. q \in Requests /\ calendar \in Calendars /\ pc = "fetch" /\ busy = <<>>
      /\ calendar \subseteq Intervals
  BY InstanceAssumption DEF TypeOK, FetchInv, Fetch
<1>2. Len(busy') = 0 /\ 1..Len(busy') = {} /\ busy' = <<>>
  BY <1>1 DEF Fetch
<1>3. events' \subseteq Intervals
  BY <1>1, IntervalType DEF Fetch
<1>4. pending' \subseteq Intervals
  BY <1>1, <1>3, IntervalType DEF Fetch
<1>5. TypeOK'
  BY <1>3, <1>4 DEF TypeOK, Fetch, Loops
<1>6. FetchInv'
  BY DEF Fetch, FetchInv, Clipped, InBounds
<1>7. OrderInv'
  BY <1>2 DEF OrderInv, Fetch
<1>8. CoverInv'
  BY <1>2 DEF CoverInv, Fetch, Buffered
<1>9. CursorInv'
  BY DEF CursorInv, Fetch
<1>10. PhaseInv'
  BY DEF PhaseInv, Fetch
<1>11. OfferInv'
  <2>1. \A s : ~Searched(s)'
    BY <1>1, RequestType DEF PhaseInv, Fetch, Searched, Dates
  <2>2. candidates' = {}
    BY DEF PhaseInv, Fetch
  <2>3. QED BY <2>1, <2>2 DEF OfferInv
<1>12. QED BY <1>5, <1>6, <1>7, <1>8, <1>9, <1>10, <1>11

\* What merging and searching leave alone: the events and the request.
LEMMA MergeFrame ==
  ASSUME SearchInv, pc = "merge", pc' \in {"merge", "day"},
         UNCHANGED <<q, calendar, events, date, index, cursor, candidates, options>>,
         pending' \subseteq pending, busy' \in Seq(Intervals)
  PROVE  TypeOK' /\ FetchInv' /\ CursorInv' /\ OfferInv' /\ PhaseInv'
<1> USE DEF SearchInv
<1>1. TypeOK'
  BY DEF TypeOK, Loops
<1>2. FetchInv'
  BY DEF FetchInv, Clipped, InBounds
<1>3. CursorInv'
  BY DEF CursorInv
<1>4. PhaseInv'
  BY DEF PhaseInv
<1>5. OfferInv'
  <2>1. \A s : ~Searched(s)'
    BY RequestType DEF PhaseInv, TypeOK, Searched, Dates
  <2>2. candidates' = {}
    BY DEF PhaseInv
  <2>3. QED BY <2>1, <2>2 DEF OfferInv
<1>6. QED BY <1>1, <1>2, <1>3, <1>4, <1>5

\* Joining an interval to the last region.
LEMMA JoinStep ==
  ASSUME SearchInv, pc = "merge", NEW x \in pending,
         \A y \in pending : x.start <= y.start,
         busy # <<>>, x.start <= busy[Len(busy)].end,
         busy' = [busy EXCEPT ![Len(busy)] = Joined(busy[Len(busy)], x)],
         pending' = pending \ {x},
         UNCHANGED <<pc, q, calendar, events, date, index, cursor, candidates, options>>
  PROVE  SearchInv'
<1> USE DEF SearchInv
<1> DEFINE n == Len(busy)
           r == busy[n]
           j == Joined(r, x)
<1>1. /\ q \in Requests /\ busy \in Seq(Intervals) /\ x \in Intervals
      /\ pending \subseteq Intervals /\ events \subseteq Intervals
  BY DEF TypeOK
<1>2. n \in Nat /\ n >= 1 /\ n \in 1..n
  BY <1>1, EmptySeq, LenProperties
<1>3. r \in Intervals
  BY <1>1, <1>2, ElementOfSeq
<1>4. /\ r.start \in Int /\ r.end \in Int /\ r.start <= r.end
      /\ x.start \in Int /\ x.end \in Int /\ x.start <= x.end
  BY <1>1, <1>3 DEF Intervals
<1>5. /\ j.start = r.start /\ j.end \in Int
      /\ j.end >= r.end /\ j.end >= x.end /\ (j.end = r.end \/ j.end = x.end)
      /\ j \in Intervals
  BY <1>4 DEF Joined, Later, Intervals
<1>6. /\ busy' \in Seq(Intervals) /\ Len(busy') = n
      /\ busy'[n] = j
      /\ \A i \in 1..n : i # n => busy'[i] = busy[i]
  BY <1>1, <1>2, <1>5, ExceptSeq
<1>7. r.start <= x.start
  BY <1>2 DEF OrderInv
<1>8. TypeOK' /\ FetchInv' /\ CursorInv' /\ OfferInv' /\ PhaseInv'
  BY <1>6, MergeFrame, Zenon
<1>9. \A i \in 1..n : busy'[i].start = busy[i].start
  BY <1>5, <1>6
<1>10. OrderInv'
  <2>1. \A i, k \in 1..n : i < k => busy'[i].end < busy'[k].start
    <3> SUFFICES ASSUME NEW i \in 1..n, NEW k \in 1..n, i < k
                 PROVE  busy'[i].end < busy'[k].start
      OBVIOUS
    <3>1. i # n
      BY <1>2
    <3>2. busy[i].end < busy[k].start
      BY DEF OrderInv
    <3>3. QED BY <1>6, <1>9, <3>1, <3>2
  <2>2. \A i \in 1..n : \A y \in pending' : busy'[i].start <= y.start
    BY <1>9 DEF OrderInv
  <2>3. QED BY <1>6, <2>1, <2>2 DEF OrderInv
<1>11. CoverInv'
  <2>0. \A e : Buffered(e)' = Buffered(e)
    BY DEF Buffered
  <2>1. PICK ex \in events : x = Buffered(ex)
    BY DEF CoverInv
  <2>2. \A y \in pending' : \E e \in events : y = Buffered(e)
    BY DEF CoverInv
  <2>3. \A i \in 1..n : \E e \in events : busy'[i].end = Buffered(e).end
    <3>1. \A i \in 1..n : \E e \in events : busy[i].end = Buffered(e).end
      BY DEF CoverInv
    <3>2. \E e \in events : busy'[n].end = Buffered(e).end
      BY <1>2, <1>5, <1>6, <2>1, <3>1
    <3>3. QED BY <1>6, <3>1, <3>2
  <2>4. ASSUME NEW e \in events
        PROVE  \/ Buffered(e) \in pending'
               \/ \E i \in 1..n : /\ busy'[i].start <= Buffered(e).start
                                  /\ Buffered(e).end <= busy'[i].end
    <3>0. Buffered(e).start \in Int /\ Buffered(e).end \in Int
      BY <1>1, IntervalType DEF Intervals
    <3>1. CASE Buffered(e) \in pending /\ Buffered(e) # x
      BY <3>1
    <3>2. CASE Buffered(e) = x
      BY <3>2, <1>2, <1>5, <1>6, <1>7
    <3>3. CASE Buffered(e) \notin pending
      <4>1. PICK i \in 1..n : busy[i].start <= Buffered(e).start
                              /\ Buffered(e).end <= busy[i].end
        BY <3>3 DEF CoverInv
      <4>2. CASE i = n
        BY <4>1, <4>2, <1>4, <1>5, <1>6, <3>0
      <4>3. CASE i # n
        BY <4>1, <4>3, <1>6
      <4>4. QED BY <4>2, <4>3
    <3>4. QED BY <3>1, <3>2, <3>3
  <2>5. ASSUME NEW s \in Minutes, \A e \in events : Clear(s, Buffered(e)),
               NEW i \in 1..n
        PROVE  Clear(s, busy'[i])
    <3>1. Clear(s, busy[i]) /\ Clear(s, x)
      BY <2>1, <2>5 DEF CoverInv
    <3>2. CASE i # n
      BY <3>1, <3>2, <1>6
    <3>3. CASE i = n
      <4>1. s \in Int /\ q.duration \in Nat /\ q.duration > 0
        BY <1>1, InstanceAssumption, RequestType
      <4>2. Clear(s, j)
        BY <3>1, <3>3, <4>1, <1>4, <1>5, <1>7 DEF Clear
      <4>3. QED BY <3>3, <4>2, <1>6
    <3>4. QED BY <3>2, <3>3
  <2>6. UNCHANGED <<q, events>> /\ Len(busy') = n /\ pc = "merge" /\ pc' = "merge"
    BY <1>6
  <2>7. (\A i \in 1..Len(busy) : \E e \in events : busy[i].end = Buffered(e).end)'
    BY <2>0, <2>3, <2>6
  <2>8. (\A e \in events :
          \/ Buffered(e) \in pending
          \/ \E i \in 1..Len(busy) : busy[i].start <= Buffered(e).start
                                     /\ Buffered(e).end <= busy[i].end)'
    BY <2>0, <2>4, <2>6
  <2>9. (\A s \in Minutes : (\A e \in events : Clear(s, Buffered(e))) =>
           \A i \in 1..Len(busy) : Clear(s, busy[i]))'
    BY <2>5, <2>6 DEF Clear, Buffered
  <2>10. (\A y \in pending : \E e \in events : y = Buffered(e))'
    BY <2>0, <2>2, <2>6
  <2>11. QED BY <2>7, <2>8, <2>9, <2>10 DEF CoverInv
<1>12. QED BY <1>8, <1>10, <1>11

\* Beginning a new region.
LEMMA AppendStep ==
  ASSUME SearchInv, pc = "merge", NEW x \in pending,
         \A y \in pending : x.start <= y.start,
         busy = <<>> \/ ~(x.start <= busy[Len(busy)].end),
         busy' = Append(busy, x),
         pending' = pending \ {x},
         UNCHANGED <<pc, q, calendar, events, date, index, cursor, candidates, options>>
  PROVE  SearchInv'
<1> USE DEF SearchInv
<1> DEFINE n == Len(busy)
<1>1. /\ q \in Requests /\ busy \in Seq(Intervals) /\ x \in Intervals
      /\ pending \subseteq Intervals /\ events \subseteq Intervals
  BY DEF TypeOK
<1>2. n \in Nat /\ (n = 0 <=> busy = <<>>)
  BY <1>1, EmptySeq, LenProperties
<1>3. x.start \in Int /\ x.end \in Int /\ x.start <= x.end
  BY <1>1 DEF Intervals
<1>4. \A i \in 1..n : busy[i] \in Intervals /\ busy[i].start \in Int
                      /\ busy[i].end \in Int /\ busy[i].start <= busy[i].end
  BY <1>1, ElementOfSeq DEF Intervals
<1>5. /\ busy' \in Seq(Intervals) /\ Len(busy') = n + 1
      /\ busy'[n + 1] = x
      /\ \A i \in 1..n : busy'[i] = busy[i]
  BY <1>1, AppendProperties
<1>6. \A i \in 1..n : busy[i].end < x.start
  <2> SUFFICES ASSUME NEW i \in 1..n PROVE busy[i].end < x.start
    OBVIOUS
  <2>1. n \in 1..n /\ busy[n].end < x.start
    BY <1>2, <1>3, <1>4
  <2>2. CASE i < n
    BY <2>1, <2>2, <1>3, <1>4 DEF OrderInv
  <2>3. CASE i = n
    BY <2>1, <2>3
  <2>4. QED BY <2>2, <2>3, <1>2
<1>7. TypeOK' /\ FetchInv' /\ CursorInv' /\ OfferInv' /\ PhaseInv'
  BY <1>5, MergeFrame, Zenon
<1>8. OrderInv'
  <2>1. ASSUME NEW i \in 1..(n + 1), NEW k \in 1..(n + 1), i < k
        PROVE  busy'[i].end < busy'[k].start
    <3>1. i \in 1..n /\ busy'[i] = busy[i]
      BY <2>1, <1>2, <1>5
    <3>2. CASE k = n + 1
      BY <3>1, <3>2, <1>5, <1>6
    <3>3. CASE k \in 1..n
      BY <2>1, <3>1, <3>3, <1>5 DEF OrderInv
    <3>4. QED BY <3>2, <3>3, <1>2
  <2>2. ASSUME NEW i \in 1..(n + 1), NEW y \in pending'
        PROVE  busy'[i].start <= y.start
    <3>1. y \in pending
      OBVIOUS
    <3>2. CASE i = n + 1
      BY <3>1, <3>2, <1>5
    <3>3. CASE i \in 1..n
      BY <3>1, <3>3, <1>5 DEF OrderInv
    <3>4. QED BY <3>2, <3>3, <1>2
  <2>3. QED BY <1>5, <2>1, <2>2 DEF OrderInv
<1>9. CoverInv'
  <2>0. \A e : Buffered(e)' = Buffered(e)
    BY DEF Buffered
  <2>1. PICK ex \in events : x = Buffered(ex)
    BY DEF CoverInv
  <2>2. \A y \in pending' : \E e \in events : y = Buffered(e)
    BY DEF CoverInv
  <2>3. ASSUME NEW i \in 1..(n + 1)
        PROVE  \E e \in events : busy'[i].end = Buffered(e).end
    <3>1. CASE i = n + 1
      BY <3>1, <1>5, <2>1
    <3>2. CASE i \in 1..n
      BY <3>2, <1>5 DEF CoverInv
    <3>3. QED BY <3>1, <3>2, <1>2
  <2>4. ASSUME NEW e \in events
        PROVE  \/ Buffered(e) \in pending'
               \/ \E i \in 1..(n + 1) : /\ busy'[i].start <= Buffered(e).start
                                        /\ Buffered(e).end <= busy'[i].end
    <3>1. CASE Buffered(e) \in pending /\ Buffered(e) # x
      BY <3>1
    <3>2. CASE Buffered(e) = x
      <4>1. n + 1 \in 1..(n + 1) /\ x.start <= x.start /\ x.end <= x.end
        BY <1>2, <1>3
      <4>2. QED BY <4>1, <3>2, <1>5
    <3>3. CASE Buffered(e) \notin pending
      <4>1. PICK i \in 1..n : busy[i].start <= Buffered(e).start
                              /\ Buffered(e).end <= busy[i].end
        BY <3>3 DEF CoverInv
      <4>2. i \in 1..(n + 1) /\ busy'[i] = busy[i]
        BY <1>2, <1>5
      <4>3. QED BY <4>1, <4>2
    <3>4. QED BY <3>1, <3>2, <3>3
  <2>5. ASSUME NEW s \in Minutes, \A e \in events : Clear(s, Buffered(e)),
               NEW i \in 1..(n + 1)
        PROVE  Clear(s, busy'[i])
    <3>1. CASE i = n + 1
      BY <2>1, <2>5, <3>1, <1>5
    <3>2. CASE i \in 1..n
      <4>1. Clear(s, busy[i])
        BY <2>5, <3>2 DEF CoverInv
      <4>2. QED BY <4>1, <3>2, <1>5
    <3>3. QED BY <3>1, <3>2, <1>2
  <2>6. UNCHANGED <<q, events>> /\ Len(busy') = n + 1 /\ pc = "merge" /\ pc' = "merge"
    BY <1>5
  <2>7. (\A i \in 1..Len(busy) : \E e \in events : busy[i].end = Buffered(e).end)'
    BY <2>0, <2>3, <2>6
  <2>8. (\A e \in events :
          \/ Buffered(e) \in pending
          \/ \E i \in 1..Len(busy) : busy[i].start <= Buffered(e).start
                                     /\ Buffered(e).end <= busy[i].end)'
    BY <2>0, <2>4, <2>6
  <2>9. (\A s \in Minutes : (\A e \in events : Clear(s, Buffered(e))) =>
           \A i \in 1..Len(busy) : Clear(s, busy[i]))'
    BY <2>5, <2>6 DEF Clear, Buffered
  <2>10. (\A y \in pending : \E e \in events : y = Buffered(e))'
    BY <2>0, <2>2, <2>6
  <2>11. QED BY <2>7, <2>8, <2>9, <2>10 DEF CoverInv
<1>10. QED BY <1>7, <1>8, <1>9

\* A step of _merge.
LEMMA MergeNextStep == SearchInv /\ MergeNext => SearchInv'
<1> SUFFICES ASSUME SearchInv, MergeNext PROVE SearchInv'
  OBVIOUS
<1>1. PICK x \in pending :
        /\ \A y \in pending : x.start <= y.start
        /\ pending' = pending \ {x}
        /\ busy' = IF busy # <<>> /\ x.start <= busy[Len(busy)].end
                   THEN [busy EXCEPT ![Len(busy)] = Joined(busy[Len(busy)], x)]
                   ELSE Append(busy, x)
  BY DEF MergeNext
<1>2. /\ pc = "merge"
      /\ UNCHANGED <<pc, q, calendar, events, date, index, cursor, candidates, options>>
  BY DEF MergeNext
<1>3. CASE busy # <<>> /\ x.start <= busy[Len(busy)].end
  BY <1>1, <1>2, <1>3, JoinStep
<1>4. CASE ~(busy # <<>> /\ x.start <= busy[Len(busy)].end)
  BY <1>1, <1>2, <1>4, AppendStep
<1>5. QED BY <1>3, <1>4

\* The end of _merge.
LEMMA MergeDoneStep == SearchInv /\ MergeDone => SearchInv'
<1> SUFFICES ASSUME SearchInv, MergeDone PROVE SearchInv'
  OBVIOUS
<1> USE DEF SearchInv
<1>1. TypeOK' /\ FetchInv' /\ CursorInv' /\ OfferInv' /\ PhaseInv'
  <2>1. /\ pc = "merge" /\ pc' \in {"merge", "day"} /\ pending' \subseteq pending
        /\ busy' \in Seq(Intervals)
        /\ UNCHANGED <<q, calendar, events, date, index, cursor, candidates, options>>
    BY DEF MergeDone, TypeOK
  <2>2. QED BY <2>1, MergeFrame
<1>2. OrderInv'
  BY DEF MergeDone, OrderInv
<1>3. CoverInv'
  BY DEF MergeDone, CoverInv, Clear, Buffered
<1>4. QED BY <1>1, <1>2, <1>3

-----------------------------------------------------------------------------
(* Searching.                                                              *)

\* The search changes neither the regions nor what they stand for.
LEMMA SearchFrame ==
  ASSUME SearchInv, pc \in {"day", "scan", "tail"}, pc' \in {"day", "scan", "tail", "done"},
         UNCHANGED <<q, calendar, events, pending, busy>>
  PROVE  FetchInv' /\ OrderInv' /\ CoverInv'
<1> USE DEF SearchInv
<1>1. FetchInv'
  BY DEF FetchInv, Clipped, InBounds
<1>2. OrderInv'
  BY DEF OrderInv
<1>3. CoverInv'
  BY DEF CoverInv, Clear, Buffered
<1>4. QED BY <1>1, <1>2, <1>3

\* The regions from position i on begin no earlier than region i.
LEMMA RegionsOrdered ==
  ASSUME TypeOK, OrderInv, NEW i \in 1..Len(busy), NEW k \in 1..Len(busy), i <= k
  PROVE  /\ busy[i].start \in Int /\ busy[i].end \in Int /\ busy[i].start <= busy[i].end
         /\ busy[i].start <= busy[k].start
<1>1. \A m \in 1..Len(busy) : busy[m] \in Intervals
  BY ElementOfSeq DEF TypeOK
<1>2. \A m \in 1..Len(busy) : /\ busy[m].start \in Int /\ busy[m].end \in Int
                              /\ busy[m].start <= busy[m].end
  BY <1>1 DEF Intervals
<1>3. CASE i = k
  BY <1>2, <1>3
<1>4. CASE i < k
  BY <1>2, <1>4 DEF OrderInv
<1>5. QED BY <1>2, <1>3, <1>4

\* The heart of the search: a gap from the cursor to limit that the block fits
\* in makes the cursor a candidate, which offers every start in the gap.
LEMMA Gap ==
  ASSUME SearchInv, pc \in {"scan", "tail"}, NEW limit, limit \in Int,
         cursor + q.duration <= limit, limit <= WindowEnd(date),
         \A i \in 1..Len(busy) : busy[i].end <= cursor \/ busy[i].start >= limit
  PROVE  /\ Anchor(cursor) /\ Fits(cursor)
         /\ date \in Dates /\ InDay(cursor, date)
         /\ \A s \in Int : s + q.duration <= limit =>
              \A e \in events : s + q.duration <= Buffered(e).start
                                \/ cursor >= Buffered(e).end
<1>0. TypeOK /\ OrderInv /\ CoverInv /\ CursorInv
  BY DEF SearchInv
<1>1. /\ q \in Requests /\ busy \in Seq(Intervals) /\ events \subseteq Intervals
      /\ date \in Int /\ cursor \in Int /\ pending = {}
  BY <1>0 DEF TypeOK, OrderInv
<1>2. date \in Dates
  BY <1>0, <1>1, RequestType DEF TypeOK, CursorInv, Dates
<1>3. /\ WindowStart(date) <= cursor
      /\ cursor = WindowStart(date) \/ \E e \in events : cursor = Buffered(e).end
  BY <1>0 DEF CursorInv
<1>4. /\ q.earliest <= cursor /\ cursor + q.duration <= q.deadline
      /\ InDay(cursor, date)
  <2>1. /\ q.duration \in Nat /\ WindowEnd(date) \in Int
    BY <1>1, RequestType, WindowType
  <2>2. cursor + q.duration <= WindowEnd(date)
    BY <1>1, <2>1
  <2>3. QED BY <1>1, <1>3, <2>2, WindowAdmits
<1>5. Anchor(cursor)
  <2>1. CASE cursor = WindowStart(date)
    BY <1>1, <1>2, <2>1, WindowType DEF Anchor
  <2>2. CASE \E e \in events : cursor = Buffered(e).end
    BY <2>2 DEF Anchor
  <2>3. QED BY <1>3, <2>1, <2>2
<1>6. ASSUME NEW s \in Int, s + q.duration <= limit, NEW e \in events
      PROVE  s + q.duration <= Buffered(e).start \/ cursor >= Buffered(e).end
  <2>1. PICK i \in 1..Len(busy) :
          busy[i].start <= Buffered(e).start /\ Buffered(e).end <= busy[i].end
    BY <1>0, <1>1 DEF CoverInv
  <2>2. /\ Buffered(e).start \in Int /\ Buffered(e).end \in Int
        /\ busy[i].start \in Int /\ busy[i].end \in Int
        /\ q.duration \in Nat
    <3>1. busy[i] \in Intervals
      BY <1>1, ElementOfSeq
    <3>2. Buffered(e).start \in Int /\ Buffered(e).end \in Int
      BY <1>1, IntervalType DEF Intervals
    <3>3. q.duration \in Nat
      BY <1>1, RequestType
    <3>4. QED BY <3>1, <3>2, <3>3 DEF Intervals
  <2>3. busy[i].end <= cursor \/ busy[i].start >= limit
    OBVIOUS
  <2>4. QED BY <1>1, <1>6, <2>1, <2>2, <2>3
<1>7. \A e \in events : Clear(cursor, Buffered(e))
  BY <1>1, <1>6 DEF Clear
<1>8. Fits(cursor)
  BY <1>2, <1>4, <1>7 DEF Fits
<1>9. QED BY <1>2, <1>4, <1>5, <1>6, <1>8

\* The start of a day.
LEMMA StartDayStep == SearchInv /\ StartDay => SearchInv'
<1> SUFFICES ASSUME SearchInv, StartDay PROVE SearchInv'
  OBVIOUS
<1> USE DEF SearchInv
<1>1. /\ q \in Requests /\ date \in Int /\ WindowStart(date) \in Int
      /\ date \in Dates
  BY RequestType, WindowType DEF TypeOK, StartDay, Dates
<1>2. FetchInv' /\ OrderInv' /\ CoverInv'
  BY SearchFrame DEF StartDay
<1>3. TypeOK'
  BY <1>1 DEF TypeOK, StartDay, Loops
<1>4. PhaseInv'
  BY DEF PhaseInv, StartDay
<1>5. WindowStart(date)' = WindowStart(date) /\ cursor' = WindowStart(date)
  BY DEF StartDay, WindowStart
<1>6. CursorInv'
  <2>1. \A i \in 1..Len(busy') : i >= index'
    BY DEF StartDay
  <2>2. QED BY <1>1, <1>5, <2>1 DEF CursorInv, StartDay
<1>7. OfferInv'
  <2>1. UNCHANGED <<q, events, candidates>>
    BY DEF StartDay
  <2>2. ASSUME NEW s \in Minutes, Fits(s)', Searched(s)'
        PROVE  Offered(s)'
    <3>1. Fits(s)
      BY <2>1, <2>2, SameRequest
    <3>2. Searched(s)
      <4>1. CASE \E d \in Dates' : d < date' /\ InDay(s, d)'
        BY <4>1, <2>1 DEF Searched, StartDay, Dates, InDay
      <4>2. CASE InDay(s, date)' /\ s < cursor'
        <5>1. s \in Int /\ q.earliest <= s /\ InDay(s, date)
          BY <3>1, <4>2, <2>1, InstanceAssumption DEF Fits, InDay, StartDay
        <5>2. s >= WindowStart(date)
          BY <5>1, <1>1, WindowAdmits
        <5>3. s < WindowStart(date)
          BY <4>2, <1>5
        <5>4. QED BY <5>1, <5>2, <5>3, <1>1
      <4>3. QED BY <4>1, <4>2, <2>2 DEF Searched
    <3>3. Offered(s)
      BY <3>1, <3>2 DEF OfferInv
    <3>4. QED BY <3>3, <2>1, OffersKept
  <2>3. ASSUME NEW c \in candidates'
        PROVE  Anchor(c.start)' /\ Fits(c.start)'
    BY <2>1, <2>3, SameRequest DEF OfferInv
  <2>4. QED BY <2>2, <2>3 DEF OfferInv
<1>8. QED BY <1>2, <1>3, <1>4, <1>6, <1>7

\* Passing a region that is over before the cursor.
LEMMA SkipRegionStep == SearchInv /\ SkipRegion => SearchInv'
<1> SUFFICES ASSUME SearchInv, SkipRegion PROVE SearchInv'
  OBVIOUS
<1> USE DEF SearchInv
<1>1. FetchInv' /\ OrderInv' /\ CoverInv'
  BY SearchFrame DEF SkipRegion
<1>2. TypeOK'
  BY DEF TypeOK, SkipRegion
<1>3. PhaseInv'
  BY DEF PhaseInv, SkipRegion
<1>4. CursorInv'
  <2>1. ASSUME NEW i \in 1..Len(busy)
        PROVE  busy[i].end <= cursor \/ i >= index + 1
    <3>1. CASE i = index
      BY <3>1 DEF SkipRegion
    <3>2. CASE i # index
      BY <3>2 DEF CursorInv, SkipRegion, TypeOK
    <3>3. QED BY <3>1, <3>2
  <2>2. QED BY <2>1 DEF CursorInv, SkipRegion, WindowStart, WindowEnd, Buffered
<1>5. OfferInv'
  BY DEF OfferInv, SkipRegion, Searched, Offered, Anchor, Fits, Dates, InDay,
         Clear, Buffered
<1>6. QED BY <1>1, <1>2, <1>3, <1>4, <1>5

\* Leaving the regions.
LEMMA LeaveRegionsStep == SearchInv /\ LeaveRegions => SearchInv'
<1> SUFFICES ASSUME SearchInv, LeaveRegions PROVE SearchInv'
  OBVIOUS
<1> USE DEF SearchInv
<1>1. FetchInv' /\ OrderInv' /\ CoverInv'
  BY SearchFrame DEF LeaveRegions
<1>2. TypeOK'
  BY DEF TypeOK, LeaveRegions, Loops
<1>3. PhaseInv'
  BY DEF PhaseInv, LeaveRegions
<1>4. CursorInv'
  <2>1. /\ q \in Requests /\ date \in Int /\ index \in Nat \ {0} /\ Len(busy) \in Nat
    BY LenProperties DEF TypeOK
  <2>2. ASSUME NEW i \in 1..Len(busy)
        PROVE  busy[i].end <= cursor \/ busy[i].start >= WindowEnd(date)
    <3>1. CASE i < index
      BY <3>1, <2>1 DEF CursorInv, LeaveRegions
    <3>2. CASE i >= index
      <4>1. index \in 1..Len(busy) /\ busy[index].start >= WindowEnd(date)
        BY <3>2, <2>1 DEF LeaveRegions
      <4>2. busy[index].start \in Int /\ busy[i].start \in Int
            /\ busy[index].start <= busy[i].start
        BY <3>2, <4>1, RegionsOrdered
      <4>3. WindowEnd(date) \in Int
        BY <2>1, WindowType
      <4>4. QED BY <4>1, <4>2, <4>3
    <3>3. QED BY <3>1, <3>2, <2>1
  <2>3. QED BY <2>2 DEF CursorInv, LeaveRegions, WindowStart, WindowEnd, Buffered
<1>5. OfferInv'
  BY DEF OfferInv, LeaveRegions, Searched, Offered, Anchor, Fits, Dates, InDay,
         Clear, Buffered
<1>6. QED BY <1>1, <1>2, <1>3, <1>4, <1>5

\* A candidate found in the gap up to limit, and the cursor or the day moved
\* on: everything offered before stays offered, and the gap is offered too.
LEMMA OfferStep ==
  ASSUME SearchInv, pc \in {"scan", "tail"}, NEW limit, limit \in Int,
         limit <= WindowEnd(date),
         \A i \in 1..Len(busy) : busy[i].end <= cursor \/ busy[i].start >= limit,
         UNCHANGED <<q, events>>,
         candidates' = IF limit - cursor >= q.duration
                       THEN candidates \cup {Option(cursor)} ELSE candidates,
         \A s \in Minutes : Fits(s) /\ Searched(s)' /\ ~Searched(s) =>
           cursor <= s /\ InDay(s, date) /\ s + q.duration <= limit
  PROVE  OfferInv'
<1> USE DEF SearchInv
<1>1. /\ q \in Requests /\ date \in Int /\ cursor \in Int
      /\ q.duration \in Nat /\ WindowEnd(date) \in Int
  BY RequestType, WindowType DEF TypeOK
<1>2. limit - cursor >= q.duration <=> cursor + q.duration <= limit
  BY <1>1
<1>3. Option(cursor).start = cursor
  BY <1>1, OptionType
<1>4. ASSUME NEW c \in candidates'
      PROVE  Anchor(c.start)' /\ Fits(c.start)'
  <2>1. CASE c \in candidates
    BY <2>1, SameRequest DEF OfferInv
  <2>2. CASE c \notin candidates
    <3>1. c.start = cursor /\ cursor + q.duration <= limit
      BY <2>2, <1>2, <1>3
    <3>2. Anchor(cursor) /\ Fits(cursor)
      BY <3>1, Gap
    <3>3. Anchor(c.start) /\ Fits(c.start)
      BY <3>1, <3>2
    <3>4. QED BY <3>3, SameRequest
  <2>3. QED BY <2>1, <2>2
<1>5. ASSUME NEW s \in Minutes, Fits(s)', Searched(s)'
      PROVE  Offered(s)'
  <2>1. Fits(s)
    BY <1>5, SameRequest
  <2>2. CASE Searched(s)
    <3>1. Offered(s) /\ candidates \subseteq candidates'
      BY <2>1, <2>2 DEF OfferInv
    <3>2. QED BY <3>1, OffersKept
  <2>3. CASE ~Searched(s)
    <3>1. s \in Int /\ cursor <= s /\ InDay(s, date) /\ s + q.duration <= limit
      BY <1>5, <2>1, <2>3, InstanceAssumption
    <3>2. cursor + q.duration <= limit
      BY <3>1, <1>1
    <3>3. Option(cursor) \in candidates'
      BY <3>2, <1>2
    <3>4. /\ date \in Dates /\ InDay(cursor, date)
          /\ \A e \in events : s + q.duration <= Buffered(e).start
                               \/ cursor >= Buffered(e).end
      BY <3>1, <3>2, Gap
    <3>5. PICK c \in candidates' : c.start = cursor
      BY <3>3, <1>3
    <3>6. /\ c.start <= s
          /\ \E d \in Dates : InDay(c.start, d) /\ InDay(s, d)
          /\ \A e \in events : s + q.duration <= Buffered(e).start
                               \/ c.start >= Buffered(e).end
      BY <3>1, <3>4, <3>5
    <3>7. QED BY <3>6 DEF Offered, Dates, InDay, Buffered
  <2>4. QED BY <2>2, <2>3
<1>6. QED BY <1>4, <1>5 DEF OfferInv

\* A region in the window.
LEMMA TakeRegionStep == SearchInv /\ TakeRegion => SearchInv'
<1> SUFFICES ASSUME SearchInv, TakeRegion PROVE SearchInv'
  OBVIOUS
<1> USE DEF SearchInv
<1> DEFINE r == busy[index]
<1>1. /\ q \in Requests /\ date \in Int /\ index \in 1..Len(busy) /\ cursor \in Int
      /\ index \in Nat /\ Len(busy) \in Nat /\ WindowEnd(date) \in Int
      /\ q.duration \in Nat
  BY LenProperties, WindowType, RequestType DEF TypeOK, TakeRegion
<1>2. /\ r.start \in Int /\ r.end \in Int /\ r.start <= r.end
      /\ \A i \in 1..Len(busy) : i >= index => busy[i].start >= r.start
  BY <1>1, RegionsOrdered
<1>3. /\ cursor' = r.end /\ r.end > cursor /\ r.start < WindowEnd(date)
  BY <1>1, <1>2 DEF TakeRegion, Later
<1>4. \A i \in 1..Len(busy) : busy[i].end <= cursor \/ busy[i].start >= r.start
  <2> SUFFICES ASSUME NEW i \in 1..Len(busy), ~(busy[i].end <= cursor)
               PROVE  busy[i].start >= r.start
    OBVIOUS
  <2>1. i >= index
    BY DEF CursorInv, TakeRegion
  <2>2. QED BY <1>2, <2>1
<1>5. FetchInv' /\ OrderInv' /\ CoverInv'
  BY SearchFrame DEF TakeRegion
<1>6. TypeOK'
  <2>1. candidates' \subseteq [start : Int, score : Int]
    BY <1>1, OptionType DEF TypeOK, TakeRegion
  <2>2. options' \subseteq candidates'
    BY DEF TypeOK, TakeRegion
  <2>3. QED BY <1>1, <1>2, <1>3, <2>1, <2>2 DEF TypeOK, TakeRegion, Loops
<1>7. PhaseInv'
  BY DEF PhaseInv, TakeRegion
<1>8. CursorInv'
  <2>1. \E e \in events : cursor' = Buffered(e).end
    BY <1>1, <1>3 DEF CoverInv
  <2>2. cursor' >= WindowStart(date)
    <3>1. WindowStart(date) \in Int
      BY <1>1, WindowType
    <3>2. cursor >= WindowStart(date)
      BY DEF CursorInv, TakeRegion
    <3>3. QED BY <1>1, <1>2, <1>3, <3>1, <3>2
  <2>3. ASSUME NEW i \in 1..Len(busy)
        PROVE  busy[i].end <= cursor' \/ i >= index + 1
    <3>1. CASE i = index
      BY <3>1, <1>2, <1>3
    <3>2. CASE i < index
      <4>1. busy[i].end <= cursor /\ busy[i].end \in Int
        BY <3>2, <1>1, RegionsOrdered DEF CursorInv, TakeRegion
      <4>2. QED BY <4>1, <1>1, <1>2, <1>3
    <3>3. QED BY <3>1, <3>2, <1>1
  <2>4. /\ date <= DayOf(q.deadline) /\ index' = index + 1
        /\ pc' = IF cursor' >= WindowEnd(date) THEN "tail" ELSE "scan"
        /\ UNCHANGED <<q, events, busy, date>>
    BY DEF CursorInv, TakeRegion
  <2>5. WindowStart(date)' = WindowStart(date) /\ WindowEnd(date)' = WindowEnd(date)
    BY <2>4 DEF WindowStart, WindowEnd
  <2>6. (\E e \in events : cursor = Buffered(e).end)'
    BY <2>1, <2>4 DEF Buffered
  <2>7. QED BY <2>2, <2>3, <2>4, <2>5, <2>6 DEF CursorInv
<1>9. OfferInv'
  <2>1. ASSUME NEW s \in Minutes, Fits(s), Searched(s)', ~Searched(s)
        PROVE  cursor <= s /\ InDay(s, date) /\ s + q.duration <= r.start
    <3>1. s \in Int /\ InDay(s, date) /\ s < cursor' /\ ~(s < cursor)
      BY <2>1, InstanceAssumption DEF Searched, TakeRegion, Dates, InDay
    <3>2. Clear(s, r)
      BY <2>1, <1>1 DEF CoverInv, Fits
    <3>3. s + q.duration <= r.start
      BY <3>1, <3>2, <1>1, <1>2, <1>3 DEF Clear
    <3>4. QED BY <3>1, <3>3, <1>1
  <2>2. r.start <= WindowEnd(date) /\ r.start \in Int
    BY <1>1, <1>2, <1>3
  <2>3. /\ pc \in {"scan", "tail"} /\ UNCHANGED <<q, events>>
        /\ candidates' = IF r.start - cursor >= q.duration
                         THEN candidates \cup {Option(cursor)} ELSE candidates
    BY DEF TakeRegion
  <2> HIDE DEF r
  <2>4. QED BY <1>4, <2>1, <2>2, <2>3, OfferStep
<1>10. QED BY <1>5, <1>6, <1>7, <1>8, <1>9

\* The end of a day.
LEMMA EndDayStep == SearchInv /\ EndDay => SearchInv'
<1> SUFFICES ASSUME SearchInv, EndDay PROVE SearchInv'
  OBVIOUS
<1> USE DEF SearchInv
<1>1. /\ q \in Requests /\ date \in Int /\ cursor \in Int /\ WindowEnd(date) \in Int
      /\ q.duration \in Nat /\ q.duration > 0
  <2>1. q \in Requests /\ date \in Int /\ cursor \in Int
    BY DEF TypeOK
  <2>2. WindowEnd(date) \in Int
    BY <2>1, WindowType
  <2>3. q.duration \in Nat /\ q.duration > 0
    BY <2>1, RequestType
  <2>4. QED BY <2>1, <2>2, <2>3
<1>2. FetchInv' /\ OrderInv' /\ CoverInv'
  BY SearchFrame DEF EndDay
<1>3. TypeOK'
  <2>1. candidates' \subseteq [start : Int, score : Int] /\ options' \subseteq candidates'
    BY <1>1, OptionType DEF TypeOK, EndDay
  <2>2. date' \in Nat /\ date' >= DayOf(q.earliest) /\ date' <= DayOf(q.deadline) + 1
    BY <1>1, RequestType DEF TypeOK, CursorInv, EndDay
  <2>3. QED BY <2>1, <2>2 DEF TypeOK, EndDay, Loops
<1>4. PhaseInv'
  BY DEF PhaseInv, EndDay
<1>5. CursorInv'
  BY DEF CursorInv, EndDay
<1>6. CASE cursor >= WindowEnd(date)
  <2>1. ~(WindowEnd(date) - cursor >= q.duration)
    BY <1>1, <1>6
  <2>2. UNCHANGED <<q, events, candidates>>
    BY <2>1 DEF EndDay
  <2>3. ASSUME NEW s \in Minutes, Fits(s)', Searched(s)'
        PROVE  Offered(s)'
    <3>1. Fits(s)
      BY <2>2, <2>3, SameRequest
    <3>2. Searched(s)
      <4>1. \E d \in Dates : d < date + 1 /\ InDay(s, d)
        BY <2>3, <2>2 DEF Searched, EndDay, Dates, InDay
      <4>2. CASE \E d \in Dates : d < date /\ InDay(s, d)
        BY <4>2 DEF Searched
      <4>3. CASE InDay(s, date)
        <5>1. s \in Int /\ s + q.duration <= WindowEnd(date)
          BY <4>3, <3>1, <1>1, WindowAdmits, InstanceAssumption DEF Fits
        <5>2. s < cursor
          BY <5>1, <1>1, <1>6
        <5>3. QED BY <4>3, <5>2 DEF Searched, EndDay
      <4>4. QED BY <4>1, <4>2, <4>3, <1>1, RequestType DEF Dates
    <3>3. QED BY <3>1, <3>2, <2>2, OffersKept DEF OfferInv
  <2>4. \A c \in candidates' : Anchor(c.start)' /\ Fits(c.start)'
    BY <2>2, SameRequest DEF OfferInv
  <2>5. OfferInv'
    BY <2>3, <2>4 DEF OfferInv
  <2>6. QED BY <1>2, <1>3, <1>4, <1>5, <2>5
<1>7. CASE ~(cursor >= WindowEnd(date))
  <2>1. ASSUME NEW s \in Minutes, Fits(s), Searched(s)', ~Searched(s)
        PROVE  cursor <= s /\ InDay(s, date) /\ s + q.duration <= WindowEnd(date)
    <3>1. \E d \in Dates : d < date + 1 /\ InDay(s, d)
      BY <2>1 DEF Searched, EndDay, Dates, InDay
    <3>2. InDay(s, date) /\ s \in Int
      BY <2>1, <3>1, <1>1, RequestType, InstanceAssumption DEF Searched, Dates
    <3>3. ~(s < cursor)
      BY <2>1, <3>2 DEF Searched, EndDay
    <3>4. s + q.duration <= WindowEnd(date)
      BY <2>1, <3>2, <1>1, WindowAdmits DEF Fits
    <3>5. QED BY <3>2, <3>3, <3>4, <1>1
  <2>2. \A i \in 1..Len(busy) : busy[i].end <= cursor \/ busy[i].start >= WindowEnd(date)
    BY <1>7 DEF CursorInv, EndDay
  <2>3. /\ pc \in {"scan", "tail"} /\ UNCHANGED <<q, events>>
        /\ WindowEnd(date) <= WindowEnd(date)
        /\ candidates' = IF WindowEnd(date) - cursor >= q.duration
                         THEN candidates \cup {Option(cursor)} ELSE candidates
    BY <1>1 DEF EndDay
  <2>4. PICK limit : limit = WindowEnd(date)
    OBVIOUS
  <2>5. OfferInv'
    BY <1>1, <2>1, <2>2, <2>3, <2>4, OfferStep
  <2>6. QED BY <1>2, <1>3, <1>4, <1>5, <2>5
<1>8. QED BY <1>6, <1>7

\* Ranking.
LEMMA RankStep == SearchInv /\ Rank => SearchInv'
<1> SUFFICES ASSUME SearchInv, Rank PROVE SearchInv'
  OBVIOUS
<1> USE DEF SearchInv
<1>1. FetchInv' /\ OrderInv' /\ CoverInv'
  BY SearchFrame DEF Rank
<1>2. TypeOK'
  BY DEF TypeOK, Rank, Shortlist, Loops
<1>3. PhaseInv' /\ CursorInv'
  BY DEF PhaseInv, CursorInv, Rank
<1>4. OfferInv'
  BY DEF OfferInv, Rank, Searched, Offered, Anchor, Fits, Dates, InDay, Clear, Buffered
<1>5. QED BY <1>1, <1>2, <1>3, <1>4

\* A stuttering step.
LEMMA StutterStep == SearchInv /\ UNCHANGED vars => SearchInv'
  BY DEF SearchInv, vars, TypeOK, PhaseInv, FetchInv, OrderInv, CoverInv, CursorInv,
         OfferInv, Searched, Offered, Anchor, Fits, Dates, InDay, Clear, Buffered,
         Clipped, InBounds, WindowStart, WindowEnd

-----------------------------------------------------------------------------
(* The theorems.                                                           *)

\* The inductive invariant: merging loses no busy minute, the cursor separates
\* what is taken from what is not, and everything before it has been offered.
THEOREM SearchInvHolds == Spec => []SearchInv
<1>1. SearchInv /\ [Next]_vars => SearchInv'
  BY FetchStep, MergeNextStep, MergeDoneStep, StartDayStep, SkipRegionStep,
     TakeRegionStep, LeaveRegionsStep, EndDayStep, RankStep, StutterStep DEF Next
<1>2. QED BY InitSearch, <1>1, PTL DEF Spec

\* When the search is over, every day has been searched.
LEMMA AllSearched ==
  ASSUME SearchInv, pc = "done", NEW s, Fits(s)
  PROVE  Searched(s)
<1>1. PICK d \in Dates : InDay(s, d)
  BY DEF Fits
<1>2. d < date
  BY <1>1, RequestType DEF Dates, SearchInv, TypeOK, PhaseInv
<1>3. QED BY <1>1, <1>2 DEF Searched

\* No opening is missed, for any request and any calendar: where a block fits,
\* its gap has been offered, so no_availability tells the truth.
THEOREM EveryGapIsOfferedHolds == Spec => []EveryGapIsOffered
<1>1. SearchInv => EveryGapIsOffered
  BY AllSearched DEF SearchInv, OfferInv, EveryGapIsOffered
<1>2. QED BY <1>1, SearchInvHolds, PTL

\* The candidates are exactly the earliest fits of the free gaps, for any
\* request and any calendar.
THEOREM CandidatesAreFirstFitsHolds == Spec => []CandidatesAreFirstFits
<1>1. ASSUME SearchInv, pc = "done", NEW s \in Minutes
      PROVE  (\E c \in candidates : c.start = s) <=> Anchor(s) /\ Fits(s)
  <2>1. (\E c \in candidates : c.start = s) => Anchor(s) /\ Fits(s)
    BY <1>1 DEF SearchInv, OfferInv
  <2>2. ASSUME Anchor(s), Fits(s)
        PROVE  \E c \in candidates : c.start = s
    <3>1. PICK c \in candidates :
            /\ c.start <= s
            /\ \E d \in Dates : InDay(c.start, d) /\ InDay(s, d)
            /\ \A e \in events : s + q.duration <= Buffered(e).start
                                 \/ c.start >= Buffered(e).end
      BY <1>1, <2>2, AllSearched DEF SearchInv, OfferInv, Offered
    <3>2. /\ q \in Requests /\ s \in Int /\ c.start \in Int /\ events \subseteq Intervals
          /\ q.earliest \in Nat /\ q.duration \in Nat /\ q.duration > 0
          /\ q.dailyStart \in Nat /\ q.dailyEnd \in Nat /\ q.dailyEnd < 1440
          /\ DayOf(q.earliest) \in Nat /\ DayOf(q.deadline) \in Nat
      <4>1. /\ q \in Requests /\ c.start \in Int /\ events \subseteq Intervals
        BY <1>1 DEF SearchInv, TypeOK
      <4>2. QED BY <4>1, InstanceAssumption, RequestType
    <3>3. Fits(c.start)
      BY <1>1 DEF SearchInv, OfferInv
    <3>4. CASE s = q.earliest
      BY <3>1, <3>2, <3>3, <3>4 DEF Fits
    <3>5. CASE \E e \in events : s = Buffered(e).end
      <4>1. PICK e \in events : s = Buffered(e).end
        BY <3>5
      <4>2. Buffered(e).start \in Int /\ Buffered(e).start <= s
        BY <3>2, <4>1, IntervalType DEF Intervals
      <4>3. c.start >= s
        BY <3>1, <3>2, <4>1, <4>2
      <4>4. QED BY <3>1, <3>2, <4>3
    <3>6. CASE \E d \in Dates : s = d * 1440 + q.dailyStart
      <4>1. PICK d \in Dates : s = d * 1440 + q.dailyStart
        BY <3>6
      <4>2. PICK k \in Dates : InDay(c.start, k) /\ InDay(s, k)
        BY <3>1
      <4>3. d \in Int /\ k \in Int
        BY <3>2 DEF Dates
      <4>4. k <= d /\ k >= d
        BY <3>2, <4>1, <4>2, <4>3 DEF InDay
      <4>5. k = d
        BY <4>3, <4>4
      <4>6. c.start >= s
        BY <4>1, <4>2, <4>5 DEF InDay
      <4>7. QED BY <3>1, <3>2, <4>6
    <3>7. QED BY <2>2, <3>4, <3>5, <3>6 DEF Anchor
  <2>3. QED BY <2>1, <2>2
<1>2. SearchInv => CandidatesAreFirstFits
  BY <1>1 DEF CandidatesAreFirstFits
<1>3. QED BY <1>2, SearchInvHolds, PTL

\* No option overlaps an event in the busy calendars, whether or not the
\* bounds of the search cut the event off.
THEOREM NothingDoubleBookedHolds == Spec => []NothingDoubleBooked
<1>1. ASSUME SearchInv, NEW o \in options, NEW e \in calendar
      PROVE  o.start + q.duration <= e.start \/ o.start >= e.end
  <2>1. /\ q \in Requests /\ calendar \subseteq Intervals /\ o \in candidates
        /\ o.start \in Int /\ pc # "fetch"
    BY <1>1, InstanceAssumption DEF SearchInv, TypeOK, PhaseInv
  <2>2. /\ q.earliest \in Nat /\ q.deadline \in Nat /\ q.duration \in Nat
        /\ q.before \in Nat /\ q.after \in Nat /\ q.duration > 0
    BY <2>1, RequestType
  <2>3. e.start \in Int /\ e.end \in Int /\ e.start <= e.end
    BY <2>1 DEF Intervals
  <2>4. Fits(o.start)
    BY <1>1, <2>1 DEF SearchInv, OfferInv
  <2>5. CASE ~InBounds(e)
    BY <2>1, <2>2, <2>3, <2>4, <2>5 DEF Fits, InBounds
  <2>6. CASE InBounds(e)
    <3>1. Clipped(e) \in events
      BY <1>1, <2>1, <2>6 DEF SearchInv, FetchInv
    <3>2. Clear(o.start, Buffered(Clipped(e)))
      BY <2>4, <3>1 DEF Fits
    <3>3. \/ o.start + q.duration <= Clipped(e).start - q.before
          \/ o.start >= Clipped(e).end + q.after
      BY <3>2 DEF Clear, Buffered
    <3>4. /\ Clipped(e).start = Later(e.start, q.earliest)
          /\ Clipped(e).end = Earlier(e.end, q.deadline)
      BY DEF Clipped
    <3>5. q.earliest <= o.start /\ o.start + q.duration <= q.deadline
      BY <2>4 DEF Fits
    <3>6. QED BY <2>1, <2>2, <2>3, <3>3, <3>4, <3>5 DEF Later, Earlier
  <2>7. QED BY <2>5, <2>6
<1>2. SearchInv => NothingDoubleBooked
  BY <1>1 DEF NothingDoubleBooked
<1>3. QED BY <1>2, SearchInvHolds, PTL

-----------------------------------------------------------------------------
(* The ranking.                                                            *)

\* A quotient and its rest.
LEMMA Division ==
  ASSUME NEW n \in Int
  PROVE  \E k \in Int, r \in 0..47 : n = 48 * k + r /\ n \div 48 = k /\ n % 48 = r
<1>1. n \div 48 \in Int /\ n % 48 \in Int
  OBVIOUS
<1>2. 0 <= n % 48 /\ n % 48 <= 47
  OBVIOUS
<1>3. n = 48 * (n \div 48) + (n % 48)
  OBVIOUS
<1> QED
  BY <1>1, <1>2, <1>3

\* Rounding keeps the order.
LEMMA RoundedMonotone ==
  ASSUME NEW m \in Int, NEW n \in Int, m <= n
  PROVE  /\ Rounded(m, 48) \in Int /\ Rounded(n, 48) \in Int
         /\ Rounded(m, 48) <= Rounded(n, 48)
<1>1. PICK a \in Int, c \in 0..47 : m = 48 * a + c /\ m \div 48 = a /\ m % 48 = c
  BY Division
<1>2. PICK b \in Int, d \in 0..47 : n = 48 * b + d /\ n \div 48 = b /\ n % 48 = d
  BY Division
<1>3. /\ Rounded(m, 48) = IF 2 * c < 48 \/ (2 * c = 48 /\ a % 2 = 0) THEN a ELSE a + 1
      /\ Rounded(n, 48) = IF 2 * d < 48 \/ (2 * d = 48 /\ b % 2 = 0) THEN b ELSE b + 1
  BY <1>1, <1>2 DEF Rounded
<1>4. a < b \/ (a = b /\ c <= d)
  BY <1>1, <1>2
<1> QED
  BY <1>3, <1>4

\* Of two starts of one class the earlier scores no less.
LEMMA ScoreMonotone ==
  ASSUME q \in Requests, NEW s \in Int, NEW t \in Int, s <= t,
         Daytime(s) = Daytime(t), LateEvening(s) = LateEvening(t),
         NEW x, NEW y, Flexible(s, x) = Flexible(t, y)
  PROVE  Score(s, x) \in Int /\ Score(t, y) \in Int /\ Score(t, y) <= Score(s, x)
<1> DEFINE m == 1000 * 48 - (t - q.earliest)
           n == 1000 * 48 - (s - q.earliest)
           plus == (IF Daytime(s) THEN 100 ELSE 0)
           minus == (IF LateEvening(s) THEN 150 ELSE 0)
           extra == (IF Flexible(s, x) THEN 50 ELSE 0)
<1>1. m \in Int /\ n \in Int /\ m <= n
  BY RequestType
<1>2. /\ Score(s, x) = Rounded(n, 48) + plus - minus + extra
      /\ Score(t, y) = Rounded(m, 48) + plus - minus + extra
  BY DEF Score
<1>3. plus \in Int /\ minus \in Int /\ extra \in Int
  OBVIOUS
<1> HIDE DEF m, n, plus, minus, extra
<1>4. /\ Rounded(m, 48) \in Int /\ Rounded(n, 48) \in Int
      /\ Rounded(m, 48) <= Rounded(n, 48)
  BY <1>1, RoundedMonotone
<1> QED
  BY <1>2, <1>3, <1>4

\* While the request stays, so do scores.
LEMMA SameScore ==
  ASSUME q' = q, NEW s
  PROVE  Score(s, WindowEnd(DayOf(s)))' = Score(s, WindowEnd(DayOf(s)))
  BY DEF Score, WindowEnd, Flexible, Daytime, LateEvening, HourOf, DayOf, Rounded, Earlier

\* What the search offers begins on the day that it searches.
LEMMA OfferedToday ==
  ASSUME SearchInv, pc \in {"scan", "tail"}, NEW limit \in Int, limit <= WindowEnd(date),
         limit - cursor >= q.duration
  PROVE  DayOf(cursor) = date
<1>1. /\ q \in Requests /\ date \in Int /\ cursor \in Int /\ cursor >= WindowStart(date)
  BY DEF SearchInv, TypeOK, CursorInv
<1>2. /\ WindowStart(date) \in Int /\ WindowStart(date) >= date * 1440 + q.dailyStart
      /\ WindowEnd(date) \in Int /\ WindowEnd(date) <= date * 1440 + q.dailyEnd
      /\ q.dailyStart \in Nat /\ q.dailyEnd \in Nat /\ q.dailyEnd < 1440
      /\ q.duration \in Nat
  BY <1>1, WindowType, RequestType
<1>3. date * 1440 <= cursor /\ cursor < date * 1440 + 1440
  BY <1>1, <1>2
<1> QED
  BY <1>1, <1>3 DEF DayOf

\* An option that is added scores as it does on the day it begins on.
LEMMA ScoreStep ==
  ASSUME SearchInv, ScoreInv, pc \in {"scan", "tail"},
         NEW limit \in Int, limit <= WindowEnd(date), q' = q,
         candidates' = IF limit - cursor >= q.duration
                       THEN candidates \cup {Option(cursor)} ELSE candidates
  PROVE  ScoreInv'
<1>1. IsFiniteSet(candidates')
  BY FS_AddElement DEF ScoreInv
<1>2. ASSUME NEW c \in candidates'
      PROVE  c.score = Score(c.start, WindowEnd(DayOf(c.start)))
  <2>1. CASE c \in candidates
    BY <2>1 DEF ScoreInv
  <2>2. CASE c \notin candidates
    <3>1. c = Option(cursor) /\ DayOf(cursor) = date
      BY <2>2, OfferedToday
    <3> QED
      BY <3>1 DEF Option
  <2> QED
    BY <2>1, <2>2
<1>3. \A c \in candidates' : c.score = Score(c.start, WindowEnd(DayOf(c.start)))'
  BY <1>2, SameScore
<1> QED
  BY <1>1, <1>3 DEF ScoreInv

\* While nothing is added, nothing changes.
LEMMA ScoresKept ==
  ASSUME ScoreInv, UNCHANGED <<q, candidates>>
  PROVE  ScoreInv'
<1>1. \A c \in candidates : c.score = Score(c.start, WindowEnd(DayOf(c.start)))'
  BY SameScore DEF ScoreInv
<1> QED
  BY <1>1 DEF ScoreInv

\* Every step keeps the scores, and the shortlist is what is returned.
LEMMA RankingStep ==
  ASSUME SearchInv, ScoreInv, pc = "done" => options = Shortlist, [Next]_vars
  PROVE  ScoreInv' /\ (pc = "done" => options = Shortlist)'
<1>1. CASE TakeRegion
  <2>1. /\ pc = "scan" /\ index \in 1..Len(busy) /\ busy[index].start < WindowEnd(date)
        /\ q' = q /\ pc' \in {"scan", "tail"}
        /\ candidates' = IF busy[index].start - cursor >= q.duration
                         THEN candidates \cup {Option(cursor)} ELSE candidates
    <3>1. index \in Nat \ {0} /\ Len(busy) \in Nat
      BY LenProperties DEF SearchInv, TypeOK
    <3> QED
      BY <1>1, <3>1 DEF TakeRegion
  <2>2. busy[index].start \in Int
    BY <2>1, ElementOfSeq DEF SearchInv, TypeOK, Intervals
  <2>3. WindowEnd(date) \in Int
    BY WindowType DEF SearchInv, TypeOK
  <2>4. PICK limit \in Int : limit = busy[index].start
    BY <2>2
  <2>5. limit <= WindowEnd(date)
    BY <2>1, <2>3, <2>4
  <2>6. ScoreInv'
    BY <2>1, <2>4, <2>5, ScoreStep
  <2> QED
    BY <2>1, <2>6
<1>2. CASE EndDay
  <2>1. /\ pc = "tail" /\ pc' = "day" /\ q' = q
        /\ candidates' = IF WindowEnd(date) - cursor >= q.duration
                         THEN candidates \cup {Option(cursor)} ELSE candidates
    BY <1>2 DEF EndDay
  <2>2. WindowEnd(date) \in Int
    BY WindowType DEF SearchInv, TypeOK
  <2>3. PICK limit \in Int : limit = WindowEnd(date)
    BY <2>2
  <2>4. ScoreInv'
    BY <2>1, <2>3, ScoreStep
  <2> QED
    BY <2>1, <2>4
<1>3. CASE Rank
  <2>1. UNCHANGED <<q, candidates>> /\ options' = Shortlist
    BY <1>3 DEF Rank
  <2>2. Shortlist' = Shortlist
    BY <2>1 DEF Shortlist, Better
  <2> QED
    BY <2>1, <2>2, ScoresKept
<1>4. CASE Fetch \/ MergeNext \/ MergeDone \/ StartDay \/ SkipRegion \/ LeaveRegions
  <2>1. UNCHANGED <<q, candidates>> /\ pc' # "done"
    BY <1>4 DEF Fetch, MergeNext, MergeDone, StartDay, SkipRegion, LeaveRegions
  <2> QED
    BY <2>1, ScoresKept
<1>5. CASE UNCHANGED vars
  <2>1. UNCHANGED <<q, candidates, options, pc>>
    BY <1>5 DEF vars
  <2>2. Shortlist' = Shortlist
    BY <2>1 DEF Shortlist, Better
  <2> QED
    BY <2>1, <2>2, ScoresKept
<1> QED
  BY <1>1, <1>2, <1>3, <1>4, <1>5 DEF Next

\* Reading a finite calendar leaves finitely many intervals.
LEMMA FiniteFetch ==
  ASSUME SearchInv, Fetch
  PROVE  IsFiniteSet(pending')
<1> DEFINE inBounds == {e \in calendar : InBounds(e)}
           f == [e \in inBounds |-> Buffered(Clipped(e))]
<1>1. IsFiniteSet(calendar)
  BY InstanceAssumption DEF SearchInv, TypeOK
<1>2. IsFiniteSet(inBounds)
  <2>1. inBounds \in SUBSET calendar
    OBVIOUS
  <2> QED
    BY <1>1, <2>1, FS_Subset
<1>3. events' = {Clipped(e) : e \in inBounds} /\ pending' = {Buffered(e) : e \in events'}
  BY DEF Fetch
<1>4. /\ \A e \in inBounds : f[e] \in pending'
      /\ \A x \in pending' : \E e \in inBounds : f[e] = x
  BY <1>3
<1>5. f \in Surjection(inBounds, pending')
  BY <1>4 DEF Surjection
<1> QED
  BY <1>2, <1>5, FS_Surjection

\* Every step keeps what is to be merged finite, and the scan in its place.
LEMMA PlaceStep ==
  ASSUME SearchInv, PlaceInv, [Next]_vars
  PROVE  PlaceInv'
<1>1. index \in Nat \ {0} /\ Len(busy) \in Nat
  BY LenProperties DEF SearchInv, TypeOK
<1>2. CASE Fetch
  <2>1. pc' = "merge"
    BY <1>2 DEF Fetch
  <2> QED
    BY <1>2, <2>1, FiniteFetch DEF PlaceInv
<1>3. CASE MergeNext
  <2>1. pc' = "merge" /\ \E x : pending' = pending \ {x}
    BY <1>3 DEF MergeNext
  <2> QED
    BY <2>1, FS_RemoveElement DEF PlaceInv
<1>4. CASE StartDay
  <2>1. pending' = pending /\ busy' = busy /\ index' = 1
    BY <1>4 DEF StartDay
  <2> QED
    BY <1>1, <2>1 DEF PlaceInv
<1>5. CASE SkipRegion \/ TakeRegion
  <2>1. pending' = pending /\ busy' = busy /\ index' = index + 1 /\ index <= Len(busy)
    BY <1>5 DEF SkipRegion, TakeRegion
  <2> QED
    BY <1>1, <2>1 DEF PlaceInv
<1>6. CASE MergeDone \/ LeaveRegions \/ EndDay \/ Rank
  <2>1. pending' = pending /\ pc' # "scan"
    BY <1>6 DEF MergeDone, LeaveRegions, EndDay, Rank
  <2> QED
    BY <2>1 DEF PlaceInv
<1>7. CASE UNCHANGED vars
  BY <1>7 DEF PlaceInv, vars
<1> QED
  BY <1>2, <1>3, <1>4, <1>5, <1>6, <1>7 DEF Next

\* The inductive invariant: that of the search, and the candidates score as their day
\* makes them, and the options are the best of them.
THEOREM IndInvHolds == Spec => []IndInv
<1>1. Init => ScoreInv /\ PlaceInv /\ (pc = "done" => options = Shortlist)
  BY FS_EmptySet DEF Init, ScoreInv, PlaceInv
<1>2. Init => IndInv
  BY <1>1, InitSearch DEF IndInv
<1>3. SearchInv /\ SearchInv' /\ IndInv /\ [Next]_vars => IndInv'
  BY RankingStep, PlaceStep DEF IndInv
<1> QED
  BY <1>2, <1>3, SearchInvHolds, PTL DEF Spec

\* For any request and any calendar, however long the search and however its scores
\* are rounded: a candidate that is left out begins after every option of its class.
THEOREM EarlierPreferredHolds == Spec => []EarlierPreferred
<1> DEFINE Ahead(c) == {b \in candidates : Better(b, c)}
<1>1. ASSUME IndInv, NEW o \in options, NEW c \in candidates \ options,
             Daytime(o.start) = Daytime(c.start),
             LateEvening(o.start) = LateEvening(c.start),
             Flexible(o.start, WindowEnd(DayOf(o.start)))
               = Flexible(c.start, WindowEnd(DayOf(c.start)))
      PROVE  o.start < c.start
  <2>1. /\ q \in Requests /\ candidates \subseteq [start : Int, score : Int]
        /\ o \in candidates /\ c \in candidates
    BY <1>1 DEF IndInv, SearchInv, TypeOK
  <2>2. /\ o \in [start : Int, score : Int] /\ c \in [start : Int, score : Int]
    BY <2>1
  <2>3. SUFFICES ASSUME c.start <= o.start PROVE FALSE
    BY <2>2
  <2>4. /\ o.score = Score(o.start, WindowEnd(DayOf(o.start)))
        /\ c.score = Score(c.start, WindowEnd(DayOf(c.start)))
    BY <1>1, <2>1 DEF IndInv, ScoreInv
  <2>5. c.score >= o.score
    BY <1>1, <2>1, <2>2, <2>3, <2>4, ScoreMonotone
  <2>6. c # o
    BY <1>1
  <2>7. c.start < o.start
    <3>1. c.start = o.start => c.score = o.score
      BY <2>4
    <3>2. c.start = o.start /\ c.score = o.score => c = o
      BY <2>2
    <3> QED
      BY <2>2, <2>3, <2>6, <3>1, <3>2
  <2>8. \A b \in candidates : Better(b, c) => Better(b, o)
    <3> SUFFICES ASSUME NEW b \in candidates, Better(b, c) PROVE Better(b, o)
      OBVIOUS
    <3>1. b \in [start : Int, score : Int]
      BY <2>1
    <3> QED
      BY <2>2, <2>5, <2>7, <3>1 DEF Better
  <2>9. options = Shortlist /\ q.maxOptions \in Nat
    <3>1. pc = "done"
      BY <1>1 DEF IndInv, SearchInv, PhaseInv
    <3>2. q \in RequestRows
      BY <2>1, InstanceAssumption
    <3> QED
      BY <1>1, <3>1, <3>2 DEF IndInv, RequestRows
  <2>10. IsFiniteSet(Ahead(o)) /\ Ahead(c) \subseteq Ahead(o)
    <3>1. Ahead(o) \in SUBSET candidates /\ IsFiniteSet(candidates)
      BY <1>1 DEF IndInv, ScoreInv
    <3> QED
      BY <2>8, <3>1, FS_Subset
  <2>11. /\ Cardinality(Ahead(o)) \in Nat /\ Cardinality(Ahead(c)) \in Nat
         /\ Cardinality(Ahead(c)) <= Cardinality(Ahead(o))
    <3>1. IsFiniteSet(Ahead(c)) /\ Cardinality(Ahead(c)) <= Cardinality(Ahead(o))
      BY <2>10, FS_Subset
    <3> QED
      BY <2>10, <3>1, FS_CardinalityType
  <2>12. Cardinality(Ahead(o)) < q.maxOptions
    BY <1>1, <2>9 DEF Shortlist
  <2>13. Cardinality(Ahead(c)) < q.maxOptions
    BY <2>9, <2>11, <2>12
  <2>14. c \in Shortlist
    BY <2>1, <2>13 DEF Shortlist
  <2> QED
    BY <1>1, <2>9, <2>14
<1>2. IndInv => EarlierPreferred
  BY <1>1 DEF EarlierPreferred
<1> QED
  BY <1>2, IndInvHolds, PTL

-----------------------------------------------------------------------------
(* Every step brings the engine nearer to its end.                         *)

\* What is left is numbers.
LEMMA LeftIsNumbers ==
  ASSUME SearchInv, PlaceInv
  PROVE  Left \in Numbers
<1>1. /\ Cardinality(pending) \in Nat /\ index \in Nat \ {0} /\ Len(busy) \in Nat
      /\ pc = "scan" => index <= Len(busy) + 1
  BY FS_CardinalityType, LenProperties DEF SearchInv, TypeOK, PlaceInv
<1>2. DayOf(q.deadline) + 1 - date \in Nat
  <2>1. /\ date \in Nat /\ date <= DayOf(q.deadline) + 1 /\ DayOf(q.deadline) \in Nat
    BY RequestType DEF SearchInv, TypeOK
  <2> QED
    BY <2>1
<1>3. (CASE pc = "fetch" -> 3 [] pc = "merge" -> 2 [] pc = "done" -> 0 [] OTHER -> 1) \in Nat
  OBVIOUS
<1>4. (CASE pc = "day" -> Len(busy) + 3 [] pc = "scan" -> Len(busy) + 2 - index
         [] OTHER -> 0) \in Nat
  BY <1>1
<1> QED
  BY <1>1, <1>2, <1>3, <1>4 DEF Left, Numbers

\* So it is after a step.
LEMMA LeftStaysNumbers == SearchInv' /\ PlaceInv' => (Left \in Numbers)'
<1>1. SearchInv /\ PlaceInv => Left \in Numbers
  BY LeftIsNumbers
<1> QED
  BY <1>1, PTL

\* Which numbers are below which.
LEMMA BelowBy ==
  ASSUME NEW a, NEW b,
         \/ a[1] < b[1]
         \/ a[1] = b[1] /\ a[2] < b[2]
         \/ a[1] = b[1] /\ a[2] = b[2] /\ a[3] < b[3]
         \/ a[1] = b[1] /\ a[2] = b[2] /\ a[3] = b[3] /\ a[4] < b[4]
  PROVE  Below(a, b)
<1>1. CASE a[1] < b[1]
  <2>1. \A j \in 1..(1 - 1) : a[j] = b[j]
    OBVIOUS
  <2> QED
    BY <1>1, <2>1 DEF Below
<1>2. CASE a[1] = b[1] /\ a[2] < b[2]
  <2>1. \A j \in 1..(2 - 1) : a[j] = b[j]
    BY <1>2
  <2> QED
    BY <1>2, <2>1 DEF Below
<1>3. CASE a[1] = b[1] /\ a[2] = b[2] /\ a[3] < b[3]
  <2>1. \A j \in 1..(3 - 1) : a[j] = b[j]
    BY <1>3
  <2> QED
    BY <1>3, <2>1 DEF Below
<1>4. CASE a[1] = b[1] /\ a[2] = b[2] /\ a[3] = b[3] /\ a[4] < b[4]
  <2>1. \A j \in 1..(4 - 1) : a[j] = b[j]
    BY <1>4
  <2> QED
    BY <1>4, <2>1 DEF Below
<1> QED
  BY <1>1, <1>2, <1>3, <1>4

\* Each step leaves less to do.
LEMMA StepAdvances ==
  ASSUME SearchInv, PlaceInv, SearchInv', PlaceInv', Next
  PROVE  Advances
<1> DEFINE phase(x) == CASE x = "fetch" -> 3 [] x = "merge" -> 2 [] x = "done" -> 0
                         [] OTHER -> 1
           place(x, n, i) == CASE x = "day" -> n + 3 [] x = "scan" -> n + 2 - i
                               [] OTHER -> 0
<1>1. Left \in Numbers /\ Left' \in Numbers
  BY LeftIsNumbers, LeftStaysNumbers
<1>2. PICK a, b : a = Left' /\ b = Left
  OBVIOUS
<1>3. /\ b[1] = phase(pc) /\ b[2] = Cardinality(pending)
      /\ b[3] = DayOf(q.deadline) + 1 - date /\ b[4] = place(pc, Len(busy), index)
  BY <1>2 DEF Left
<1>4. /\ a[1] = phase(pc') /\ a[2] = Cardinality(pending')
      /\ a[3] = (DayOf(q.deadline) + 1 - date)' /\ a[4] = place(pc', Len(busy'), index')
  BY <1>2 DEF Left
<1>5. /\ q \in Requests /\ DayOf(q.deadline) \in Nat /\ date \in Nat
      /\ index \in Nat \ {0} /\ Len(busy) \in Nat
      /\ IsFiniteSet(pending) /\ Cardinality(pending) \in Nat
  BY RequestType, LenProperties, FS_CardinalityType DEF SearchInv, TypeOK, PlaceInv
<1>6. CASE Fetch \/ MergeDone
  <2>1. a[1] < b[1]
    BY <1>3, <1>4, <1>6 DEF Fetch, MergeDone
  <2> QED
    BY <1>1, <1>2, <2>1, BelowBy DEF Advances
<1>7. CASE Rank
  <2>1. a[1] < b[1]
    BY <1>3, <1>4, <1>7 DEF Rank
  <2> QED
    BY <1>1, <1>2, <2>1, BelowBy DEF Advances
<1>8. CASE MergeNext
  <2>1. pc' = pc /\ \E x \in pending : pending' = pending \ {x}
    BY <1>8 DEF MergeNext
  <2>2. Cardinality(pending') = Cardinality(pending) - 1
    BY <1>5, <2>1, FS_RemoveElement
  <2>3. a[1] = b[1] /\ a[2] < b[2]
    BY <1>3, <1>4, <1>5, <2>1, <2>2
  <2> QED
    BY <1>1, <1>2, <2>3, BelowBy DEF Advances
<1>9. CASE EndDay
  <2>1. pc = "tail" /\ pc' = "day" /\ q' = q /\ pending' = pending /\ date' = date + 1
    BY <1>9 DEF EndDay
  <2>2. a[1] = b[1] /\ a[2] = b[2]
    BY <1>3, <1>4, <2>1
  <2>3. a[3] < b[3]
    <3>1. a[3] = DayOf(q.deadline) + 1 - (date + 1)
      BY <1>4, <2>1 DEF DayOf
    <3> QED
      BY <1>3, <1>5, <3>1
  <2> QED
    BY <1>1, <1>2, <2>2, <2>3, BelowBy DEF Advances
<1>10. CASE StartDay \/ SkipRegion \/ TakeRegion \/ LeaveRegions
  <2>1. /\ q' = q /\ pending' = pending /\ date' = date /\ busy' = busy
        /\ pc \in {"day", "scan"} /\ pc' \in {"scan", "tail"}
    BY <1>10 DEF StartDay, SkipRegion, TakeRegion, LeaveRegions
  <2>2. a[1] = b[1] /\ a[2] = b[2]
    BY <1>3, <1>4, <2>1
  <2>3. a[3] = b[3]
    BY <1>3, <1>4, <2>1 DEF DayOf
  <2>4. a[4] < b[4]
    <3>1. CASE StartDay
      <4>1. pc = "day" /\ pc' = "scan" /\ index' = 1
        BY <3>1 DEF StartDay
      <4> QED
        BY <1>3, <1>4, <1>5, <2>1, <4>1
    <3>2. CASE SkipRegion \/ TakeRegion
      <4>1. pc = "scan" /\ index' = index + 1 /\ index <= Len(busy)
        BY <3>2 DEF SkipRegion, TakeRegion
      <4> QED
        BY <1>3, <1>4, <1>5, <2>1, <4>1
    <3>3. CASE LeaveRegions
      <4>1. pc = "scan" /\ pc' = "tail" /\ index <= Len(busy) + 1
        BY <3>3 DEF LeaveRegions, PlaceInv
      <4> QED
        BY <1>3, <1>4, <1>5, <2>1, <4>1
    <3> QED
      BY <1>10, <3>1, <3>2, <3>3
  <2> QED
    BY <1>1, <1>2, <2>2, <2>3, <2>4, BelowBy DEF Advances
<1> QED
  BY <1>6, <1>7, <1>8, <1>9, <1>10 DEF Next

\* Whatever the request and the calendar are, each step of each loop leaves less to do:
\* neither the loop over the regions nor that over the days can go round for ever.
THEOREM EveryStepAdvancesHolds == Spec => EveryStepAdvances
<1>1. IndInv /\ IndInv' /\ [Next]_vars => [Advances]_vars
  BY StepAdvances DEF IndInv
<1> QED
  BY <1>1, IndInvHolds, PTL DEF Spec, EveryStepAdvances
=============================================================================
