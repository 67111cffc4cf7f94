---------------------------- MODULE MCAvailability ----------------------------
(***************************************************************************)
(* Model checking of Availability.  The hours of the day are chosen around   *)
(* the window and the thresholds of the score; every time is a multiple of   *)
(* fifteen minutes, and AllMinutes are those in the hours of the two days.   *)
(***************************************************************************)
EXTENDS Availability

Span(a, b) == [start |-> a, end |-> b]

\* Bounds that begin before, in and after the daily window and end in it, after
\* it and two days later; hours that are short, late, empty (reversed) or wide.
AllRequests ==
  {[earliest |-> b[1], deadline |-> b[2], duration |-> d[1], before |-> w[1],
    after |-> w[2], maxOptions |-> d[2], dailyStart |-> h[1], dailyEnd |-> h[2]] :
     b \in {<<480, 2100>>, <<600, 690>>, <<690, 2040>>},
     d \in {<<30, 1>>, <<60, 2>>}, w \in {<<0, 0>>, <<15, 30>>},
     h \in {<<540, 690>>, <<600, 540>>}}

\* Events before, across and after each bound, touching, nested, empty, and one
\* over the night.
AllEvents ==
  {Span(450, 480), Span(540, 570), Span(570, 600), Span(540, 660), Span(600, 600),
   Span(630, 690), Span(600, 2040), Span(660, 720), Span(1980, 2010),
   Span(2010, 2100), Span(2040, 2070), Span(2070, 2130)}

\* Up to three of them.
AllCalendars ==
  {{}} \cup {{x, y, z} : x \in AllEvents, y \in AllEvents, z \in AllEvents}

AllMinutes == {15 * n : n \in 32..46 \cup 132..140}
=============================================================================
