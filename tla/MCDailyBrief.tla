----------------------------- MODULE MCDailyBrief -----------------------------
(***************************************************************************)
(* Model checking of DailyBrief: days of four slots, the brief is of day 1. *)
(***************************************************************************)
EXTENDS DailyBrief, TLC

CONSTANTS u1, u2, show, meal, hall

Spans == {<<s, e>> \in (4..7) \X (4..8) : s <= e /\ e - s <= 3}

Event(id, uid, title, location, span, block) ==
  [id |-> id, uid |-> uid, title |-> title, location |-> location,
   start |-> span[1], end |-> span[2], block |-> block]

\* Three events of any length, at any time, without places: for the overlaps.
Crowded ==
  {{Event(1, u1, show, None, p, FALSE), Event(2, u2, meal, None, q, b),
    Event(3, None, meal, None, r, TRUE)} :
      p, q, r \in Spans, b \in BOOLEAN}

\* Two occurrences of one event, two events of one title, in places or not.
Travelled ==
  {{Event(1, x, show, l, <<4, 5>>, FALSE), Event(2, y, show, m, p, FALSE),
    Event(3, y, meal, hall, <<7, 8>>, b)} :
      x \in {u1, None}, y \in {u1, None}, l, m \in {hall, None}, p \in {<<4, 7>>, <<6, 7>>},
      b \in BOOLEAN}

\* The bounds of the day: an event of no length, one before, one into the next day.
AtTheBounds ==
  {{Event(1, u1, show, None, p, FALSE), Event(2, u2, meal, None, q, FALSE)} :
      p, q \in {<<3, 4>>, <<4, 4>>, <<3, 5>>, <<5, 5>>, <<6, 5>>, <<7, 9>>, <<8, 9>>}}

Task(id, done, due, priority) ==
  [id |-> id, done |-> done, due |-> due, priority |-> priority]

TaskLists ==
  {{Task(1, FALSE, 2, 1), Task(2, FALSE, 3, 0), Task(3, FALSE, 6, 3), Task(4, FALSE, 5, 0)},
   {Task(1, FALSE, None, 2), Task(2, FALSE, 6, 2), Task(3, TRUE, 2, 5), Task(4, FALSE, 2, 0)},
   {Task(1, FALSE, 9, 1), Task(2, FALSE, 3, 1), Task(3, FALSE, 3, 1)}}

Scenario(date, travelling, sky, happening, list) ==
  [now |-> 5, date |-> date, travel |-> travelling, weather |-> sky,
   events |-> happening, tasks |-> list]

MCScenarios ==
  {Scenario(None, "off", FALSE, c, {}) : c \in Crowded}
    \cup {Scenario(date, "on", TRUE, c, {}) : date \in {None, 2}, c \in Travelled}
    \cup {Scenario(date, t, TRUE, c, l) : date \in {None, 1, 2}, t \in {"no home", "on"},
                                         c \in {{}} \cup AtTheBounds, l \in TaskLists}

MCEvents ==
  [id : 1..3, uid : {u1, u2, None}, title : {show, meal}, location : {hall, None},
   start : 3..8, end : 4..9, block : BOOLEAN]
MCTasks == [id : 1..4, done : BOOLEAN, due : (2..9) \cup {None}, priority : 0..5]
=============================================================================
