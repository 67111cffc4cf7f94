----------------------------- MODULE MCScheduler -----------------------------
EXTENDS Scheduler, TLC

CONSTANTS r1, r2, r3, f1, t1, t2, work, home

\* The two orders of the slots: the earliest first, or the second before it.
EarlyFirst == [from \in Slots |-> [s \in Slots |-> s]]
SecondFirst ==
  [from \in Slots |-> [s \in Slots |-> IF s = 1 THEN 2 ELSE IF s = 2 THEN 1 ELSE s]]

Ask(task, calendar, busy, earliest_iso, deadline, rank) ==
  [task |-> task, calendar |-> calendar, busy |-> busy, earliest_iso |-> earliest_iso,
   whole |-> TRUE, deadline |-> deadline, rank |-> rank, create |-> TRUE]

\* Two tasks, a destination that is not a busy calendar, bounds that do not
\* coincide, an earliest start with a fraction of a second and one read off the
\* clock, a recommendation, and a plain event.
SomeRows == {Ask(t1, work, {work}, None, 3, EarlyFirst),
             [Ask(t1, work, {home}, 1, 2, EarlyFirst) EXCEPT !.whole = FALSE],
             Ask(t2, work, {work, home}, 1, 2, SecondFirst),
             [Ask(t1, home, {work}, None, 2, EarlyFirst) EXCEPT !.create = FALSE],
             Ask(None, work, {}, 1, 1, EarlyFirst)}

\* Empty: a block of an earlier process is like one of a handler that is done.
SomeCalendars == [ForeignIds -> {None}]

\* An appointment, and a block whose marker its owner copied.
SomeAdded == {[calendar |-> home, slot |-> 1, marker |-> None],
              [calendar |-> work, slot |-> 3, marker |-> t1]}

Symmetry == Permutations(Requests)
=============================================================================
