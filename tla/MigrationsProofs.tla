--------------------------- MODULE MigrationsProofs ---------------------------
(***************************************************************************)
(* What holds of the schema for any number of servers, any scripts that are  *)
(* in order, and however often a server or a downgrade dies.                 *)
(***************************************************************************)
EXTENDS Migrations, FiniteSetTheorems, TLAPS

-----------------------------------------------------------------------------
(* The scripts.                                                             *)

\* The length of the scripts, and what their statements make.
LEMMA ScriptFacts ==
  ASSUME NEW v \in Versions
  PROVE  /\ v \in Nat \ {0} /\ v <= Latest
         /\ Len(Up[v]) \in Nat /\ DOMAIN Up[v] = 1..Len(Up[v])
         /\ Len(Down[v]) \in Nat /\ DOMAIN Down[v] = 1..Len(Down[v])
         /\ MadeBefore(v, Len(Up[v]) + 1) = Made(v) /\ MadeBefore(v, 1) = {}
         /\ DroppedBefore(v, 1) = {} /\ DroppedBefore(v, Len(Down[v]) + 1) = Made(v) \ Indexes
<1>1. Latest \in Nat /\ Up[v] \in Seq(Objects) /\ Down[v] \in Seq(Objects)
  BY ScriptAssumption
<1>2. v \in Nat \ {0} /\ v <= Latest
  BY <1>1 DEF Versions
<1>3. /\ Len(Up[v]) \in Nat /\ DOMAIN Up[v] = 1..Len(Up[v])
      /\ Len(Down[v]) \in Nat /\ DOMAIN Down[v] = 1..Len(Down[v])
  BY <1>1
<1>4. MadeBefore(v, Len(Up[v]) + 1) = Made(v)
  BY <1>3 DEF MadeBefore, Made
<1>5. MadeBefore(v, 1) = {} /\ DroppedBefore(v, 1) = {}
  BY DEF MadeBefore, DroppedBefore
<1> QED
  BY <1>2, <1>3, <1>4, <1>5, ScriptAssumption

\* One more statement of the script.
LEMMA NextStatement ==
  ASSUME NEW v \in Versions, NEW n \in DOMAIN Up[v]
  PROVE  /\ MadeBefore(v, n + 1) = MadeBefore(v, n) \cup {Up[v][n]}
         /\ Up[v][n] \in Made(v) /\ Refs[Up[v][n]] \subseteq MadeBefore(v, n)
         /\ n \in Nat /\ n < Len(Up[v]) + 1
<1>1. n \in 1..Len(Up[v]) /\ Len(Up[v]) \in Nat
  BY ScriptFacts
<1>2. 1..((n + 1) - 1) = (1..(n - 1)) \cup {n}
  BY <1>1
<1>3. MadeBefore(v, n + 1) = MadeBefore(v, n) \cup {Up[v][n]}
  BY <1>2 DEF MadeBefore
<1> QED
  BY <1>1, <1>3, ScriptAssumption DEF Made

\* One more table dropped: what refers to it is an index, or has been dropped before.
LEMMA NextDrop ==
  ASSUME NEW v \in Versions, NEW n \in DOMAIN Down[v]
  PROVE  /\ DroppedBefore(v, n + 1) = DroppedBefore(v, n) \cup {Down[v][n]}
         /\ Down[v][n] \in Made(v)
         /\ \A o \in Made(v) \ Indexes : Down[v][n] \in Refs[o] => o \in DroppedBefore(v, n)
         /\ n \in Nat /\ n < Len(Down[v]) + 1
<1>1. n \in 1..Len(Down[v]) /\ Len(Down[v]) \in Nat
  BY ScriptFacts
<1>2. 1..((n + 1) - 1) = (1..(n - 1)) \cup {n}
  BY <1>1
<1>3. DroppedBefore(v, n + 1) = DroppedBefore(v, n) \cup {Down[v][n]}
  BY <1>2 DEF DroppedBefore
<1>4. Down[v][n] \in DroppedBefore(v, Len(Down[v]) + 1)
  BY <1>1 DEF DroppedBefore
<1>5. Down[v][n] \in Made(v)
  BY <1>4, ScriptFacts
<1> QED
  BY <1>1, <1>3, <1>5, ScriptAssumption

\* An object refers to tables that are made by the version that makes it.
LEMMA RefsWithin ==
  ASSUME NEW v \in Versions, NEW o \in Made(v)
  PROVE  Refs[o] \subseteq Made(v) \ Indexes
<1>1. PICK n \in DOMAIN Up[v] : o = Up[v][n]
  BY DEF Made
<1>2. MadeBefore(v, n) \subseteq Made(v)
  BY <1>1, ScriptFacts DEF MadeBefore, Made
<1>3. o \in Objects
  BY <1>1, ScriptAssumption
<1> QED
  BY <1>1, <1>2, <1>3, NextStatement, ScriptAssumption

-----------------------------------------------------------------------------
(* The servers.                                                             *)

\* What a server is left with when its loop goes on, or ends.
LEMMA OnwardFacts ==
  ASSUME TypeOK, NEW p \in Servers, NEW v \in 0..Latest, NEW done \in SUBSET Versions,
         Onward(p, v, done)
  PROVE  /\ \A q \in Servers \ {p} : pc'[q] = pc[q] /\ version'[q] = version[q] /\ line'[q] = line[q]
         /\ \/ pc'[p] = "ready" /\ \A w \in Versions : w <= v \/ w \in done
            \/ /\ pc'[p] = "script" /\ line'[p] = 1
               /\ version'[p] \in Versions \ done /\ version'[p] > v
               /\ \A w \in 1..(version'[p] - 1) : w <= v \/ w \in done
         /\ pc' \in [Servers -> {"stopped", "script", "pending", "ready", "crashed"}]
         /\ version' \in [Servers -> 0..Latest] /\ line' \in [Servers -> Nat \ {0}]
<1> DEFINE left == {w \in Versions : w > v /\ w \notin done}
<1>1. /\ pc \in [Servers -> {"stopped", "script", "pending", "ready", "crashed"}]
      /\ version \in [Servers -> 0..Latest] /\ line \in [Servers -> Nat \ {0}]
  BY DEF TypeOK
<1>2. Latest \in Nat /\ v \in Nat /\ Versions \subseteq Nat \ {0} /\ Versions = 1..Latest
  BY ScriptAssumption DEF Versions
<1>3. CASE left = {}
  <2>1. \A w \in Versions : w <= v \/ w \in done
    BY <1>2, <1>3
  <2>2. pc' = [pc EXCEPT ![p] = "ready"] /\ UNCHANGED <<version, line>>
    BY <1>3 DEF Onward
  <2> QED
    BY <1>1, <2>1, <2>2
<1>4. CASE left # {}
  <2>1. /\ pc' = [pc EXCEPT ![p] = "script"] /\ line' = [line EXCEPT ![p] = 1]
        /\ \E w \in left : (\A x \in left : w <= x) /\ version' = [version EXCEPT ![p] = w]
    BY <1>4 DEF Onward
  <2>2. PICK w \in left : (\A x \in left : w <= x) /\ version' = [version EXCEPT ![p] = w]
    BY <2>1
  <2>3. w \in Versions \ done /\ w \in 0..Latest /\ w > v
    BY <1>2, <2>2
  <2>4. \A x \in 1..(w - 1) : x <= v \/ x \in done
    BY <1>2, <2>2, <2>3
  <2>5. version'[p] = w
    BY <1>1, <2>2
  <2> HIDE DEF left
  <2> QED
    BY <1>1, <2>1, <2>2, <2>3, <2>4, <2>5
<1> QED
  BY <1>3, <1>4

\* A server that migrates, when objects and rows have only grown and nothing else of it
\* has changed.
LEMMA StillUpgrading ==
  ASSUME NEW p \in Servers, Upgrading(p),
         rows \subseteq rows', objects \subseteq objects',
         applied'[p] = applied[p], version'[p] = version[p], line'[p] = line[p],
         pc'[p] = "pending" => pc[p] = "pending" /\ version[p] \notin rows',
         \A q \in Servers : pc'[q] = "pending" => pc[q] = "pending"
  PROVE  Upgrading(p)'
<1>1. MadeBefore(version'[p], line'[p]) = MadeBefore(version[p], line[p])
  OBVIOUS
<1> QED
  BY <1>1 DEF Upgrading, MadeBefore

-----------------------------------------------------------------------------
(* The steps of an upgrade.                                                 *)

\* A server that reads the applied rows keeps the invariant.
LEMMA BeginStep ==
  ASSUME IndInv, NEW p \in Servers, Begin(p)
  PROVE  IndInv'
<1>1. /\ TypeOK /\ undoing = 0 /\ UNCHANGED <<objects, rows, undoing, undoLine, torn, crashes>>
      /\ applied' = [applied EXCEPT ![p] = rows] /\ Onward(p, 0, rows)
  BY DEF Begin, IndInv
<1>2. /\ rows \in SUBSET Versions /\ 0 \in 0..Latest /\ applied \in [Servers -> SUBSET Versions]
  BY <1>1, ScriptAssumption DEF TypeOK
<1>3. /\ \A q \in Servers \ {p} : pc'[q] = pc[q] /\ version'[q] = version[q] /\ line'[q] = line[q]
      /\ \/ pc'[p] = "ready" /\ \A w \in Versions : w <= 0 \/ w \in rows
         \/ /\ pc'[p] = "script" /\ line'[p] = 1
            /\ version'[p] \in Versions \ rows
            /\ \A w \in 1..(version'[p] - 1) : w <= 0 \/ w \in rows
      /\ pc' \in [Servers -> {"stopped", "script", "pending", "ready", "crashed"}]
      /\ version' \in [Servers -> 0..Latest] /\ line' \in [Servers -> Nat \ {0}]
  BY <1>1, <1>2, OnwardFacts
<1>4. applied'[p] = rows /\ \A q \in Servers \ {p} : applied'[q] = applied[q]
  BY <1>1, <1>2
<1>5. TypeOK'
  BY <1>1, <1>2, <1>3 DEF TypeOK, Made
<1>6. ASSUME pc'[p] = "ready" PROVE rows = Versions
  <2>1. \A w \in Versions : w \in rows
    BY <1>3, <1>6 DEF Versions
  <2> QED
    BY <1>2, <2>1
<1>7. SchemaIsWhole'
  BY <1>1, <1>3, <1>6 DEF IndInv, SchemaIsWhole, RowMeansObjects, BeginningOfSchema, ReadyMeansMigrated
<1>8. ASSUME pc'[p] \in {"script", "pending"} PROVE Upgrading(p)'
  <2>1. pc'[p] = "script" /\ line'[p] = 1 /\ version'[p] \in Versions \ rows
    BY <1>3, <1>8
  <2>2. 1..(version'[p] - 1) \subseteq rows
    BY <1>3, <2>1
  <2>3. MadeBefore(version'[p], 1) = {} /\ Len(Up[version'[p]]) \in Nat
    BY <2>1, ScriptFacts
  <2> QED
    BY <1>1, <1>4, <2>1, <2>2, <2>3 DEF Upgrading, MadeBefore
<1>9. ASSUME NEW q \in Servers \ {p}, pc'[q] \in {"script", "pending"} PROVE Upgrading(q)'
  <2>1. Upgrading(q)
    BY <1>3, <1>9 DEF IndInv
  <2>2. pc'[q] = "pending" => version[q] \notin rows'
    BY <1>1, <1>3, <2>1 DEF Upgrading
  <2> QED
    BY <1>1, <1>3, <1>4, <2>1, <2>2, StillUpgrading
<1> QED
  BY <1>1, <1>5, <1>7, <1>8, <1>9 DEF IndInv

\* A server that migrates is never met by a downgrade.
LEMMA NoDowngrade ==
  ASSUME IndInv, NEW p \in Servers, pc[p] # "stopped"
  PROVE  undoing = 0
  BY DEF IndInv, Undoing

\* A statement of an upgrade keeps it.
LEMMA StatementStep ==
  ASSUME IndInv, NEW p \in Servers, Statement(p)
  PROVE  IndInv'
<1> DEFINE v == version[p]
           o == Up[v][line[p]]
<1>1. /\ TypeOK /\ pc[p] = "script" /\ line[p] \in DOMAIN Up[v] /\ undoing = 0
      /\ objects' = objects \cup {o} /\ line' = [line EXCEPT ![p] = @ + 1]
      /\ UNCHANGED <<rows, pc, applied, version, undoing, undoLine, torn, crashes>>
  BY NoDowngrade DEF Statement, IndInv
<1>2. Upgrading(p) /\ v \in Versions
  BY <1>1 DEF IndInv, Upgrading
<1>3. /\ MadeBefore(v, line[p] + 1) = MadeBefore(v, line[p]) \cup {o}
      /\ o \in Made(v) /\ Refs[o] \subseteq MadeBefore(v, line[p])
      /\ line[p] \in Nat /\ line[p] < Len(Up[v]) + 1 /\ Len(Up[v]) \in Nat
  BY <1>1, <1>2, NextStatement, ScriptFacts
<1>4. line'[p] = line[p] + 1 /\ \A q \in Servers \ {p} : line'[q] = line[q]
  BY <1>1 DEF TypeOK
<1>5. TypeOK'
  <2>1. objects' \subseteq UNION {Made(w) : w \in Versions}
    BY <1>1, <1>2, <1>3 DEF TypeOK
  <2>2. line' \in [Servers -> Nat \ {0}]
    BY <1>1, <1>3 DEF TypeOK
  <2> QED
    BY <1>1, <2>1, <2>2 DEF TypeOK, Made
<1>6. SchemaIsWhole'
  <2>1. \A x \in objects' : Refs[x] \subseteq objects'
    BY <1>1, <1>2, <1>3 DEF IndInv, SchemaIsWhole, BeginningOfSchema, Upgrading
  <2> QED
    BY <1>1, <2>1 DEF IndInv, SchemaIsWhole, RowMeansObjects, BeginningOfSchema, ReadyMeansMigrated, Made
<1>7. Upgrading(p)'
  <2>1. MadeBefore(v, line[p] + 1) \subseteq objects'
    BY <1>1, <1>2, <1>3 DEF Upgrading
  <2>2. line[p] + 1 <= Len(Up[v]) + 1
    BY <1>3
  <2> HIDE DEF o
  <2> QED
    BY <1>1, <1>2, <1>4, <2>1, <2>2 DEF Upgrading, MadeBefore
<1>8. ASSUME NEW q \in Servers \ {p}, pc'[q] \in {"script", "pending"} PROVE Upgrading(q)'
  <2>1. Upgrading(q)
    BY <1>1, <1>8 DEF IndInv
  <2>2. pc'[q] = "pending" => version[q] \notin rows'
    BY <1>1, <2>1 DEF Upgrading
  <2> QED
    BY <1>1, <1>4, <2>1, <2>2, StillUpgrading
<1> QED
  BY <1>1, <1>5, <1>6, <1>7, <1>8 DEF IndInv

\* The insertion of the version row keeps it.
LEMMA InsertStep ==
  ASSUME IndInv, NEW p \in Servers, Insert(p)
  PROVE  IndInv'
<1> DEFINE v == version[p]
<1>1. /\ TypeOK /\ pc[p] = "script" /\ line[p] \notin DOMAIN Up[v] /\ Unlocked /\ undoing = 0
      /\ pc' = [pc EXCEPT ![p] = IF v \in rows THEN "crashed" ELSE "pending"]
      /\ UNCHANGED <<objects, rows, applied, version, line, undoing, undoLine, torn, crashes>>
  BY NoDowngrade DEF Insert, IndInv
<1>2. /\ pc'[p] = IF v \in rows THEN "crashed" ELSE "pending"
      /\ \A q \in Servers \ {p} : pc'[q] = pc[q] /\ pc[q] # "pending"
      /\ pc' \in [Servers -> {"stopped", "script", "pending", "ready", "crashed"}]
  BY <1>1 DEF TypeOK, Unlocked
<1>3. TypeOK'
  BY <1>1, <1>2 DEF TypeOK, Made
<1>4. SchemaIsWhole'
  BY <1>1, <1>2 DEF IndInv, SchemaIsWhole, RowMeansObjects, BeginningOfSchema, ReadyMeansMigrated, Made
<1>5. ASSUME pc'[p] \in {"script", "pending"} PROVE Upgrading(p)'
  <2>1. Upgrading(p) /\ v \in Versions /\ v \notin rows
    BY <1>1, <1>2, <1>5 DEF IndInv, Upgrading
  <2>2. line[p] \in Nat \ {0} /\ DOMAIN Up[v] = 1..Len(Up[v]) /\ Len(Up[v]) \in Nat
    BY <1>1, <2>1, ScriptFacts DEF TypeOK
  <2>3. line[p] = Len(Up[v]) + 1
    BY <1>1, <2>1, <2>2 DEF Upgrading
  <2> QED
    BY <1>1, <1>2, <2>1, <2>3 DEF Upgrading, MadeBefore
<1>6. ASSUME NEW q \in Servers \ {p}, pc'[q] \in {"script", "pending"} PROVE Upgrading(q)'
  <2>1. Upgrading(q) /\ pc'[q] = "script"
    BY <1>2, <1>6 DEF IndInv
  <2> QED
    BY <1>1, <1>2, <2>1 DEF Upgrading, MadeBefore
<1> QED
  BY <1>1, <1>3, <1>4, <1>5, <1>6 DEF IndInv

\* The commit of the row keeps it.
LEMMA CommitStep ==
  ASSUME IndInv, NEW p \in Servers, Commit(p)
  PROVE  IndInv'
<1> DEFINE v == version[p]
<1>1. /\ TypeOK /\ pc[p] = "pending" /\ undoing = 0
      /\ rows' = rows \cup {v} /\ Onward(p, v, applied[p])
      /\ UNCHANGED <<objects, applied, undoing, undoLine, torn, crashes>>
  BY NoDowngrade DEF Commit, IndInv
<1>2. /\ Upgrading(p) /\ v \in Versions /\ v \in 0..Latest /\ applied[p] \in SUBSET Versions
      /\ \A q \in Servers \ {p} : pc[q] # "pending"
  BY <1>1 DEF IndInv, Upgrading, TypeOK
<1>3. /\ v \in Nat \ {0} /\ Made(v) \subseteq objects /\ 1..v \subseteq rows'
  <2>1. v \in Nat \ {0} /\ MadeBefore(v, Len(Up[v]) + 1) = Made(v)
    BY <1>2, ScriptFacts
  <2>2. 1..v = (1..(v - 1)) \cup {v}
    BY <2>1
  <2> QED
    BY <1>1, <1>2, <2>1, <2>2 DEF Upgrading
<1>4. /\ \A q \in Servers \ {p} : pc'[q] = pc[q] /\ version'[q] = version[q] /\ line'[q] = line[q]
      /\ \/ pc'[p] = "ready" /\ \A w \in Versions : w <= v \/ w \in applied[p]
         \/ /\ pc'[p] = "script" /\ line'[p] = 1
            /\ version'[p] \in Versions \ applied[p]
            /\ \A w \in 1..(version'[p] - 1) : w <= v \/ w \in applied[p]
      /\ pc' \in [Servers -> {"stopped", "script", "pending", "ready", "crashed"}]
      /\ version' \in [Servers -> 0..Latest] /\ line' \in [Servers -> Nat \ {0}]
  BY <1>1, <1>2, OnwardFacts
<1>5. \A w \in Nat \ {0} : w <= v \/ w \in applied[p] => w \in rows'
  <2> TAKE w \in Nat \ {0}
  <2>1. w <= v => w \in 1..v
    BY <1>3
  <2>2. applied[p] \subseteq rows
    BY <1>2 DEF Upgrading
  <2> QED
    BY <1>1, <1>3, <2>1, <2>2
<1>6. TypeOK'
  <2>1. rows' \subseteq Versions /\ torn' \subseteq rows'
    BY <1>1, <1>2 DEF TypeOK
  <2> QED
    BY <1>1, <1>4, <2>1 DEF TypeOK, Made
<1>7. SchemaIsWhole'
  <2>1. RowMeansObjects'
    BY <1>1, <1>3 DEF IndInv, SchemaIsWhole, RowMeansObjects, Made
  <2>2. BeginningOfSchema'
    BY <1>1, <1>3 DEF IndInv, SchemaIsWhole, BeginningOfSchema
  <2>3. ASSUME NEW q \in Servers, pc'[q] = "ready" PROVE rows' = Versions
    <3>1. CASE q = p
      <4>1. \A w \in Versions : w \in rows'
        BY <1>4, <1>5, <2>3, <3>1 DEF Versions
      <4> QED
        BY <1>6, <4>1 DEF TypeOK
    <3>2. CASE q # p
      BY <1>1, <1>2, <1>4, <2>3, <3>2 DEF IndInv, SchemaIsWhole, ReadyMeansMigrated
    <3> QED
      BY <3>1, <3>2
  <2> QED
    BY <2>1, <2>2, <2>3 DEF SchemaIsWhole, ReadyMeansMigrated
<1>8. ASSUME pc'[p] \in {"script", "pending"} PROVE Upgrading(p)'
  <2>1. pc'[p] = "script" /\ line'[p] = 1 /\ version'[p] \in Versions \ applied[p]
    BY <1>4, <1>8
  <2>2. 1..(version'[p] - 1) \subseteq rows'
    BY <1>4, <1>5, <2>1
  <2>3. MadeBefore(version'[p], 1) = {} /\ Len(Up[version'[p]]) \in Nat
    BY <2>1, ScriptFacts
  <2>4. applied'[p] \subseteq rows'
    BY <1>1, <1>2 DEF Upgrading
  <2> QED
    BY <1>1, <2>1, <2>2, <2>3, <2>4 DEF Upgrading, MadeBefore
<1>9. ASSUME NEW q \in Servers \ {p}, pc'[q] \in {"script", "pending"} PROVE Upgrading(q)'
  <2>1. Upgrading(q) /\ pc'[q] # "pending"
    BY <1>2, <1>4, <1>9 DEF IndInv
  <2>2. \A r \in Servers : pc'[r] # "pending"
    BY <1>2, <1>4
  <2> QED
    BY <1>1, <1>4, <2>1, <2>2, StillUpgrading
<1> QED
  BY <1>1, <1>6, <1>7, <1>8, <1>9 DEF IndInv

-----------------------------------------------------------------------------
(* The steps of a downgrade, and of the environment.                        *)

\* A downgrade that starts keeps it.
LEMMA BeginDowngradeStep ==
  ASSUME IndInv, BeginDowngrade
  PROVE  IndInv'
<1>1. /\ TypeOK /\ undoing = 0 /\ \A p \in Servers : pc[p] = "stopped"
      /\ undoLine' = 1
      /\ UNCHANGED <<objects, rows, pc, applied, version, line, torn, crashes>>
  BY DEF BeginDowngrade, IndInv
<1>2. PICK v \in rows : (\A w \in rows : w <= v) /\ undoing' = v
  BY DEF BeginDowngrade
<1>3. v \in Versions /\ v # 0 /\ v \in 0..Latest
  BY <1>1, <1>2, ScriptAssumption DEF TypeOK, Versions
<1>4. v \notin torn => Made(v) \subseteq objects
  BY <1>1, <1>2, <1>3 DEF IndInv, SchemaIsWhole, RowMeansObjects
<1>5. TypeOK'
  BY <1>1, <1>2, <1>3 DEF TypeOK, Made
<1>6. SchemaIsWhole'
  <2>1. \A w \in rows : w # 0
    BY <1>1, ScriptAssumption DEF TypeOK, Versions
  <2>2. RowMeansObjects'
    BY <1>1, <2>1 DEF IndInv, SchemaIsWhole, RowMeansObjects, Made
  <2> QED
    BY <1>1, <2>2 DEF IndInv, SchemaIsWhole, BeginningOfSchema, ReadyMeansMigrated
<1>7. Undoing'
  <2>1. DroppedBefore(v, 1) = {} /\ Len(Down[v]) \in Nat
    BY <1>3, ScriptFacts
  <2>2. DroppedBefore(undoing', undoLine') \cap objects' = {}
    BY <1>1, <1>2, <2>1
  <2>3. undoLine' <= Len(Down[undoing']) + 1
    BY <1>1, <1>2, <2>1
  <2>4. undoing' \notin torn' => Made(undoing') \subseteq objects'
    BY <1>1, <1>2, <1>4
  <2> QED
    BY <1>1, <1>2, <2>2, <2>3, <2>4 DEF Undoing, DroppedBefore, Made
<1> QED
  BY <1>1, <1>5, <1>6, <1>7 DEF IndInv

\* A statement of a downgrade keeps it.
LEMMA DropStep ==
  ASSUME IndInv, Drop
  PROVE  IndInv'
<1> DEFINE v == undoing
           table == Down[v][undoLine]
<1>1. /\ TypeOK /\ Undoing /\ v # 0 /\ undoLine \in DOMAIN Down[v]
      /\ objects' = {o \in objects \ {table} : o \in Indexes => table \notin Refs[o]}
      /\ undoLine' = undoLine + 1
      /\ UNCHANGED <<rows, pc, applied, version, line, undoing, torn, crashes>>
  BY DEF Drop, IndInv
<1>2. v \in rows /\ v \in Versions /\ \A p \in Servers : pc[p] = "stopped"
  BY <1>1 DEF Undoing, TypeOK
<1>3. /\ DroppedBefore(v, undoLine + 1) = DroppedBefore(v, undoLine) \cup {table}
      /\ table \in Made(v)
      /\ \A o \in Made(v) \ Indexes : table \in Refs[o] => o \in DroppedBefore(v, undoLine)
      /\ undoLine \in Nat /\ undoLine < Len(Down[v]) + 1 /\ Len(Down[v]) \in Nat
  BY <1>1, <1>2, NextDrop, ScriptFacts
<1>4. objects' \subseteq objects
  BY <1>1
<1>5. TypeOK'
  <2>1. objects' \subseteq UNION {Made(w) : w \in Versions}
    BY <1>1, <1>4 DEF TypeOK
  <2>2. undoLine' \in Nat \ {0}
    BY <1>1, <1>3
  <2> HIDE DEF v, table
  <2> QED
    BY <1>1, <2>1, <2>2 DEF TypeOK, Made
<1>6. ASSUME NEW w \in Versions, w # v PROVE objects' \cap Made(w) = objects \cap Made(w)
  <2>1. Made(w) \cap Made(v) = {}
    BY <1>2, <1>6, ScriptAssumption
  <2>2. \A o \in Made(w) : o # table /\ table \notin Refs[o]
    BY <1>3, <2>1, RefsWithin
  <2> QED
    BY <1>1, <2>2
<1>7. \A o \in objects' : Refs[o] \subseteq objects'
  <2> SUFFICES ASSUME NEW o \in objects' PROVE Refs[o] \subseteq objects'
    OBVIOUS
  <2>1. Refs[o] \subseteq objects /\ o \in objects
    BY <1>4 DEF IndInv, SchemaIsWhole, BeginningOfSchema
  <2>2. PICK w \in Versions : o \in Made(w)
    BY <1>1, <2>1 DEF TypeOK
  <2>3. Refs[o] \subseteq Made(w)
    BY <2>2, RefsWithin
  <2>4. CASE w # v
    BY <1>6, <2>1, <2>3, <2>4
  <2>5. CASE w = v
    <3>1. table \notin Refs[o]
      BY <1>1, <1>3, <2>1, <2>2, <2>5 DEF Undoing
    <3>2. \A x \in Refs[o] : x \notin Indexes
      BY <2>2, RefsWithin
    <3> QED
      BY <1>1, <2>1, <3>1, <3>2
  <2> QED
    BY <2>4, <2>5
<1>8. SchemaIsWhole'
  <2>1. RowMeansObjects'
    <3> SUFFICES ASSUME NEW w \in rows, w \notin torn, w # v PROVE Made(w) \subseteq objects'
      BY <1>1 DEF RowMeansObjects, Made
    <3>1. Made(w) \subseteq objects /\ w \in Versions
      BY <1>1 DEF IndInv, SchemaIsWhole, RowMeansObjects, TypeOK
    <3> QED
      BY <1>6, <3>1
  <2>2. BeginningOfSchema' /\ ReadyMeansMigrated'
    BY <1>1, <1>7 DEF IndInv, SchemaIsWhole, BeginningOfSchema, ReadyMeansMigrated
  <2> QED
    BY <2>1, <2>2 DEF SchemaIsWhole
<1>9. Undoing'
  <2>1. DroppedBefore(v, undoLine + 1) \cap objects' = {}
    BY <1>1, <1>3, <1>4 DEF Undoing
  <2>2. undoLine + 1 <= Len(Down[v]) + 1 /\ undoLine + 1 # 1
    BY <1>1, <1>3 DEF TypeOK
  <2> HIDE DEF table
  <2> QED
    BY <1>1, <2>1, <2>2 DEF Undoing, DroppedBefore
<1> QED
  BY <1>1, <1>2, <1>5, <1>8, <1>9 DEF IndInv

\* The deletion of the version row keeps it.
LEMMA DeleteRowStep ==
  ASSUME IndInv, DeleteRow
  PROVE  IndInv'
<1>1. /\ TypeOK /\ Undoing /\ undoing # 0
      /\ rows' = rows \ {undoing} /\ torn' = torn \ {undoing} /\ undoing' = 0 /\ undoLine' = 1
      /\ UNCHANGED <<objects, pc, applied, version, line, crashes>>
  BY DEF DeleteRow, IndInv
<1>2. \A v \in rows : v <= undoing /\ v \in Versions /\ v \in Nat
  BY <1>1, ScriptAssumption DEF Undoing, TypeOK, Versions
<1>3. TypeOK'
  BY <1>1, ScriptAssumption DEF TypeOK, Made
<1>4. RowMeansObjects'
  BY <1>1 DEF IndInv, SchemaIsWhole, RowMeansObjects, Made
<1>5. BeginningOfSchema'
  <2>1. ASSUME NEW v \in rows, v # undoing PROVE 1..v \subseteq rows \ {undoing}
    <3>1. undoing \notin 1..v
      BY <1>1, <1>2, <2>1 DEF Undoing
    <3> QED
      BY <3>1 DEF IndInv, SchemaIsWhole, BeginningOfSchema
  <2> QED
    BY <1>1, <2>1 DEF IndInv, SchemaIsWhole, BeginningOfSchema
<1>6. \A p \in Servers : pc'[p] = "stopped"
  BY <1>1 DEF Undoing
<1> QED
  BY <1>1, <1>3, <1>4, <1>5, <1>6 DEF IndInv, SchemaIsWhole, ReadyMeansMigrated

\* A server that stops or crashes keeps it.
LEMMA StopStep ==
  ASSUME IndInv, NEW p \in Servers, Stop(p) \/ Crash(p)
  PROVE  IndInv'
<1>1. /\ TypeOK /\ pc[p] # "stopped" /\ undoing = 0
      /\ \E s \in {"stopped", "crashed"} : pc' = [pc EXCEPT ![p] = s]
      /\ crashes' \in 0..MaxCrashes
      /\ UNCHANGED <<objects, rows, applied, version, line, undoing, undoLine, torn>>
  BY NoDowngrade, ScriptAssumption DEF Stop, Crash, IndInv, TypeOK
<1>2. /\ pc'[p] \in {"stopped", "crashed"} /\ \A q \in Servers \ {p} : pc'[q] = pc[q]
      /\ pc' \in [Servers -> {"stopped", "script", "pending", "ready", "crashed"}]
  BY <1>1 DEF TypeOK
<1>3. TypeOK'
  BY <1>1, <1>2 DEF TypeOK, Made
<1>4. SchemaIsWhole'
  BY <1>1, <1>2 DEF IndInv, SchemaIsWhole, RowMeansObjects, BeginningOfSchema, ReadyMeansMigrated, Made
<1>5. ASSUME NEW q \in Servers, pc'[q] \in {"script", "pending"} PROVE Upgrading(q)'
  <2>1. Upgrading(q) /\ q # p /\ pc'[q] = pc[q]
    BY <1>2, <1>5 DEF IndInv
  <2>2. pc'[q] = "pending" => version[q] \notin rows'
    BY <1>1, <2>1 DEF Upgrading
  <2> QED
    BY <1>1, <1>2, <2>1, <2>2, StillUpgrading
<1> QED
  BY <1>1, <1>3, <1>4, <1>5 DEF IndInv

\* A downgrade that crashes keeps it, and leaves a torn version at most.
LEMMA CrashOfDowngradeStep ==
  ASSUME IndInv, CrashOfDowngrade
  PROVE  IndInv'
<1>1. /\ TypeOK /\ Undoing /\ undoing # 0 /\ undoing' = 0 /\ undoLine' = 1 /\ crashes' \in 0..MaxCrashes
      /\ torn' = IF undoLine = 1 THEN torn ELSE torn \cup {undoing}
      /\ UNCHANGED <<objects, rows, pc, applied, version, line>>
  BY ScriptAssumption DEF CrashOfDowngrade, IndInv, TypeOK
<1>2. TypeOK'
  BY <1>1, ScriptAssumption DEF TypeOK, Made, Undoing
<1>3. SchemaIsWhole'
  BY <1>1 DEF IndInv, SchemaIsWhole, RowMeansObjects, BeginningOfSchema, ReadyMeansMigrated, Made, Undoing
<1>4. \A p \in Servers : pc'[p] = "stopped"
  BY <1>1 DEF Undoing
<1> QED
  BY <1>1, <1>2, <1>3, <1>4 DEF IndInv

-----------------------------------------------------------------------------
(* The theorems.                                                            *)

\* The inductive invariant of upgrade and downgrade.
THEOREM IndInvHolds ==
  Spec => []IndInv
<1>1. Init => IndInv
  <2> SUFFICES ASSUME Init PROVE IndInv
    OBVIOUS
  <2>1. TypeOK
    BY ScriptAssumption DEF Init, TypeOK
  <2> QED
    BY <2>1 DEF Init, IndInv, SchemaIsWhole, RowMeansObjects, BeginningOfSchema, ReadyMeansMigrated
<1>2. IndInv /\ [Next]_vars => IndInv'
  <2> SUFFICES ASSUME IndInv, [Next]_vars PROVE IndInv'
    OBVIOUS
  <2>1. ASSUME NEW p \in Servers, Begin(p) \/ Upgrade(p) \/ Stop(p) \/ Crash(p) PROVE IndInv'
    BY <2>1, BeginStep, StatementStep, InsertStep, CommitStep, StopStep DEF Upgrade
  <2>2. CASE BeginDowngrade \/ Drop \/ DeleteRow \/ CrashOfDowngrade
    BY <2>2, BeginDowngradeStep, DropStep, DeleteRowStep, CrashOfDowngradeStep
  <2>3. CASE UNCHANGED vars
    <3>1. TypeOK'
      BY <2>3 DEF vars, IndInv, TypeOK, Made
    <3>2. SchemaIsWhole'
      BY <2>3 DEF vars, IndInv, SchemaIsWhole, RowMeansObjects, BeginningOfSchema,
                  ReadyMeansMigrated, Made
    <3>3. \A p \in Servers : pc'[p] \in {"script", "pending"} => Upgrading(p)'
      BY <2>3 DEF vars, IndInv, Upgrading, MadeBefore
    <3>4. undoing' # 0 => Undoing'
      BY <2>3 DEF vars, IndInv, Undoing, Made, DroppedBefore
    <3> QED
      BY <3>1, <3>2, <3>3, <3>4 DEF IndInv
  <2> QED
    BY <2>1, <2>2, <2>3 DEF Next
<1> QED
  BY <1>1, <1>2, PTL DEF Spec

\* docs/context-registry.md: a server that serves has the whole schema, and every
\* interruption leaves a beginning of it, for any number of servers and of crashes.
THEOREM SchemaIsWholeHolds ==
  Spec => []SchemaIsWhole
<1>1. IndInv => SchemaIsWhole
  BY DEF IndInv
<1> QED
  BY <1>1, IndInvHolds, PTL
-----------------------------------------------------------------------------
(* Servers that migrate at once do not hold each other up.                  *)

\* Which numbers are below which.
LEMMA BelowBy ==
  ASSUME NEW a, NEW b,
         \/ a[1] < b[1]
         \/ a[1] = b[1] /\ a[2] < b[2]
         \/ a[1] = b[1] /\ a[2] = b[2] /\ a[3] < b[3]
         \/ a[1] = b[1] /\ a[2] = b[2] /\ a[3] = b[3] /\ a[4] < b[4]
         \/ a[1] = b[1] /\ a[2] = b[2] /\ a[3] = b[3] /\ a[4] = b[4] /\ a[5] < b[5]
  PROVE  Below(a, b)
<1>1. ASSUME NEW k \in 1..5, a[k] < b[k], \A j \in 1..(k - 1) : a[j] = b[j] PROVE Below(a, b)
  BY <1>1 DEF Below
<1>2. CASE a[1] < b[1]
  BY <1>1, <1>2
<1>3. CASE a[1] = b[1] /\ a[2] < b[2]
  BY <1>1, <1>3
<1>4. CASE a[1] = b[1] /\ a[2] = b[2] /\ a[3] < b[3]
  BY <1>1, <1>4
<1>5. CASE a[1] = b[1] /\ a[2] = b[2] /\ a[3] = b[3] /\ a[4] < b[4]
  BY <1>1, <1>5
<1>6. CASE a[1] = b[1] /\ a[2] = b[2] /\ a[3] = b[3] /\ a[4] = b[4] /\ a[5] < b[5]
  BY <1>1, <1>6
<1> QED
  BY <1>2, <1>3, <1>4, <1>5, <1>6

\* Versions are finitely many, and whoever knows of more lacks fewer.
LEMMA FewerUnseen ==
  ASSUME NEW S \in SUBSET Versions, NEW T \in SUBSET S
  PROVE  /\ Cardinality(S) \in Nat /\ Cardinality(T) \in Nat
         /\ Cardinality(T) <= Cardinality(S)
         /\ T # S => Cardinality(T) < Cardinality(S)
<1>1. IsFiniteSet(Versions)
  BY FS_Interval, ScriptAssumption DEF Versions
<1>2. IsFiniteSet(S)
  BY <1>1, FS_Subset
<1>3. IsFiniteSet(T) /\ Cardinality(T) <= Cardinality(S)
      /\ (Cardinality(S) = Cardinality(T) => S = T)
  BY <1>2, FS_Subset
<1>4. Cardinality(S) \in Nat /\ Cardinality(T) \in Nat
  BY <1>2, <1>3, FS_CardinalityType
<1> QED
  BY <1>3, <1>4

\* What is left is numbers, and so it is after a step.
LEMMA LeftIsNumbers ==
  ASSUME IndInv, NEW p \in Servers
  PROVE  Left(p) \in Numbers
<1>1. /\ Latest \in Nat /\ MaxCrashes \in Nat /\ crashes \in 0..MaxCrashes
      /\ version[p] \in 0..Latest /\ line[p] \in Nat \ {0}
  BY ScriptAssumption DEF IndInv, TypeOK
<1>2. MaxCrashes - crashes \in Nat /\ VersionsLeft(p) \in Nat
  BY <1>1 DEF VersionsLeft
<1>3. Cardinality(Unseen(p)) \in Nat
  BY FewerUnseen DEF Unseen
<1>4. Stage(p) \in Nat
  BY DEF Stage
<1>5. LinesLeft(p) \in Nat
  <2>1. CASE pc[p] = "script"
    <3>1. version[p] \in Versions /\ line[p] <= Len(Up[version[p]]) + 1
      BY <2>1 DEF IndInv, Upgrading
    <3>2. Len(Up[version[p]]) \in Nat
      BY <3>1, ScriptFacts
    <3> QED
      BY <1>1, <2>1, <3>1, <3>2 DEF LinesLeft
  <2>2. CASE pc[p] # "script"
    BY <2>2 DEF LinesLeft
  <2> QED
    BY <2>1, <2>2
<1> QED
  BY <1>2, <1>3, <1>4, <1>5 DEF Left, Numbers

LEMMA LeftStaysNumbers == IndInv' => (\A p \in Servers : Left(p) \in Numbers)'
<1>1. IndInv => \A p \in Servers : Left(p) \in Numbers
  BY LeftIsNumbers
<1> QED
  BY <1>1, PTL

\* The order of what is left, by its parts.
LEMMA BelowLeft ==
  ASSUME NEW p \in Servers,
         \/ MaxCrashes - crashes' < MaxCrashes - crashes
         \/ /\ crashes' = crashes
            /\ \/ Cardinality(Unseen(p)') < Cardinality(Unseen(p))
               \/ /\ Cardinality(Unseen(p)') = Cardinality(Unseen(p))
                  /\ \/ Stage(p)' < Stage(p)
                     \/ /\ Stage(p)' = Stage(p)
                        /\ \/ VersionsLeft(p)' < VersionsLeft(p)
                           \/ /\ VersionsLeft(p)' = VersionsLeft(p)
                              /\ LinesLeft(p)' < LinesLeft(p)
  PROVE  Below(Left(p)', Left(p))
<1>1. PICK a, b : a = Left(p)' /\ b = Left(p)
  OBVIOUS
<1>2. /\ b[1] = MaxCrashes - crashes /\ b[2] = Cardinality(Unseen(p)) /\ b[3] = Stage(p)
      /\ b[4] = VersionsLeft(p) /\ b[5] = LinesLeft(p)
  BY <1>1 DEF Left
<1>3. /\ a[1] = MaxCrashes - crashes' /\ a[2] = Cardinality(Unseen(p)') /\ a[3] = Stage(p)'
      /\ a[4] = VersionsLeft(p)' /\ a[5] = LinesLeft(p)'
  BY <1>1 DEF Left
<1>4. Below(a, b)
  BY <1>2, <1>3, BelowBy
<1> QED
  BY <1>1, <1>4

\* A server that goes on comes nearer to serving.
LEMMA Nearer ==
  ASSUME IndInv, NEW p \in Servers, Upgrade(p) \/ (pc[p] = "crashed" /\ Begin(p))
  PROVE  Below(Left(p)', Left(p))
<1>1. /\ Latest \in Nat /\ version[p] \in 0..Latest /\ line[p] \in Nat \ {0}
      /\ rows \in SUBSET Versions /\ applied \in [Servers -> SUBSET Versions]
      /\ pc \in [Servers -> {"stopped", "script", "pending", "ready", "crashed"}]
      /\ TypeOK
  BY ScriptAssumption DEF IndInv, TypeOK
<1>2. ASSUME pc[p] \in {"script", "pending"}
      PROVE  /\ Upgrading(p) /\ version[p] \in Versions \ applied[p] /\ applied[p] \subseteq rows
             /\ Len(Up[version[p]]) \in Nat /\ DOMAIN Up[version[p]] = 1..Len(Up[version[p]])
             /\ line[p] <= Len(Up[version[p]]) + 1 /\ Unseen(p) = Versions \ applied[p]
             /\ Stage(p) = 1 /\ VersionsLeft(p) = Latest - version[p]
  <2>1. Upgrading(p)
    BY <1>2 DEF IndInv
  <2>2. version[p] \in Versions \ applied[p] /\ applied[p] \subseteq rows
        /\ line[p] <= Len(Up[version[p]]) + 1
    BY <2>1 DEF Upgrading
  <2>3. Unseen(p) = Versions \ applied[p] /\ Stage(p) = 1 /\ VersionsLeft(p) = Latest - version[p]
    BY <1>2 DEF Unseen, Stage, VersionsLeft, Migrates
  <2> QED
    BY <2>1, <2>2, <2>3, ScriptFacts
<1>3. CASE Statement(p)
  <2>1. /\ pc[p] = "script" /\ line[p] \in DOMAIN Up[version[p]]
        /\ line' = [line EXCEPT ![p] = @ + 1]
        /\ UNCHANGED <<rows, pc, applied, version, crashes>>
    BY <1>3 DEF Statement
  <2>2. line'[p] = line[p] + 1
    BY <1>1, <2>1 DEF TypeOK
  <2>3. Unseen(p)' = Unseen(p) /\ Stage(p)' = Stage(p) /\ VersionsLeft(p)' = VersionsLeft(p)
    BY <2>1 DEF Unseen, Stage, VersionsLeft, Migrates
  <2>4. LinesLeft(p)' < LinesLeft(p)
    BY <1>1, <1>2, <2>1, <2>2 DEF LinesLeft
  <2> QED
    BY <2>1, <2>3, <2>4, BelowLeft
<1>4. CASE Insert(p)
  <2>1. /\ pc[p] = "script"
        /\ pc' = [pc EXCEPT ![p] = IF version[p] \in rows THEN "crashed" ELSE "pending"]
        /\ UNCHANGED <<rows, applied, version, line, crashes>>
    BY <1>4 DEF Insert
  <2>2. CASE version[p] \in rows
    <3>1. pc'[p] = "crashed"
      BY <1>1, <2>1, <2>2
    <3>2. Unseen(p)' = Versions \ rows
      BY <2>1, <3>1 DEF Unseen, Versions
    <3>3. /\ Unseen(p)' \in SUBSET Unseen(p) /\ Unseen(p)' # Unseen(p)
          /\ Unseen(p) \in SUBSET Versions
      BY <1>2, <2>1, <2>2, <3>2
    <3>4. Cardinality(Unseen(p)') < Cardinality(Unseen(p))
      BY <3>3, FewerUnseen
    <3> QED
      BY <2>1, <3>4, BelowLeft
  <2>3. CASE version[p] \notin rows
    <3>1. pc'[p] = "pending"
      BY <1>1, <2>1, <2>3
    <3>2. Unseen(p)' = Unseen(p) /\ Stage(p)' = Stage(p) /\ VersionsLeft(p)' = VersionsLeft(p)
      BY <2>1, <3>1 DEF Unseen, Stage, VersionsLeft, Migrates
    <3>3. LinesLeft(p)' < LinesLeft(p)
      BY <1>1, <1>2, <2>1, <3>1 DEF LinesLeft
    <3> QED
      BY <2>1, <3>2, <3>3, BelowLeft
  <2> QED
    BY <2>2, <2>3
<1>5. CASE Commit(p)
  <2>1. /\ pc[p] = "pending" /\ Onward(p, version[p], applied[p])
        /\ UNCHANGED <<applied, crashes>>
    BY <1>5 DEF Commit
  <2>2. \/ pc'[p] = "ready"
        \/ /\ pc'[p] = "script" /\ version'[p] \in Versions /\ version'[p] > version[p]
    BY <1>1, <2>1, OnwardFacts
  <2>3. Unseen(p)' = Unseen(p)
    BY <2>1, <2>2 DEF Unseen, Versions
  <2>4. CASE pc'[p] = "ready"
    <3>1. Stage(p)' = 0 /\ Stage(p) = 1
      BY <1>2, <2>1, <2>4 DEF Stage, Migrates
    <3> QED
      BY <2>1, <2>3, <3>1, BelowLeft
  <2>5. CASE pc'[p] = "script" /\ version'[p] \in Versions /\ version'[p] > version[p]
    <3>1. Stage(p)' = 1 /\ Stage(p) = 1
      BY <1>2, <2>1, <2>5 DEF Stage, Migrates
    <3>2. VersionsLeft(p)' = Latest - version'[p]
      BY <2>5 DEF VersionsLeft, Migrates
    <3>3. VersionsLeft(p)' < VersionsLeft(p)
      BY <1>1, <1>2, <2>1, <2>5, <3>2 DEF Versions
    <3> QED
      BY <2>1, <2>3, <3>1, <3>3, BelowLeft
  <2> QED
    BY <2>2, <2>4, <2>5
<1>6. CASE pc[p] = "crashed" /\ Begin(p)
  <2>1. /\ pc[p] = "crashed" /\ applied' = [applied EXCEPT ![p] = rows]
        /\ Onward(p, 0, rows) /\ UNCHANGED <<rows, crashes>>
    BY <1>6 DEF Begin
  <2>2. pc'[p] \in {"ready", "script"}
    <3>1. 0 \in 0..Latest
      BY <1>1
    <3> QED
      BY <1>1, <2>1, <3>1, OnwardFacts
  <2>3. Unseen(p)' = Unseen(p)
    BY <1>1, <2>1, <2>2 DEF Unseen, Versions
  <2>4. Stage(p) = 2 /\ Stage(p)' \in {0, 1}
    BY <2>1, <2>2 DEF Stage, Migrates
  <2> QED
    BY <2>1, <2>3, <2>4, BelowLeft
<1> QED
  BY <1>3, <1>4, <1>5, <1>6 DEF Upgrade

\* What a server has left does not grow when only rows were added, or the server has read
\* that all of them are there.
LEMMA NoMoreLeft ==
  ASSUME NEW p \in Servers,
         crashes' = crashes, Unseen(p)' \subseteq Unseen(p),
         Stage(p)' = Stage(p), VersionsLeft(p)' = VersionsLeft(p), LinesLeft(p)' = LinesLeft(p)
  PROVE  NotThrownBack(p)
<1>1. CASE Unseen(p)' = Unseen(p)
  <2>1. Left(p)' = Left(p)
    BY <1>1 DEF Left
  <2> QED
    BY <2>1 DEF NotThrownBack
<1>2. CASE Unseen(p)' # Unseen(p)
  <2>1. Unseen(p) \in SUBSET Versions /\ Unseen(p)' \in SUBSET Unseen(p)
    BY DEF Unseen
  <2>2. Cardinality(Unseen(p)') < Cardinality(Unseen(p))
    BY <1>2, <2>1, FewerUnseen
  <2>3. Below(Left(p)', Left(p))
    BY <2>2, BelowLeft
  <2> QED
    BY <2>3 DEF NotThrownBack
<1> QED
  BY <1>1, <1>2

\* In particular, when it is another server that steps.
LEMMA OthersStep ==
  ASSUME NEW p \in Servers, crashes' = crashes, rows \subseteq rows',
         pc'[p] = pc[p], applied'[p] = applied[p],
         version'[p] = version[p], line'[p] = line[p]
  PROVE  NotThrownBack(p)
<1>1. Unseen(p)' \subseteq Unseen(p)
  BY DEF Unseen, Versions
<1>2. /\ Stage(p)' = Stage(p) /\ VersionsLeft(p)' = VersionsLeft(p)
      /\ LinesLeft(p)' = LinesLeft(p)
  BY DEF Stage, VersionsLeft, LinesLeft, Migrates
<1> QED
  BY <1>1, <1>2, NoMoreLeft

\* No step throws a server back.
LEMMA NoneThrownBack ==
  ASSUME IndInv, Next, NEW p \in Servers
  PROVE  NotThrownBack(p)
<1>1. /\ TypeOK /\ Latest \in Nat /\ MaxCrashes \in Nat /\ crashes \in 0..MaxCrashes
      /\ rows \in SUBSET Versions /\ applied \in [Servers -> SUBSET Versions]
      /\ pc \in [Servers -> {"stopped", "script", "pending", "ready", "crashed"}]
  BY ScriptAssumption DEF IndInv, TypeOK
<1>2. ASSUME NEW q \in Servers, Upgrade(q) PROVE NotThrownBack(p)
  <2>1. CASE q = p
    BY <1>2, <2>1, Nearer DEF NotThrownBack
  <2>2. CASE q # p
    <3>1. crashes' = crashes /\ rows \subseteq rows' /\ applied' = applied
      BY <1>2 DEF Upgrade, Statement, Insert, Commit
    <3>2. pc'[p] = pc[p] /\ version'[p] = version[p] /\ line'[p] = line[p]
      <4>1. CASE Statement(q) \/ Insert(q)
        BY <1>1, <2>2, <4>1 DEF Statement, Insert, TypeOK
      <4>2. CASE Commit(q)
        <5>1. Onward(q, version[q], applied[q])
          BY <4>2 DEF Commit
        <5> QED
          BY <1>1, <2>2, <5>1, OnwardFacts DEF TypeOK
      <4> QED
        BY <1>2, <4>1, <4>2 DEF Upgrade
    <3> QED
      BY <3>1, <3>2, OthersStep
  <2> QED
    BY <2>1, <2>2
<1>3. ASSUME NEW q \in Servers, Begin(q) PROVE NotThrownBack(p)
  <2>1. /\ pc[q] \in {"stopped", "crashed", "ready"} /\ Onward(q, 0, rows)
        /\ applied' = [applied EXCEPT ![q] = rows] /\ UNCHANGED <<rows, crashes>>
    BY <1>3 DEF Begin
  <2>2. 0 \in 0..Latest
    BY <1>1
  <2>3. CASE q # p
    <3>1. pc'[p] = pc[p] /\ version'[p] = version[p] /\ line'[p] = line[p]
      BY <1>1, <2>1, <2>2, <2>3, OnwardFacts
    <3>2. applied'[p] = applied[p]
      BY <1>1, <2>1, <2>3
    <3> QED
      BY <2>1, <3>1, <3>2, OthersStep
  <2>4. CASE q = p /\ pc[p] = "crashed"
    BY <1>3, <2>4, Nearer DEF NotThrownBack
  <2>5. CASE q = p /\ pc[p] = "ready"
    <3>1. rows = Versions
      BY <2>5 DEF IndInv, SchemaIsWhole, ReadyMeansMigrated
    <3>2. pc'[p] = "ready"
      BY <1>1, <2>1, <2>2, <2>5, <3>1, OnwardFacts
    <3>3. applied'[p] = Versions
      BY <1>1, <2>1, <2>5, <3>1
    <3>4. Unseen(p)' \subseteq Unseen(p)
      BY <3>2, <3>3 DEF Unseen, Versions
    <3>5. /\ Stage(p)' = Stage(p) /\ VersionsLeft(p)' = VersionsLeft(p)
          /\ LinesLeft(p)' = LinesLeft(p)
      BY <2>5, <3>2 DEF Stage, VersionsLeft, LinesLeft, Migrates
    <3> QED
      BY <2>1, <3>4, <3>5, NoMoreLeft
  <2>6. CASE q = p /\ pc[p] = "stopped"
    BY <2>6 DEF NotThrownBack
  <2> QED
    BY <2>1, <2>3, <2>4, <2>5, <2>6
<1>4. ASSUME NEW q \in Servers, Stop(q) PROVE NotThrownBack(p)
  <2>1. /\ pc[q] = "ready" /\ pc' = [pc EXCEPT ![q] = "stopped"]
        /\ UNCHANGED <<rows, applied, version, line, crashes>>
    BY <1>4 DEF Stop
  <2>2. pc'[p] = pc[p] \/ (pc[p] = "ready" /\ pc'[p] = "stopped")
    BY <1>1, <2>1
  <2>3. /\ Unseen(p)' = Unseen(p) /\ Stage(p)' = Stage(p)
        /\ VersionsLeft(p)' = VersionsLeft(p) /\ LinesLeft(p)' = LinesLeft(p)
    BY <2>1, <2>2 DEF Unseen, Versions, Stage, VersionsLeft, LinesLeft, Migrates
  <2> QED
    BY <2>1, <2>3, NoMoreLeft
<1>5. ASSUME NEW q \in Servers, Crash(q) PROVE NotThrownBack(p)
  <2>1. MaxCrashes - crashes' < MaxCrashes - crashes
    BY <1>1, <1>5 DEF Crash
  <2> QED
    BY <2>1, BelowLeft DEF NotThrownBack
<1>6. ASSUME BeginDowngrade \/ Drop \/ DeleteRow \/ CrashOfDowngrade PROVE NotThrownBack(p)
  <2>1. pc[p] = "stopped"
    BY <1>6 DEF BeginDowngrade, Drop, DeleteRow, CrashOfDowngrade, IndInv, Undoing
  <2> QED
    BY <2>1 DEF NotThrownBack
<1> QED
  BY <1>2, <1>3, <1>4, <1>5, <1>6 DEF Next

\* upgrade: a server that goes on, or is started again after it failed, comes nearer to
\* serving in a well-founded order, and nothing others do throws it back: with finitely
\* many crashes no two servers can make each other fail for ever.
THEOREM ServersAdvanceHolds == Spec => ServersAdvance
<1> DEFINE Advance ==
      \A p \in Servers : /\ Left(p) \in Numbers /\ Left(p)' \in Numbers
                         /\ ComesNearer(p) /\ NotThrownBack(p)
<1>1. IndInv /\ IndInv' /\ [Next]_vars => [Advance]_vars
  <2> SUFFICES ASSUME IndInv, IndInv', Next, NEW p \in Servers
               PROVE  /\ Left(p) \in Numbers /\ Left(p)' \in Numbers
                      /\ ComesNearer(p) /\ NotThrownBack(p)
    OBVIOUS
  <2>1. Left(p) \in Numbers /\ Left(p)' \in Numbers
    BY LeftIsNumbers, LeftStaysNumbers
  <2>2. ComesNearer(p)
    BY Nearer DEF ComesNearer
  <2> QED
    BY <2>1, <2>2, NoneThrownBack
<1> QED
  BY <1>1, IndInvHolds, PTL DEF Spec, ServersAdvance
=============================================================================
