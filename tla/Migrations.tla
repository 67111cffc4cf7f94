------------------------------ MODULE Migrations ------------------------------
(***************************************************************************)
(* ContextDatabase.upgrade and downgrade.  Servers migrate one SQLite file   *)
(* when they start and again before they serve a conversation.  A statement  *)
(* of a script is committed as soon as it is executed; the row that says     *)
(* that a version is applied is inserted after its script and committed by   *)
(* the next script, or at the end.  A server may die at any point.           *)
(***************************************************************************)
EXTENDS Integers, Sequences, FiniteSets

CONSTANTS Servers,
          Latest,      \* LATEST_SCHEMA_VERSION
          Objects,     \* the tables and the indexes
          Indexes,
          Refs,        \* the tables an object is of, or refers to
          Up, Down,    \* the scripts: what they create and drop, in order
          MaxCrashes   \* bound of the model

Versions == 1..Latest
Made(v) == {Up[v][n] : n \in DOMAIN Up[v]}
MadeBefore(v, n) == {Up[v][m] : m \in 1..(n - 1)}
DroppedBefore(v, n) == {Down[v][m] : m \in 1..(n - 1)}

\* What the scripts have to be like for every interruption to leave a beginning of a
\* schema: an object is made by one version, after what it refers to, and a version is
\* undone by dropping the tables it made, each after the tables that refer to it.
ASSUME ScriptAssumption ==
  /\ Latest \in Nat \ {0} /\ MaxCrashes \in Nat
  /\ Up \in [Versions -> Seq(Objects)] /\ Down \in [Versions -> Seq(Objects)]
  /\ Refs \in [Objects -> SUBSET (Objects \ Indexes)]
  /\ \A v, w \in Versions : v # w => Made(v) \cap Made(w) = {}
  /\ \A v \in Versions : \A n \in DOMAIN Up[v] : Refs[Up[v][n]] \subseteq MadeBefore(v, n)
  /\ \A v \in Versions : DroppedBefore(v, Len(Down[v]) + 1) = Made(v) \ Indexes
  /\ \A v \in Versions : \A n \in DOMAIN Down[v] : \A o \in Made(v) \ Indexes :
       Down[v][n] \in Refs[o] => o \in DroppedBefore(v, n)

VARIABLES objects,    \* of the database
          rows,       \* schema_migrations, as committed
          pc,         \* where each server is
          applied,    \* what upgrade has read
          version,    \* of its loop
          line,       \* of the script
          undoing,    \* the version downgrade drops, or 0
          undoLine,
          torn,       \* history: versions whose downgrade was interrupted
          crashes     \* so far

vars == <<objects, rows, pc, applied, version, line, undoing, undoLine, torn, crashes>>

Init ==
  /\ objects = {} /\ rows = {} /\ torn = {} /\ crashes = 0
  /\ pc = [p \in Servers |-> "stopped"]
  /\ applied = [p \in Servers |-> {}]
  /\ version = [p \in Servers |-> 0] /\ line = [p \in Servers |-> 1]
  /\ undoing = 0 /\ undoLine = 1

-----------------------------------------------------------------------------
(* Upgrade.                                                                 *)

\* An uncommitted row locks the database for every other writer.
Unlocked == \A q \in Servers : pc[q] # "pending"

\* The loop goes on after version v: to the next one that was not applied.
Onward(p, v, done) ==
  LET left == {w \in Versions : w > v /\ w \notin done}
  IN IF left = {} THEN pc' = [pc EXCEPT ![p] = "ready"] /\ UNCHANGED <<version, line>>
     ELSE /\ \E w \in left :
               (\A x \in left : w <= x) /\ version' = [version EXCEPT ![p] = w]
          /\ pc' = [pc EXCEPT ![p] = "script"] /\ line' = [line EXCEPT ![p] = 1]

\* At startup, after a crash, or before a conversation.
Begin(p) ==
  /\ pc[p] \in {"stopped", "crashed", "ready"} /\ undoing = 0
  /\ applied' = [applied EXCEPT ![p] = rows]
  /\ Onward(p, 0, rows)
  /\ UNCHANGED <<objects, rows, undoing, undoLine, torn, crashes>>

\* Fault: CREATE without IF NOT EXISTS.
StatementOnce(p) ==
  LET o == Up[version[p]][line[p]] IN
  /\ pc[p] = "script" /\ line[p] \in DOMAIN Up[version[p]]
  /\ \/ o \in objects /\ pc' = [pc EXCEPT ![p] = "crashed"] /\ UNCHANGED <<objects, line>>
     \/ /\ o \notin objects /\ Unlocked
        /\ objects' = objects \cup {o} /\ line' = [line EXCEPT ![p] = @ + 1] /\ UNCHANGED pc
  /\ UNCHANGED <<rows, applied, version, undoing, undoLine, torn, crashes>>

\* CREATE ... IF NOT EXISTS writes, and waits for the lock, only if it does not.
Statement(p) ==
  LET o == Up[version[p]][line[p]] IN
  /\ pc[p] = "script" /\ line[p] \in DOMAIN Up[version[p]]
  /\ o \in objects \/ Unlocked
  /\ objects' = objects \cup {o}
  /\ line' = [line EXCEPT ![p] = @ + 1]
  /\ UNCHANGED <<rows, pc, applied, version, undoing, undoLine, torn, crashes>>

\* Fault: the row does not wait for the end of the script.
InsertUnfinished(p) ==
  /\ pc[p] = "script" /\ Unlocked
  /\ pc' = [pc EXCEPT ![p] = IF version[p] \in rows THEN "crashed" ELSE "pending"]
  /\ UNCHANGED <<objects, rows, applied, version, line, undoing, undoLine, torn, crashes>>

\* The row of the version.  If another server was faster, the insertion fails, and the
\* server with it.
Insert(p) ==
  /\ pc[p] = "script" /\ line[p] \notin DOMAIN Up[version[p]] /\ Unlocked
  /\ pc' = [pc EXCEPT ![p] = IF version[p] \in rows THEN "crashed" ELSE "pending"]
  /\ UNCHANGED <<objects, rows, applied, version, line, undoing, undoLine, torn, crashes>>

\* executescript commits before it begins; the with statement commits at its end.
Commit(p) ==
  /\ pc[p] = "pending"
  /\ rows' = rows \cup {version[p]}
  /\ Onward(p, version[p], applied[p])
  /\ UNCHANGED <<objects, applied, undoing, undoLine, torn, crashes>>

Upgrade(p) == Statement(p) \/ Insert(p) \/ Commit(p)

-----------------------------------------------------------------------------
(* Downgrade: of an isolated database, so no server runs.                   *)

BeginDowngrade ==
  /\ undoing = 0 /\ \A p \in Servers : pc[p] = "stopped"
  /\ \E v \in rows : (\A w \in rows : w <= v) /\ undoing' = v
  /\ undoLine' = 1
  /\ UNCHANGED <<objects, rows, pc, applied, version, line, torn, crashes>>

\* DROP TABLE IF EXISTS takes the indexes of the table with it.
Drop ==
  LET table == Down[undoing][undoLine] IN
  /\ undoing # 0 /\ undoLine \in DOMAIN Down[undoing]
  /\ objects' = {o \in objects \ {table} : o \in Indexes => table \notin Refs[o]}
  /\ undoLine' = undoLine + 1
  /\ UNCHANGED <<rows, pc, applied, version, line, undoing, torn, crashes>>

DeleteRow ==
  /\ undoing # 0 /\ undoLine \notin DOMAIN Down[undoing]
  /\ rows' = rows \ {undoing} /\ torn' = torn \ {undoing}
  /\ undoing' = 0 /\ undoLine' = 1
  /\ UNCHANGED <<objects, pc, applied, version, line, crashes>>

-----------------------------------------------------------------------------
(* The environment.                                                         *)

Stop(p) ==
  /\ pc[p] = "ready" /\ pc' = [pc EXCEPT ![p] = "stopped"]
  /\ UNCHANGED <<objects, rows, applied, version, line, undoing, undoLine, torn, crashes>>

\* A server dies, or fails to get the lock in time; the uncommitted row is rolled back.
Crash(p) ==
  /\ crashes < MaxCrashes /\ pc[p] \in {"script", "pending", "ready"}
  /\ pc' = [pc EXCEPT ![p] = "crashed"] /\ crashes' = crashes + 1
  /\ UNCHANGED <<objects, rows, applied, version, line, undoing, undoLine, torn>>

\* The downgrade dies: what was dropped is gone, the row is still there.
CrashOfDowngrade ==
  /\ crashes < MaxCrashes /\ undoing # 0
  /\ torn' = IF undoLine = 1 THEN torn ELSE torn \cup {undoing}
  /\ undoing' = 0 /\ undoLine' = 1 /\ crashes' = crashes + 1
  /\ UNCHANGED <<objects, rows, pc, applied, version, line>>

Next ==
  \/ \E p \in Servers : Begin(p) \/ Upgrade(p) \/ Stop(p) \/ Crash(p)
  \/ BeginDowngrade \/ Drop \/ DeleteRow \/ CrashOfDowngrade

\* A server runs on, and one that failed is started again (restart: unless-stopped).
Fairness ==
  \A p \in Servers : WF_vars(Upgrade(p)) /\ WF_vars(pc[p] = "crashed" /\ Begin(p))

Spec == Init /\ [][Next]_vars
FairSpec == Spec /\ Fairness

-----------------------------------------------------------------------------
(* Safety.                                                                  *)

TypeOK ==
  /\ objects \subseteq UNION {Made(v) : v \in Versions}
  /\ rows \subseteq Versions /\ torn \subseteq rows
  /\ pc \in [Servers -> {"stopped", "script", "pending", "ready", "crashed"}]
  /\ applied \in [Servers -> SUBSET Versions]
  /\ version \in [Servers -> 0..Latest] /\ line \in [Servers -> Nat \ {0}]
  /\ undoing \in 0..Latest /\ undoLine \in Nat \ {0} /\ crashes \in 0..MaxCrashes

\* upgrade: a version that has its row has all its tables and indexes, whichever servers
\* migrated at once and wherever they died.  Only a downgrade that was interrupted
\* leaves a row without them.
RowMeansObjects ==
  \A v \in rows : v \in torn \/ v = undoing \/ Made(v) \subseteq objects

\* No table and no index is there without what it refers to, and no version without the
\* ones before it: every interruption leaves a beginning of the schema.
BeginningOfSchema ==
  /\ \A o \in objects : Refs[o] \subseteq objects
  /\ \A v \in rows : 1..v \subseteq rows

\* lifespan: a server that serves has every version, as long as it runs.
ReadyMeansMigrated == \A p \in Servers : pc[p] = "ready" => rows = Versions

SchemaIsWhole == RowMeansObjects /\ BeginningOfSchema /\ ReadyMeansMigrated

-----------------------------------------------------------------------------
(* The inductive invariant.                                                 *)

\* What a server that migrates has done, and that nobody else writes rows meanwhile.
Upgrading(p) ==
  /\ applied[p] \subseteq rows
  /\ version[p] \in Versions \ applied[p]
  /\ 1..(version[p] - 1) \subseteq rows
  /\ MadeBefore(version[p], line[p]) \subseteq objects
  /\ line[p] <= Len(Up[version[p]]) + 1
  /\ pc[p] = "pending" =>
       /\ line[p] = Len(Up[version[p]]) + 1 /\ version[p] \notin rows
       /\ \A q \in Servers : pc[q] = "pending" => q = p

\* A downgrade is alone, undoes the last version, and has done so up to its line.
Undoing ==
  /\ \A p \in Servers : pc[p] = "stopped"
  /\ undoing \in rows /\ \A v \in rows : v <= undoing
  /\ DroppedBefore(undoing, undoLine) \cap objects = {}
  /\ undoLine <= Len(Down[undoing]) + 1
  /\ undoLine = 1 /\ undoing \notin torn => Made(undoing) \subseteq objects

IndInv ==
  /\ TypeOK /\ SchemaIsWhole
  /\ \A p \in Servers : pc[p] \in {"script", "pending"} => Upgrading(p)
  /\ undoing # 0 => Undoing

-----------------------------------------------------------------------------
(* Liveness.                                                                *)

\* A server that begins to migrate gets to serve, although others migrate at the same
\* time, make it fail, or leave half a script behind when they die.
EventuallyReady == \A p \in Servers : pc[p] # "stopped" ~> pc[p] = "ready"

Migrates(p) == pc[p] \in {"script", "pending"}

\* What a server does not know to be applied; one that failed will read it again.
Unseen(p) == Versions \ (IF pc[p] = "crashed" THEN rows ELSE applied[p])

Stage(p) == CASE pc[p] = "crashed" -> 2 [] Migrates(p) -> 1 [] OTHER -> 0
VersionsLeft(p) == IF Migrates(p) THEN Latest - version[p] ELSE 0
LinesLeft(p) == IF pc[p] = "script" THEN Len(Up[version[p]]) + 2 - line[p] ELSE 0

\* What still keeps a server from serving, the gravest first.
Left(p) ==
  <<MaxCrashes - crashes, Cardinality(Unseen(p)), Stage(p), VersionsLeft(p), LinesLeft(p)>>

\* The lexicographic order of quintuples of numbers, which is well-founded.
Numbers == Nat \X Nat \X Nat \X Nat \X Nat
Below(a, b) == \E k \in 1..5 : a[k] < b[k] /\ \A j \in 1..(k - 1) : a[j] = b[j]

\* A server that goes on comes nearer to serving even if it fails: it fails because it
\* did not know of a row, and then knows of more rows than before.
ComesNearer(p) ==
  Upgrade(p) \/ (pc[p] = "crashed" /\ Begin(p)) => Below(Left(p)', Left(p))

\* Nothing that others do throws it back, neither their rows nor their crashes.
NotThrownBack(p) ==
  pc[p] # "stopped" => Left(p)' = Left(p) \/ Below(Left(p)', Left(p))

\* upgrade: servers that migrate at once cannot make each other fail for ever.
ServersAdvance ==
  [][\A p \in Servers : /\ Left(p) \in Numbers /\ Left(p)' \in Numbers
                        /\ ComesNearer(p) /\ NotThrownBack(p)]_vars
=============================================================================
