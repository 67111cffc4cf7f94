------------------------ MODULE ConversationRepository ------------------------
(***************************************************************************)
(* app/conversation/repository.py over the tables of migration 002.  Each   *)
(* operator with primed variables is one BEGIN IMMEDIATE transaction:        *)
(* SQLite serializes them, so each is one step.                              *)
(*                                                                         *)
(* A turn id is drawn by the request that begins the turn, so the request   *)
(* itself stands for it.  messages[s] holds the rows of session s in the     *)
(* order of their sequence number, which is max(sequence) + 1 at insertion.  *)
(***************************************************************************)
EXTENDS ConversationModel, Naturals, Sequences

CONSTANTS Sessions,          \* session ids
          ClientMessageIds,  \* client_message_id values
          Contents,          \* normalized message texts (input_hash)
          Requests           \* POST /v1/conversation calls

VARIABLES sessions,   \* conversation_sessions
          turns,      \* conversation_turns
          messages    \* conversation_messages

tables == <<sessions, turns, messages>>

Roles == {"user", "tool_call", "tool_result", "assistant"}

Responses == [turn     : Requests,
              status   : ConversationStatuses,
              reply    : Replies,
              result   : Outcomes \cup {None},
              degraded : BOOLEAN]

TurnRows == [status   : ConversationStatuses \cup {"processing"},
             session  : Sessions,
             sequence : Nat,
             key      : ClientMessageIds,
             content  : Contents,
             called   : BOOLEAN,
             result   : Outcomes \cup {None},
             response : Responses \cup {None}]

SessionRows == [sequence : Nat, active : Requests \cup {None}]

MessageRows == [turn : Requests, role : Roles]

\* NULL is told apart from every value a column may hold, and the absence of a
\* row from every row.
ASSUME NoneAssumption ==
  /\ None \notin Sessions
  /\ None \notin Requests
  /\ None \notin Outcomes
  /\ None \notin Responses
  /\ None \notin TurnRows
  /\ None \notin SessionRows

TablesType ==
  /\ sessions \in [Sessions -> SessionRows \cup {None}]
  /\ turns \in [Requests -> TurnRows \cup {None}]
  /\ messages \in [Sessions -> Seq(MessageRows)]

TablesInit ==
  /\ sessions = [s \in Sessions |-> None]
  /\ turns = [t \in Requests |-> None]
  /\ messages = [s \in Sessions |-> <<>>]

-----------------------------------------------------------------------------
(* Reading the tables.                                                     *)

\* The row that UNIQUE (session_id, client_message_id) makes unique.
TurnsFor(s, key) ==
  {t \in Requests : turns[t] # None /\ turns[t].session = s /\ turns[t].key = key}

Processing(t) == turns[t] # None /\ turns[t].status = "processing"

Settled(t) == turns[t] # None /\ turns[t].status # "processing"

\* Fault: the oldest rows instead of the newest.
Oldest(log, n) == IF Len(log) <= n THEN log ELSE SubSeq(log, 1, n)

\* The last n rows, oldest first (ORDER BY sequence DESC LIMIT n, reversed).
Latest(log, n) ==
  IF Len(log) <= n THEN log ELSE SubSeq(log, Len(log) - n + 1, Len(log))

-----------------------------------------------------------------------------
(* begin_turn: one transaction, five ways out.                             *)

UnknownSession(session) == session # None /\ sessions[session] = None

ContentConflict(session, key, content) ==
  /\ session # None
  /\ sessions[session] # None
  /\ \E t \in TurnsFor(session, key) : turns[t].content # content

\* Fault: the hash of the text is not compared.
ReplayableForAnyContent(session, key, content) ==
  /\ session # None
  /\ sessions[session] # None
  /\ \E t \in TurnsFor(session, key) : turns[t].response # None

Replayable(session, key, content) ==
  /\ session # None
  /\ sessions[session] # None
  /\ \E t \in TurnsFor(session, key) :
       turns[t].content = content /\ turns[t].response # None

TurnInProgress(session, key, content) ==
  /\ session # None
  /\ sessions[session] # None
  /\ IF TurnsFor(session, key) # {}
     THEN \E t \in TurnsFor(session, key) :
            turns[t].content = content /\ turns[t].response = None
     ELSE sessions[session].active # None

\* Fault: active_turn_id is not looked at.
AdmitsConcurrent(session, key, s) ==
  IF session = None
  THEN sessions[s] = None
  ELSE s = session /\ sessions[s] # None /\ TurnsFor(s, key) = {}

\* Fault: the client message id is not looked up.
AdmitsRepeated(session, key, s) ==
  IF session = None
  THEN sessions[s] = None
  ELSE s = session /\ sessions[s] # None /\ sessions[s].active = None

\* The session the turn goes to: the one named, if it exists, has not seen the
\* client message id and has no active turn; or a new one if none was named.
Admits(session, key, s) ==
  IF session = None
  THEN sessions[s] = None
  ELSE /\ s = session
       /\ sessions[s] # None
       /\ TurnsFor(s, key) = {}
       /\ sessions[s].active = None

\* Fault: the sequence is not advanced.
SameSequence(s) == IF sessions[s] = None THEN 1 ELSE sessions[s].sequence

NextSequence(s) == IF sessions[s] = None THEN 1 ELSE sessions[s].sequence + 1

\* Fault: beginning a turn also prunes the transcript.
InsertTurnPruning(t, s, key, content) ==
  /\ turns' = [turns EXCEPT ![t] =
                 [status |-> "processing", session |-> s,
                  sequence |-> NextSequence(s), key |-> key,
                  content |-> content, called |-> FALSE, result |-> None,
                  response |-> None]]
  /\ sessions' = [sessions EXCEPT ![s] =
                    [sequence |-> NextSequence(s), active |-> t]]
  /\ messages' = [messages EXCEPT ![s] = <<[turn |-> t, role |-> "user"]>>]

InsertTurn(t, s, key, content) ==
  /\ turns' = [turns EXCEPT ![t] =
                 [status |-> "processing", session |-> s,
                  sequence |-> NextSequence(s), key |-> key,
                  content |-> content, called |-> FALSE, result |-> None,
                  response |-> None]]
  /\ sessions' = [sessions EXCEPT ![s] =
                    [sequence |-> NextSequence(s), active |-> t]]
  /\ messages' = [messages EXCEPT ![s] = Append(@, [turn |-> t, role |-> "user"])]

-----------------------------------------------------------------------------
(* The other transactions of a turn.                                       *)

InsertMessage(t, role) ==
  messages' = [messages EXCEPT ![turns[t].session] =
                 Append(@, [turn |-> t, role |-> role])]

RecordToolCallRow(t) ==
  /\ turns' = [turns EXCEPT ![t].called = TRUE]
  /\ InsertMessage(t, "tool_call")
  /\ UNCHANGED sessions

RecordToolResultRow(t, outcome) ==
  /\ turns' = [turns EXCEPT ![t].result = outcome]
  /\ InsertMessage(t, "tool_result")
  /\ UNCHANGED sessions

\* Fault: the session keeps its active turn.
SettleTurnKeepingLock(t, response) ==
  /\ turns' = [turns EXCEPT ![t].status = response.status,
                            ![t].response = response]
  /\ InsertMessage(t, "assistant")
  /\ UNCHANGED sessions

\* UPDATE ... WHERE id = ? AND status = 'processing' must hit one row, and
\* the session is released only by its active turn.
SettleTurn(t, response) ==
  /\ turns' = [turns EXCEPT ![t].status = response.status,
                            ![t].response = response]
  /\ InsertMessage(t, "assistant")
  /\ sessions' = [sessions EXCEPT ![turns[t].session].active =
                    IF @ = t THEN None ELSE @]
=============================================================================
