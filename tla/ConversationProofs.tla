-------------------------- MODULE ConversationProofs --------------------------
(***************************************************************************)
(* Proofs about Conversation, for every set of sessions, messages, texts and *)
(* requests and every setting: types, the session lock, and at-most-once     *)
(* execution.                                                              *)
(***************************************************************************)
EXTENDS Conversation, SequenceTheorems, TLAPS

-----------------------------------------------------------------------------
(* What the operators of the model return.                                 *)

\* Every outcome is reported under one of the conversation statuses (_conversation_status).
LEMMA StatusType ==
  ASSUME NEW outcome \in Outcomes \cup {None}
  PROVE  ConversationStatus(outcome) \in ConversationStatuses
  BY DEF ConversationStatus, ResultStatus, ConversationStatuses

\* The deterministic fallback is a sentence a reply may hold (_fallback).
LEMMA FallbackType ==
  ASSUME NEW outcome \in Outcomes \cup {None}
  PROVE  Fallback(outcome) \in Replies
  BY DEF Fallback, Replies, Fallbacks

\* _error_response builds a response the turn row can store.
LEMMA ErrorResponseType ==
  ASSUME NEW r \in Requests, NEW status \in ConversationStatuses,
         NEW degraded \in BOOLEAN
  PROVE  ErrorResponse(r, status, degraded) \in Responses
  BY DEF ErrorResponse, Responses, Replies

\* _response, after an execution, builds a response the turn row can store.
LEMMA ResultResponseType ==
  ASSUME NEW r \in Requests, NEW outcome \in Outcomes \cup {None},
         NEW reply \in Replies, NEW degraded \in BOOLEAN
  PROVE  ResultResponse(r, outcome, reply, degraded) \in Responses
  BY StatusType DEF ResultResponse, Responses

\* A reply without a tool call, accepted or replaced, can be stored.
LEMMA DirectResponseType ==
  ASSUME NEW r \in Requests, NEW turn \in ModelTurns
  PROVE  DirectResponse(r, turn) \in Responses
<1>1. CASE DirectReplyAccepted(turn)
  BY <1>1 DEF DirectResponse, ModelTurns, Responses, Replies, ConversationStatuses
<1>2. CASE ~DirectReplyAccepted(turn)
  BY <1>2, ErrorResponseType DEF DirectResponse, ConversationStatuses
<1>3. QED BY <1>1, <1>2

\* The last n rows of a transcript are a transcript (history()).
LEMMA LatestType ==
  ASSUME NEW T, NEW log \in Seq(T), NEW n \in Nat \ {0}
  PROVE  Latest(log, n) \in Seq(T)
<1>1. CASE Len(log) <= n
  BY <1>1 DEF Latest
<1>2. CASE ~(Len(log) <= n)
  <2>1. /\ Len(log) \in Nat
        /\ Len(log) - n + 1 \in 1..(Len(log) + 1)
    BY <1>2, LenProperties
  <2>2. SubSeq(log, Len(log) - n + 1, Len(log)) \in Seq(T)
    BY <2>1, SubSeqProperties
  <2>3. QED BY <1>2, <2>2 DEF Latest
<1>3. QED BY <1>1, <1>2

-----------------------------------------------------------------------------
(* Types of the transactions.                                              *)

\* _insert_message keeps the transcripts well typed.
LEMMA InsertMessageType ==
  ASSUME TablesType, NEW t \in Requests, turns[t] # None, NEW role \in Roles,
         InsertMessage(t, role)
  PROVE  messages' \in [Sessions -> Seq(MessageRows)]
<1>1. turns[t].session \in Sessions
  BY DEF TablesType, TurnRows
<1>2. messages[turns[t].session] \in Seq(MessageRows)
  BY <1>1 DEF TablesType
<1>3. [turn |-> t, role |-> role] \in MessageRows
  BY DEF MessageRows
<1>4. Append(messages[turns[t].session], [turn |-> t, role |-> role]) \in Seq(MessageRows)
  BY <1>2, <1>3, AppendProperties
<1>5. QED BY <1>1, <1>4 DEF TablesType, InsertMessage

\* The inserts of begin_turn keep the three tables well typed.
LEMMA InsertTurnType ==
  ASSUME TablesType, NEW t \in Requests, NEW s \in Sessions,
         NEW key \in ClientMessageIds, NEW content \in Contents,
         InsertTurn(t, s, key, content)
  PROVE  TablesType'
<1>1. NextSequence(s) \in Nat
  BY DEF NextSequence, TablesType, SessionRows
<1>2. turns' \in [Requests -> TurnRows \cup {None}]
  BY <1>1 DEF InsertTurn, TablesType, TurnRows
<1>3. sessions' \in [Sessions -> SessionRows \cup {None}]
  BY <1>1 DEF InsertTurn, TablesType, SessionRows
<1>4. Append(messages[s], [turn |-> t, role |-> "user"]) \in Seq(MessageRows)
  <2>1. messages[s] \in Seq(MessageRows)
    BY DEF TablesType
  <2>2. [turn |-> t, role |-> "user"] \in MessageRows
    BY DEF MessageRows, Roles
  <2>3. QED BY <2>1, <2>2, AppendProperties
<1>5. messages' \in [Sessions -> Seq(MessageRows)]
  BY <1>4 DEF InsertTurn, TablesType
<1>6. QED BY <1>2, <1>3, <1>5 DEF TablesType

\* record_tool_call keeps the three tables well typed.
LEMMA RecordToolCallRowType ==
  ASSUME TablesType, NEW t \in Requests, turns[t] # None, RecordToolCallRow(t)
  PROVE  TablesType'
<1>1. messages' \in [Sessions -> Seq(MessageRows)]
  BY InsertMessageType DEF RecordToolCallRow, Roles
<1>2. turns' \in [Requests -> TurnRows \cup {None}]
  <2>1. turns[t] \in TurnRows
    BY DEF TablesType
  <2>2. [turns[t] EXCEPT !.called = TRUE] \in TurnRows
    BY <2>1 DEF TurnRows
  <2>3. turns' = [turns EXCEPT ![t] = [turns[t] EXCEPT !.called = TRUE]]
    BY DEF RecordToolCallRow, TablesType
  <2>4. QED BY <2>2, <2>3 DEF TablesType
<1>3. QED BY <1>1, <1>2 DEF RecordToolCallRow, TablesType

\* record_tool_result keeps the three tables well typed.
LEMMA RecordToolResultRowType ==
  ASSUME TablesType, NEW t \in Requests, turns[t] # None,
         NEW outcome \in Outcomes \cup {None}, RecordToolResultRow(t, outcome)
  PROVE  TablesType'
<1>1. messages' \in [Sessions -> Seq(MessageRows)]
  BY InsertMessageType DEF RecordToolResultRow, Roles
<1>2. turns' \in [Requests -> TurnRows \cup {None}]
  <2>1. turns[t] \in TurnRows
    BY DEF TablesType
  <2>2. [turns[t] EXCEPT !.result = outcome] \in TurnRows
    BY <2>1 DEF TurnRows
  <2>3. turns' = [turns EXCEPT ![t] = [turns[t] EXCEPT !.result = outcome]]
    BY DEF RecordToolResultRow, TablesType
  <2>4. QED BY <2>2, <2>3 DEF TablesType
<1>3. QED BY <1>1, <1>2 DEF RecordToolResultRow, TablesType

\* complete keeps the three tables well typed.
LEMMA SettleTurnType ==
  ASSUME TablesType, NEW t \in Requests, turns[t] # None,
         sessions[turns[t].session] # None,
         NEW response \in Responses, SettleTurn(t, response)
  PROVE  TablesType'
<1>1. messages' \in [Sessions -> Seq(MessageRows)]
  BY InsertMessageType DEF SettleTurn, Roles
<1>2. turns' \in [Requests -> TurnRows \cup {None}]
  <2>1. response.status \in ConversationStatuses
    BY DEF Responses
  <2>2. turns' = [turns EXCEPT ![t] = [turns[t] EXCEPT !.status = response.status,
                                                     !.response = response]]
    BY DEF SettleTurn, TablesType
  <2>3. turns[t] \in TurnRows
    BY DEF TablesType
  <2>4. [turns[t] EXCEPT !.status = response.status, !.response = response] \in TurnRows
    BY <2>1, <2>3 DEF TurnRows
  <2>5. QED BY <2>2, <2>4 DEF TablesType
<1>3. sessions' \in [Sessions -> SessionRows \cup {None}]
  <2> DEFINE s == turns[t].session
  <2>1. s \in Sessions /\ sessions[s] \in SessionRows
    BY DEF TablesType, TurnRows
  <2>2. [sessions[s] EXCEPT !.active = IF @ = t THEN None ELSE @] \in SessionRows
    BY <2>1 DEF SessionRows
  <2>3. sessions' = [sessions EXCEPT ![s] =
                       [sessions[s] EXCEPT !.active = IF @ = t THEN None ELSE @]]
    BY DEF SettleTurn
  <2>4. QED BY <2>1, <2>2, <2>3 DEF TablesType
<1>4. QED BY <1>1, <1>2, <1>3 DEF TablesType

-----------------------------------------------------------------------------
(* The initial states.                                                     *)

\* The invariant holds of the empty tables and idle handlers.
LEMMA InitCoreInv == Init => CoreInv
<1> SUFFICES ASSUME Init PROVE CoreInv
  OBVIOUS
<1>1. TypeOK
  BY SettingsAssumption
     DEF Init, TablesInit, TypeOK, TablesType, Labels
<1>2. HandlerInv
  BY SettingsAssumption
     DEF Init, TablesInit, HandlerInv, BeforeTurn, InTurn, Running, Labels
<1>3. LockInv
  BY DEF Init, TablesInit, LockInv, Processing
<1>4. ExecutionInv
  BY DEF Init, TablesInit, ExecutionInv
<1>5. QED BY <1>1, <1>2, <1>3, <1>4 DEF CoreInv

-----------------------------------------------------------------------------
(* Frames.  Most steps move one handler and leave alone the columns that the *)
(* session lock and the uniqueness of a message look at.                   *)

\* No row of conversation_turns appears, moves to another session or message,
\* or is settled.
KeepsRows ==
  \A t \in Requests :
    /\ turns'[t] = None <=> turns[t] = None
    /\ turns[t] # None =>
         /\ turns'[t].session = turns[t].session
         /\ turns'[t].key = turns[t].key
         /\ turns'[t].status = turns[t].status

\* No handler but r moves.
OnlyMoves(r) ==
  \A q \in Requests \ {r} :
    /\ pc'[q] = pc[q]
    /\ request'[q] = request[q]
    /\ attempts'[q] = attempts[q]
    /\ draft'[q] = draft[q]

\* What HandlerInv says of one handler.
Placed(r) ==
  /\ pc[r] # "idle" => request[r] # None
  /\ pc[r] = "complete" => draft[r] # None
  /\ pc[r] \in {"idle", "begin_turn", "history", "provider_begin"} =>
       attempts[r] <= MaxProviderRetries
  /\ pc[r] \in BeforeTurn => turns[r] = None
  /\ pc[r] \in InTurn => Processing(r)

\* A step that keeps the rows and the sessions keeps the session lock.
LEMMA LockKept ==
  ASSUME TablesType, LockInv, KeepsRows, sessions' = sessions
  PROVE  LockInv'
<1>1. \A t \in Requests : Processing(t)' <=> Processing(t)
  BY DEF KeepsRows, Processing
<1>2. \A t \in Requests : Processing(t) => turns'[t].session = turns[t].session
  BY DEF KeepsRows, Processing
<1>3. \A s \in Sessions : sessions[s] # None /\ sessions[s].active # None =>
        sessions[s].active \in Requests
  BY DEF TablesType, SessionRows
<1>4. \A t \in Requests : turns'[t] # None =>
        turns[t] # None /\ turns'[t].session = turns[t].session
  BY DEF KeepsRows
<1>5. QED BY <1>1, <1>2, <1>3, <1>4 DEF LockInv

\* A step that keeps the rows, executes nothing and sends no handler back
\* before its execution keeps the execution invariant.
LEMMA ExecutionKept ==
  ASSUME ExecutionInv, KeepsRows, executions' = executions,
         \A q \in Requests : pc'[q] \in BeforeExecution => pc[q] \in BeforeExecution
  PROVE  ExecutionInv'
  BY DEF ExecutionInv, KeepsRows

\* A step of handler r keeps what is known of the others.
LEMMA HandlerKept ==
  ASSUME HandlerInv, NEW r \in Requests, OnlyMoves(r), Placed(r)',
         \A q \in Requests \ {r} : turns'[q] = turns[q]
  PROVE  HandlerInv'
  BY DEF HandlerInv, OnlyMoves, Placed, Processing

\* A step that leaves the table of turns alone keeps its rows.
LEMMA UnchangedKeepsRows ==
  ASSUME turns' = turns
  PROVE  KeepsRows
  BY DEF KeepsRows

\* An HTTP error is an answer.
LEMMA RefusalType ==
  ASSUME NEW code \in Codes
  PROVE  Refusal(code) \in Answers
  BY DEF Refusal, Answers

\* A step of handler r that touches no table and executes nothing.
LEMMA TablesKept ==
  ASSUME CoreInv, NEW r \in Requests, TypeOK', UNCHANGED tables,
         executions' = executions, OnlyMoves(r), Placed(r)',
         pc'[r] \in BeforeExecution => pc[r] \in BeforeExecution
  PROVE  CoreInv'
<1>1. turns' = turns /\ sessions' = sessions
  BY DEF tables
<1>2. HandlerInv'
  BY <1>1, HandlerKept DEF CoreInv
<1>3. LockInv'
  BY <1>1, UnchangedKeepsRows, LockKept DEF CoreInv, TypeOK
<1>4. ExecutionInv'
  BY <1>1, UnchangedKeepsRows, ExecutionKept DEF CoreInv, OnlyMoves
<1>5. QED BY <1>2, <1>3, <1>4 DEF CoreInv

-----------------------------------------------------------------------------
(* Each action preserves the inductive invariant.                          *)

\* The arrival of a request preserves the invariant.
LEMMA ReceiveStep ==
  ASSUME CoreInv, NEW r \in Requests, NEW row \in RequestRows, Receive(r, row)
  PROVE  CoreInv'
<1>1. TypeOK'
  BY RefusalType
     DEF CoreInv, TypeOK, Receive, Reply, Goto, tables, TablesType, Labels, Codes
<1>2. OnlyMoves(r)
  BY DEF CoreInv, TypeOK, Receive, Reply, Goto, OnlyMoves
<1>3. Placed(r)'
  BY NoneRequestAssumption
     DEF CoreInv, TypeOK, HandlerInv, Receive, Reply, Goto, tables, Placed,
         BeforeTurn, InTurn, Running, Labels
<1>4. QED
  BY <1>1, <1>2, <1>3, TablesKept DEF Receive, BeforeExecution, BeforeTurn

\* A refusal of begin_turn preserves the invariant.
LEMMA BeginRefusedStep ==
  ASSUME CoreInv, NEW r \in Requests, BeginRefused(r)
  PROVE  CoreInv'
<1>1. PICK code \in Codes : Reply(r, Refusal(code))
  BY DEF BeginRefused, Codes
<1>2. TypeOK'
  BY <1>1, RefusalType
     DEF CoreInv, TypeOK, BeginRefused, Reply, Goto, tables, TablesType, Labels
<1>3. OnlyMoves(r)
  BY <1>1 DEF CoreInv, TypeOK, BeginRefused, Reply, Goto, OnlyMoves
<1>4. Placed(r)'
  BY <1>1 DEF CoreInv, TypeOK, HandlerInv, BeginRefused, Reply, Goto, tables,
              Placed, BeforeTurn, InTurn, Running, Labels
<1>5. QED
  BY <1>2, <1>3, <1>4, TablesKept DEF BeginRefused, BeforeExecution, BeforeTurn

\* A replay preserves the invariant.
LEMMA BeginReplaysStep ==
  ASSUME CoreInv, NEW r \in Requests, BeginReplays(r)
  PROVE  CoreInv'
<1>1. PICK t \in TurnsFor(request[r].session, request[r].key) :
        Reply(r, [code |-> "ok", response |-> turns[t].response, replay |-> TRUE])
  BY DEF BeginReplays
<1>2. turns[t].response \in Responses \cup {None}
  BY DEF CoreInv, TypeOK, TablesType, TurnsFor, TurnRows
<1>3. TypeOK'
  BY <1>1, <1>2 DEF CoreInv, TypeOK, BeginReplays, Reply, Goto, tables, TablesType,
                    Labels, Answers, Codes
<1>4. OnlyMoves(r)
  BY <1>1 DEF CoreInv, TypeOK, BeginReplays, Reply, Goto, OnlyMoves
<1>5. Placed(r)'
  BY <1>1 DEF CoreInv, TypeOK, HandlerInv, BeginReplays, Reply, Goto, tables,
              Placed, BeforeTurn, InTurn, Running, Labels
<1>6. QED
  BY <1>3, <1>4, <1>5, TablesKept DEF BeginReplays, BeforeExecution, BeforeTurn

\* Beginning a turn preserves the invariant.
LEMMA BeginTurnStep ==
  ASSUME CoreInv, NEW r \in Requests, NEW s \in Sessions, BeginTurn(r, s)
  PROVE  CoreInv'
<1> USE DEF CoreInv
<1> DEFINE key == request[r].key
           content == request[r].content
<1>1. /\ request[r] \in RequestRows
      /\ key \in ClientMessageIds
      /\ content \in Contents
      /\ turns[r] = None
  BY DEF TypeOK, HandlerInv, BeginTurn, RequestRows, BeforeTurn
<1>2. InsertTurn(r, s, key, content)
  BY DEF BeginTurn
<1>3. sessions[s] = None \/ sessions[s].active = None
  BY DEF BeginTurn, Admits
<1>4. \A t \in Requests : turns[t] # None =>
        ~(turns[t].session = s /\ turns[t].key = key)
  BY DEF BeginTurn, Admits, TurnsFor, LockInv
<1>5. TypeOK'
  <2>1. TablesType'
    BY <1>1, <1>2, InsertTurnType DEF TypeOK
  <2>2. QED BY <2>1 DEF TypeOK, BeginTurn, Goto, Labels
<1>6. /\ turns'[r] # None
      /\ turns'[r].session = s
      /\ turns'[r].key = key
      /\ turns'[r].status = "processing"
      /\ \A t \in Requests \ {r} : turns'[t] = turns[t]
  <2>1. turns'[r] = [status |-> "processing", session |-> s,
                     sequence |-> NextSequence(s), key |-> key,
                     content |-> content, called |-> FALSE, result |-> None,
                     response |-> None]
    BY <1>2 DEF InsertTurn, TypeOK, TablesType
  <2>2. turns'[r] \in TurnRows
    <3>1. NextSequence(s) \in Nat
      BY DEF TypeOK, NextSequence, TablesType, SessionRows
    <3>2. QED BY <2>1, <3>1, <1>1 DEF TurnRows
  <2>3. QED BY <2>1, <2>2, <1>2, NoneAssumption DEF InsertTurn, TypeOK, TablesType
<1>7. /\ sessions'[s] # None
      /\ sessions'[s].active = r
      /\ \A z \in Sessions \ {s} : sessions'[z] = sessions[z]
  <2>1. sessions'[s] = [sequence |-> NextSequence(s), active |-> r]
    BY <1>2 DEF InsertTurn, TypeOK, TablesType
  <2>2. sessions'[s] \in SessionRows
    <3>1. NextSequence(s) \in Nat
      BY DEF TypeOK, NextSequence, TablesType, SessionRows
    <3>2. QED BY <2>1, <3>1 DEF SessionRows
  <2>3. QED BY <2>1, <2>2, <1>2, NoneAssumption DEF InsertTurn, TypeOK, TablesType
<1>8. HandlerInv'
  <2>1. OnlyMoves(r)
    BY DEF TypeOK, BeginTurn, Goto, OnlyMoves
  <2>2. Placed(r)'
    BY <1>6 DEF TypeOK, HandlerInv, BeginTurn, Goto, Placed, Processing,
                BeforeTurn, InTurn, Running, Labels
  <2>3. QED BY <1>6, <2>1, <2>2, HandlerKept
<1>9. LockInv'
  <2>1. \A t \in Requests : turns[t] # None => turns[t].session \in Sessions
    BY DEF TypeOK, TablesType, TurnRows
  <2>2. \A z \in Sessions : sessions[z] # None =>
          sessions[z].active \in Requests \cup {None}
    BY DEF TypeOK, TablesType, SessionRows
  <2>3. r # None
    BY NoneAssumption
  <2>4. \A t \in Requests : Processing(t) => turns[t].session # s
    BY <1>3, <2>1, NoneAssumption DEF LockInv, Processing
  <2>5. /\ Processing(r)'
        /\ \A t \in Requests \ {r} : Processing(t)' <=> Processing(t)
    BY <1>6 DEF Processing
  <2>6. \A t \in Requests : turns'[t] # None => sessions'[turns'[t].session] # None
    BY <1>6, <1>7, <2>1 DEF LockInv
  <2>7. \A t \in Requests : Processing(t)' => sessions'[turns'[t].session].active = t
    <3>1. SUFFICES ASSUME NEW t \in Requests \ {r}, Processing(t)'
                   PROVE  sessions'[turns'[t].session].active = t
      BY <1>6, <1>7
    <3>2. Processing(t) /\ turns[t] # None /\ turns'[t] = turns[t]
      BY <3>1, <2>5, <1>6 DEF Processing
    <3>3. turns[t].session \in Sessions \ {s}
      BY <3>2, <2>1, <2>4
    <3>4. QED BY <3>2, <3>3, <1>7 DEF LockInv
  <2>8. ASSUME NEW z \in Sessions, sessions'[z] # None, sessions'[z].active # None
        PROVE  /\ turns'[sessions'[z].active] # None
               /\ turns'[sessions'[z].active].status = "processing"
               /\ turns'[sessions'[z].active].session = z
    <3>1. CASE z = s
      BY <3>1, <1>6, <1>7
    <3>2. CASE z # s
      <4>1. sessions'[z] = sessions[z]
        BY <3>2, <1>7
      <4>2. /\ sessions[z].active \in Requests
            /\ Processing(sessions[z].active)
            /\ turns[sessions[z].active].session = z
        BY <4>1, <2>2, <2>8 DEF LockInv
      <4>3. sessions[z].active # r
        BY <4>2, <1>1 DEF Processing
      <4>4. turns'[sessions[z].active] = turns[sessions[z].active]
        BY <4>2, <4>3, <1>6
      <4>5. QED BY <4>1, <4>2, <4>4 DEF Processing
    <3>3. QED BY <3>1, <3>2
  <2>9. QED BY <2>6, <2>7, <2>8 DEF LockInv, Processing
<1>10. ExecutionInv'
  <2>1. executions' = executions
    BY DEF BeginTurn
  <2>2. \A t \in Requests : pc'[t] \in BeforeExecution => pc[t] \in BeforeExecution
    BY DEF TypeOK, BeginTurn, Goto, BeforeExecution, BeforeTurn
  <2>3. QED BY <1>4, <1>6, <2>1, <2>2 DEF ExecutionInv
<1>11. QED BY <1>5, <1>8, <1>9, <1>10

\* Reading the history preserves the invariant.
LEMMA ReadHistoryStep ==
  ASSUME CoreInv, NEW r \in Requests, ReadHistory(r)
  PROVE  CoreInv'
<1>1. TypeOK'
  <2>1. turns[r] # None
    BY DEF CoreInv, HandlerInv, ReadHistory, InTurn, Running, Labels, Processing
  <2>2. messages[turns[r].session] \in Seq(MessageRows)
    BY <2>1 DEF CoreInv, TypeOK, TablesType, TurnRows
  <2>3. HistoryLimit \in Nat \ {0}
    BY SettingsAssumption
  <2>4. Latest(messages[turns[r].session], HistoryLimit) \in Seq(MessageRows)
    BY <2>2, <2>3, LatestType
  <2>5. QED BY <2>4 DEF CoreInv, TypeOK, ReadHistory, Goto, tables, TablesType, Labels
<1>2. OnlyMoves(r)
  BY DEF CoreInv, TypeOK, ReadHistory, Goto, OnlyMoves
<1>3. Placed(r)'
  BY DEF CoreInv, TypeOK, HandlerInv, ReadHistory, Goto, tables, Placed, Processing,
         BeforeTurn, InTurn, Running, Labels
<1>4. QED
  BY <1>1, <1>2, <1>3, TablesKept DEF ReadHistory, BeforeExecution, BeforeTurn

\* The handler stores a response in its memory and goes on to complete.
LEMMA DraftStep ==
  ASSUME CoreInv, NEW r \in Requests, NEW response \in Responses, Draft(r, response),
         pc[r] \in InTurn, UNCHANGED <<request, tables>>,
         \A q \in Requests \ {r} : attempts'[q] = attempts[q]
  PROVE  /\ pc' \in [Requests -> Labels]
         /\ draft' \in [Requests -> Responses \cup {None}]
         /\ OnlyMoves(r)
         /\ Placed(r)'
<1>1. pc'[r] = "complete" /\ draft'[r] = response
  BY DEF CoreInv, TypeOK, Draft, Goto
<1>2. response # None
  BY NoneAssumption
<1>3. Placed(r)'
  BY <1>1, <1>2 DEF CoreInv, HandlerInv, Placed, tables, Processing, BeforeTurn,
                    InTurn, Running, Labels
<1>4. QED BY <1>3 DEF CoreInv, TypeOK, Draft, Goto, OnlyMoves, Labels

\* A failing provider call preserves the invariant.
LEMMA ProviderBeginFailsStep ==
  ASSUME CoreInv, NEW r \in Requests, NEW retryable \in BOOLEAN,
         ProviderBeginFails(r, retryable)
  PROVE  CoreInv'
<1> DEFINE response == ErrorResponse(r, "provider_unavailable", TRUE)
<1>1. pc[r] \in InTurn
  BY DEF ProviderBeginFails, InTurn, Running, Labels
<1>2. /\ attempts[r] \in 0..MaxProviderRetries
      /\ attempts' = [attempts EXCEPT ![r] = attempts[r] + 1]
      /\ MaxProviderRetries \in Nat
  BY SettingsAssumption DEF CoreInv, TypeOK, HandlerInv, ProviderBeginFails
<1>3. attempts' \in [Requests -> 0..(MaxProviderRetries + 1)]
  BY <1>2 DEF CoreInv, TypeOK
<1>4. CASE UNCHANGED <<pc, draft>> /\ attempts[r] + 1 < MaxProviderRetries + 1
  <2>1. TypeOK'
    BY <1>3, <1>4 DEF CoreInv, TypeOK, ProviderBeginFails, tables, TablesType
  <2>2. OnlyMoves(r)
    BY <1>2, <1>4 DEF CoreInv, TypeOK, ProviderBeginFails, OnlyMoves
  <2>3. Placed(r)'
    BY <1>2, <1>4 DEF CoreInv, TypeOK, HandlerInv, ProviderBeginFails, tables, Placed,
                      Processing
  <2>4. QED BY <2>1, <2>2, <2>3, <1>4, TablesKept DEF ProviderBeginFails
<1>5. CASE Draft(r, response)
  <2>1. response \in Responses
    BY ErrorResponseType DEF ConversationStatuses
  <2>2. /\ pc' \in [Requests -> Labels]
        /\ draft' \in [Requests -> Responses \cup {None}]
        /\ OnlyMoves(r)
        /\ Placed(r)'
    BY <1>1, <1>2, <1>5, <2>1, DraftStep DEF CoreInv, TypeOK, ProviderBeginFails
  <2>3. TypeOK'
    BY <1>3, <2>2 DEF CoreInv, TypeOK, ProviderBeginFails, tables, TablesType
  <2>4. QED BY <2>2, <2>3, TablesKept
            DEF ProviderBeginFails, BeforeExecution
<1>6. QED BY <1>4, <1>5 DEF ProviderBeginFails

\* The first model round preserves the invariant.
LEMMA ProviderBeginStep ==
  ASSUME CoreInv, NEW r \in Requests, NEW turn \in ModelTurns, ProviderBegin(r, turn)
  PROVE  CoreInv'
<1>1. pc[r] \in InTurn /\ pc[r] \in BeforeExecution
  BY DEF ProviderBegin, InTurn, BeforeExecution, Running, Labels
<1>2. /\ attempts' \in [Requests -> 0..(MaxProviderRetries + 1)]
      /\ \A q \in Requests \ {r} : attempts'[q] = attempts[q]
  BY SettingsAssumption DEF CoreInv, TypeOK, HandlerInv, ProviderBegin
<1>3. CASE \E label \in {"provider_repair", "record_tool_call"} :
             Goto(r, label) /\ UNCHANGED draft
  <2>1. TypeOK'
    BY <1>2, <1>3 DEF CoreInv, TypeOK, ProviderBegin, tables, TablesType, Goto, Labels
  <2>2. OnlyMoves(r)
    BY <1>2, <1>3 DEF CoreInv, TypeOK, ProviderBegin, Goto, OnlyMoves
  <2>3. Placed(r)'
    BY <1>3 DEF CoreInv, TypeOK, HandlerInv, ProviderBegin, tables, Placed,
                Processing, Goto, BeforeTurn, InTurn, Running, Labels
  <2>4. QED BY <1>1, <2>1, <2>2, <2>3, TablesKept DEF ProviderBegin
<1>4. CASE \E response \in Responses : Draft(r, response)
  <2>1. /\ pc' \in [Requests -> Labels]
        /\ draft' \in [Requests -> Responses \cup {None}]
        /\ OnlyMoves(r)
        /\ Placed(r)'
    BY <1>1, <1>2, <1>4, DraftStep DEF ProviderBegin
  <2>2. TypeOK'
    BY <1>2, <2>1 DEF CoreInv, TypeOK, ProviderBegin, tables, TablesType
  <2>3. QED BY <1>1, <2>1, <2>2, TablesKept DEF ProviderBegin
<1>5. \/ \E response \in Responses : Draft(r, response)
      \/ \E label \in {"provider_repair", "record_tool_call"} :
           Goto(r, label) /\ UNCHANGED draft
  <2>1. DirectResponse(r, turn) \in Responses
    BY DirectResponseType
  <2>2. \A status \in {"safety_rejected", "unsupported_tool", "invalid_tool_call"} :
          ErrorResponse(r, status, FALSE) \in Responses
    BY ErrorResponseType DEF ConversationStatuses
  <2>3. turn.calls \in Calls
    BY DEF ModelTurns
  <2>4. QED BY <2>1, <2>2, <2>3 DEF ProviderBegin, Calls
<1>6. QED BY <1>3, <1>4, <1>5

\* The repair round preserves the invariant.
LEMMA ProviderRepairStep ==
  ASSUME CoreInv, NEW r \in Requests, NEW turn \in ModelTurns, ProviderRepair(r, turn)
  PROVE  CoreInv'
<1>1. pc[r] \in InTurn /\ pc[r] \in BeforeExecution
  BY DEF ProviderRepair, InTurn, BeforeExecution, Running, Labels
<1>2. CASE Goto(r, "record_tool_call") /\ UNCHANGED draft
  <2>1. TypeOK'
    BY <1>2 DEF CoreInv, TypeOK, ProviderRepair, tables, TablesType, Goto, Labels
  <2>2. OnlyMoves(r)
    BY <1>2 DEF CoreInv, TypeOK, ProviderRepair, Goto, OnlyMoves
  <2>3. Placed(r)'
    BY <1>2 DEF CoreInv, TypeOK, HandlerInv, ProviderRepair, tables, Placed,
                Processing, Goto, BeforeTurn, InTurn, Running, Labels
  <2>4. QED BY <1>1, <2>1, <2>2, <2>3, TablesKept DEF ProviderRepair
<1>3. CASE \E response \in Responses : Draft(r, response)
  <2>1. /\ pc' \in [Requests -> Labels]
        /\ draft' \in [Requests -> Responses \cup {None}]
        /\ OnlyMoves(r)
        /\ Placed(r)'
    BY <1>1, <1>3, DraftStep DEF ProviderRepair
  <2>2. TypeOK'
    BY <2>1 DEF CoreInv, TypeOK, ProviderRepair, tables, TablesType
  <2>3. QED BY <1>1, <2>1, <2>2, TablesKept DEF ProviderRepair
<1>4. \/ \E response \in Responses : Draft(r, response)
      \/ Goto(r, "record_tool_call") /\ UNCHANGED draft
  <2>1. \A status \in {"unsupported_tool", "invalid_tool_call"} :
          ErrorResponse(r, status, FALSE) \in Responses
    BY ErrorResponseType DEF ConversationStatuses
  <2>2. QED BY <2>1 DEF ProviderRepair
<1>5. QED BY <1>2, <1>3, <1>4

\* record_tool_call preserves the invariant.
LEMMA RecordToolCallStep ==
  ASSUME CoreInv, NEW r \in Requests, RecordToolCall(r)
  PROVE  CoreInv'
<1>1. Processing(r)
  BY DEF CoreInv, HandlerInv, RecordToolCall, InTurn, Running, Labels
<1>2. TypeOK'
  <2>1. TablesType'
    BY <1>1, RecordToolCallRowType DEF CoreInv, TypeOK, RecordToolCall, Processing
  <2>2. QED BY <2>1 DEF CoreInv, TypeOK, RecordToolCall, Goto, Labels
<1>3. turns' = [turns EXCEPT ![r] = [turns[r] EXCEPT !.called = TRUE]]
  BY DEF RecordToolCall, RecordToolCallRow
<1>4. /\ turns[r] \in TurnRows
      /\ turns'[r] \in TurnRows
      /\ turns'[r] = [turns[r] EXCEPT !.called = TRUE]
      /\ \A q \in Requests \ {r} : turns'[q] = turns[q]
  <2>1. turns[r] \in TurnRows
    BY <1>1 DEF CoreInv, TypeOK, TablesType, Processing
  <2>2. [turns[r] EXCEPT !.called = TRUE] \in TurnRows
    BY <2>1 DEF TurnRows
  <2>3. QED BY <1>3, <2>1, <2>2 DEF CoreInv, TypeOK, TablesType
<1>5. KeepsRows
  BY <1>1, <1>4, NoneAssumption DEF KeepsRows, Processing, TurnRows
<1>6. HandlerInv'
  <2>1. OnlyMoves(r)
    BY DEF CoreInv, TypeOK, RecordToolCall, Goto, OnlyMoves
  <2>2. Placed(r)'
    BY <1>1, <1>5 DEF CoreInv, TypeOK, HandlerInv, RecordToolCall, Goto, Placed,
                      KeepsRows, Processing, BeforeTurn, InTurn, Running, Labels
  <2>3. QED BY <1>4, <2>1, <2>2, HandlerKept DEF CoreInv
<1>7. LockInv'
  BY <1>5, LockKept DEF CoreInv, TypeOK, RecordToolCall, RecordToolCallRow
<1>8. ExecutionInv'
  <2>1. \A q \in Requests : pc'[q] \in BeforeExecution => pc[q] \in BeforeExecution
    BY DEF CoreInv, TypeOK, RecordToolCall, Goto, BeforeExecution
  <2>2. QED BY <1>5, <2>1, ExecutionKept DEF CoreInv, RecordToolCall
<1>9. QED BY <1>2, <1>6, <1>7, <1>8 DEF CoreInv

\* The one step that executes: the handler has not executed before.
LEMMA ExecuteStep ==
  ASSUME CoreInv, NEW r \in Requests, NEW outcome \in Outcomes, Execute(r, outcome)
  PROVE  CoreInv'
<1>1. executions[r] = 0 /\ turns[r] # None
  BY DEF CoreInv, HandlerInv, ExecutionInv, Execute, BeforeExecution, InTurn,
         Running, Labels, Processing
<1>2. TypeOK'
  BY DEF CoreInv, TypeOK, Execute, Goto, tables, TablesType, Labels
<1>3. turns' = turns /\ sessions' = sessions
  BY DEF Execute, tables
<1>4. HandlerInv'
  <2>1. OnlyMoves(r)
    BY DEF CoreInv, TypeOK, Execute, Goto, OnlyMoves
  <2>2. Placed(r)'
    BY <1>3 DEF CoreInv, TypeOK, HandlerInv, Execute, Goto, Placed, Processing,
                BeforeTurn, InTurn, Running, Labels
  <2>3. QED BY <1>3, <2>1, <2>2, HandlerKept DEF CoreInv
<1>5. LockInv'
  BY <1>3, UnchangedKeepsRows, LockKept DEF CoreInv, TypeOK
<1>6. ExecutionInv'
  <2>1. /\ executions'[r] = 1
        /\ \A t \in Requests \ {r} : executions'[t] = executions[t]
    BY <1>1 DEF CoreInv, TypeOK, Execute
  <2>2. /\ pc'[r] \notin BeforeExecution
        /\ \A t \in Requests \ {r} : pc'[t] = pc[t]
    BY DEF CoreInv, TypeOK, Execute, Goto, BeforeExecution, BeforeTurn
  <2>3. QED BY <1>1, <1>3, <2>1, <2>2 DEF CoreInv, ExecutionInv
<1>7. QED BY <1>2, <1>4, <1>5, <1>6 DEF CoreInv

\* record_tool_result preserves the invariant.
LEMMA RecordToolResultStep ==
  ASSUME CoreInv, NEW r \in Requests, RecordToolResult(r)
  PROVE  CoreInv'
<1>1. Processing(r) /\ pc[r] \notin BeforeExecution
  BY DEF CoreInv, HandlerInv, RecordToolResult, InTurn, Running, Labels,
         BeforeExecution, BeforeTurn
<1>2. result[r] \in Outcomes \cup {None}
  BY DEF CoreInv, TypeOK
<1>3. turns' = [turns EXCEPT ![r] = [turns[r] EXCEPT !.result = result[r]]]
  BY DEF RecordToolResult, RecordToolResultRow
<1>4. /\ turns[r] \in TurnRows
      /\ turns'[r] \in TurnRows
      /\ turns'[r] = [turns[r] EXCEPT !.result = result[r]]
      /\ \A q \in Requests \ {r} : turns'[q] = turns[q]
  <2>1. turns[r] \in TurnRows
    BY <1>1 DEF CoreInv, TypeOK, TablesType, Processing
  <2>2. [turns[r] EXCEPT !.result = result[r]] \in TurnRows
    BY <1>2, <2>1 DEF TurnRows
  <2>3. QED BY <1>3, <2>1, <2>2 DEF CoreInv, TypeOK, TablesType
<1>5. KeepsRows
  BY <1>1, <1>4, NoneAssumption DEF KeepsRows, Processing, TurnRows
<1>6. /\ pc' \in [Requests -> Labels]
      /\ draft' \in [Requests -> Responses \cup {None}]
      /\ pc'[r] \in {"complete", "provider_render"}
      /\ pc'[r] = "complete" => draft'[r] # None
      /\ \A q \in Requests \ {r} : pc'[q] = pc[q] /\ draft'[q] = draft[q]
  <2>1. CASE repaired[r]
    <3> DEFINE response == ResultResponse(r, result[r], Fallback(result[r]), TRUE)
    <3>1. response \in Responses
      BY <1>2, FallbackType, ResultResponseType
    <3>2. pc' = [pc EXCEPT ![r] = "complete"] /\ draft' = [draft EXCEPT ![r] = response]
      BY <2>1 DEF RecordToolResult, Draft, Goto
    <3>3. QED BY <3>1, <3>2, NoneAssumption DEF CoreInv, TypeOK, Labels
  <2>2. CASE ~repaired[r]
    BY <2>2 DEF CoreInv, TypeOK, RecordToolResult, Goto, Labels
  <2>3. QED BY <2>1, <2>2
<1>7. TypeOK'
  <2>1. TablesType'
    BY <1>1, <1>2, RecordToolResultRowType DEF CoreInv, TypeOK, RecordToolResult, Processing
  <2>2. QED BY <1>6, <2>1 DEF CoreInv, TypeOK, RecordToolResult
<1>8. HandlerInv'
  <2>1. OnlyMoves(r)
    BY <1>6 DEF RecordToolResult, OnlyMoves
  <2>2. Placed(r)'
    BY <1>1, <1>5, <1>6
       DEF CoreInv, HandlerInv, RecordToolResult, Placed, KeepsRows, Processing,
           BeforeTurn, InTurn, Running, Labels
  <2>3. QED BY <1>4, <2>1, <2>2, HandlerKept DEF CoreInv
<1>9. LockInv'
  BY <1>5, LockKept DEF CoreInv, TypeOK, RecordToolResult, RecordToolResultRow
<1>10. ExecutionInv'
  <2>1. \A q \in Requests : pc'[q] \in BeforeExecution => pc[q] \in BeforeExecution
    BY <1>6 DEF BeforeExecution, BeforeTurn
  <2>2. QED BY <1>5, <2>1, ExecutionKept DEF CoreInv, RecordToolResult
<1>11. QED BY <1>7, <1>8, <1>9, <1>10 DEF CoreInv

\* The rendering round preserves the invariant.
LEMMA ProviderRenderStep ==
  ASSUME CoreInv, NEW r \in Requests, NEW turn \in ModelTurns, ProviderRender(r, turn)
  PROVE  CoreInv'
<1>1. pc[r] \in InTurn
  BY DEF ProviderRender, InTurn, Running, Labels
<1>2. PICK response \in Responses : Draft(r, response)
  <2>1. result[r] \in Outcomes \cup {None}
    BY DEF CoreInv, TypeOK
  <2>2. ResultResponse(r, result[r], Fallback(result[r]), TRUE) \in Responses
    BY <2>1, FallbackType, ResultResponseType
  <2>3. turn.text \in Replies
    BY DEF ModelTurns, Replies
  <2>4. ResultResponse(r, result[r], turn.text, FALSE) \in Responses
    BY <2>1, <2>3, ResultResponseType
  <2>5. QED BY <2>2, <2>4 DEF ProviderRender
<1>3. /\ pc' \in [Requests -> Labels]
      /\ draft' \in [Requests -> Responses \cup {None}]
      /\ OnlyMoves(r)
      /\ Placed(r)'
  BY <1>1, <1>2, DraftStep DEF ProviderRender
<1>4. TypeOK'
  BY <1>3 DEF CoreInv, TypeOK, ProviderRender, tables, TablesType
<1>5. pc'[r] \notin BeforeExecution
  BY <1>2 DEF CoreInv, TypeOK, Draft, Goto, BeforeExecution, BeforeTurn
<1>6. QED BY <1>3, <1>4, <1>5, TablesKept DEF ProviderRender

\* The turn leaves 'processing' and its session is released, in one step.
LEMMA CompleteStep ==
  ASSUME CoreInv, NEW r \in Requests, Complete(r)
  PROVE  CoreInv'
<1> DEFINE response == draft[r]
           s == turns[r].session
<1>1. /\ Processing(r)
      /\ response \in Responses
      /\ response.status \in ConversationStatuses
      /\ response.status # "processing"
  BY DEF CoreInv, TypeOK, HandlerInv, Complete, InTurn, Running, Labels, Responses,
         ConversationStatuses
<1>2. /\ SettleTurn(r, response)
      /\ Reply(r, [code |-> "ok", response |-> response, replay |-> FALSE])
  BY <1>1 DEF Complete
<1>3. /\ turns[r] \in TurnRows
      /\ s \in Sessions
      /\ sessions[s] \in SessionRows
      /\ sessions[s].active = r
  BY <1>1 DEF CoreInv, TypeOK, TablesType, LockInv, Processing, TurnRows
<1>4. TypeOK'
  <2>1. TablesType'
    BY <1>1, <1>2, SettleTurnType DEF CoreInv, TypeOK, LockInv, Processing
  <2>2. [code |-> "ok", response |-> response, replay |-> FALSE] \in Answers
    BY <1>1 DEF Answers, Codes
  <2>3. QED BY <1>2, <2>1, <2>2 DEF CoreInv, TypeOK, Complete, Reply, Goto, Labels
<1>5. /\ turns'[r] # None
      /\ turns'[r].session = s
      /\ turns'[r].key = turns[r].key
      /\ turns'[r].status # "processing"
      /\ \A q \in Requests \ {r} : turns'[q] = turns[q]
  <2> DEFINE row == [turns[r] EXCEPT !.status = response.status, !.response = response]
  <2>1. turns' = [turns EXCEPT ![r] = row]
    BY <1>2 DEF CoreInv, TypeOK, TablesType, SettleTurn
  <2>2. /\ row \in TurnRows
        /\ row.session = s
        /\ row.key = turns[r].key
        /\ row.status = response.status
    BY <1>1, <1>3 DEF TurnRows
  <2>3. QED BY <2>1, <2>2, <1>1, NoneAssumption DEF CoreInv, TypeOK, TablesType
<1>6. /\ sessions'[s] # None
      /\ sessions'[s].active = None
      /\ \A z \in Sessions \ {s} : sessions'[z] = sessions[z]
  <2> DEFINE row == [sessions[s] EXCEPT !.active = None]
  <2>1. sessions' = [sessions EXCEPT ![s] = row]
    BY <1>2, <1>3 DEF SettleTurn
  <2>2. row \in SessionRows /\ row.active = None
    BY <1>3 DEF SessionRows
  <2>3. QED BY <1>3, <2>1, <2>2, NoneAssumption DEF CoreInv, TypeOK, TablesType
<1>7. HandlerInv'
  <2>1. pc' = [pc EXCEPT ![r] = "done"]
    BY <1>2 DEF Reply, Goto
  <2>2. OnlyMoves(r)
    BY <2>1 DEF CoreInv, TypeOK, Complete, OnlyMoves
  <2>3. Placed(r)'
    BY <2>1 DEF CoreInv, TypeOK, HandlerInv, Complete, Placed, BeforeTurn, InTurn,
                Running, Labels
  <2>4. QED BY <1>5, <2>2, <2>3, HandlerKept DEF CoreInv
<1>8. LockInv'
  <2>1. \A t \in Requests : turns[t] # None => turns[t].session \in Sessions
    BY DEF CoreInv, TypeOK, TablesType, TurnRows
  <2>2. \A z \in Sessions : sessions[z] # None =>
          sessions[z].active \in Requests \cup {None}
    BY DEF CoreInv, TypeOK, TablesType, SessionRows
  <2>3. \A t \in Requests : turns'[t] # None => sessions'[turns'[t].session] # None
    BY <1>5, <1>6, <2>1 DEF CoreInv, LockInv
  <2>4. ASSUME NEW t \in Requests, Processing(t)'
        PROVE  sessions'[turns'[t].session].active = t
    <3>1. t # r /\ turns'[t] = turns[t] /\ turns[t] # None /\ Processing(t)
      BY <1>5, <2>4 DEF Processing
    <3>2. turns[t].session \in Sessions \ {s}
      BY <1>3, <2>1, <3>1 DEF CoreInv, LockInv
    <3>3. QED BY <1>6, <3>1, <3>2 DEF CoreInv, LockInv
  <2>5. ASSUME NEW z \in Sessions, sessions'[z] # None, sessions'[z].active # None
        PROVE  /\ turns'[sessions'[z].active] # None
               /\ turns'[sessions'[z].active].status = "processing"
               /\ turns'[sessions'[z].active].session = z
    <3>1. z # s /\ sessions'[z] = sessions[z]
      BY <1>6, <2>5
    <3>2. /\ sessions[z].active \in Requests \ {r}
          /\ Processing(sessions[z].active)
          /\ turns[sessions[z].active].session = z
      BY <2>2, <2>5, <3>1 DEF CoreInv, LockInv
    <3>3. QED BY <1>5, <3>1, <3>2 DEF Processing
  <2>6. QED BY <2>3, <2>4, <2>5 DEF LockInv, Processing
<1>9. ExecutionInv'
  <2>1. executions' = executions
    BY DEF Complete
  <2>2. \A q \in Requests : pc'[q] \in BeforeExecution => pc[q] \in BeforeExecution
    BY <1>2 DEF CoreInv, TypeOK, Reply, Goto, BeforeExecution, BeforeTurn
  <2>3. QED BY <1>1, <1>5, <2>1, <2>2 DEF CoreInv, ExecutionInv, Processing
<1>10. QED BY <1>4, <1>7, <1>8, <1>9 DEF CoreInv

\* An aborted handler preserves the invariant.
LEMMA HandlerAbortsStep ==
  ASSUME CoreInv, NEW r \in Requests, HandlerAborts(r)
  PROVE  CoreInv'
<1>1. failures' \in 0..MaxFailures
  BY SettingsAssumption DEF CoreInv, TypeOK, HandlerAborts
<1>2. Refusal("internal_error") \in Answers
  BY RefusalType DEF Codes
<1>3. TypeOK'
  BY <1>1, <1>2 DEF CoreInv, TypeOK, HandlerAborts, Reply, Goto, tables, TablesType, Labels
<1>4. OnlyMoves(r)
  BY DEF CoreInv, TypeOK, HandlerAborts, Reply, Goto, OnlyMoves
<1>5. Placed(r)'
  BY DEF CoreInv, TypeOK, HandlerInv, HandlerAborts, Reply, Goto, tables, Placed,
         BeforeTurn, InTurn, Running, Labels
<1>6. pc'[r] \notin BeforeExecution
  BY DEF CoreInv, TypeOK, HandlerAborts, Reply, Goto, BeforeExecution, BeforeTurn
<1>7. QED BY <1>3, <1>4, <1>5, <1>6, TablesKept DEF HandlerAborts

\* The death of the process preserves the invariant.
LEMMA ProcessDiesStep ==
  ASSUME CoreInv, ProcessDies
  PROVE  CoreInv'
<1>1. failures' \in 0..MaxFailures
  BY SettingsAssumption DEF CoreInv, TypeOK, ProcessDies
<1>2. /\ pc' \in [Requests -> Labels]
      /\ \A q \in Requests : pc'[q] \in {pc[q], "gone"}
      /\ \A q \in Requests : pc'[q] = "gone" \/ pc[q] \notin Running
      /\ \A q \in Requests : pc'[q] = "gone" => pc[q] # "idle"
  BY DEF CoreInv, TypeOK, ProcessDies, Labels, Running
<1>3. TypeOK'
  BY <1>1, <1>2 DEF CoreInv, TypeOK, ProcessDies, tables, TablesType
<1>4. turns' = turns /\ sessions' = sessions
  BY DEF ProcessDies, tables
<1>5. HandlerInv'
  BY <1>2, <1>4 DEF CoreInv, HandlerInv, ProcessDies, Processing, BeforeTurn, InTurn,
                    Running, Labels
<1>6. LockInv'
  BY <1>4, UnchangedKeepsRows, LockKept DEF CoreInv, TypeOK
<1>7. ExecutionInv'
  <2>1. \A q \in Requests : pc'[q] \in BeforeExecution => pc[q] \in BeforeExecution
    BY <1>2 DEF BeforeExecution, BeforeTurn
  <2>2. QED BY <1>4, <2>1, UnchangedKeepsRows, ExecutionKept DEF CoreInv, ProcessDies
<1>8. QED BY <1>3, <1>5, <1>6, <1>7 DEF CoreInv

-----------------------------------------------------------------------------
(* The theorems.                                                           *)

\* Every step of the conversation service, failures and stuttering included,
\* preserves the inductive invariant.
LEMMA NextCoreInv == CoreInv /\ [Next]_vars => CoreInv'
<1> SUFFICES ASSUME CoreInv, [Next]_vars
             PROVE  CoreInv'
  OBVIOUS
<1>1. ASSUME NEW r \in Requests, NEW row \in RequestRows, Receive(r, row)
      PROVE  CoreInv'
  BY <1>1, ReceiveStep
<1>2. ASSUME NEW r \in Requests, Step(r)
      PROVE  CoreInv'
  <2>1. CASE BeginRefused(r)
    BY <2>1, BeginRefusedStep
  <2>2. CASE BeginReplays(r)
    BY <2>2, BeginReplaysStep
  <2>3. CASE \E s \in Sessions : BeginTurn(r, s)
    BY <2>3, BeginTurnStep
  <2>4. CASE ReadHistory(r)
    BY <2>4, ReadHistoryStep
  <2>5. CASE \E retryable \in BOOLEAN : ProviderBeginFails(r, retryable)
    BY <2>5, ProviderBeginFailsStep
  <2>6. CASE \E turn \in ProviderTurns : ProviderBegin(r, turn)
    BY <2>6, ProviderBeginStep, SettingsAssumption
  <2>7. CASE \E turn \in ProviderTurns : ProviderRepair(r, turn)
    BY <2>7, ProviderRepairStep, SettingsAssumption
  <2>8. CASE RecordToolCall(r)
    BY <2>8, RecordToolCallStep
  <2>9. CASE \E outcome \in CoreOutcomes : Execute(r, outcome)
    BY <2>9, ExecuteStep, SettingsAssumption
  <2>10. CASE RecordToolResult(r)
    BY <2>10, RecordToolResultStep
  <2>11. CASE \E turn \in ProviderTurns : ProviderRender(r, turn)
    BY <2>11, ProviderRenderStep, SettingsAssumption
  <2>12. CASE Complete(r)
    BY <2>12, CompleteStep
  <2>13. QED
    BY <1>2, <2>1, <2>2, <2>3, <2>4, <2>5, <2>6, <2>7, <2>8, <2>9, <2>10, <2>11,
       <2>12 DEF Step
<1>3. ASSUME NEW r \in Requests, HandlerAborts(r)
      PROVE  CoreInv'
  BY <1>3, HandlerAbortsStep
<1>4. CASE ProcessDies
  BY <1>4, ProcessDiesStep
<1>5. CASE UNCHANGED vars
  BY <1>5 DEF vars, tables, handlers, CoreInv, TypeOK, TablesType, HandlerInv, LockInv,
              ExecutionInv, Processing
<1>6. QED BY <1>1, <1>2, <1>3, <1>4, <1>5 DEF Next

\* The first part of the inductive invariant holds in every reachable state of the service.
THEOREM CoreInvHolds == Spec => []CoreInv
  BY InitCoreInv, NextCoreInv, PTL DEF Spec

\* Type correctness: every table and every handler keeps its type, for any
\* model behaviour, any outcome of an execution and any failures.
THEOREM TypeCorrect == Spec => []TypeOK
<1>1. CoreInv => TypeOK
  BY DEF CoreInv
<1>2. QED BY <1>1, CoreInvHolds, PTL

\* At most one turn of a session is ever in 'processing', and it is the one
\* active_turn_id names, for any number of concurrent requests and failures.
THEOREM SessionLockHolds == Spec => []SessionLock
<1>1. ASSUME CoreInv PROVE SessionLock
  <2>1. \A s \in Sessions : sessions[s] # None =>
          sessions[s].active \in Requests \cup {None}
    BY <1>1 DEF CoreInv, TypeOK, TablesType, SessionRows
  <2>2. SUFFICES ASSUME NEW s \in Sessions
                 PROVE  {t \in Requests : Processing(t) /\ turns[t].session = s} =
                          IF sessions[s] = None \/ sessions[s].active = None
                          THEN {} ELSE {sessions[s].active}
    BY DEF SessionLock
  <2>3. ASSUME NEW t \in Requests, Processing(t), turns[t].session = s
        PROVE  sessions[s] # None /\ sessions[s].active = t
    BY <1>1, <2>3 DEF CoreInv, LockInv, Processing
  <2>4. CASE sessions[s] = None \/ sessions[s].active = None
    BY <2>3, <2>4, NoneAssumption
  <2>5. CASE ~(sessions[s] = None \/ sessions[s].active = None)
    BY <1>1, <2>1, <2>3, <2>5 DEF CoreInv, LockInv
  <2>6. QED BY <2>4, <2>5
<1>2. QED BY <1>1, CoreInvHolds, PTL

\* However a message is repeated within a session and whatever fails, its
\* intent is executed at most once.
THEOREM AtMostOnceHolds == Spec => []AtMostOnce
<1>1. ASSUME CoreInv PROVE AtMostOnce
  BY <1>1 DEF CoreInv, ExecutionInv, AtMostOnce
<1>2. QED BY <1>1, CoreInvHolds, PTL

-----------------------------------------------------------------------------
(* A request has one way into its turn, and gets on.                        *)

\* UNIQUE (session_id, client_message_id): a message has one turn.
LEMMA OneTurnForMessage ==
  ASSUME CoreInv, NEW s, NEW k, NEW t \in TurnsFor(s, k), NEW u \in TurnsFor(s, k)
  PROVE  t = u
  BY DEF CoreInv, ExecutionInv, TurnsFor

\* Whatever a client sends again, and whatever became of the first time, begin_turn
\* answers it in exactly one way.
THEOREM OneWayOutHolds == Spec => []OneWayOut
<1>1. ASSUME CoreInv, NEW session, NEW key, NEW content
      PROVE  /\ ~(UnknownSession(session) /\ ContentConflict(session, key, content))
             /\ ~(UnknownSession(session) /\ TurnInProgress(session, key, content))
             /\ ~(UnknownSession(session) /\ Replayable(session, key, content))
             /\ ~(UnknownSession(session) /\ \E s \in Sessions : Admits(session, key, s))
  BY DEF UnknownSession, ContentConflict, TurnInProgress, Replayable, Admits
<1>2. ASSUME CoreInv, NEW session, NEW key, NEW content,
             ContentConflict(session, key, content)
      PROVE  /\ ~TurnInProgress(session, key, content)
             /\ ~Replayable(session, key, content)
             /\ ~\E s \in Sessions : Admits(session, key, s)
  <2>1. PICK t \in TurnsFor(session, key) : session # None /\ turns[t].content # content
    BY <1>2 DEF ContentConflict
  <2>2. \A u \in TurnsFor(session, key) : u = t
    BY <1>2, <2>1, OneTurnForMessage
  <2> QED
    BY <2>1, <2>2 DEF TurnInProgress, Replayable, Admits
<1>3. ASSUME CoreInv, NEW session, NEW key, NEW content,
             TurnInProgress(session, key, content)
      PROVE  /\ ~Replayable(session, key, content)
             /\ ~\E s \in Sessions : Admits(session, key, s)
  <2>1. CASE TurnsFor(session, key) = {}
    BY <1>3, <2>1 DEF TurnInProgress, Replayable, Admits
  <2>2. CASE TurnsFor(session, key) # {}
    <3>1. PICK t \in TurnsFor(session, key) : session # None /\ turns[t].response = None
      BY <1>3, <2>2 DEF TurnInProgress
    <3>2. \A u \in TurnsFor(session, key) : u = t
      BY <1>3, <3>1, OneTurnForMessage
    <3> QED
      BY <3>1, <3>2 DEF Replayable, Admits
  <2> QED
    BY <2>1, <2>2
<1>4. ASSUME NEW session, NEW key, NEW content, Replayable(session, key, content)
      PROVE  ~\E s \in Sessions : Admits(session, key, s)
  BY <1>4 DEF Replayable, Admits
<1>5. ASSUME NEW session \in Sessions \cup {None}, NEW key, NEW content,
             session # None \/ \E s \in Sessions : sessions[s] = None
      PROVE  \/ UnknownSession(session)
             \/ ContentConflict(session, key, content)
             \/ TurnInProgress(session, key, content)
             \/ Replayable(session, key, content)
             \/ \E s \in Sessions : Admits(session, key, s)
  <2>1. CASE session = None
    BY <1>5, <2>1 DEF Admits
  <2>2. CASE session # None /\ sessions[session] = None
    BY <2>2 DEF UnknownSession
  <2>3. CASE session # None /\ sessions[session] # None
    <3>1. CASE TurnsFor(session, key) = {}
      BY <2>3, <3>1 DEF TurnInProgress, Admits
    <3>2. CASE TurnsFor(session, key) # {}
      <4>1. PICK t : t \in TurnsFor(session, key)
        BY <3>2
      <4>2. \/ turns[t].content # content
            \/ turns[t].content = content /\ turns[t].response = None
            \/ turns[t].content = content /\ turns[t].response # None
        OBVIOUS
      <4> QED
        BY <2>3, <3>2, <4>1, <4>2 DEF ContentConflict, TurnInProgress, Replayable
    <3> QED
      BY <3>1, <3>2
  <2> QED
    BY <2>1, <2>2, <2>3
<1>6. ASSUME CoreInv, NEW r \in Requests, pc[r] = "begin_turn"
      PROVE  request[r].session \in Sessions \cup {None}
  BY <1>6 DEF CoreInv, TypeOK, HandlerInv, RequestRows
<1>7. CoreInv => OneWayOut
  BY <1>1, <1>2, <1>3, <1>4, <1>5, <1>6 DEF OneWayOut
<1> QED
  BY <1>7, CoreInvHolds, PTL

\* The steps that are left for a handler at a label after n attempts.
StepsAt(label, n) ==
  CASE label = "idle"               -> MaxProviderRetries + 10
    [] label = "begin_turn"         -> MaxProviderRetries + 9
    [] label = "history"            -> MaxProviderRetries + 8
    [] label = "provider_begin"     -> MaxProviderRetries + 7 - n
    [] label = "provider_repair"    -> 6
    [] label = "record_tool_call"   -> 5
    [] label = "execute"            -> 4
    [] label = "record_tool_result" -> 3
    [] label = "provider_render"    -> 2
    [] label = "complete"           -> 1
    [] OTHER                        -> 0

\* That is what StepsLeft says, before a step and after it.
LEMMA StepsLeftAt ==
  ASSUME NEW r \in Requests
  PROVE  /\ StepsLeft(r) = StepsAt(pc[r], attempts[r])
         /\ StepsLeft(r)' = StepsAt(pc'[r], attempts'[r])
  BY DEF StepsLeft, StepsAt

\* What is known of a handler's place.
LEMMA PlaceType ==
  ASSUME CoreInv, NEW r \in Requests
  PROVE  /\ pc[r] \in Labels /\ attempts[r] \in Nat /\ MaxProviderRetries \in Nat
         /\ pc[r] = "provider_begin" => attempts[r] <= MaxProviderRetries
  BY SettingsAssumption DEF CoreInv, TypeOK, HandlerInv

\* The steps left are a number, and none are left exactly at the end.
LEMMA StepsLeftType ==
  ASSUME CoreInv, NEW r \in Requests
  PROVE  StepsLeft(r) \in Nat /\ (StepsLeft(r) = 0 <=> pc[r] \in {"done", "gone"})
  BY StepsLeftAt, PlaceType DEF StepsAt, Labels

\* A step that leaves the other handlers alone and brings its own nearer to the end.
OneAdvances(r) ==
  /\ \A q \in Requests \ {r} : pc'[q] = pc[q] /\ attempts'[q] = attempts[q]
  /\ StepsAt(pc'[r], attempts'[r]) \in Int
  /\ StepsAt(pc'[r], attempts'[r]) < StepsAt(pc[r], attempts[r])

\* A handler that goes from one label to another, without another attempt.
LEMMA GoesOn ==
  ASSUME CoreInv, NEW r \in Requests, NEW label, Goto(r, label), attempts' = attempts,
         \/ pc[r] = "idle" /\ label \in {"begin_turn", "done"}
         \/ pc[r] = "begin_turn" /\ label \in {"history", "done"}
         \/ pc[r] = "history" /\ label = "provider_begin"
         \/ pc[r] = "provider_repair" /\ label \in {"record_tool_call", "complete"}
         \/ pc[r] = "record_tool_call" /\ label = "execute"
         \/ pc[r] = "execute" /\ label = "record_tool_result"
         \/ pc[r] = "record_tool_result" /\ label \in {"provider_render", "complete"}
         \/ pc[r] = "provider_render" /\ label = "complete"
         \/ pc[r] \in Running /\ label = "done"
  PROVE  OneAdvances(r)
<1>1. pc \in [Requests -> Labels]
  BY DEF CoreInv, TypeOK
<1>2. pc'[r] = label /\ \A q \in Requests \ {r} : pc'[q] = pc[q] /\ attempts'[q] = attempts[q]
  BY <1>1 DEF Goto
<1>3. /\ StepsAt(label, attempts[r]) \in Int
      /\ StepsAt(label, attempts[r]) < StepsAt(pc[r], attempts[r])
  BY PlaceType DEF StepsAt, Labels, Running
<1> QED
  BY <1>2, <1>3 DEF OneAdvances

\* An attempt to get an answer of the model, which comes, fails, or is to be repeated.
LEMMA Attempts ==
  ASSUME CoreInv, NEW r \in Requests, pc[r] = "provider_begin",
         attempts' = [attempts EXCEPT ![r] = attempts[r] + 1],
         \/ \E label \in {"complete", "provider_repair", "record_tool_call"} : Goto(r, label)
         \/ pc' = pc
  PROVE  OneAdvances(r)
<1>1. /\ pc \in [Requests -> Labels] /\ attempts \in [Requests -> Nat]
      /\ attempts[r] <= MaxProviderRetries /\ MaxProviderRetries \in Nat
  BY SettingsAssumption DEF CoreInv, TypeOK, HandlerInv
<1>2. /\ \A q \in Requests \ {r} : pc'[q] = pc[q] /\ attempts'[q] = attempts[q]
      /\ attempts'[r] = attempts[r] + 1
      /\ pc'[r] \in {"complete", "provider_repair", "record_tool_call", "provider_begin"}
  BY <1>1 DEF Goto
<1>3. /\ StepsAt(pc'[r], attempts'[r]) \in Int
      /\ StepsAt(pc'[r], attempts'[r]) < StepsAt(pc[r], attempts[r])
  BY <1>1, <1>2 DEF StepsAt
<1> QED
  BY <1>2, <1>3 DEF OneAdvances

\* Every step of a handler brings it on.
LEMMA StepAdvances ==
  ASSUME CoreInv, NEW r \in Requests, Step(r)
  PROVE  OneAdvances(r)
<1>1. CASE BeginRefused(r)
  BY <1>1, GoesOn DEF BeginRefused, Reply
<1>2. CASE BeginReplays(r)
  BY <1>2, GoesOn DEF BeginReplays, Reply
<1>3. CASE \E s \in Sessions : BeginTurn(r, s)
  BY <1>3, GoesOn DEF BeginTurn
<1>4. CASE ReadHistory(r)
  BY <1>4, GoesOn DEF ReadHistory
<1>5. CASE \E retryable \in BOOLEAN : ProviderBeginFails(r, retryable)
  BY <1>5, Attempts DEF ProviderBeginFails, Draft
<1>6. CASE \E turn \in ProviderTurns : ProviderBegin(r, turn)
  <2>1. PICK turn \in ProviderTurns : ProviderBegin(r, turn)
    BY <1>6
  <2>2. turn.calls \in Calls
    BY SettingsAssumption DEF ModelTurns
  <2>3. /\ pc[r] = "provider_begin"
        /\ attempts' = [attempts EXCEPT ![r] = attempts[r] + 1]
    BY <2>1 DEF ProviderBegin
  <2>4. \E label \in {"complete", "provider_repair", "record_tool_call"} : Goto(r, label)
    BY <2>1, <2>2 DEF ProviderBegin, Draft, Calls
  <2> QED
    BY <2>3, <2>4, Attempts
<1>7. CASE \E turn \in ProviderTurns : ProviderRepair(r, turn)
  <2>1. PICK turn \in ProviderTurns : ProviderRepair(r, turn)
    BY <1>7
  <2>2. pc[r] = "provider_repair" /\ attempts' = attempts
    BY <2>1 DEF ProviderRepair
  <2>3. Goto(r, "record_tool_call") \/ Goto(r, "complete")
    BY <2>1 DEF ProviderRepair, Draft
  <2> QED
    BY <2>2, <2>3, GoesOn
<1>8. CASE RecordToolCall(r)
  BY <1>8, GoesOn DEF RecordToolCall
<1>9. CASE \E outcome \in CoreOutcomes : Execute(r, outcome)
  BY <1>9, GoesOn DEF Execute
<1>10. CASE RecordToolResult(r)
  <2>1. pc[r] = "record_tool_result" /\ attempts' = attempts
    BY <1>10 DEF RecordToolResult
  <2>2. Goto(r, "provider_render") \/ Goto(r, "complete")
    BY <1>10 DEF RecordToolResult, Draft
  <2> QED
    BY <2>1, <2>2, GoesOn
<1>11. CASE \E turn \in ProviderTurns : ProviderRender(r, turn)
  BY <1>11, GoesOn DEF ProviderRender, Draft
<1>12. CASE Complete(r)
  <2>1. pc[r] = "complete" /\ attempts' = attempts /\ Goto(r, "done")
    BY <1>12 DEF Complete, Reply
  <2> QED
    BY <2>1, GoesOn DEF Running, Labels
<1> QED
  BY <1>1, <1>2, <1>3, <1>4, <1>5, <1>6, <1>7, <1>8, <1>9, <1>10, <1>11, <1>12 DEF Step

\* One handler on its way: none goes back.
LEMMA NoneGoesBack ==
  ASSUME CoreInv, NEW r \in Requests, OneAdvances(r)
  PROVE  /\ \A q \in Requests : StepsLeft(q)' <= StepsLeft(q)
         /\ \E q \in Requests : StepsLeft(q)' < StepsLeft(q)
<1>1. StepsLeft(r)' < StepsLeft(r)
  BY StepsLeftAt DEF OneAdvances
<1>2. ASSUME NEW q \in Requests PROVE StepsLeft(q)' <= StepsLeft(q)
  <2>1. CASE q = r
    <3>1. StepsLeft(r) \in Nat /\ StepsLeft(r)' \in Int
      BY StepsLeftType, StepsLeftAt DEF OneAdvances
    <3> QED
      BY <1>1, <2>1, <3>1
  <2>2. CASE q # r
    <3>1. StepsLeft(q)' = StepsLeft(q) /\ StepsLeft(q) \in Nat
      BY <2>2, StepsLeftAt, StepsLeftType DEF OneAdvances
    <3> QED
      BY <3>1
  <2> QED
    BY <2>1, <2>2
<1> QED
  BY <1>1, <1>2

\* A process that dies takes every handler in it to its end.
LEMMA DeathEnds ==
  ASSUME CoreInv, ProcessDies
  PROVE  /\ \A q \in Requests : StepsLeft(q)' <= StepsLeft(q)
         /\ \E q \in Requests : StepsLeft(q)' < StepsLeft(q)
<1>1. ASSUME NEW q \in Requests, pc[q] \in Running
      PROVE  StepsLeft(q)' = 0 /\ StepsLeft(q) > 0
  <2>1. pc'[q] = "gone"
    BY <1>1 DEF ProcessDies
  <2>2. StepsLeft(q)' = 0
    BY <2>1, StepsLeftAt DEF StepsAt
  <2>3. StepsLeft(q) \in Nat /\ StepsLeft(q) # 0
    BY <1>1, StepsLeftType DEF Running
  <2> QED
    BY <2>2, <2>3
<1>2. ASSUME NEW q \in Requests, pc[q] \notin Running
      PROVE  StepsLeft(q)' = StepsLeft(q) /\ StepsLeft(q) \in Nat
  <2>1. pc'[q] = pc[q] /\ attempts'[q] = attempts[q]
    BY <1>2 DEF ProcessDies
  <2> QED
    BY <2>1, StepsLeftAt, StepsLeftType
<1>3. \E q \in Requests : pc[q] \in Running
  BY DEF ProcessDies
<1>4. ASSUME NEW q \in Requests PROVE StepsLeft(q)' <= StepsLeft(q)
  <2>1. CASE pc[q] \in Running
    <3>1. StepsLeft(q)' = 0 /\ StepsLeft(q) \in Nat
      BY <1>1, <2>1, StepsLeftType
    <3> QED
      BY <3>1
  <2>2. CASE pc[q] \notin Running
    <3>1. StepsLeft(q)' = StepsLeft(q) /\ StepsLeft(q) \in Nat
      BY <1>2, <2>2
    <3> QED
      BY <3>1
  <2> QED
    BY <2>1, <2>2
<1> QED
  BY <1>1, <1>3, <1>4

\* For any number of requests and whatever the model, the clients and the failures do,
\* every step brings a handler nearer to its answer and none is sent back; so each takes
\* at most ten steps and one for each retry.
THEOREM HandlersAdvanceHolds == Spec => HandlersAdvance
<1> DEFINE Forward == /\ \A r \in Requests : StepsLeft(r) \in Nat
                                             /\ StepsLeft(r)' <= StepsLeft(r)
                      /\ \E r \in Requests : StepsLeft(r)' < StepsLeft(r)
<1>1. ASSUME CoreInv, Next PROVE Forward
  <2>1. \A r \in Requests : StepsLeft(r) \in Nat
    BY <1>1, StepsLeftType
  <2>2. CASE \E r \in Requests, row \in RequestRows : Receive(r, row)
    <3>1. PICK r \in Requests, row \in RequestRows : Receive(r, row)
      BY <2>2
    <3>2. /\ pc[r] = "idle" /\ attempts' = attempts
          /\ Goto(r, "done") \/ Goto(r, "begin_turn")
      BY <3>1 DEF Receive, Reply
    <3>3. OneAdvances(r)
      BY <1>1, <3>2, GoesOn
    <3> QED
      BY <1>1, <2>1, <3>3, NoneGoesBack
  <2>3. CASE \E r \in Requests : Step(r)
    <3>1. PICK r \in Requests : Step(r)
      BY <2>3
    <3> QED
      BY <1>1, <2>1, <3>1, StepAdvances, NoneGoesBack
  <2>4. CASE \E r \in Requests : HandlerAborts(r)
    <3>1. PICK r \in Requests : HandlerAborts(r)
      BY <2>4
    <3>2. pc[r] \in Running /\ attempts' = attempts /\ Goto(r, "done")
      BY <3>1 DEF HandlerAborts, Reply
    <3>3. OneAdvances(r)
      BY <1>1, <3>2, GoesOn
    <3> QED
      BY <1>1, <2>1, <3>3, NoneGoesBack
  <2>5. CASE ProcessDies
    BY <1>1, <2>1, <2>5, DeathEnds
  <2> QED
    BY <1>1, <2>2, <2>3, <2>4, <2>5 DEF Next
<1>2. CoreInv /\ [Next]_vars => [Forward]_vars
  BY <1>1
<1> QED
  BY <1>2, CoreInvHolds, PTL DEF Spec, HandlersAdvance
=============================================================================
