----------------------------- MODULE Conversation -----------------------------
(***************************************************************************)
(* ConversationService.converse: concurrent POST /v1/conversation handlers   *)
(* over one SQLite database, a language model that may answer anything, and  *)
(* Beacon's deterministic core.                                            *)
(*                                                                         *)
(* A handler runs one request.  Its step is one repository transaction, one  *)
(* call of the provider (an await) or one execution of an intent.  The code  *)
(* awaits only at the provider, so within one process some of these steps    *)
(* follow each other at once; letting other handlers in between covers them, *)
(* several worker processes, and a crash at every point.                     *)
(*                                                                         *)
(* Failures: the process dies and every handler in it vanishes; or a handler *)
(* ends with an exception nobody catches (SQLite busy for ten seconds, a      *)
(* cancelled task).  Both leave the tables as the last commit left them.     *)
(***************************************************************************)
EXTENDS ConversationRepository

CONSTANTS MaxProviderRetries,  \* conversation_provider_max_retries
          MaxRepairs,          \* conversation_max_malformed_repairs
          MaxToolRounds,       \* conversation_max_tool_rounds
          HistoryLimit,        \* conversation_max_history_messages
          OverlongContents,    \* texts above conversation_max_input_length
          ProviderTurns,       \* the model turns an instance considers
          CoreOutcomes,        \* the outcomes an instance considers
          MaxFailures          \* bound of the model: crashes and aborts

ASSUME SettingsAssumption ==
  /\ MaxProviderRetries \in 0..1
  /\ MaxRepairs \in 0..1
  /\ MaxToolRounds \in 1..2
  /\ HistoryLimit \in 1..100
  /\ OverlongContents \subseteq Contents
  /\ ProviderTurns \subseteq ModelTurns
  /\ CoreOutcomes \subseteq Outcomes
  /\ MaxFailures \in Nat

VARIABLES pc,          \* where the handler of each request is
          request,     \* what the client sent
          attempts,    \* calls of provider.begin so far
          repaired,    \* the tool call came out of the repair round
          history,     \* the transcript handed to the provider
          result,      \* the authoritative result in the handler's memory
          draft,       \* the response about to be stored
          answer,      \* what the client got
          executions,  \* history: how often the intent of a turn was executed
          failures     \* history: crashes and aborts so far

handlers == <<pc, request, attempts, repaired, history, result, draft, answer>>
vars == <<tables, handlers, executions, failures>>

Labels == {"idle", "begin_turn", "history", "provider_begin", "provider_repair",
           "record_tool_call", "execute", "record_tool_result",
           "provider_render", "complete", "done", "gone"}

Running == Labels \ {"idle", "done", "gone"}

RequestRows == [session : Sessions \cup {None},
                key     : ClientMessageIds,
                content : Contents]

Codes == {"ok", "input_too_long", "session_not_found", "content_conflict",
          "turn_in_progress", "persistence_failed", "internal_error"}

Answers == [code : Codes, response : Responses \cup {None}, replay : BOOLEAN]

ASSUME NoneRequestAssumption == None \notin RequestRows

\* An HTTP error: no ConversationResponse.
Refusal(code) == [code |-> code, response |-> None, replay |-> FALSE]

TypeOK ==
  /\ TablesType
  /\ pc \in [Requests -> Labels]
  /\ request \in [Requests -> RequestRows \cup {None}]
  /\ attempts \in [Requests -> 0..(MaxProviderRetries + 1)]
  /\ repaired \in [Requests -> BOOLEAN]
  /\ history \in [Requests -> Seq(MessageRows)]
  /\ result \in [Requests -> Outcomes \cup {None}]
  /\ draft \in [Requests -> Responses \cup {None}]
  /\ answer \in [Requests -> Answers \cup {None}]
  /\ executions \in [Requests -> Nat]
  /\ failures \in 0..MaxFailures

Init ==
  /\ TablesInit
  /\ pc = [r \in Requests |-> "idle"]
  /\ request = [r \in Requests |-> None]
  /\ attempts = [r \in Requests |-> 0]
  /\ repaired = [r \in Requests |-> FALSE]
  /\ history = [r \in Requests |-> <<>>]
  /\ result = [r \in Requests |-> None]
  /\ draft = [r \in Requests |-> None]
  /\ answer = [r \in Requests |-> None]
  /\ executions = [r \in Requests |-> 0]
  /\ failures = 0

Goto(r, label) == pc' = [pc EXCEPT ![r] = label]

\* The handler ends and the client reads a.
Reply(r, a) == answer' = [answer EXCEPT ![r] = a] /\ Goto(r, "done")

-----------------------------------------------------------------------------
(* The request arrives.  A client may send any key, text and session id,     *)
(* so a repeated message is simply another request with the same three.      *)

Receive(r, row) ==
  /\ pc[r] = "idle"
  /\ request' = [request EXCEPT ![r] = row]
  /\ IF row.content \in OverlongContents
     THEN Reply(r, Refusal("input_too_long"))
     ELSE Goto(r, "begin_turn") /\ UNCHANGED answer
  /\ UNCHANGED <<tables, attempts, repaired, history, result, draft,
                 executions, failures>>

-----------------------------------------------------------------------------
(* begin_turn.                                                             *)

BeginRefused(r) ==
  LET q == request[r] IN
  /\ pc[r] = "begin_turn"
  /\ \/ UnknownSession(q.session) /\ Reply(r, Refusal("session_not_found"))
     \/ /\ ContentConflict(q.session, q.key, q.content)
        /\ Reply(r, Refusal("content_conflict"))
     \/ /\ TurnInProgress(q.session, q.key, q.content)
        /\ Reply(r, Refusal("turn_in_progress"))
  /\ UNCHANGED <<tables, request, attempts, repaired, history, result, draft,
                 executions, failures>>

\* The stored response, marked idempotent_replay.
BeginReplays(r) ==
  LET q == request[r] IN
  /\ pc[r] = "begin_turn"
  /\ Replayable(q.session, q.key, q.content)
  /\ \E t \in TurnsFor(q.session, q.key) :
       Reply(r, [code |-> "ok", response |-> turns[t].response, replay |-> TRUE])
  /\ UNCHANGED <<tables, request, attempts, repaired, history, result, draft,
                 executions, failures>>

BeginTurn(r, s) ==
  LET q == request[r] IN
  /\ pc[r] = "begin_turn"
  /\ Admits(q.session, q.key, s)
  /\ InsertTurn(r, s, q.key, q.content)
  /\ Goto(r, "history")
  /\ UNCHANGED <<request, attempts, repaired, history, result, draft, answer,
                 executions, failures>>

\* A connection of its own, after begin_turn has committed.
ReadHistory(r) ==
  /\ pc[r] = "history"
  /\ history' = [history EXCEPT ![r] =
                   Latest(messages[turns[r].session], HistoryLimit)]
  /\ Goto(r, "provider_begin")
  /\ UNCHANGED <<tables, request, attempts, repaired, result, draft, answer,
                 executions, failures>>

-----------------------------------------------------------------------------
(* Building a response.                                                    *)

Draft(r, response) ==
  /\ draft' = [draft EXCEPT ![r] = response]
  /\ Goto(r, "complete")

ErrorResponse(r, status, degraded) ==
  [turn |-> r, status |-> status, reply |-> "error_message", result |-> None,
   degraded |-> degraded]

DirectResponse(r, turn) ==
  IF DirectReplyAccepted(turn)
  THEN [turn |-> r, status |-> "completed", reply |-> turn.text,
        result |-> None, degraded |-> FALSE]
  ELSE ErrorResponse(r, "failed", TRUE)

\* After an execution: the model's sentence, or the fixed one.
ResultResponse(r, outcome, reply, degraded) ==
  [turn |-> r, status |-> ConversationStatus(outcome), reply |-> reply,
   result |-> outcome, degraded |-> degraded]

-----------------------------------------------------------------------------
(* The first model round: _begin_with_retry and the branches after it.       *)

\* Fault: one attempt too many.
ProviderBeginFailsOffByOne(r, retryable) ==
  LET attempt == attempts[r] + 1 IN
  /\ pc[r] = "provider_begin"
  /\ attempts' = [attempts EXCEPT ![r] = attempt]
  /\ IF retryable /\ attempt <= MaxProviderRetries + 1
     THEN UNCHANGED <<pc, draft>>
     ELSE Draft(r, ErrorResponse(r, "provider_unavailable", TRUE))
  /\ UNCHANGED <<tables, request, repaired, history, result, answer,
                 executions, failures>>

ProviderBeginFails(r, retryable) ==
  LET attempt == attempts[r] + 1 IN
  /\ pc[r] = "provider_begin"
  /\ attempts' = [attempts EXCEPT ![r] = attempt]
  /\ IF retryable /\ attempt < MaxProviderRetries + 1
     THEN UNCHANGED <<pc, draft>>
     ELSE Draft(r, ErrorResponse(r, "provider_unavailable", TRUE))
  /\ UNCHANGED <<tables, request, repaired, history, result, answer,
                 executions, failures>>

ProviderBegin(r, turn) ==
  /\ pc[r] = "provider_begin"
  /\ attempts' = [attempts EXCEPT ![r] = @ + 1]
  /\ CASE turn.calls = "none" -> Draft(r, DirectResponse(r, turn))
       [] turn.calls = "many" ->
            Draft(r, ErrorResponse(r, "safety_rejected", FALSE))
       [] turn.calls = "unknown" ->
            Draft(r, ErrorResponse(r, "unsupported_tool", FALSE))
       [] turn.calls = "invalid" ->
            IF MaxRepairs > 0 /\ MaxToolRounds >= 2
            THEN Goto(r, "provider_repair") /\ UNCHANGED draft
            ELSE Draft(r, ErrorResponse(r, "invalid_tool_call", FALSE))
       [] turn.calls = "valid" ->
            Goto(r, "record_tool_call") /\ UNCHANGED draft
  /\ UNCHANGED <<tables, request, repaired, history, result, answer,
                 executions, failures>>

\* Fault: a call that is still invalid starts over with a fresh first round.
ProviderRepairStartsOver(r, turn) ==
  /\ pc[r] = "provider_repair"
  /\ repaired' = [repaired EXCEPT ![r] = TRUE]
  /\ IF turn.calls = "valid"
     THEN Goto(r, "record_tool_call") /\ UNCHANGED attempts
     ELSE Goto(r, "provider_begin") /\ attempts' = [attempts EXCEPT ![r] = 0]
  /\ UNCHANGED <<tables, request, history, result, draft, answer, executions,
                 failures>>

\* One continue_with_result with the validation errors.  A provider error
\* counts as an empty turn; anything but exactly one call ends the turn.
ProviderRepair(r, turn) ==
  /\ pc[r] = "provider_repair"
  /\ repaired' = [repaired EXCEPT ![r] = TRUE]
  /\ CASE turn.calls = "valid" ->
            Goto(r, "record_tool_call") /\ UNCHANGED draft
       [] turn.calls = "unknown" ->
            Draft(r, ErrorResponse(r, "unsupported_tool", FALSE))
       [] OTHER ->
            Draft(r, ErrorResponse(r, "invalid_tool_call", FALSE))
  /\ UNCHANGED <<tables, request, attempts, history, result, answer,
                 executions, failures>>

-----------------------------------------------------------------------------
(* The one execution of a turn, written down before and after.             *)

\* Fault: the tool call is not written down before the execution.
RecordToolCallSkipped(r) ==
  /\ pc[r] = "record_tool_call"
  /\ Goto(r, "execute")
  /\ UNCHANGED <<tables, request, attempts, repaired, history, result, draft,
                 answer, executions, failures>>

RecordToolCall(r) ==
  /\ pc[r] = "record_tool_call"
  /\ RecordToolCallRow(r)
  /\ Goto(r, "execute")
  /\ UNCHANGED <<request, attempts, repaired, history, result, draft, answer,
                 executions, failures>>

Execute(r, outcome) ==
  /\ pc[r] = "execute"
  /\ executions' = [executions EXCEPT ![r] = @ + 1]
  /\ result' = [result EXCEPT ![r] = outcome]
  /\ Goto(r, "record_tool_result")
  /\ UNCHANGED <<tables, request, attempts, repaired, history, draft, answer,
                 failures>>

\* A repaired call is not rendered: the two model rounds are used up.
RecordToolResult(r) ==
  /\ pc[r] = "record_tool_result"
  /\ RecordToolResultRow(r, result[r])
  /\ IF repaired[r]
     THEN Draft(r, ResultResponse(r, result[r], Fallback(result[r]), TRUE))
     ELSE Goto(r, "provider_render") /\ UNCHANGED draft
  /\ UNCHANGED <<request, attempts, repaired, history, result, answer,
                 executions, failures>>

\* Fault: a failed rendering starts the action over.
ProviderRenderRetrying(r, turn) ==
  LET outcome == result[r] IN
  /\ pc[r] = "provider_render"
  /\ IF RenderAccepted(turn, ConversationStatus(outcome))
     THEN Draft(r, ResultResponse(r, outcome, turn.text, FALSE))
     ELSE Goto(r, "execute") /\ UNCHANGED draft
  /\ UNCHANGED <<tables, request, attempts, repaired, history, result, answer,
                 executions, failures>>

\* A provider error and a rendering that is refused end the same way.
ProviderRender(r, turn) ==
  LET outcome == result[r] IN
  /\ pc[r] = "provider_render"
  /\ Draft(r, IF RenderAccepted(turn, ConversationStatus(outcome))
              THEN ResultResponse(r, outcome, turn.text, FALSE)
              ELSE ResultResponse(r, outcome, Fallback(outcome), TRUE))
  /\ UNCHANGED <<tables, request, attempts, repaired, history, result, answer,
                 executions, failures>>

Complete(r) ==
  /\ pc[r] = "complete"
  /\ IF Processing(r)
     THEN /\ SettleTurn(r, draft[r])
          /\ Reply(r, [code |-> "ok", response |-> draft[r], replay |-> FALSE])
     ELSE /\ Reply(r, Refusal("persistence_failed"))
          /\ UNCHANGED tables
  /\ UNCHANGED <<request, attempts, repaired, history, result, draft,
                 executions, failures>>

-----------------------------------------------------------------------------
(* Failures.                                                               *)

HandlerAborts(r) ==
  /\ failures < MaxFailures
  /\ failures' = failures + 1
  /\ pc[r] \in Running
  /\ Reply(r, Refusal("internal_error"))
  /\ UNCHANGED <<tables, request, attempts, repaired, history, result, draft,
                 executions>>

ProcessDies ==
  /\ failures < MaxFailures
  /\ failures' = failures + 1
  /\ \E r \in Requests : pc[r] \in Running
  /\ pc' = [r \in Requests |-> IF pc[r] \in Running THEN "gone" ELSE pc[r]]
  /\ UNCHANGED <<tables, request, attempts, repaired, history, result, draft,
                 answer, executions>>

-----------------------------------------------------------------------------

Step(r) ==
  \/ BeginRefused(r)
  \/ BeginReplays(r)
  \/ \E s \in Sessions : BeginTurn(r, s)
  \/ ReadHistory(r)
  \/ \E retryable \in BOOLEAN : ProviderBeginFails(r, retryable)
  \/ \E turn \in ProviderTurns : ProviderBegin(r, turn)
  \/ \E turn \in ProviderTurns : ProviderRepair(r, turn)
  \/ RecordToolCall(r)
  \/ \E outcome \in CoreOutcomes : Execute(r, outcome)
  \/ RecordToolResult(r)
  \/ \E turn \in ProviderTurns : ProviderRender(r, turn)
  \/ Complete(r)

Next ==
  \/ \E r \in Requests, row \in RequestRows : Receive(r, row)
  \/ \E r \in Requests : Step(r)
  \/ \E r \in Requests : HandlerAborts(r)
  \/ ProcessDies

Spec == Init /\ [][Next]_vars

\* A handler that can go on does: every await of the provider ends in an
\* answer, an error or a timeout, and nothing else blocks.  Clients and
\* failures owe nothing.
Fairness == \A r \in Requests : WF_vars(Step(r))

FairSpec == Spec /\ Fairness

-----------------------------------------------------------------------------
(* Safety.                                                                 *)

\* A session's active_turn_id is the one turn of the session in 'processing',
\* and NULL when there is none: begin_turn's check and complete's conditional
\* release keep two turns of a session from ever overlapping.
SessionLock ==
  \A s \in Sessions :
    {t \in Requests : Processing(t) /\ turns[t].session = s} =
      IF sessions[s] = None \/ sessions[s].active = None
      THEN {} ELSE {sessions[s].active}

\* However often a client repeats a message in a session, and whatever fails
\* in between, the intent of that message is executed at most once.
AtMostOnce ==
  \A t, u \in Requests :
    /\ executions[t] <= 1
    /\ ( /\ executions[t] = 1 /\ executions[u] = 1
         /\ turns[t].session = turns[u].session
         /\ turns[t].key = turns[u].key ) => t = u

\* The turn row decides, after any crash, whether the action may have
\* happened: an execution is preceded by its tool call, a stored result by the
\* execution, and a settled turn carries an outcome iff it executed.
RowTellsExecution ==
  \A t \in Requests : turns[t] # None =>
    /\ executions[t] > 0 => turns[t].called
    /\ turns[t].result # None => executions[t] > 0
    /\ Settled(t) =>
         /\ turns[t].response.result = turns[t].result
         /\ (turns[t].result # None) <=> (executions[t] > 0)

Rank(role) == CASE role = "user"        -> 1 [] role = "tool_call" -> 2
                [] role = "tool_result" -> 3 [] role = "assistant" -> 4

\* The transcript is told turn by turn, and within a turn in the order user,
\* tool call, tool result, assistant; the assistant speaks in settled turns.
TranscriptInOrder ==
  \A s \in Sessions : \A i, j \in DOMAIN messages[s] :
    LET m == messages[s][i]
        n == messages[s][j]
    IN  /\ turns[m.turn].session = s
        /\ m.role = "assistant" => Settled(m.turn)
        /\ i < j =>
             \/ turns[m.turn].sequence < turns[n.turn].sequence
             \/ m.turn = n.turn /\ Rank(m.role) < Rank(n.role)

\* history() runs outside begin_turn's transaction, yet what the model reads
\* ends with the user's own message and holds nothing of another turn that
\* is still going on.
PromptIsSettled ==
  \A r \in Requests : pc[r] = "provider_begin" =>
    /\ history[r] # <<>>
    /\ history[r][Len(history[r])] = [turn |-> r, role |-> "user"]
    /\ \A i \in 1..(Len(history[r]) - 1) : Settled(history[r][i].turn)

\* begin_turn has five ways out.  A request that names a session, or that a new session
\* id is left for, has exactly one of them: no message falls through the checks, and
\* the order in which the code makes them decides nothing.
OneWayOut ==
  \A r \in Requests : pc[r] = "begin_turn" =>
    LET q == request[r]
        unknown    == UnknownSession(q.session)
        conflict   == ContentConflict(q.session, q.key, q.content)
        inProgress == TurnInProgress(q.session, q.key, q.content)
        replay     == Replayable(q.session, q.key, q.content)
        begins     == \E s \in Sessions : Admits(q.session, q.key, s)
    IN /\ q.session # None \/ (\E s \in Sessions : sessions[s] = None) =>
            unknown \/ conflict \/ inProgress \/ replay \/ begins
       /\ ~(unknown /\ (conflict \/ inProgress \/ replay \/ begins))
       /\ ~(conflict /\ (inProgress \/ replay \/ begins))
       /\ ~(inProgress /\ (replay \/ begins))
       /\ ~(replay /\ begins)

Answered(r) == answer[r] # None /\ answer[r].code = "ok"

\* Two successful answers for one message of one session are the same stored
\* response, and were given to the same text.
AnswersAgree ==
  \A r, q \in Requests : Answered(r) /\ Answered(q) =>
    LET t == answer[r].response.turn
        u == answer[q].response.turn
    IN  turns[t].session = turns[u].session /\ turns[t].key = turns[u].key =>
          /\ answer[r].response = answer[q].response
          /\ request[r].content = request[q].content

\* A reply that claims success is only ever given for a turn that executed an
\* intent to a COMPLETED result, whatever the model chose to say.
ClaimsAreBacked ==
  \A t \in Requests : Settled(t) /\ turns[t].response.reply = "claims" =>
    /\ executions[t] = 1
    /\ turns[t].response.status = "completed"

-----------------------------------------------------------------------------
(* Steps.                                                                  *)

\* A settled turn is history: no later request, retry or failure alters the
\* row a replay is served from, and its session's transcript only grows.
SettledTurnsAreFinal ==
  [][/\ \A t \in Requests : Settled(t) => turns'[t] = turns[t]
     /\ \A s \in Sessions :
          /\ Len(messages[s]) <= Len(messages'[s])
          /\ SubSeq(messages'[s], 1, Len(messages[s])) = messages[s]]_tables

\* The steps a handler takes at most until its request is answered.
StepsLeft(r) ==
  CASE pc[r] = "idle"               -> MaxProviderRetries + 10
    [] pc[r] = "begin_turn"         -> MaxProviderRetries + 9
    [] pc[r] = "history"            -> MaxProviderRetries + 8
    [] pc[r] = "provider_begin"     -> MaxProviderRetries + 7 - attempts[r]
    [] pc[r] = "provider_repair"    -> 6
    [] pc[r] = "record_tool_call"   -> 5
    [] pc[r] = "execute"            -> 4
    [] pc[r] = "record_tool_result" -> 3
    [] pc[r] = "provider_render"    -> 2
    [] pc[r] = "complete"           -> 1
    [] OTHER                        -> 0

\* Whatever the model answers, however a client repeats itself and whatever fails, a
\* step brings one handler nearer to its end and sends none back: retries and the
\* repair are bounded, and what has been written down is never gone through again.
HandlersAdvance ==
  [][/\ \A r \in Requests : StepsLeft(r) \in Nat /\ StepsLeft(r)' <= StepsLeft(r)
     /\ \E r \in Requests : StepsLeft(r)' < StepsLeft(r)]_vars

-----------------------------------------------------------------------------
(* Liveness, where no failure intervenes.                                  *)

\* Every request is answered: the retry and repair rounds are bounded.
EveryRequestAnswered ==
  \A r \in Requests : pc[r] # "idle" ~> answer[r] # None

\* No session stays locked.
SessionsAreReleased ==
  \A s \in Sessions :
    (sessions[s] # None /\ sessions[s].active # None)
      ~> (sessions[s] # None /\ sessions[s].active = None)

-----------------------------------------------------------------------------
(* The abstract ledger.                                                    *)

ExecutionsFor(s, k) ==
  LET executed == {t \in TurnsFor(s, k) : executions[t] > 0}
  IN  IF executed = {} THEN 0
      ELSE IF \E t \in executed : executed = {t} /\ executions[t] = 1 THEN 1
      ELSE 2

AnswerFor(s, k) ==
  IF \E t \in TurnsFor(s, k) : Settled(t)
  THEN LET t == CHOOSE t \in TurnsFor(s, k) : Settled(t)
       IN  [status |-> turns[t].response.status,
            result |-> turns[t].response.result]
  ELSE None

Ledger == INSTANCE MessageLedger WITH
  Keys      <- ClientMessageIds,
  Statuses  <- ConversationStatuses,
  open      <- [s \in Sessions |->
                  IF sessions[s] = None \/ sessions[s].active = None THEN None
                  ELSE turns[sessions[s].active].key],
  performed <- [m \in Sessions \X ClientMessageIds |-> ExecutionsFor(m[1], m[2])],
  answered  <- [m \in Sessions \X ClientMessageIds |-> AnswerFor(m[1], m[2])]

\* The handlers over the SQLite tables, crashes included, implement the ledger.
ImplementsLedger == Ledger!Spec

-----------------------------------------------------------------------------
(* What the documents say and the code does not.                           *)

\* docs/conversation.md: if the final rendering fails, the API returns the
\* authoritative result and a terse deterministic fallback.  That sentence
\* does not deny an action that was carried out.
FallbackDoesNotDenyAction ==
  \A t \in Requests : Settled(t) /\ turns[t].response.reply = "not_completed" =>
    turns[t].response.result # "applied"

-----------------------------------------------------------------------------
(* The inductive invariant: first what SessionLock and AtMostOnce rest on.   *)

BeforeTurn == {"idle", "begin_turn"}
BeforeExecution == BeforeTurn \cup {"history", "provider_begin", "provider_repair",
                                   "record_tool_call", "execute"}
InTurn == Running \ {"begin_turn"}

\* What the position of a handler says about its memory and its row.
HandlerInv ==
  \A r \in Requests :
    /\ pc[r] # "idle" => request[r] # None
    /\ pc[r] = "complete" => draft[r] # None
    /\ pc[r] \in {"idle", "begin_turn", "history", "provider_begin"} =>
         attempts[r] <= MaxProviderRetries
    /\ pc[r] \in BeforeTurn => turns[r] = None
    /\ pc[r] \in InTurn => Processing(r)

\* active_turn_id and the status column agree, in both directions, and a
\* turn's session exists (a foreign key).
LockInv ==
  /\ \A t \in Requests : turns[t] # None => sessions[turns[t].session] # None
  /\ \A t \in Requests : Processing(t) =>
       sessions[turns[t].session].active = t
  /\ \A s \in Sessions : sessions[s] # None /\ sessions[s].active # None =>
       Processing(sessions[s].active) /\ turns[sessions[s].active].session = s

\* A message has one turn, and a turn executes only on its way through.
ExecutionInv ==
  \A t, u \in Requests :
    /\ executions[t] \in 0..1
    /\ executions[t] = 1 => turns[t] # None
    /\ pc[t] \in BeforeExecution => executions[t] = 0
    /\ ( /\ turns[t] # None /\ turns[u] # None
         /\ turns[t].session = turns[u].session
         /\ turns[t].key = turns[u].key ) => t = u

CoreInv == TypeOK /\ HandlerInv /\ LockInv /\ ExecutionInv

-----------------------------------------------------------------------------
(* What the rows record, and what handlers and clients know of it.           *)

\* A response that says of turn t what its row says.
Agrees(t, response) ==
  /\ response # None
  /\ response.turn = t
  /\ response.result = turns[t].result
  /\ (turns[t].result # None) <=> (executions[t] = 1)
  /\ response.reply = "claims" => executions[t] = 1 /\ response.status = "completed"

Recorded(t) ==
  /\ executions[t] = 1 => turns[t].called
  /\ turns[t].result # None => executions[t] = 1
  /\ Processing(t) => turns[t].response = None
  /\ Settled(t) => Agrees(t, turns[t].response)

\* The handler of turn t: the row is one step behind its memory.
InStep(t) ==
  /\ pc[t] \in InTurn => turns[t].content = request[t].content
  /\ pc[t] \in {"history", "provider_begin", "provider_repair", "record_tool_call"} =>
       ~turns[t].called
  /\ pc[t] = "execute" => turns[t].called
  /\ pc[t] \in {"history", "provider_begin", "provider_repair", "record_tool_call",
                "execute", "record_tool_result"} => turns[t].result = None
  /\ pc[t] = "record_tool_result" => executions[t] = 1 /\ result[t] # None
  /\ pc[t] = "provider_render" =>
       executions[t] = 1 /\ result[t] # None /\ turns[t].result = result[t]
  /\ pc[t] = "complete" => Agrees(t, draft[t])

\* A client has got no answer before the end, and then that of a settled turn for the
\* text it sent.
Informed(r) ==
  /\ pc[r] # "done" => answer[r] = None
  /\ Answered(r) =>
       /\ answer[r].response # None
       /\ Settled(answer[r].response.turn)
       /\ turns[answer[r].response.turn].response = answer[r].response
       /\ turns[answer[r].response.turn].content = request[r].content

RecordInv ==
  \A r \in Requests : (turns[r] # None => Recorded(r)) /\ InStep(r) /\ Informed(r)

-----------------------------------------------------------------------------
(* The transcript.                                                         *)

\* Turns of a session are numbered in the order they begin; the active one is the last.
Numbered ==
  \A t \in Requests : turns[t] # None =>
    /\ turns[t].sequence <= sessions[turns[t].session].sequence
    /\ Processing(t) => turns[t].sequence = sessions[turns[t].session].sequence
    /\ \A u \in Requests :
         /\ turns[u] # None /\ turns[u].session = turns[t].session
         /\ turns[u].sequence = turns[t].sequence
         => u = t

\* A message tells of something that its turn's row says has happened.
Witnessed(s, m) ==
  /\ turns[m.turn] # None /\ turns[m.turn].session = s
  /\ m.role = "tool_call" => turns[m.turn].called
  /\ m.role = "tool_result" => turns[m.turn].result # None
  /\ m.role = "assistant" => Settled(m.turn)

Precedes(m, n) ==
  \/ turns[m.turn].sequence < turns[n.turn].sequence
  \/ m.turn = n.turn /\ Rank(m.role) < Rank(n.role)

Told(s) ==
  /\ \A i \in DOMAIN messages[s] : Witnessed(s, messages[s][i])
  /\ \A i, j \in DOMAIN messages[s] : i < j => Precedes(messages[s][i], messages[s][j])

\* A turn begins with the user's message, which is the last when the history is read.
Prompted(r) ==
  /\ pc[r] = "history" =>
       LET log == messages[turns[r].session] IN
       log # <<>> /\ log[Len(log)] = [turn |-> r, role |-> "user"]
  /\ pc[r] = "provider_begin" =>
       /\ history[r] # <<>>
       /\ history[r][Len(history[r])] = [turn |-> r, role |-> "user"]
       /\ \A i \in 1..(Len(history[r]) - 1) : Settled(history[r][i].turn)

TranscriptInv ==
  Numbered /\ (\A s \in Sessions : Told(s)) /\ (\A r \in Requests : Prompted(r))

\* Inductive: every action preserves it, and it implies the safety properties.
IndInv == CoreInv /\ RecordInv /\ TranscriptInv
=============================================================================
