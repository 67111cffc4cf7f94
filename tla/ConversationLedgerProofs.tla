----------------------- MODULE ConversationLedgerProofs -----------------------
(***************************************************************************)
(* Proofs about Conversation, continued: what rows, transcripts and answers   *)
(* tell, and that the handlers implement MessageLedger.                      *)
(***************************************************************************)
EXTENDS ConversationProofs

-----------------------------------------------------------------------------
(* Frames.                                                                 *)

\* No handler but r moves, and no other turn's row changes.
OnlyTouches(r) ==
  \A q \in Requests \ {r} :
    /\ turns'[q] = turns[q] /\ executions'[q] = executions[q]
    /\ pc'[q] = pc[q] /\ request'[q] = request[q] /\ result'[q] = result[q]
    /\ draft'[q] = draft[q] /\ answer'[q] = answer[q] /\ history'[q] = history[q]

\* What RecordInv says of one request.
Records(r) == (turns[r] # None => Recorded(r)) /\ InStep(r) /\ Informed(r)

\* A response that was given is that of a turn.
LEMMA AnswerTurn ==
  ASSUME TypeOK, NEW r \in Requests, answer[r] # None, answer[r].response # None
  PROVE  answer[r].response \in Responses /\ answer[r].response.turn \in Requests
<1>1. answer[r] \in Answers
  BY DEF TypeOK
<1>2. answer[r].response \in Responses
  BY <1>1 DEF Answers
<1> QED
  BY <1>2 DEF Responses

\* A step of handler r that does not touch its row if settled keeps what the others
\* know.
LEMMA RecordsKept ==
  ASSUME CoreInv, RecordInv, NEW r \in Requests, OnlyTouches(r), Records(r)',
         Settled(r) => turns'[r] = turns[r]
  PROVE  RecordInv'
<1> SUFFICES ASSUME NEW q \in Requests \ {r}
             PROVE  Records(q)'
  BY DEF RecordInv, Records
<1>1. Records(q) /\ TypeOK
  BY DEF RecordInv, Records, CoreInv
<1>2. /\ turns'[q] = turns[q] /\ executions'[q] = executions[q]
      /\ pc'[q] = pc[q] /\ request'[q] = request[q] /\ result'[q] = result[q]
      /\ draft'[q] = draft[q] /\ answer'[q] = answer[q]
  BY DEF OnlyTouches
<1>3. (turns[q] # None => Recorded(q))'
  BY <1>1, <1>2 DEF Records, Recorded, Agrees, Processing, Settled
<1>4. InStep(q)'
  BY <1>1, <1>2 DEF Records, InStep, Agrees
<1>5. Informed(q)'
  <2>1. SUFFICES ASSUME Answered(q)
                 PROVE  Informed(q)'
    BY <1>1, <1>2 DEF Records, Informed, Answered
  <2> DEFINE u == answer[q].response.turn
  <2>2. /\ answer[q].response # None /\ Settled(u)
        /\ turns[u].response = answer[q].response
        /\ turns[u].content = request[q].content
    BY <1>1, <2>1 DEF Records, Informed
  <2>3. u \in Requests
    BY <1>1, <2>1, <2>2, AnswerTurn DEF Answered
  <2>4. turns'[u] = turns[u]
    BY <2>2, <2>3 DEF OnlyTouches
  <2> QED
    BY <1>1, <1>2, <2>2, <2>4 DEF Records, Informed, Settled
<1> QED
  BY <1>3, <1>4, <1>5 DEF Records


\* A handler that has no turn, or goes to its end without touching a table.
LEMMA NotInTurn ==
  ASSUME CoreInv, RecordInv, NEW r \in Requests, UNCHANGED tables,
         executions' = executions, OnlyTouches(r), pc'[r] \notin InTurn, Informed(r)'
  PROVE  RecordInv'
<1>1. Records(r) /\ turns' = turns
  BY DEF RecordInv, Records, tables
<1>2. (turns[r] # None => Recorded(r))'
  BY <1>1 DEF Records, Recorded, Agrees, Processing, Settled
<1>3. InStep(r)'
  BY DEF InStep, InTurn, Running, Labels
<1> QED
  BY <1>1, <1>2, <1>3, RecordsKept DEF Records

\* A handler in its turn that touches no table and has not answered.
LEMMA StaysInTurn ==
  ASSUME CoreInv, RecordInv, NEW r \in Requests, UNCHANGED tables,
         executions' = executions, OnlyTouches(r), pc[r] \in InTurn, pc'[r] \in InTurn,
         answer'[r] = answer[r], InStep(r)'
  PROVE  RecordInv'
<1>1. Records(r) /\ turns' = turns
  BY DEF RecordInv, Records, tables
<1>2. (turns[r] # None => Recorded(r))'
  BY <1>1 DEF Records, Recorded, Agrees, Processing, Settled
<1>3. answer[r] = None
  BY <1>1 DEF Records, Informed, InTurn, Running, Labels
<1>4. Informed(r)'
  BY <1>3 DEF Informed, Answered
<1> QED
  BY <1>1, <1>2, <1>4, RecordsKept DEF Records

\* A refusal, an error or nothing at all tells nothing of a turn.
LEMMA TellsNothing ==
  ASSUME NEW r \in Requests, NEW code \in Codes \ {"ok"},
         pc'[r] = "done", answer'[r] = Refusal(code)
  PROVE  Informed(r)'
  BY DEF Informed, Answered, Refusal

-----------------------------------------------------------------------------
(* Each action keeps the records.                                           *)

\* A request that arrives has no turn yet.
LEMMA ReceiveRecords ==
  ASSUME CoreInv, RecordInv, NEW r \in Requests, NEW row \in RequestRows, Receive(r, row)
  PROVE  RecordInv'
<1>1. OnlyTouches(r)
  BY DEF CoreInv, TypeOK, Receive, Reply, Goto, tables, OnlyTouches
<1>2. /\ pc[r] = "idle" /\ UNCHANGED tables /\ executions' = executions
      /\ \/ pc'[r] = "done" /\ answer'[r] = Refusal("input_too_long")
         \/ pc'[r] = "begin_turn" /\ answer'[r] = answer[r]
  BY DEF CoreInv, TypeOK, Receive, Reply, Goto
<1>3. answer[r] = None
  BY <1>2 DEF RecordInv, Informed
<1>4. Informed(r)'
  <2>1. CASE pc'[r] = "done" /\ answer'[r] = Refusal("input_too_long")
    BY <2>1, TellsNothing DEF Codes
  <2>2. CASE pc'[r] = "begin_turn" /\ answer'[r] = answer[r]
    BY <2>2, <1>3 DEF Informed, Answered
  <2> QED
    BY <1>2, <2>1, <2>2
<1> QED
  BY <1>1, <1>2, <1>4, NotInTurn DEF InTurn, Running, Labels

\* A refusal tells nothing about a turn.
LEMMA BeginRefusedRecords ==
  ASSUME CoreInv, RecordInv, NEW r \in Requests, BeginRefused(r)
  PROVE  RecordInv'
<1>1. PICK code \in Codes \ {"ok"} : Reply(r, Refusal(code))
  BY DEF BeginRefused, Codes
<1>2. OnlyTouches(r)
  BY <1>1 DEF CoreInv, TypeOK, BeginRefused, Reply, Goto, tables, OnlyTouches
<1>3. pc'[r] = "done" /\ answer'[r] = Refusal(code)
  BY <1>1 DEF CoreInv, TypeOK, Reply, Goto
<1>4. Informed(r)'
  BY <1>3, TellsNothing
<1> QED
  BY <1>2, <1>3, <1>4, NotInTurn DEF BeginRefused, InTurn, Running, Labels

\* What is replayed is the response of a settled turn for the same text.
LEMMA BeginReplaysRecords ==
  ASSUME CoreInv, RecordInv, NEW r \in Requests, BeginReplays(r)
  PROVE  RecordInv'
<1> DEFINE q == request[r]
<1>1. PICK t \in TurnsFor(q.session, q.key) :
        Reply(r, [code |-> "ok", response |-> turns[t].response, replay |-> TRUE])
  BY DEF BeginReplays
<1>2. PICK u \in TurnsFor(q.session, q.key) :
        turns[u].content = q.content /\ turns[u].response # None
  BY DEF BeginReplays, Replayable
<1>3. t \in Requests /\ t = u /\ turns[t] # None
  BY DEF TurnsFor, CoreInv, ExecutionInv
<1>4. Settled(t) /\ turns[t].response.turn = t
  BY <1>2, <1>3 DEF RecordInv, Recorded, Agrees, Settled, Processing
<1>5. OnlyTouches(r)
  BY <1>1 DEF CoreInv, TypeOK, BeginReplays, Reply, Goto, tables, OnlyTouches
<1>6. /\ pc'[r] = "done" /\ request' = request /\ UNCHANGED tables /\ executions' = executions
      /\ answer'[r] = [code |-> "ok", response |-> turns[t].response, replay |-> TRUE]
  BY <1>1 DEF CoreInv, TypeOK, BeginReplays, Reply, Goto
<1>7. Informed(r)'
  BY <1>2, <1>3, <1>4, <1>6 DEF Informed, Answered, Settled, tables
<1> QED
  BY <1>5, <1>6, <1>7, NotInTurn DEF InTurn, Running, Labels

\* Reading the transcript writes no row.
LEMMA ReadHistoryRecords ==
  ASSUME CoreInv, RecordInv, NEW r \in Requests, ReadHistory(r)
  PROVE  RecordInv'
<1>1. OnlyTouches(r)
  BY DEF CoreInv, TypeOK, ReadHistory, Goto, tables, OnlyTouches
<1>2. /\ pc[r] = "history" /\ pc'[r] = "provider_begin"
      /\ UNCHANGED <<tables, request, executions, answer>>
  BY DEF CoreInv, TypeOK, ReadHistory, Goto
<1>3. InStep(r)'
  BY <1>2 DEF RecordInv, InStep, InTurn, Running, Labels, tables
<1> QED
  BY <1>1, <1>2, <1>3, StaysInTurn DEF InTurn, Running, Labels

-----------------------------------------------------------------------------
(* Drafts agree with the rows.                                              *)

\* Without an execution no result is named and no success claimed.
LEMMA DraftWithout ==
  ASSUME CoreInv, RecordInv, NEW r \in Requests, NEW response \in Responses,
         pc[r] \in {"provider_begin", "provider_repair"}, Draft(r, response),
         response.turn = r, response.result = None, response.reply # "claims",
         UNCHANGED <<tables, request, executions, answer>>, OnlyTouches(r)
  PROVE  RecordInv'
<1>1. pc'[r] = "complete" /\ draft'[r] = response
  BY DEF CoreInv, TypeOK, Draft, Goto
<1>2. executions[r] = 0 /\ turns[r].result = None /\ turns' = turns
  BY DEF CoreInv, ExecutionInv, BeforeExecution, RecordInv, InStep, tables
<1>3. response # None
  BY NoneAssumption
<1>4. Agrees(r, response)'
  BY <1>2, <1>3 DEF Agrees
<1>5. turns[r].content = request[r].content
  BY DEF RecordInv, InStep, InTurn, Running, Labels
<1>6. InStep(r)'
  BY <1>1, <1>2, <1>4, <1>5 DEF InStep, Agrees
<1> QED
  BY <1>1, <1>6, StaysInTurn DEF InTurn, Running, Labels

\* An error message and a direct reply are such drafts.
LEMMA DirectDrafts ==
  ASSUME NEW r \in Requests
  PROVE  /\ \A status \in ConversationStatuses, degraded \in BOOLEAN :
              LET e == ErrorResponse(r, status, degraded) IN
              e.turn = r /\ e.result = None /\ e.reply # "claims"
         /\ \A turn \in ModelTurns :
              LET d == DirectResponse(r, turn) IN
              d.turn = r /\ d.result = None /\ d.reply # "claims"
<1>1. \A status \in ConversationStatuses, degraded \in BOOLEAN :
        LET e == ErrorResponse(r, status, degraded) IN
        e.turn = r /\ e.result = None /\ e.reply # "claims"
  BY DEF ErrorResponse
<1>2. ASSUME NEW turn \in ModelTurns
      PROVE  LET d == DirectResponse(r, turn) IN
             d.turn = r /\ d.result = None /\ d.reply # "claims"
  <2>1. CASE DirectReplyAccepted(turn)
    BY <2>1 DEF DirectResponse, DirectReplyAccepted
  <2>2. CASE ~DirectReplyAccepted(turn)
    BY <2>2, <1>1 DEF DirectResponse, ConversationStatuses
  <2> QED
    BY <2>1, <2>2
<1> QED
  BY <1>1, <1>2


\* A failed first round leads to another, or to a response without a result.
LEMMA ProviderBeginFailsRecords ==
  ASSUME CoreInv, RecordInv, NEW r \in Requests, NEW retryable \in BOOLEAN,
         ProviderBeginFails(r, retryable)
  PROVE  RecordInv'
<1> DEFINE response == ErrorResponse(r, "provider_unavailable", TRUE)
<1>1. pc[r] = "provider_begin" /\ UNCHANGED <<tables, request, executions, answer>>
  BY DEF ProviderBeginFails
<1>2. CASE UNCHANGED <<pc, draft>>
  <2>1. OnlyTouches(r)
    BY <1>2 DEF CoreInv, TypeOK, ProviderBeginFails, tables, OnlyTouches
  <2>2. InStep(r)'
    BY <1>1, <1>2 DEF RecordInv, InStep, tables
  <2> QED
    BY <1>1, <1>2, <2>1, <2>2, StaysInTurn DEF InTurn, Running, Labels
<1>3. CASE Draft(r, response)
  <2>1. OnlyTouches(r)
    BY <1>3 DEF CoreInv, TypeOK, ProviderBeginFails, tables, OnlyTouches, Draft, Goto
  <2>2. /\ response \in Responses
        /\ response.turn = r /\ response.result = None /\ response.reply # "claims"
    BY ErrorResponseType, DirectDrafts DEF ConversationStatuses
  <2> QED
    BY <1>1, <1>3, <2>1, <2>2, DraftWithout
<1> QED
  BY <1>2, <1>3 DEF ProviderBeginFails

\* The first round leads to a tool call, a repair, or a response without a result.
LEMMA ProviderBeginRecords ==
  ASSUME CoreInv, RecordInv, NEW r \in Requests, NEW turn \in ModelTurns,
         ProviderBegin(r, turn)
  PROVE  RecordInv'
<1>1. pc[r] = "provider_begin" /\ UNCHANGED <<tables, request, executions, answer>>
  BY DEF ProviderBegin
<1>2. CASE \E label \in {"provider_repair", "record_tool_call"} :
             Goto(r, label) /\ UNCHANGED draft
  <2>1. OnlyTouches(r)
    BY <1>2 DEF CoreInv, TypeOK, ProviderBegin, tables, OnlyTouches, Goto
  <2>2. pc'[r] \in {"provider_repair", "record_tool_call"}
    BY <1>2 DEF CoreInv, TypeOK, Goto
  <2>3. InStep(r)'
    BY <1>1, <2>2 DEF RecordInv, InStep, tables, InTurn, Running, Labels
  <2> QED
    BY <1>1, <2>1, <2>2, <2>3, StaysInTurn DEF InTurn, Running, Labels
<1>3. ASSUME NEW response \in Responses, Draft(r, response), response.turn = r,
             response.result = None, response.reply # "claims"
      PROVE  RecordInv'
  <2>1. OnlyTouches(r)
    BY <1>3 DEF CoreInv, TypeOK, ProviderBegin, tables, OnlyTouches, Draft, Goto
  <2> QED
    BY <1>1, <1>3, <2>1, DraftWithout
<1>4. turn.calls \in Calls
  BY DEF ModelTurns
<1>5. CASE turn.calls = "none"
  BY <1>3, <1>5, DirectResponseType, DirectDrafts DEF ProviderBegin
<1>6. CASE turn.calls # "none"
  <2>1. \A status \in {"safety_rejected", "unsupported_tool", "invalid_tool_call"} :
          /\ ErrorResponse(r, status, FALSE) \in Responses
          /\ Draft(r, ErrorResponse(r, status, FALSE)) => RecordInv'
    BY <1>3, ErrorResponseType, DirectDrafts DEF ConversationStatuses
  <2> QED
    BY <1>2, <1>4, <1>6, <2>1 DEF ProviderBegin, Calls
<1> QED
  BY <1>5, <1>6

\* The repair round leads to a tool call or to a response without a result.
LEMMA ProviderRepairRecords ==
  ASSUME CoreInv, RecordInv, NEW r \in Requests, NEW turn \in ModelTurns,
         ProviderRepair(r, turn)
  PROVE  RecordInv'
<1>1. pc[r] = "provider_repair" /\ UNCHANGED <<tables, request, executions, answer>>
  BY DEF ProviderRepair
<1>2. CASE Goto(r, "record_tool_call") /\ UNCHANGED draft
  <2>1. OnlyTouches(r)
    BY <1>2 DEF CoreInv, TypeOK, ProviderRepair, tables, OnlyTouches, Goto
  <2>2. pc'[r] = "record_tool_call"
    BY <1>2 DEF CoreInv, TypeOK, Goto
  <2>3. InStep(r)'
    BY <1>1, <2>2 DEF RecordInv, InStep, tables, InTurn, Running, Labels
  <2> QED
    BY <1>1, <2>1, <2>2, <2>3, StaysInTurn DEF InTurn, Running, Labels
<1>3. ASSUME NEW status \in {"unsupported_tool", "invalid_tool_call"},
             Draft(r, ErrorResponse(r, status, FALSE))
      PROVE  RecordInv'
  <2>1. OnlyTouches(r)
    BY <1>3 DEF CoreInv, TypeOK, ProviderRepair, tables, OnlyTouches, Draft, Goto
  <2>2. status \in ConversationStatuses
    BY <1>3 DEF ConversationStatuses
  <2> QED
    BY <1>1, <1>3, <2>1, <2>2, ErrorResponseType, DirectDrafts, DraftWithout
<1> QED
  BY <1>2, <1>3 DEF ProviderRepair

\* The row of the turn before and after a transaction of its handler.
LEMMA RowTyped ==
  ASSUME CoreInv, NEW r \in Requests, turns[r] # None
  PROVE  turns[r] \in TurnRows /\ turns[r].session \in Sessions
  BY DEF CoreInv, TypeOK, TablesType, TurnRows

\* The row says that an execution may follow, before it does.
LEMMA RecordToolCallRecords ==
  ASSUME CoreInv, RecordInv, NEW r \in Requests, RecordToolCall(r)
  PROVE  RecordInv'
<1>1. pc[r] = "record_tool_call" /\ Processing(r) /\ executions[r] = 0
  BY DEF RecordToolCall, CoreInv, HandlerInv, ExecutionInv, BeforeExecution, InTurn, Running,
         Labels
<1>2. turns[r] \in TurnRows
  BY <1>1, RowTyped DEF Processing
<1>3. turns' = [turns EXCEPT ![r] = [turns[r] EXCEPT !.called = TRUE]]
  BY DEF RecordToolCall, RecordToolCallRow
<1>4. turns'[r] = [turns[r] EXCEPT !.called = TRUE] /\ turns'[r] \in TurnRows
  BY <1>2, <1>3 DEF CoreInv, TypeOK, TablesType, TurnRows
<1>5. /\ turns'[r].called /\ turns'[r].result = turns[r].result
      /\ turns'[r].response = turns[r].response /\ turns'[r].content = turns[r].content
      /\ turns'[r].status = turns[r].status
  BY <1>2, <1>4 DEF TurnRows
<1>6. OnlyTouches(r)
  BY <1>3 DEF CoreInv, TypeOK, TablesType, RecordToolCall, Goto, OnlyTouches
<1>7. /\ pc'[r] = "execute" /\ UNCHANGED <<request, executions, answer>>
  BY DEF CoreInv, TypeOK, RecordToolCall, Goto
<1>8. Recorded(r) /\ InStep(r) /\ Informed(r)
  BY <1>1 DEF RecordInv, Processing
<1>9. Recorded(r)'
  BY <1>1, <1>4, <1>5, <1>7, <1>8 DEF Recorded, Processing, Settled
<1>10. InStep(r)'
  BY <1>1, <1>5, <1>7, <1>8 DEF InStep, InTurn, Running, Labels
<1>11. Informed(r)'
  BY <1>1, <1>7, <1>8 DEF Informed, Answered
<1> QED
  BY <1>1, <1>6, <1>9, <1>10, <1>11, RecordsKept DEF Records, Settled, Processing

\* The result of the one execution is in the memory of the handler.
LEMMA ExecuteRecords ==
  ASSUME CoreInv, RecordInv, NEW r \in Requests, NEW outcome \in Outcomes, Execute(r, outcome)
  PROVE  RecordInv'
<1>1. pc[r] = "execute" /\ Processing(r) /\ executions[r] = 0
  BY DEF Execute, CoreInv, HandlerInv, ExecutionInv, BeforeExecution, InTurn, Running, Labels
<1>2. OnlyTouches(r)
  BY DEF CoreInv, TypeOK, Execute, Goto, tables, OnlyTouches
<1>3. /\ pc'[r] = "record_tool_result" /\ UNCHANGED <<request, turns, answer>>
      /\ executions'[r] = 1 /\ result'[r] = outcome /\ outcome # None
  BY <1>1, NoneAssumption DEF CoreInv, TypeOK, Execute, Goto, tables
<1>4. Recorded(r) /\ InStep(r) /\ Informed(r)
  BY <1>1 DEF RecordInv, Processing
<1>5. Recorded(r)'
  BY <1>1, <1>3, <1>4 DEF Recorded, InStep, Processing, Settled
<1>6. InStep(r)'
  BY <1>1, <1>3, <1>4 DEF InStep, InTurn, Running, Labels
<1>7. Informed(r)'
  BY <1>1, <1>3, <1>4 DEF Informed, Answered
<1> QED
  BY <1>1, <1>2, <1>5, <1>6, <1>7, RecordsKept DEF Records, Settled, Processing

\* The sentence that replaces the model's claims nothing.
LEMMA FallbackClaimsNothing ==
  ASSUME NEW outcome \in Outcomes
  PROVE  Fallback(outcome) # "claims"
  BY DEF Fallback, ResultStatus, Outcomes

\* The row gets the result the handler holds.
LEMMA RecordToolResultRecords ==
  ASSUME CoreInv, RecordInv, NEW r \in Requests, RecordToolResult(r)
  PROVE  RecordInv'
<1>1. /\ pc[r] = "record_tool_result" /\ Processing(r)
      /\ result[r] \in Outcomes \cup {None}
  BY DEF RecordToolResult, CoreInv, TypeOK, HandlerInv, InTurn, Running, Labels
<1>2. turns[r] \in TurnRows
  BY <1>1, RowTyped DEF Processing
<1>3. turns' = [turns EXCEPT ![r] = [turns[r] EXCEPT !.result = result[r]]]
  BY DEF RecordToolResult, RecordToolResultRow
<1>4. turns'[r] = [turns[r] EXCEPT !.result = result[r]] /\ turns'[r] \in TurnRows
  BY <1>1, <1>2, <1>3 DEF CoreInv, TypeOK, TablesType, TurnRows
<1>5. /\ turns'[r].called = turns[r].called /\ turns'[r].result = result[r]
      /\ turns'[r].response = turns[r].response /\ turns'[r].content = turns[r].content
      /\ turns'[r].status = turns[r].status
  BY <1>2, <1>4 DEF TurnRows
<1>6. Recorded(r) /\ InStep(r) /\ Informed(r)
  BY <1>1 DEF RecordInv, Processing
<1>7. executions[r] = 1 /\ result[r] # None /\ UNCHANGED <<request, executions, answer, result>>
  BY <1>1, <1>6 DEF InStep, RecordToolResult
<1>8. OnlyTouches(r)
  BY <1>3 DEF CoreInv, TypeOK, TablesType, RecordToolResult, Draft, Goto, OnlyTouches
<1>9. Recorded(r)'
  BY <1>1, <1>4, <1>5, <1>6, <1>7 DEF Recorded, Processing, Settled
<1>10. pc'[r] \in {"provider_render", "complete"} /\ (pc'[r] = "complete" => Agrees(r, draft[r])')
  <2>1. CASE ~repaired[r]
    BY <2>1 DEF RecordToolResult, CoreInv, TypeOK, Goto
  <2>2. CASE repaired[r]
    <3> DEFINE response == ResultResponse(r, result[r], Fallback(result[r]), TRUE)
    <3>1. pc'[r] = "complete" /\ draft'[r] = response
      BY <2>2 DEF RecordToolResult, CoreInv, TypeOK, Goto, Draft
    <3>2. response \in Responses
      BY <1>1, FallbackType, ResultResponseType
    <3>3. response.turn = r /\ response.result = result[r] /\ response.reply # "claims"
      BY <1>1, <1>7, FallbackClaimsNothing DEF ResultResponse
    <3> QED
      BY <3>1, <3>2, <3>3, <1>5, <1>7, NoneAssumption DEF Agrees
  <2> QED
    BY <2>1, <2>2
<1>11. InStep(r)'
  BY <1>1, <1>5, <1>6, <1>7, <1>10 DEF InStep, Agrees, InTurn, Running, Labels
<1>12. Informed(r)'
  BY <1>1, <1>6, <1>7, <1>10 DEF Informed, Answered
<1> QED
  BY <1>1, <1>8, <1>9, <1>11, <1>12, RecordsKept DEF Records, Settled, Processing

\* Whatever is said of the result, the draft names the result of the row.
LEMMA ProviderRenderRecords ==
  ASSUME CoreInv, RecordInv, NEW r \in Requests, NEW turn \in ModelTurns,
         ProviderRender(r, turn)
  PROVE  RecordInv'
<1> DEFINE accepted == RenderAccepted(turn, ConversationStatus(result[r]))
           response == IF accepted THEN ResultResponse(r, result[r], turn.text, FALSE)
                       ELSE ResultResponse(r, result[r], Fallback(result[r]), TRUE)
<1>1. pc[r] = "provider_render" /\ UNCHANGED <<tables, request, executions, answer, result>>
  BY DEF ProviderRender
<1>2. /\ executions[r] = 1 /\ result[r] \in Outcomes /\ turns[r].result = result[r]
      /\ InStep(r)
  BY <1>1 DEF RecordInv, InStep, CoreInv, TypeOK
<1>3. pc'[r] = "complete" /\ draft'[r] = response
  BY DEF ProviderRender, Draft, Goto, CoreInv, TypeOK
<1>4. OnlyTouches(r)
  BY DEF ProviderRender, Draft, Goto, CoreInv, TypeOK, tables, OnlyTouches
<1>5. response \in Responses
  BY <1>2, FallbackType, ResultResponseType DEF ModelTurns, Replies
<1>6. /\ response.turn = r /\ response.result = result[r]
      /\ response.reply = "claims" => response.status = "completed"
  BY <1>2, FallbackClaimsNothing DEF ResultResponse, RenderAccepted
<1>7. Agrees(r, draft[r])'
  BY <1>1, <1>2, <1>3, <1>5, <1>6, NoneAssumption DEF Agrees, tables
<1>8. InStep(r)'
  BY <1>1, <1>2, <1>3, <1>7 DEF InStep, Agrees, InTurn, Running, Labels, tables
<1> QED
  BY <1>1, <1>3, <1>4, <1>8, StaysInTurn DEF InTurn, Running, Labels

\* The draft becomes the response of the row and of the client.
LEMMA CompleteRecords ==
  ASSUME CoreInv, RecordInv, NEW r \in Requests, Complete(r)
  PROVE  RecordInv'
<1> DEFINE response == draft[r]
           row == [turns[r] EXCEPT !.status = response.status, !.response = response]
<1>1. /\ pc[r] = "complete" /\ Processing(r)
      /\ response \in Responses /\ response.status \in ConversationStatuses
      /\ response.status # "processing"
  BY DEF CoreInv, TypeOK, HandlerInv, Complete, InTurn, Running, Labels, Responses,
         ConversationStatuses
<1>2. turns[r] \in TurnRows
  BY <1>1, RowTyped DEF Processing
<1>3. turns' = [turns EXCEPT ![r] = row]
  BY <1>1 DEF Complete, SettleTurn, CoreInv, TypeOK, TablesType
<1>4. turns'[r] = row /\ turns'[r] \in TurnRows
  BY <1>1, <1>2, <1>3 DEF CoreInv, TypeOK, TablesType, TurnRows
<1>5. /\ turns'[r].called = turns[r].called /\ turns'[r].result = turns[r].result
      /\ turns'[r].response = response /\ turns'[r].content = turns[r].content
      /\ turns'[r].status = response.status
  BY <1>2, <1>4 DEF TurnRows
<1>6. Recorded(r) /\ InStep(r) /\ Informed(r) /\ Agrees(r, response)
  BY <1>1 DEF RecordInv, Processing, InStep
<1>7. /\ pc'[r] = "done" /\ UNCHANGED <<request, executions, draft>>
      /\ answer'[r] = [code |-> "ok", response |-> response, replay |-> FALSE]
  BY <1>1 DEF Complete, Reply, Goto, CoreInv, TypeOK
<1>8. OnlyTouches(r)
  BY <1>1, <1>3 DEF CoreInv, TypeOK, TablesType, Complete, Reply, Goto, OnlyTouches
<1>9. Agrees(r, response)'
  BY <1>5, <1>6, <1>7 DEF Agrees
<1>10. turns'[r] # None /\ Settled(r)'
  BY <1>1, <1>4, <1>5, NoneAssumption DEF Settled
<1>11. Recorded(r)'
  BY <1>5, <1>6, <1>7, <1>9, <1>10 DEF Recorded, Processing, Settled, Agrees
<1>12. InStep(r)'
  BY <1>7 DEF InStep, InTurn, Running, Labels
<1>13. Informed(r)'
  <2>1. turns[r].content = request[r].content
    BY <1>1, <1>6 DEF InStep, InTurn, Running, Labels
  <2>2. answer'[r].response = response /\ response.turn = r /\ response # None
    BY <1>6, <1>7 DEF Agrees
  <2> QED
    BY <1>5, <1>7, <1>10, <2>1, <2>2 DEF Informed
<1> QED
  BY <1>1, <1>8, <1>11, <1>12, <1>13, RecordsKept DEF Records, Settled, Processing

\* An aborted handler tells its client nothing about the turn.
LEMMA HandlerAbortsRecords ==
  ASSUME CoreInv, RecordInv, NEW r \in Requests, HandlerAborts(r)
  PROVE  RecordInv'
<1>1. OnlyTouches(r)
  BY DEF CoreInv, TypeOK, HandlerAborts, Reply, Goto, tables, OnlyTouches
<1>2. pc'[r] = "done" /\ answer'[r] = Refusal("internal_error")
  BY DEF CoreInv, TypeOK, HandlerAborts, Reply, Goto
<1>3. Informed(r)'
  BY <1>2, TellsNothing DEF Codes
<1> QED
  BY <1>1, <1>2, <1>3, NotInTurn DEF HandlerAborts, InTurn, Running, Labels

\* Handlers that vanish leave their rows and tell nobody anything.
LEMMA ProcessDiesRecords ==
  ASSUME CoreInv, RecordInv, ProcessDies
  PROVE  RecordInv'
<1>1. UNCHANGED <<tables, request, result, draft, answer, executions>> /\ turns' = turns
  BY DEF ProcessDies, tables
<1>2. \A q \in Requests : pc'[q] = pc[q] \/ (pc'[q] = "gone" /\ pc[q] \in Running)
  BY DEF ProcessDies, CoreInv, TypeOK
<1> SUFFICES ASSUME NEW q \in Requests
             PROVE  Records(q)'
  BY DEF RecordInv, Records
<1>3. Records(q)
  BY DEF RecordInv, Records
<1>4. (turns[q] # None => Recorded(q))'
  BY <1>1, <1>3 DEF Records, Recorded, Agrees, Processing, Settled
<1>5. InStep(q)'
  BY <1>1, <1>2, <1>3 DEF Records, InStep, Agrees, InTurn, Running, Labels
<1>6. Informed(q)'
  BY <1>1, <1>2, <1>3 DEF Records, Informed, Answered, Settled, Running, Labels
<1> QED
  BY <1>4, <1>5, <1>6 DEF Records


-----------------------------------------------------------------------------
(* The transcript.                                                         *)

\* A step that touches no table keeps the transcript, and what was read of it.
LEMMA TranscriptUntouched ==
  ASSUME TranscriptInv, UNCHANGED tables,
         \A r \in Requests : Prompted(r)'
  PROVE  TranscriptInv'
<1>1. turns' = turns /\ sessions' = sessions /\ messages' = messages
  BY DEF tables
<1>2. Numbered'
  BY <1>1 DEF TranscriptInv, Numbered, Processing
<1>3. \A s \in Sessions : Told(s)'
  BY <1>1 DEF TranscriptInv, Told, Witnessed, Precedes, Settled
<1> QED
  BY <1>2, <1>3 DEF TranscriptInv

\* A handler that is elsewhere has nothing to do with the prompt.
LEMMA PromptUntouched ==
  ASSUME CoreInv, TranscriptInv, NEW r \in Requests, UNCHANGED tables, OnlyTouches(r),
         Prompted(r)'
  PROVE  TranscriptInv'
<1>1. turns' = turns /\ messages' = messages
  BY DEF tables
<1>2. ASSUME NEW q \in Requests \ {r}
      PROVE  Prompted(q)'
  <2>1. Prompted(q) /\ pc'[q] = pc[q] /\ history'[q] = history[q]
    BY DEF TranscriptInv, OnlyTouches
  <2> QED
    BY <1>1, <2>1 DEF Prompted, Settled
<1> QED
  BY <1>2, TranscriptUntouched

\* The rows that history() returns, by their places in the transcript.
LEMMA LatestRows ==
  ASSUME NEW T, NEW log \in Seq(T), NEW n \in Nat \ {0}, log # <<>>
  PROVE  /\ Latest(log, n) # <<>>
         /\ Latest(log, n)[Len(Latest(log, n))] = log[Len(log)]
         /\ \A i \in 1..(Len(Latest(log, n)) - 1) :
              \E j \in 1..(Len(log) - 1) : Latest(log, n)[i] = log[j]
<1>1. Len(log) \in Nat \ {0}
  BY LenProperties, EmptySeq
<1>2. CASE Len(log) <= n
  BY <1>1, <1>2 DEF Latest
<1>3. CASE ~(Len(log) <= n)
  <2> DEFINE from == Len(log) - n + 1
             sub == SubSeq(log, from, Len(log))
  <2>1. Latest(log, n) = sub
    BY <1>3 DEF Latest
  <2>2. from \in 1..Len(log)
    BY <1>1, <1>3
  <2>3. Len(sub) = n /\ \A i \in 1..n : sub[i] = log[from + i - 1]
    BY <1>1, <2>2, SubSeqProperties
  <2>4. sub # <<>>
    BY <2>3
  <2>5. sub[n] = log[Len(log)]
    BY <1>1, <2>3
  <2>6. \A i \in 1..(n - 1) : from + i - 1 \in 1..(Len(log) - 1) /\ sub[i] = log[from + i - 1]
    BY <1>1, <1>3, <2>3
  <2> QED
    BY <2>1, <2>3, <2>4, <2>5, <2>6
<1> QED
  BY <1>2, <1>3

\* In a session, all but the active turn are settled.
LEMMA OthersSettled ==
  ASSUME CoreInv, NEW r \in Requests, Processing(r), NEW t \in Requests, turns[t] # None,
         turns[t].session = turns[r].session, t # r
  PROVE  Settled(t)
  BY DEF CoreInv, LockInv, Processing, Settled

\* A message of the log, with its turn.
LEMMA MessageOf ==
  ASSUME CoreInv, NEW s \in Sessions, NEW i \in DOMAIN messages[s]
  PROVE  /\ messages[s] \in Seq(MessageRows)
         /\ messages[s][i] \in MessageRows
         /\ messages[s][i].turn \in Requests /\ messages[s][i].role \in Roles
<1>1. messages[s] \in Seq(MessageRows)
  BY DEF CoreInv, TypeOK, TablesType
<1>2. messages[s][i] \in MessageRows
  BY <1>1
<1> QED
  BY <1>1, <1>2 DEF MessageRows

\* What is read ends with the user's message; before it are settled turns.
LEMMA ReadHistoryTranscript ==
  ASSUME CoreInv, TranscriptInv, NEW r \in Requests, ReadHistory(r)
  PROVE  TranscriptInv'
<1> DEFINE s == turns[r].session
           log == messages[s]
           read == Latest(log, HistoryLimit)
<1>1. /\ pc[r] = "history" /\ UNCHANGED tables /\ turns' = turns
      /\ pc'[r] = "provider_begin" /\ history'[r] = read
  BY DEF ReadHistory, Goto, CoreInv, TypeOK, tables
<1>2. OnlyTouches(r)
  BY DEF CoreInv, TypeOK, ReadHistory, Goto, tables, OnlyTouches
<1>3. Processing(r) /\ s \in Sessions
  BY <1>1, RowTyped DEF CoreInv, HandlerInv, InTurn, Running, Labels, Processing
<1>4. log \in Seq(MessageRows)
  BY <1>3 DEF CoreInv, TypeOK, TablesType
<1>5. log # <<>> /\ log[Len(log)] = [turn |-> r, role |-> "user"]
  BY <1>1 DEF TranscriptInv, Prompted
<1>6. /\ read # <<>> /\ read[Len(read)] = log[Len(log)]
      /\ \A i \in 1..(Len(read) - 1) : \E j \in 1..(Len(log) - 1) : read[i] = log[j]
  <2>1. HistoryLimit \in Nat \ {0}
    BY SettingsAssumption
  <2> HIDE DEF log
  <2> QED
    BY <1>4, <1>5, <2>1, LatestRows
<1>7. ASSUME NEW j \in 1..(Len(log) - 1)
      PROVE  Settled(log[j].turn)
  <2>1. j \in DOMAIN log /\ Len(log) \in DOMAIN log /\ j < Len(log)
    BY <1>4, <1>5
  <2>2. log[j].turn \in Requests /\ log[j].role \in Roles
    BY <1>3, <2>1, MessageOf
  <2>3. Witnessed(s, log[j]) /\ Precedes(log[j], log[Len(log)])
    BY <1>3, <2>1 DEF TranscriptInv, Told
  <2>4. log[j].turn # r
    BY <2>2, <2>3, <1>5, <1>3, RowTyped DEF Precedes, Rank, Roles, Processing, TurnRows
  <2> QED
    BY <1>3, <2>2, <2>3, <2>4, OthersSettled DEF Witnessed
<1>8. Prompted(r)'
  <2>1. \A i \in 1..(Len(read) - 1) : Settled(read[i].turn)
    <3> HIDE DEF read, log
    <3> QED
      BY <1>6, <1>7
  <2>2. read # <<>> /\ read[Len(read)] = [turn |-> r, role |-> "user"]
    BY <1>5, <1>6
  <2> HIDE DEF read
  <2> QED
    BY <1>1, <2>1, <2>2 DEF Prompted, Settled
<1> QED
  BY <1>1, <1>2, <1>8, PromptUntouched


-----------------------------------------------------------------------------
(* The four transactions append a message each.                              *)

\* No row of a turn loses what it says.
Grows ==
  \A t \in Requests : turns[t] # None =>
    /\ turns'[t] # None /\ turns'[t].session = turns[t].session
    /\ turns'[t].sequence = turns[t].sequence
    /\ turns[t].called => turns'[t].called
    /\ turns[t].result # None => turns'[t].result # None
    /\ turns[t].status # "processing" => turns'[t].status # "processing"

\* What a message tells stays true.
LEMMA WitnessKept ==
  ASSUME Grows, NEW z, NEW n \in MessageRows, Witnessed(z, n)
  PROVE  /\ Witnessed(z, n)'
         /\ turns'[n.turn].sequence = turns[n.turn].sequence
  BY DEF Grows, Witnessed, Settled, MessageRows

\* A transcript that gets a message more, from the last of its turns, is still in order.
LEMMA AppendTold ==
  ASSUME CoreInv, TranscriptInv, NEW r \in Requests, NEW s \in Sessions, NEW role \in Roles,
         messages' = [messages EXCEPT ![s] = Append(@, [turn |-> r, role |-> role])],
         Grows, Witnessed(s, [turn |-> r, role |-> role])',
         \A i \in DOMAIN messages[s] :
           \/ turns[messages[s][i].turn].sequence < turns'[r].sequence
           \/ messages[s][i].turn = r /\ Rank(messages[s][i].role) < Rank(role)
  PROVE  \A z \in Sessions : Told(z)'
<1> DEFINE m == [turn |-> r, role |-> role]
           log == messages[s]
<1>1. /\ \A z \in Sessions : messages[z] \in Seq(MessageRows)
      /\ m \in MessageRows
  BY DEF CoreInv, TypeOK, TablesType, MessageRows
<1>2. /\ messages'[s] = Append(log, m)
      /\ \A z \in Sessions \ {s} : messages'[z] = messages[z]
  BY DEF CoreInv, TypeOK, TablesType
<1>3. ASSUME NEW z \in Sessions, NEW i \in DOMAIN messages[z]
      PROVE  \E n \in MessageRows :
               /\ n = messages[z][i] /\ Witnessed(z, n) /\ Witnessed(z, n)'
               /\ turns'[n.turn].sequence = turns[n.turn].sequence
  <2>1. messages[z][i] \in MessageRows /\ Witnessed(z, messages[z][i])
    BY <1>1 DEF TranscriptInv, Told
  <2> QED
    BY <2>1, WitnessKept
<1>4. ASSUME NEW z \in Sessions, NEW i \in DOMAIN messages[z], NEW j \in DOMAIN messages[z],
             i < j
      PROVE  \E n, o \in MessageRows :
               /\ n = messages[z][i] /\ o = messages[z][j]
               /\ Precedes(n, o)'
  <2>1. Precedes(messages[z][i], messages[z][j])
    BY <1>4 DEF TranscriptInv, Told
  <2>2. PICK n \in MessageRows : n = messages[z][i] /\ turns'[n.turn].sequence = turns[n.turn].sequence
    BY <1>3
  <2>3. PICK o \in MessageRows : o = messages[z][j] /\ turns'[o.turn].sequence = turns[o.turn].sequence
    BY <1>3
  <2>4. Precedes(n, o)'
    BY <2>1, <2>2, <2>3 DEF Precedes
  <2> QED
    BY <2>2, <2>3, <2>4
<1>5. ASSUME NEW z \in Sessions \ {s}
      PROVE  Told(z)'
  <2>1. messages'[z] = messages[z]
    BY <1>2
  <2>2. \A i \in DOMAIN messages'[z] : Witnessed(z, messages[z][i])'
    BY <2>1, <1>3 DEF Witnessed, Settled
  <2>3. \A i, j \in DOMAIN messages'[z] :
          i < j => Precedes(messages[z][i], messages[z][j])'
    BY <2>1, <1>4 DEF Precedes
  <2> QED
    BY <2>2, <2>3 DEF Told
<1>6. Told(s)'
  <2>1. /\ Len(log) \in Nat /\ DOMAIN log = 1..Len(log)
        /\ DOMAIN messages'[s] = 1..(Len(log) + 1)
        /\ \A i \in DOMAIN log : messages'[s][i] = log[i]
        /\ messages'[s][Len(log) + 1] = m
    BY <1>1, <1>2, AppendProperties, LenProperties
  <2>2. ASSUME NEW i \in DOMAIN messages'[s]
        PROVE  Witnessed(s, messages[s][i])'
    <3>1. CASE i \in DOMAIN log
      <4>1. PICK n \in MessageRows : n = messages[s][i] /\ Witnessed(s, n)'
        BY <3>1, <1>3
      <4>2. messages'[s][i] = n
        BY <2>1, <3>1, <4>1
      <4> QED
        BY <4>1, <4>2 DEF Witnessed, Settled
    <3>2. CASE i = Len(log) + 1
      <4>1. messages'[s][i] = m
        BY <2>1, <3>2
      <4> QED
        BY <4>1 DEF Witnessed, Settled
    <3> QED
      BY <2>1, <3>1, <3>2
  <2>3. ASSUME NEW i \in DOMAIN messages'[s], NEW j \in DOMAIN messages'[s], i < j
        PROVE  Precedes(messages[s][i], messages[s][j])'
    <3>1. CASE j \in DOMAIN log
      <4>1. i \in DOMAIN log
        BY <2>1, <2>3, <3>1
      <4>2. PICK n, o \in MessageRows : n = messages[s][i] /\ o = messages[s][j] /\ Precedes(n, o)'
        BY <2>3, <3>1, <4>1, <1>4
      <4>3. messages'[s][i] = n /\ messages'[s][j] = o
        BY <2>1, <3>1, <4>1, <4>2
      <4> QED
        BY <4>2, <4>3 DEF Precedes
    <3>2. CASE j = Len(log) + 1
      <4>1. i \in DOMAIN log
        BY <2>1, <2>3, <3>2
      <4>2. PICK n \in MessageRows : n = messages[s][i] /\ turns'[n.turn].sequence = turns[n.turn].sequence
        BY <4>1, <1>3
      <4>3. messages'[s][i] = n /\ messages'[s][j] = m
        BY <2>1, <3>2, <4>1, <4>2
      <4>4. turns[n.turn].sequence < turns'[r].sequence \/ (n.turn = r /\ Rank(n.role) < Rank(role))
        BY <4>1, <4>2
      <4> QED
        BY <4>2, <4>3, <4>4 DEF Precedes
    <3> QED
      BY <2>1, <3>1, <3>2
  <2> QED
    BY <2>2, <2>3 DEF Told
<1> QED
  BY <1>5, <1>6

\* The messages of other turns come before those of the active one.
LEMMA EarlierTurns ==
  ASSUME CoreInv, TranscriptInv, NEW r \in Requests, Processing(r),
         NEW i \in DOMAIN messages[turns[r].session],
         messages[turns[r].session][i].turn # r
  PROVE  turns[messages[turns[r].session][i].turn].sequence < turns[r].sequence
<1> DEFINE s == turns[r].session
           n == messages[s][i]
<1>1. turns[r] \in TurnRows /\ s \in Sessions
  BY RowTyped DEF Processing
<1>2. n.turn \in Requests /\ Witnessed(s, n)
  BY <1>1, MessageOf DEF TranscriptInv, Told
<1>3. turns[n.turn] \in TurnRows /\ turns[n.turn].session = s
  BY <1>2, RowTyped DEF Witnessed
<1>4. /\ turns[r].sequence = sessions[s].sequence
      /\ turns[n.turn].sequence <= sessions[s].sequence
      /\ turns[n.turn].sequence # turns[r].sequence
  BY <1>1, <1>2, <1>3 DEF TranscriptInv, Numbered, Witnessed, Processing
<1> QED
  BY <1>1, <1>3, <1>4 DEF TurnRows

\* Handlers of other sessions do not notice.
LEMMA OthersPrompted ==
  ASSUME CoreInv, TranscriptInv, NEW r \in Requests, NEW s \in Sessions, OnlyTouches(r), Grows,
         \A z \in Sessions \ {s} : messages'[z] = messages[z],
         \A q \in Requests \ {r} : Processing(q) => turns[q].session # s,
         NEW q \in Requests \ {r}
  PROVE  Prompted(q)'
<1>1. /\ pc'[q] = pc[q] /\ history'[q] = history[q] /\ turns'[q] = turns[q] /\ Prompted(q)
  BY DEF OnlyTouches, TranscriptInv
<1>2. CASE pc[q] = "history"
  <2>1. Processing(q) /\ turns[q].session \in Sessions \ {s}
    BY <1>2, RowTyped DEF CoreInv, HandlerInv, InTurn, Running, Labels, Processing
  <2>2. messages'[turns'[q].session] = messages[turns[q].session]
    BY <1>1, <2>1
  <2> QED
    BY <1>1, <1>2, <2>2 DEF Prompted
<1>3. CASE pc[q] = "provider_begin"
  <2>1. history[q] \in Seq(MessageRows)
    BY DEF CoreInv, TypeOK
  <2>2. ASSUME NEW i \in 1..(Len(history[q]) - 1)
        PROVE  Settled(history[q][i].turn)'
    <3>1. i \in DOMAIN history[q]
      BY <2>1
    <3>2. history[q][i].turn \in Requests
      <4>1. history[q][i] \in MessageRows
        BY <2>1, <3>1
      <4> QED
        BY <4>1 DEF MessageRows
    <3>3. Settled(history[q][i].turn)
      BY <1>1, <1>3 DEF Prompted
    <3> QED
      BY <1>1, <3>2, <3>3 DEF Settled, Grows
  <2> QED
    BY <1>1, <1>3, <2>2 DEF Prompted
<1> QED
  BY <1>1, <1>2, <1>3 DEF Prompted

\* No other turn of the session of an active turn has a handler.
LEMMA AloneInSession ==
  ASSUME CoreInv, NEW r \in Requests, Processing(r)
  PROVE  \A q \in Requests \ {r} : Processing(q) => turns[q].session # turns[r].session
  BY DEF CoreInv, LockInv

\* A step that neither begins a turn nor changes a number keeps the numbers.
LEMMA NumbersKept ==
  ASSUME CoreInv, TranscriptInv,
         \A t \in Requests :
           /\ turns'[t] # None => turns[t] # None
           /\ turns[t] # None => /\ turns'[t].session = turns[t].session
                                 /\ turns'[t].sequence = turns[t].sequence,
         \A t \in Requests : Processing(t)' => Processing(t),
         \A z \in Sessions : sessions[z] # None => sessions'[z].sequence = sessions[z].sequence
  PROVE  Numbered'
<1>1. \A t \in Requests : turns[t] # None => sessions[turns[t].session] # None
  BY DEF CoreInv, LockInv
<1>2. \A t \in Requests : turns[t] # None => turns[t].session \in Sessions
  BY RowTyped
<1>3. Numbered
  BY DEF TranscriptInv
<1> QED
  BY <1>1, <1>2, <1>3 DEF Numbered


\* A transaction of a turn in progress appends its message.
LEMMA AppendsOwn ==
  ASSUME CoreInv, TranscriptInv, NEW r \in Requests, Processing(r), NEW role \in Roles,
         InsertMessage(r, role), OnlyTouches(r), Grows,
         \A t \in Requests :
           /\ turns'[t] # None => turns[t] # None
           /\ Processing(t)' => Processing(t),
         \A z \in Sessions : sessions[z] # None => sessions'[z].sequence = sessions[z].sequence,
         Witnessed(turns[r].session, [turn |-> r, role |-> role])',
         \A i \in DOMAIN messages[turns[r].session] :
           messages[turns[r].session][i].turn = r =>
             Rank(messages[turns[r].session][i].role) < Rank(role),
         pc'[r] \notin {"history", "provider_begin"}
  PROVE  TranscriptInv'
<1> DEFINE s == turns[r].session
<1>1. turns[r] \in TurnRows /\ s \in Sessions /\ turns'[r].sequence = turns[r].sequence
  BY RowTyped DEF Processing, Grows
<1>2. Numbered'
  BY NumbersKept DEF Grows
<1>3. \A z \in Sessions : Told(z)'
  <2>1. messages' = [messages EXCEPT ![s] = Append(@, [turn |-> r, role |-> role])]
    BY DEF InsertMessage
  <2>2. PICK c \in Sessions : c = s
    BY <1>1
  <2>3. Witnessed(c, [turn |-> r, role |-> role])'
    BY <2>2, <1>1 DEF Witnessed, Settled, Grows, Processing
  <2>4. \A i \in DOMAIN messages[c] :
          \/ turns[messages[c][i].turn].sequence < turns'[r].sequence
          \/ messages[c][i].turn = r /\ Rank(messages[c][i].role) < Rank(role)
    BY <1>1, <2>2, EarlierTurns
  <2> QED
    BY <2>1, <2>2, <2>3, <2>4, AppendTold
<1>4. ASSUME NEW q \in Requests
      PROVE  Prompted(q)'
  <2>1. CASE q = r
    BY <2>1 DEF Prompted
  <2>2. CASE q # r
    <3>1. \A z \in Sessions \ {s} : messages'[z] = messages[z]
      BY <1>1 DEF InsertMessage, CoreInv, TypeOK, TablesType
    <3>2. PICK c \in Sessions : c = s
      BY <1>1
    <3> QED
      BY <2>2, <3>1, <3>2, AloneInSession, OthersPrompted
  <2> QED
    BY <2>1, <2>2
<1> QED
  BY <1>2, <1>3, <1>4 DEF TranscriptInv

\* What the row of a turn does not say yet, no message tells.
LEMMA ToldOf ==
  ASSUME CoreInv, TranscriptInv, NEW r \in Requests, Processing(r),
         NEW i \in DOMAIN messages[turns[r].session],
         messages[turns[r].session][i].turn = r
  PROVE  LET role == messages[turns[r].session][i].role IN
         /\ role \in Roles \ {"assistant"}
         /\ role = "tool_call" => turns[r].called
         /\ role = "tool_result" => turns[r].result # None
<1>1. turns[r].session \in Sessions
  BY RowTyped DEF Processing
<1>2. /\ messages[turns[r].session][i].role \in Roles
      /\ Witnessed(turns[r].session, messages[turns[r].session][i])
  BY <1>1, MessageOf DEF TranscriptInv, Told
<1> QED
  BY <1>2 DEF Witnessed, Settled, Processing

\* The tool call follows the user's message.
LEMMA RecordToolCallTranscript ==
  ASSUME CoreInv, RecordInv, TranscriptInv, NEW r \in Requests, RecordToolCall(r)
  PROVE  TranscriptInv'
<1>1. pc[r] = "record_tool_call" /\ Processing(r)
  BY DEF RecordToolCall, CoreInv, HandlerInv, InTurn, Running, Labels
<1>2. turns[r] \in TurnRows
  BY <1>1, RowTyped DEF Processing
<1>3. turns' = [turns EXCEPT ![r] = [turns[r] EXCEPT !.called = TRUE]]
  BY DEF RecordToolCall, RecordToolCallRow
<1>4. turns'[r] = [turns[r] EXCEPT !.called = TRUE] /\ turns'[r] \in TurnRows
  BY <1>2, <1>3 DEF CoreInv, TypeOK, TablesType, TurnRows
<1>5. /\ turns'[r] # None /\ turns'[r].session = turns[r].session
      /\ turns'[r].sequence = turns[r].sequence /\ turns'[r].status = turns[r].status
      /\ turns'[r].called /\ turns'[r].result = turns[r].result
  BY <1>2, <1>4, NoneAssumption DEF TurnRows
<1>6. OnlyTouches(r)
  BY <1>3 DEF CoreInv, TypeOK, TablesType, RecordToolCall, Goto, OnlyTouches
<1>7. Grows
  BY <1>5, <1>6 DEF Grows, OnlyTouches
<1>8. \A t \in Requests : (turns'[t] # None => turns[t] # None)
                          /\ (Processing(t)' => Processing(t))
  BY <1>1, <1>5, <1>6 DEF OnlyTouches, Processing
<1>9. InsertMessage(r, "tool_call") /\ sessions' = sessions
  BY DEF RecordToolCall, RecordToolCallRow
<1>10. pc'[r] = "execute"
  BY DEF RecordToolCall, Goto, CoreInv, TypeOK
<1>11. ASSUME NEW i \in DOMAIN messages[turns[r].session],
              messages[turns[r].session][i].turn = r
       PROVE  Rank(messages[turns[r].session][i].role) < Rank("tool_call")
  <2>1. ~turns[r].called /\ turns[r].result = None
    BY <1>1 DEF RecordInv, InStep
  <2>2. messages[turns[r].session][i].role = "user"
    BY <1>1, <1>11, <2>1, ToldOf DEF Roles
  <2> QED
    BY <2>2 DEF Rank
<1>12. Witnessed(turns[r].session, [turn |-> r, role |-> "tool_call"])'
  BY <1>5 DEF Witnessed
<1> QED
  BY <1>1, <1>6, <1>7, <1>8, <1>9, <1>10, <1>11, <1>12, AppendsOwn DEF Roles

\* The tool result follows the tool call.
LEMMA RecordToolResultTranscript ==
  ASSUME CoreInv, RecordInv, TranscriptInv, NEW r \in Requests, RecordToolResult(r)
  PROVE  TranscriptInv'
<1>1. /\ pc[r] = "record_tool_result" /\ Processing(r)
      /\ result[r] \in Outcomes /\ turns[r].result = None
  BY DEF RecordToolResult, CoreInv, TypeOK, HandlerInv, InTurn, Running, Labels, RecordInv,
         InStep
<1>2. turns[r] \in TurnRows
  BY <1>1, RowTyped DEF Processing
<1>3. turns' = [turns EXCEPT ![r] = [turns[r] EXCEPT !.result = result[r]]]
  BY DEF RecordToolResult, RecordToolResultRow
<1>4. turns'[r] = [turns[r] EXCEPT !.result = result[r]] /\ turns'[r] \in TurnRows
  BY <1>1, <1>2, <1>3 DEF CoreInv, TypeOK, TablesType, TurnRows
<1>5. /\ turns'[r] # None /\ turns'[r].session = turns[r].session
      /\ turns'[r].sequence = turns[r].sequence /\ turns'[r].status = turns[r].status
      /\ turns'[r].called = turns[r].called /\ turns'[r].result # None
  BY <1>1, <1>2, <1>4, NoneAssumption DEF TurnRows
<1>6. OnlyTouches(r)
  BY <1>3 DEF CoreInv, TypeOK, TablesType, RecordToolResult, Draft, Goto, OnlyTouches
<1>7. Grows
  BY <1>5, <1>6 DEF Grows, OnlyTouches
<1>8. \A t \in Requests : (turns'[t] # None => turns[t] # None)
                          /\ (Processing(t)' => Processing(t))
  BY <1>1, <1>5, <1>6 DEF OnlyTouches, Processing
<1>9. InsertMessage(r, "tool_result") /\ sessions' = sessions
  BY DEF RecordToolResult, RecordToolResultRow
<1>10. pc'[r] \in {"complete", "provider_render"}
  BY DEF RecordToolResult, Draft, Goto, CoreInv, TypeOK
<1>11. ASSUME NEW i \in DOMAIN messages[turns[r].session],
              messages[turns[r].session][i].turn = r
       PROVE  Rank(messages[turns[r].session][i].role) < Rank("tool_result")
  <2>1. messages[turns[r].session][i].role \in {"user", "tool_call"}
    BY <1>1, <1>11, ToldOf DEF Roles
  <2> QED
    BY <2>1 DEF Rank
<1>12. Witnessed(turns[r].session, [turn |-> r, role |-> "tool_result"])'
  BY <1>5 DEF Witnessed
<1> QED
  BY <1>1, <1>6, <1>7, <1>8, <1>9, <1>10, <1>11, <1>12, AppendsOwn DEF Roles

\* The assistant speaks last, in a turn that is settled by the same step.
LEMMA CompleteTranscript ==
  ASSUME CoreInv, RecordInv, TranscriptInv, NEW r \in Requests, Complete(r)
  PROVE  TranscriptInv'
<1> DEFINE response == draft[r]
           row == [turns[r] EXCEPT !.status = response.status, !.response = response]
<1>1. /\ pc[r] = "complete" /\ Processing(r)
      /\ response \in Responses /\ response.status \in ConversationStatuses
      /\ response.status # "processing"
  BY DEF CoreInv, TypeOK, HandlerInv, Complete, InTurn, Running, Labels, Responses,
         ConversationStatuses
<1>2. turns[r] \in TurnRows /\ turns[r].session \in Sessions
  BY <1>1, RowTyped DEF Processing
<1>3. turns' = [turns EXCEPT ![r] = row]
  BY <1>1 DEF Complete, SettleTurn, CoreInv, TypeOK, TablesType
<1>4. turns'[r] = row /\ turns'[r] \in TurnRows
  BY <1>1, <1>2, <1>3 DEF CoreInv, TypeOK, TablesType, TurnRows
<1>5. /\ turns'[r] # None /\ turns'[r].session = turns[r].session
      /\ turns'[r].sequence = turns[r].sequence /\ turns'[r].status # "processing"
      /\ turns'[r].called = turns[r].called /\ turns'[r].result = turns[r].result
  BY <1>1, <1>2, <1>4, NoneAssumption DEF TurnRows
<1>6. OnlyTouches(r)
  BY <1>1, <1>3 DEF CoreInv, TypeOK, TablesType, Complete, Reply, Goto, OnlyTouches
<1>7. Grows
  BY <1>5, <1>6 DEF Grows, OnlyTouches
<1>8. \A t \in Requests : (turns'[t] # None => turns[t] # None)
                          /\ (Processing(t)' => Processing(t))
  BY <1>1, <1>5, <1>6 DEF OnlyTouches, Processing
<1>9. /\ InsertMessage(r, "assistant") /\ pc'[r] = "done"
      /\ sessions' = [sessions EXCEPT ![turns[r].session].active = IF @ = r THEN None ELSE @]
  BY <1>1 DEF Complete, SettleTurn, Reply, Goto, CoreInv, TypeOK
<1>10. \A z \in Sessions : sessions[z] # None => sessions'[z].sequence = sessions[z].sequence
  BY <1>2, <1>9 DEF CoreInv, TypeOK, TablesType, SessionRows
<1>11. ASSUME NEW i \in DOMAIN messages[turns[r].session],
              messages[turns[r].session][i].turn = r
       PROVE  Rank(messages[turns[r].session][i].role) < Rank("assistant")
  <2>1. messages[turns[r].session][i].role \in {"user", "tool_call", "tool_result"}
    BY <1>1, <1>11, ToldOf DEF Roles
  <2> QED
    BY <2>1 DEF Rank
<1>12. Witnessed(turns[r].session, [turn |-> r, role |-> "assistant"])'
  BY <1>5 DEF Witnessed, Settled
<1> QED
  BY <1>1, <1>6, <1>7, <1>8, <1>9, <1>10, <1>11, <1>12, AppendsOwn DEF Roles


-----------------------------------------------------------------------------
(* The beginning of a turn.                                                 *)

\* begin_turn inserts one row and one message and makes the turn the active one of a
\* session that has none.
LEMMA BegunTurn ==
  ASSUME CoreInv, NEW r \in Requests, NEW s \in Sessions, BeginTurn(r, s)
  PROVE  /\ pc[r] = "begin_turn" /\ pc'[r] = "history"
         /\ UNCHANGED <<request, executions, answer>> /\ executions[r] = 0
         /\ turns[r] = None /\ turns'[r] # None /\ turns'[r].status = "processing"
         /\ turns'[r].session = s /\ turns'[r].sequence = NextSequence(s)
         /\ turns'[r].key = request[r].key /\ turns'[r].content = request[r].content
         /\ turns'[r].called = FALSE /\ turns'[r].result = None /\ turns'[r].response = None
         /\ OnlyTouches(r)
<1>1. /\ pc[r] = "begin_turn" /\ UNCHANGED <<request, executions, answer>>
      /\ InsertTurn(r, s, request[r].key, request[r].content)
      /\ pc' = [pc EXCEPT ![r] = "history"]
  BY DEF BeginTurn, Goto
<1>2. request[r] \in RequestRows /\ turns[r] = None /\ executions[r] = 0
  BY <1>1 DEF CoreInv, TypeOK, HandlerInv, ExecutionInv, BeforeTurn, BeforeExecution
<1>3. NextSequence(s) \in Nat
  BY DEF NextSequence, CoreInv, TypeOK, TablesType, SessionRows
<1> DEFINE row == [status |-> "processing", session |-> s,
                   sequence |-> NextSequence(s), key |-> request[r].key,
                   content |-> request[r].content, called |-> FALSE,
                   result |-> None, response |-> None]
<1>4. turns'[r] = row /\ row \in TurnRows
  BY <1>1, <1>2, <1>3 DEF InsertTurn, CoreInv, TypeOK, TablesType, TurnRows, RequestRows
<1>5. OnlyTouches(r)
  BY <1>1 DEF BeginTurn, InsertTurn, CoreInv, TypeOK, TablesType, OnlyTouches
<1>6. /\ turns'[r] # None /\ turns'[r].status = "processing"
      /\ turns'[r].session = s /\ turns'[r].sequence = NextSequence(s)
      /\ turns'[r].key = request[r].key /\ turns'[r].content = request[r].content
      /\ turns'[r].called = FALSE /\ turns'[r].result = None /\ turns'[r].response = None
  <2>1. /\ row.status = "processing" /\ row.session = s /\ row.sequence = NextSequence(s)
        /\ row.key = request[r].key /\ row.content = request[r].content
        /\ row.called = FALSE /\ row.result = None /\ row.response = None
    OBVIOUS
  <2> HIDE DEF row
  <2> QED
    BY <1>4, <2>1, NoneAssumption
<1>7. pc'[r] = "history"
  BY <1>1 DEF CoreInv, TypeOK
<1> QED
  BY <1>1, <1>2, <1>5, <1>6, <1>7

\* The session's row and its transcript after the first transaction.
LEMMA BegunSession ==
  ASSUME CoreInv, NEW r \in Requests, NEW s \in Sessions, BeginTurn(r, s)
  PROVE  /\ sessions[s] = None \/ sessions[s].active = None
         /\ sessions'[s] # None /\ sessions'[s].active = r
         /\ sessions'[s].sequence = NextSequence(s)
         /\ \A z \in Sessions \ {s} : sessions'[z] = sessions[z]
         /\ messages' = [messages EXCEPT ![s] = Append(@, [turn |-> r, role |-> "user"])]
<1>1. InsertTurn(r, s, request[r].key, request[r].content)
  BY DEF BeginTurn
<1>2. sessions[s] = None \/ sessions[s].active = None
  BY DEF BeginTurn, Admits
<1>3. NextSequence(s) \in Nat
  BY DEF NextSequence, CoreInv, TypeOK, TablesType, SessionRows
<1>4. /\ sessions'[s] # None /\ sessions'[s].active = r
      /\ sessions'[s].sequence = NextSequence(s)
      /\ \A z \in Sessions \ {s} : sessions'[z] = sessions[z]
  <2> DEFINE new == [sequence |-> NextSequence(s), active |-> r]
  <2>1. new \in SessionRows
    BY <1>3 DEF SessionRows
  <2>2. sessions' = [sessions EXCEPT ![s] = new]
    BY <1>1 DEF InsertTurn
  <2> QED
    BY <2>1, <2>2, NoneAssumption DEF CoreInv, TypeOK, TablesType
<1>5. messages' = [messages EXCEPT ![s] = Append(@, [turn |-> r, role |-> "user"])]
  BY <1>1 DEF InsertTurn
<1> QED
  BY <1>2, <1>4, <1>5

\* The row of a turn that begins says nothing has happened yet.
LEMMA BeginTurnRecords ==
  ASSUME CoreInv, RecordInv, NEW r \in Requests, NEW s \in Sessions, BeginTurn(r, s)
  PROVE  RecordInv'
<1>1. /\ pc[r] = "begin_turn" /\ pc'[r] = "history" /\ OnlyTouches(r)
      /\ UNCHANGED <<request, executions, answer>> /\ executions[r] = 0
      /\ turns[r] = None /\ turns'[r] # None
      /\ turns'[r].status = "processing" /\ turns'[r].content = request[r].content
      /\ turns'[r].called = FALSE /\ turns'[r].result = None /\ turns'[r].response = None
  BY BegunTurn
<1>2. Recorded(r)'
  BY <1>1 DEF Recorded, Processing, Settled
<1>3. InStep(r)'
  BY <1>1 DEF InStep, InTurn, Running, Labels
<1>4. Informed(r)'
  BY <1>1 DEF RecordInv, Informed, Answered
<1> QED
  BY <1>1, <1>2, <1>3, <1>4, RecordsKept DEF Records, Settled

\* The new number is above those of all turns of the session.
LEMMA NextNumber ==
  ASSUME CoreInv, TranscriptInv, NEW s \in Sessions
  PROVE  /\ NextSequence(s) \in Nat
         /\ \A t \in Requests : turns[t] # None /\ turns[t].session = s =>
              turns[t].sequence < NextSequence(s)
<1>1. NextSequence(s) \in Nat
  BY DEF NextSequence, CoreInv, TypeOK, TablesType, SessionRows
<1>2. ASSUME NEW t \in Requests, turns[t] # None, turns[t].session = s
      PROVE  turns[t].sequence < NextSequence(s)
  <2>1. turns[t].sequence \in Nat
    BY <1>2, RowTyped DEF TurnRows
  <2>2. sessions[s] # None /\ turns[t].sequence <= sessions[s].sequence
    BY <1>2 DEF CoreInv, LockInv, TranscriptInv, Numbered
  <2>3. sessions[s].sequence \in Nat
    BY <2>2 DEF CoreInv, TypeOK, TablesType, SessionRows
  <2> QED
    BY <2>1, <2>2, <2>3 DEF NextSequence
<1> QED
  BY <1>1, <1>2

\* The user's message follows those of all earlier turns.
LEMMA BeginTurnTranscript ==
  ASSUME CoreInv, TranscriptInv, NEW r \in Requests, NEW s \in Sessions, BeginTurn(r, s)
  PROVE  TranscriptInv'
<1>1. /\ pc[r] = "begin_turn" /\ pc'[r] = "history" /\ OnlyTouches(r)
      /\ turns[r] = None /\ turns'[r] # None
      /\ turns'[r].status = "processing" /\ turns'[r].session = s
      /\ turns'[r].sequence = NextSequence(s)
  BY BegunTurn
<1>2. /\ sessions[s] = None \/ sessions[s].active = None
      /\ messages' = [messages EXCEPT ![s] = Append(@, [turn |-> r, role |-> "user"])]
      /\ sessions'[s].sequence = NextSequence(s)
      /\ \A z \in Sessions \ {s} : sessions'[z] = sessions[z]
  BY BegunSession
<1>3. \A t \in Requests \ {r} : turns'[t] = turns[t]
  BY <1>1 DEF OnlyTouches
<1>4. Grows
  BY <1>1, <1>3 DEF Grows
<1>5. \A t \in Requests : turns[t] # None => turns[t].session \in Sessions /\ turns[t].sequence \in Nat
  BY RowTyped DEF TurnRows
<1>6. \A q \in Requests : Processing(q) => turns[q].session # s
  BY <1>2, <1>5, NoneAssumption DEF CoreInv, LockInv, Processing
<1>7. Numbered'
  <2>1. ASSUME NEW t \in Requests \ {r}, turns[t] # None
        PROVE  /\ turns'[t].sequence <= sessions'[turns'[t].session].sequence
               /\ turns'[t].status = "processing" =>
                    turns'[t].sequence = sessions'[turns'[t].session].sequence
               /\ turns[t].session = s => turns[t].sequence # NextSequence(s)
    <3>1. turns'[t] = turns[t]
      BY <1>3
    <3>2. /\ turns[t].sequence <= sessions[turns[t].session].sequence
          /\ Processing(t) => turns[t].sequence = sessions[turns[t].session].sequence
      BY <2>1 DEF TranscriptInv, Numbered
    <3>3. CASE turns[t].session = s
      <4>1. turns[t].sequence < NextSequence(s) /\ NextSequence(s) \in Nat
        BY <2>1, <3>3, NextNumber
      <4> QED
        BY <2>1, <3>1, <3>3, <4>1, <1>2, <1>5, <1>6 DEF Processing
    <3>4. CASE turns[t].session # s
      BY <2>1, <3>1, <3>2, <3>4, <1>2, <1>5 DEF Processing
    <3> QED
      BY <3>3, <3>4
  <2>2. /\ turns'[r].sequence <= sessions'[turns'[r].session].sequence
        /\ turns'[r].sequence = sessions'[turns'[r].session].sequence
    BY <1>1, <1>2, NextNumber
  <2>3. ASSUME NEW t \in Requests, NEW u \in Requests, turns'[t] # None, turns'[u] # None,
               turns'[u].session = turns'[t].session, turns'[u].sequence = turns'[t].sequence
        PROVE  u = t
    <3>1. CASE t # r /\ u # r
      BY <1>3, <2>3, <3>1 DEF TranscriptInv, Numbered
    <3>2. CASE t = r /\ u # r
      BY <1>1, <1>3, <2>1, <2>3, <3>2
    <3>3. CASE t # r /\ u = r
      BY <1>1, <1>3, <2>1, <2>3, <3>3
    <3> QED
      BY <3>1, <3>2, <3>3
  <2> QED
    BY <1>3, <2>1, <2>2, <2>3 DEF Numbered, Processing
<1>8. \A z \in Sessions : Told(z)'
  <2>1. Witnessed(s, [turn |-> r, role |-> "user"])'
    BY <1>1 DEF Witnessed
  <2>2. ASSUME NEW i \in DOMAIN messages[s]
        PROVE  turns[messages[s][i].turn].sequence < turns'[r].sequence
    <3>1. messages[s][i].turn \in Requests /\ Witnessed(s, messages[s][i])
      BY MessageOf DEF TranscriptInv, Told
    <3> QED
      BY <1>1, <3>1, NextNumber DEF Witnessed
  <2> QED
    BY <1>1, <1>2, <1>4, <2>1, <2>2, AppendTold DEF Roles
<1>9. ASSUME NEW q \in Requests
      PROVE  Prompted(q)'
  <2>1. messages[s] \in Seq(MessageRows) /\ [turn |-> r, role |-> "user"] \in MessageRows
    BY DEF CoreInv, TypeOK, TablesType, MessageRows, Roles
  <2>2. /\ messages'[s] = Append(messages[s], [turn |-> r, role |-> "user"])
        /\ \A z \in Sessions \ {s} : messages'[z] = messages[z]
    BY <1>2 DEF CoreInv, TypeOK, TablesType
  <2>3. CASE q = r
    <3>1. /\ messages'[s] # <<>>
          /\ messages'[s][Len(messages'[s])] = [turn |-> r, role |-> "user"]
      BY <2>1, <2>2, AppendProperties, LenProperties
    <3> QED
      BY <1>1, <2>3, <3>1 DEF Prompted
  <2>4. CASE q # r
    BY <1>1, <1>4, <1>6, <2>2, <2>4, OthersPrompted
  <2> QED
    BY <2>3, <2>4
<1> QED
  BY <1>7, <1>8, <1>9 DEF TranscriptInv



-----------------------------------------------------------------------------
(* Every step.                                                             *)

\* The steps that touch neither a table nor a place where a prompt matters.
LEMMA QuietSteps ==
  ASSUME CoreInv, TranscriptInv, NEW r \in Requests, UNCHANGED tables,
         UNCHANGED <<pc, history>> \/ /\ \E label \in Labels \ {"history", "provider_begin"} :
                                           Goto(r, label)
                                      /\ UNCHANGED history
  PROVE  TranscriptInv'
<1>1. UNCHANGED <<turns, sessions, messages>>
  BY DEF tables
<1>2. ASSUME NEW q \in Requests
      PROVE  Prompted(q)'
  <2>1. history' = history /\ (pc'[q] \in {"history", "provider_begin"} => pc'[q] = pc[q])
    BY DEF CoreInv, TypeOK, Goto
  <2> QED
    BY <1>1, <2>1 DEF TranscriptInv, Prompted, Settled
<1> QED
  BY <1>2, TranscriptUntouched

\* Every step of a handler preserves the transcript.
LEMMA StepTranscript ==
  ASSUME CoreInv, RecordInv, TranscriptInv, NEW r \in Requests, Step(r)
  PROVE  TranscriptInv'
<1>1. CASE BeginRefused(r) \/ BeginReplays(r)
  <2>1. UNCHANGED tables /\ UNCHANGED history /\ Goto(r, "done")
    BY <1>1 DEF BeginRefused, BeginReplays, Reply
  <2> QED
    BY <2>1, QuietSteps DEF Labels
<1>2. CASE \E s \in Sessions : BeginTurn(r, s)
  BY <1>2, BeginTurnTranscript
<1>3. CASE ReadHistory(r)
  BY <1>3, ReadHistoryTranscript
<1>4. CASE \E retryable \in BOOLEAN : ProviderBeginFails(r, retryable)
  <2>1. UNCHANGED tables /\ UNCHANGED history /\ (UNCHANGED pc \/ Goto(r, "complete"))
    BY <1>4 DEF ProviderBeginFails, Draft
  <2> QED
    BY <2>1, QuietSteps DEF Labels
<1>5. CASE \E turn \in ProviderTurns : ProviderBegin(r, turn)
  <2>1. PICK turn \in ProviderTurns : ProviderBegin(r, turn)
    BY <1>5
  <2>2. turn.calls \in Calls
    BY SettingsAssumption DEF ModelTurns
  <2>3. /\ UNCHANGED tables /\ UNCHANGED history
        /\ \/ Goto(r, "complete") \/ Goto(r, "provider_repair") \/ Goto(r, "record_tool_call")
    BY <2>1, <2>2 DEF ProviderBegin, Draft, Calls
  <2> QED
    BY <2>3, QuietSteps DEF Labels
<1>6. CASE \E turn \in ProviderTurns : ProviderRepair(r, turn)
  <2>1. /\ UNCHANGED tables /\ UNCHANGED history
        /\ Goto(r, "complete") \/ Goto(r, "record_tool_call")
    BY <1>6 DEF ProviderRepair, Draft
  <2> QED
    BY <2>1, QuietSteps DEF Labels
<1>7. CASE RecordToolCall(r)
  BY <1>7, RecordToolCallTranscript
<1>8. CASE \E outcome \in CoreOutcomes : Execute(r, outcome)
  <2>1. UNCHANGED tables /\ UNCHANGED history /\ Goto(r, "record_tool_result")
    BY <1>8 DEF Execute
  <2> QED
    BY <2>1, QuietSteps DEF Labels
<1>9. CASE RecordToolResult(r)
  BY <1>9, RecordToolResultTranscript
<1>10. CASE \E turn \in ProviderTurns : ProviderRender(r, turn)
  <2>1. UNCHANGED tables /\ UNCHANGED history /\ Goto(r, "complete")
    BY <1>10 DEF ProviderRender, Draft
  <2> QED
    BY <2>1, QuietSteps DEF Labels
<1>11. CASE Complete(r)
  BY <1>11, CompleteTranscript
<1> QED
  BY <1>1, <1>2, <1>3, <1>4, <1>5, <1>6, <1>7, <1>8, <1>9, <1>10, <1>11 DEF Step

\* Every step of the service preserves the transcript.
LEMMA NextTranscript ==
  ASSUME CoreInv, RecordInv, TranscriptInv, [Next]_vars
  PROVE  TranscriptInv'
<1>1. ASSUME NEW r \in Requests, NEW row \in RequestRows, Receive(r, row)
      PROVE  TranscriptInv'
  <2>1. /\ UNCHANGED tables /\ UNCHANGED history
        /\ Goto(r, "done") \/ Goto(r, "begin_turn")
    BY <1>1 DEF Receive, Reply
  <2> QED
    BY <2>1, QuietSteps DEF Labels
<1>2. ASSUME NEW r \in Requests, HandlerAborts(r)
      PROVE  TranscriptInv'
  <2>1. UNCHANGED tables /\ UNCHANGED history /\ Goto(r, "done")
    BY <1>2 DEF HandlerAborts, Reply
  <2> QED
    BY <2>1, QuietSteps DEF Labels
<1>3. ASSUME ProcessDies \/ UNCHANGED vars
      PROVE  TranscriptInv'
  <2>1. /\ UNCHANGED tables /\ UNCHANGED <<turns, messages, history>>
        /\ \A r \in Requests : pc'[r] \in {pc[r], "gone"}
    BY <1>3 DEF ProcessDies, vars, handlers, tables
  <2>2. ASSUME NEW r \in Requests
        PROVE  Prompted(r)'
    BY <2>1 DEF TranscriptInv, Prompted, Settled
  <2> QED
    BY <2>1, <2>2, TranscriptUntouched
<1> QED
  BY <1>1, <1>2, <1>3, StepTranscript DEF Next

\* Every step of a handler preserves what rows and handlers know of each other.
LEMMA StepRecords ==
  ASSUME CoreInv, RecordInv, NEW r \in Requests, Step(r)
  PROVE  RecordInv'
<1>1. CASE BeginRefused(r)
  BY <1>1, BeginRefusedRecords
<1>2. CASE BeginReplays(r)
  BY <1>2, BeginReplaysRecords
<1>3. CASE \E s \in Sessions : BeginTurn(r, s)
  BY <1>3, BeginTurnRecords
<1>4. CASE ReadHistory(r)
  BY <1>4, ReadHistoryRecords
<1>5. CASE \E retryable \in BOOLEAN : ProviderBeginFails(r, retryable)
  BY <1>5, ProviderBeginFailsRecords
<1>6. CASE \E turn \in ProviderTurns : ProviderBegin(r, turn)
  BY <1>6, ProviderBeginRecords, SettingsAssumption
<1>7. CASE \E turn \in ProviderTurns : ProviderRepair(r, turn)
  BY <1>7, ProviderRepairRecords, SettingsAssumption
<1>8. CASE RecordToolCall(r)
  BY <1>8, RecordToolCallRecords
<1>9. CASE \E outcome \in CoreOutcomes : Execute(r, outcome)
  BY <1>9, ExecuteRecords, SettingsAssumption
<1>10. CASE RecordToolResult(r)
  BY <1>10, RecordToolResultRecords
<1>11. CASE \E turn \in ProviderTurns : ProviderRender(r, turn)
  BY <1>11, ProviderRenderRecords, SettingsAssumption
<1>12. CASE Complete(r)
  BY <1>12, CompleteRecords
<1> QED
  BY <1>1, <1>2, <1>3, <1>4, <1>5, <1>6, <1>7, <1>8, <1>9, <1>10, <1>11, <1>12 DEF Step

\* Every step of the service preserves them.
LEMMA NextRecords ==
  ASSUME CoreInv, RecordInv, [Next]_vars
  PROVE  RecordInv'
<1>1. ASSUME NEW r \in Requests, NEW row \in RequestRows, Receive(r, row)
      PROVE  RecordInv'
  BY <1>1, ReceiveRecords
<1>2. ASSUME NEW r \in Requests, HandlerAborts(r)
      PROVE  RecordInv'
  BY <1>2, HandlerAbortsRecords
<1>3. CASE ProcessDies
  BY <1>3, ProcessDiesRecords
<1>4. CASE UNCHANGED vars
  BY <1>4 DEF vars, tables, handlers, RecordInv, Recorded, InStep, Informed, Agrees,
              Answered, Settled, Processing
<1> QED
  BY <1>1, <1>2, <1>3, <1>4, StepRecords DEF Next

\* The empty tables satisfy the invariant.
LEMMA InitIndInv == Init => IndInv
<1> SUFFICES ASSUME Init
             PROVE  IndInv
  OBVIOUS
<1>1. CoreInv
  BY InitCoreInv
<1>2. RecordInv
  BY DEF Init, TablesInit, RecordInv, InStep, Informed, Answered, InTurn, Running
<1>3. TranscriptInv
  BY DEF Init, TablesInit, TranscriptInv, Numbered, Told, Prompted
<1> QED
  BY <1>1, <1>2, <1>3 DEF IndInv

\* The inductive invariant holds in every reachable state of the service: for any number
\* of handlers, any answers of the model, any outcomes of the executions and any failures.
THEOREM IndInvHolds == Spec => []IndInv
<1>1. IndInv /\ [Next]_vars => IndInv'
  BY NextCoreInv, NextRecords, NextTranscript DEF IndInv
<1> QED
  BY <1>1, InitIndInv, PTL DEF Spec


-----------------------------------------------------------------------------
(* What the invariant says of rows, answers and transcripts.                 *)

\* After any crash the turn row tells whether the action may have happened.
THEOREM RowTellsExecutionHolds == Spec => []RowTellsExecution
<1>1. ASSUME IndInv
      PROVE  RowTellsExecution
  <2>1. \A t \in Requests : executions[t] \in 0..1
    BY <1>1 DEF IndInv, CoreInv, ExecutionInv
  <2> QED
    BY <1>1, <2>1 DEF IndInv, RecordInv, Recorded, Agrees, RowTellsExecution
<1> QED
  BY <1>1, IndInvHolds, PTL

\* A stored reply that claims success belongs to a completed execution.
THEOREM ClaimsAreBackedHolds == Spec => []ClaimsAreBacked
<1>1. ASSUME IndInv
      PROVE  ClaimsAreBacked
  BY <1>1 DEF IndInv, RecordInv, Recorded, Agrees, Settled, ClaimsAreBacked
<1> QED
  BY <1>1, IndInvHolds, PTL

\* Two successful answers for one message are the same stored response.
THEOREM AnswersAgreeHolds == Spec => []AnswersAgree
<1>1. ASSUME IndInv
      PROVE  AnswersAgree
  <2> SUFFICES ASSUME NEW r \in Requests, NEW q \in Requests, Answered(r), Answered(q),
                      turns[answer[r].response.turn].session
                        = turns[answer[q].response.turn].session,
                      turns[answer[r].response.turn].key = turns[answer[q].response.turn].key
               PROVE  /\ answer[r].response = answer[q].response
                      /\ request[r].content = request[q].content
    BY DEF AnswersAgree
  <2>1. \A p \in {r, q} :
          /\ Settled(answer[p].response.turn)
          /\ turns[answer[p].response.turn].response = answer[p].response
          /\ turns[answer[p].response.turn].content = request[p].content
          /\ answer[p] # None /\ answer[p].response # None
    BY <1>1 DEF IndInv, RecordInv, Informed, Answered
  <2>2. /\ answer[r].response.turn \in Requests
        /\ answer[q].response.turn \in Requests
    BY <1>1, <2>1, AnswerTurn DEF IndInv, CoreInv
  <2>3. answer[r].response.turn = answer[q].response.turn
    BY <1>1, <2>1, <2>2 DEF IndInv, CoreInv, ExecutionInv, Settled
  <2> QED
    BY <2>1, <2>3
<1> QED
  BY <1>1, IndInvHolds, PTL

\* The transcript is told turn by turn, and within a turn in order.
THEOREM TranscriptInOrderHolds == Spec => []TranscriptInOrder
<1>1. ASSUME IndInv
      PROVE  TranscriptInOrder
  BY <1>1 DEF IndInv, TranscriptInv, Told, Witnessed, Precedes, TranscriptInOrder
<1> QED
  BY <1>1, IndInvHolds, PTL

\* The model reads the user's message last, and no turn that is still going on.
THEOREM PromptIsSettledHolds == Spec => []PromptIsSettled
<1>1. ASSUME IndInv
      PROVE  PromptIsSettled
  BY <1>1 DEF IndInv, TranscriptInv, Prompted, PromptIsSettled
<1> QED
  BY <1>1, IndInvHolds, PTL

-----------------------------------------------------------------------------
(* What a step never does.                                                 *)

\* An appended message leaves the transcript before it as it was.
LEMMA AppendKeeps ==
  ASSUME CoreInv, NEW s \in Sessions, NEW m \in MessageRows,
         messages' = [messages EXCEPT ![s] = Append(@, m)],
         NEW z \in Sessions
  PROVE  /\ Len(messages[z]) <= Len(messages'[z])
         /\ SubSeq(messages'[z], 1, Len(messages[z])) = messages[z]
<1>1. messages[z] \in Seq(MessageRows)
  BY DEF CoreInv, TypeOK, TablesType
<1>2. CASE z = s
  <2>1. messages'[z] = Append(messages[z], m)
    BY <1>2 DEF CoreInv, TypeOK, TablesType
  <2> QED
    BY <1>1, <2>1
<1>3. CASE z # s
  <2>1. messages'[z] = messages[z]
    BY <1>3 DEF CoreInv, TypeOK, TablesType
  <2> QED
    BY <1>1, <2>1
<1> QED
  BY <1>2, <1>3

\* The steps that write a table write one row of turns, of a turn that is not settled, and
\* append one message.
LEMMA TableSteps ==
  ASSUME CoreInv, [Next]_vars
  PROVE  \/ UNCHANGED tables
         \/ \E r \in Requests, s \in Sessions, m \in MessageRows :
              /\ ~Settled(r)
              /\ \A t \in Requests \ {r} : turns'[t] = turns[t]
              /\ messages' = [messages EXCEPT ![s] = Append(@, m)]
<1>1. ASSUME NEW r \in Requests, NEW s \in Sessions, BeginTurn(r, s)
      PROVE  \E m \in MessageRows :
               /\ ~Settled(r)
               /\ \A t \in Requests \ {r} : turns'[t] = turns[t]
               /\ messages' = [messages EXCEPT ![s] = Append(@, m)]
  <2>1. [turn |-> r, role |-> "user"] \in MessageRows
    BY DEF MessageRows, Roles
  <2>2. turns[r] = None /\ OnlyTouches(r)
    BY <1>1, BegunTurn
  <2>3. messages' = [messages EXCEPT ![s] = Append(@, [turn |-> r, role |-> "user"])]
    BY <1>1, BegunSession
  <2> QED
    BY <2>1, <2>2, <2>3 DEF OnlyTouches, Settled
<1>2. ASSUME NEW r \in Requests, NEW role \in Roles, NEW row, InsertMessage(r, role),
             pc[r] \in InTurn, turns' = [turns EXCEPT ![r] = row]
      PROVE  \E s \in Sessions, m \in MessageRows :
               /\ ~Settled(r)
               /\ \A t \in Requests \ {r} : turns'[t] = turns[t]
               /\ messages' = [messages EXCEPT ![s] = Append(@, m)]
  <2>1. Processing(r) /\ ~Settled(r)
    BY <1>2 DEF CoreInv, HandlerInv, Processing, Settled
  <2>2. turns[r].session \in Sessions
    BY <2>1, RowTyped DEF Processing
  <2>3. [turn |-> r, role |-> role] \in MessageRows
    BY DEF MessageRows
  <2>4. \A t \in Requests \ {r} : turns'[t] = turns[t]
    BY <1>2 DEF CoreInv, TypeOK, TablesType
  <2> QED
    BY <1>2, <2>1, <2>2, <2>3, <2>4 DEF InsertMessage
<1>3. ASSUME NEW r \in Requests,
             RecordToolCall(r) \/ RecordToolResult(r) \/ (Complete(r) /\ Processing(r))
      PROVE  \E s \in Sessions, m \in MessageRows :
               /\ ~Settled(r)
               /\ \A t \in Requests \ {r} : turns'[t] = turns[t]
               /\ messages' = [messages EXCEPT ![s] = Append(@, m)]
  <2>1. pc[r] \in InTurn
    BY <1>3 DEF RecordToolCall, RecordToolResult, Complete, InTurn, Running, Labels
  <2>2. CASE RecordToolCall(r)
    <3>1. InsertMessage(r, "tool_call")
          /\ turns' = [turns EXCEPT ![r] = [turns[r] EXCEPT !.called = TRUE]]
      BY <2>2 DEF RecordToolCall, RecordToolCallRow
    <3> QED
      BY <1>2, <2>1, <3>1 DEF Roles
  <2>3. CASE RecordToolResult(r)
    <3>1. InsertMessage(r, "tool_result")
          /\ turns' = [turns EXCEPT ![r] = [turns[r] EXCEPT !.result = result[r]]]
      BY <2>3 DEF RecordToolResult, RecordToolResultRow
    <3> QED
      BY <1>2, <2>1, <3>1 DEF Roles
  <2>4. CASE Complete(r) /\ Processing(r)
    <3> DEFINE row == [turns[r] EXCEPT !.status = draft[r].status, !.response = draft[r]]
    <3>1. InsertMessage(r, "assistant") /\ turns' = [turns EXCEPT ![r] = row]
      BY <2>4 DEF Complete, SettleTurn, CoreInv, TypeOK, TablesType
    <3> QED
      BY <1>2, <2>1, <3>1 DEF Roles
  <2> QED
    BY <1>3, <2>2, <2>3, <2>4
<1>4. ASSUME NEW r \in Requests, Step(r)
      PROVE  \/ UNCHANGED tables
             \/ \E s \in Sessions : BeginTurn(r, s)
             \/ RecordToolCall(r) \/ RecordToolResult(r) \/ (Complete(r) /\ Processing(r))
  BY <1>4 DEF Step, BeginRefused, BeginReplays, ReadHistory, ProviderBeginFails,
              ProviderBegin, ProviderRepair, Execute, ProviderRender, Complete
<1>5. \/ UNCHANGED tables
      \/ \E r \in Requests : Step(r)
  BY DEF Next, Receive, HandlerAborts, ProcessDies, vars
<1> QED
  BY <1>1, <1>3, <1>4, <1>5

\* The row a replay is served from never changes, and transcripts only grow.
THEOREM SettledTurnsAreFinalHolds == Spec => SettledTurnsAreFinal
<1> DEFINE Kept == /\ \A t \in Requests : Settled(t) => turns'[t] = turns[t]
                   /\ \A s \in Sessions :
                        /\ Len(messages[s]) <= Len(messages'[s])
                        /\ SubSeq(messages'[s], 1, Len(messages[s])) = messages[s]
<1>1. CoreInv /\ [Next]_vars => Kept \/ UNCHANGED tables
  BY TableSteps, AppendKeeps
<1> QED
  BY <1>1, CoreInvHolds, PTL DEF Spec, SettledTurnsAreFinal


-----------------------------------------------------------------------------
(* The handlers implement the ledger.                                       *)

\* What the ledger sees of turn t's answer.
Said(t) ==
  IF Settled(t)
  THEN [status |-> turns[t].response.status, result |-> turns[t].response.result]
  ELSE None

OfMessage(t, s, k) == turns[t] # None /\ turns[t].session = s /\ turns[t].key = k

\* A message has at most one turn, and the ledger sees that turn.
Seen ==
  \A s \in Sessions, k \in ClientMessageIds :
    /\ \A t \in Requests : OfMessage(t, s, k) =>
         ExecutionsFor(s, k) = executions[t] /\ AnswerFor(s, k) = Said(t)
    /\ (\A t \in Requests : ~OfMessage(t, s, k)) =>
         ExecutionsFor(s, k) = 0 /\ AnswerFor(s, k) = None

\* The ledger reads its functions off the rows, one turn at a time.
LEMMA LedgerSees == CoreInv => Seen
<1> SUFFICES ASSUME CoreInv, NEW s \in Sessions, NEW k \in ClientMessageIds
             PROVE  /\ \A t \in Requests : OfMessage(t, s, k) =>
                         ExecutionsFor(s, k) = executions[t] /\ AnswerFor(s, k) = Said(t)
                    /\ (\A t \in Requests : ~OfMessage(t, s, k)) =>
                         ExecutionsFor(s, k) = 0 /\ AnswerFor(s, k) = None
  BY DEF Seen
<1>1. ASSUME NEW t \in Requests, OfMessage(t, s, k)
      PROVE  ExecutionsFor(s, k) = executions[t] /\ AnswerFor(s, k) = Said(t)
  <2>1. TurnsFor(s, k) = {t}
    BY <1>1 DEF TurnsFor, OfMessage, CoreInv, ExecutionInv
  <2>2. executions[t] \in 0..1
    BY DEF CoreInv, ExecutionInv
  <2>3. ExecutionsFor(s, k) = executions[t]
    <3> DEFINE executed == {u \in TurnsFor(s, k) : executions[u] > 0}
    <3>1. CASE executions[t] = 0
      <4>1. executed = {}
        BY <2>1, <3>1
      <4> QED
        BY <3>1, <4>1 DEF ExecutionsFor
    <3>2. CASE executions[t] = 1
      <4>1. executed = {t}
        BY <2>1, <3>2
      <4> QED
        BY <3>2, <4>1 DEF ExecutionsFor
    <3> QED
      BY <2>2, <3>1, <3>2
  <2>4. AnswerFor(s, k) = Said(t)
    <3>1. CASE Settled(t)
      <4>1. (CHOOSE u \in TurnsFor(s, k) : Settled(u)) = t
        BY <2>1, <3>1
      <4> QED
        BY <2>1, <3>1, <4>1 DEF AnswerFor, Said
    <3>2. CASE ~Settled(t)
      BY <2>1, <3>2 DEF AnswerFor, Said
    <3> QED
      BY <3>1, <3>2
  <2> QED
    BY <2>3, <2>4
<1>2. ASSUME \A t \in Requests : ~OfMessage(t, s, k)
      PROVE  ExecutionsFor(s, k) = 0 /\ AnswerFor(s, k) = None
  <2>1. TurnsFor(s, k) = {}
    BY <1>2 DEF TurnsFor, OfMessage
  <2> QED
    BY <2>1 DEF ExecutionsFor, AnswerFor
<1> QED
  BY <1>1, <1>2

\* The same after a step.
LEMMA LedgerSeesAfter == CoreInv' => Seen'
  BY LedgerSees, PTL

\* The three functions that stand for the ledger's variables.
Opened(s) ==
  IF sessions[s] = None \/ sessions[s].active = None THEN None
  ELSE turns[sessions[s].active].key

LedgerOpen == [s \in Sessions |-> Opened(s)]
LedgerPerformed == [m \in Sessions \X ClientMessageIds |-> ExecutionsFor(m[1], m[2])]
LedgerAnswered == [m \in Sessions \X ClientMessageIds |-> AnswerFor(m[1], m[2])]

\* A step that changes neither a turn's message nor its executions nor its answer.
LEMMA MessagesKept ==
  ASSUME CoreInv, CoreInv',
         \A t \in Requests :
           /\ turns'[t] # None <=> turns[t] # None
           /\ turns[t] # None => /\ turns'[t].session = turns[t].session
                                 /\ turns'[t].key = turns[t].key
           /\ executions'[t] = executions[t] /\ Said(t)' = Said(t)
  PROVE  LedgerPerformed' = LedgerPerformed /\ LedgerAnswered' = LedgerAnswered
<1>1. ASSUME NEW s \in Sessions, NEW k \in ClientMessageIds
      PROVE  ExecutionsFor(s, k)' = ExecutionsFor(s, k) /\ AnswerFor(s, k)' = AnswerFor(s, k)
  <2>1. \A t \in Requests : OfMessage(t, s, k)' <=> OfMessage(t, s, k)
    BY DEF OfMessage
  <2>2. CASE \E t \in Requests : OfMessage(t, s, k)
    BY <2>1, <2>2, LedgerSees, LedgerSeesAfter DEF Seen
  <2>3. CASE \A t \in Requests : ~OfMessage(t, s, k)
    BY <2>1, <2>3, LedgerSees, LedgerSeesAfter DEF Seen
  <2> QED
    BY <2>2, <2>3
<1> QED
  BY <1>1 DEF LedgerPerformed, LedgerAnswered

\* A step on turn r concerns only its message.
LEMMA MessageOfTurn ==
  ASSUME CoreInv, CoreInv', NEW r \in Requests, OnlyTouches(r),
         NEW s \in Sessions, NEW k \in ClientMessageIds, OfMessage(r, s, k)',
         turns[r] # None => OfMessage(r, s, k)
  PROVE  /\ LedgerPerformed' = [LedgerPerformed EXCEPT ![<<s, k>>] = executions'[r]]
         /\ LedgerAnswered' = [LedgerAnswered EXCEPT ![<<s, k>>] = Said(r)']
<1>1. ExecutionsFor(s, k)' = executions'[r] /\ AnswerFor(s, k)' = Said(r)'
  BY LedgerSeesAfter DEF Seen
<1>2. ASSUME NEW z \in Sessions, NEW j \in ClientMessageIds, <<z, j>> # <<s, k>>
      PROVE  ExecutionsFor(z, j)' = ExecutionsFor(z, j) /\ AnswerFor(z, j)' = AnswerFor(z, j)
  <2>1. ~OfMessage(r, z, j) /\ ~OfMessage(r, z, j)'
    BY <1>2 DEF OfMessage
  <2>2. \A t \in Requests \ {r} :
          /\ OfMessage(t, z, j)' <=> OfMessage(t, z, j)
          /\ executions'[t] = executions[t] /\ Said(t)' = Said(t)
    BY DEF OnlyTouches, OfMessage, Said, Settled
  <2>3. CASE \E t \in Requests \ {r} : OfMessage(t, z, j)
    BY <2>2, <2>3, LedgerSees, LedgerSeesAfter DEF Seen
  <2>4. CASE \A t \in Requests \ {r} : ~OfMessage(t, z, j)
    BY <2>1, <2>2, <2>4, LedgerSees, LedgerSeesAfter DEF Seen
  <2> QED
    BY <2>3, <2>4
<1>3. ASSUME NEW m \in Sessions \X ClientMessageIds
      PROVE  /\ ExecutionsFor(m[1], m[2])' = IF m = <<s, k>> THEN executions'[r]
                                            ELSE ExecutionsFor(m[1], m[2])
             /\ AnswerFor(m[1], m[2])' = IF m = <<s, k>> THEN Said(r)'
                                        ELSE AnswerFor(m[1], m[2])
  <2>1. PICK z \in Sessions, j \in ClientMessageIds : m = <<z, j>>
    BY <1>3
  <2>2. m[1] = z /\ m[2] = j
    BY <2>1
  <2>3. CASE z = s /\ j = k
    BY <1>1, <2>1, <2>2, <2>3
  <2>4. CASE ~(z = s /\ j = k)
    BY <1>2, <2>1, <2>2, <2>4
  <2> QED
    BY <2>3, <2>4
<1>4. <<s, k>> \in Sessions \X ClientMessageIds
  OBVIOUS
<1>5. /\ LedgerPerformed' = [m \in Sessions \X ClientMessageIds |->
                             IF m = <<s, k>> THEN executions'[r] ELSE ExecutionsFor(m[1], m[2])]
      /\ LedgerAnswered' = [m \in Sessions \X ClientMessageIds |->
                            IF m = <<s, k>> THEN Said(r)' ELSE AnswerFor(m[1], m[2])]
  BY <1>3 DEF LedgerPerformed, LedgerAnswered
<1> QED
  BY <1>5 DEF LedgerPerformed, LedgerAnswered


\* The active turn of a session keeps its message.
LEMMA OpenKept ==
  ASSUME CoreInv, sessions' = sessions,
         \A t \in Requests : turns[t] # None => turns'[t].key = turns[t].key
  PROVE  LedgerOpen' = LedgerOpen
<1>1. ASSUME NEW s \in Sessions
      PROVE  Opened(s)' = Opened(s)
  <2>1. sessions[s] # None /\ sessions[s].active # None =>
          sessions[s].active \in Requests /\ turns[sessions[s].active] # None
    BY DEF CoreInv, TypeOK, TablesType, SessionRows, LockInv, Processing
  <2> QED
    BY <2>1 DEF Opened
<1> QED
  BY <1>1 DEF LedgerOpen

LedgerKept == UNCHANGED <<LedgerOpen, LedgerPerformed, LedgerAnswered>>

\* A step that touches no table and executes nothing.
LEMMA LedgerUntouched ==
  ASSUME CoreInv, CoreInv', UNCHANGED tables, executions' = executions
  PROVE  LedgerKept
<1>1. turns' = turns /\ sessions' = sessions
  BY DEF tables
<1>2. LedgerOpen' = LedgerOpen
  BY <1>1, OpenKept
<1>3. LedgerPerformed' = LedgerPerformed /\ LedgerAnswered' = LedgerAnswered
  BY <1>1, MessagesKept DEF Said, Settled
<1> QED
  BY <1>2, <1>3 DEF LedgerKept

\* A step that writes something else down in the row of a turn that goes on.
LEMMA LedgerRowNoted ==
  ASSUME CoreInv, CoreInv', NEW r \in Requests, Processing(r), NEW row \in TurnRows,
         row.session = turns[r].session, row.key = turns[r].key, row.status = turns[r].status,
         turns' = [turns EXCEPT ![r] = row], sessions' = sessions, executions' = executions
  PROVE  LedgerKept
<1>1. turns'[r] = row /\ \A t \in Requests \ {r} : turns'[t] = turns[t]
  BY DEF CoreInv, TypeOK, TablesType
<1>2. turns'[r] # None /\ turns[r] # None
  BY <1>1, NoneAssumption DEF Processing
<1>3. LedgerOpen' = LedgerOpen
  BY <1>1, OpenKept
<1>4. \A t \in Requests : Said(t)' = Said(t)
  BY <1>1, <1>2 DEF Said, Settled, Processing
<1>5. LedgerPerformed' = LedgerPerformed /\ LedgerAnswered' = LedgerAnswered
  BY <1>1, <1>2, <1>4, MessagesKept
<1> QED
  BY <1>3, <1>5 DEF LedgerKept

\* An update that writes what is there.
LEMMA SameValue ==
  ASSUME NEW S, NEW f, f = [x \in S |-> f[x]], NEW e \in S, NEW v, v = f[e]
  PROVE  [f EXCEPT ![e] = v] = f
  OBVIOUS

\* begin_turn opens the message.
LEMMA LedgerOpens ==
  ASSUME CoreInv, CoreInv', NEW r \in Requests, NEW s \in Sessions, BeginTurn(r, s)
  PROVE  \E k \in ClientMessageIds :
           /\ LedgerOpen[s] = None /\ LedgerAnswered[<<s, k>>] = None
           /\ LedgerOpen' = [LedgerOpen EXCEPT ![s] = k]
           /\ LedgerPerformed' = LedgerPerformed /\ LedgerAnswered' = LedgerAnswered
<1>1. request[r].key \in ClientMessageIds
  BY DEF CoreInv, TypeOK, HandlerInv, BeginTurn, RequestRows
<1> PICK k \in ClientMessageIds : k = request[r].key
  BY <1>1
<1>2. /\ turns[r] = None /\ turns'[r] # None /\ turns'[r].status = "processing"
      /\ turns'[r].session = s /\ turns'[r].key = k
      /\ executions'[r] = 0 /\ OnlyTouches(r)
  BY BegunTurn
<1>3. /\ sessions[s] = None \/ sessions[s].active = None
      /\ sessions'[s] # None /\ sessions'[s].active = r
      /\ \A z \in Sessions \ {s} : sessions'[z] = sessions[z]
  BY BegunSession
<1>4. \A t \in Requests : ~OfMessage(t, s, k)
  <2>1. sessions[s] = None \/ TurnsFor(s, k) = {}
    BY DEF BeginTurn, Admits
  <2> QED
    BY <2>1 DEF CoreInv, LockInv, TurnsFor, OfMessage
<1>5. ExecutionsFor(s, k) = 0 /\ AnswerFor(s, k) = None
  BY <1>4, LedgerSees DEF Seen
<1>6. <<s, k>> \in Sessions \X ClientMessageIds
  OBVIOUS
<1>7. LedgerPerformed[<<s, k>>] = 0 /\ LedgerAnswered[<<s, k>>] = None
  BY <1>5, <1>6 DEF LedgerPerformed, LedgerAnswered
<1>8. OfMessage(r, s, k)' /\ Said(r)' = None
  BY <1>2 DEF OfMessage, Said, Settled, BeginTurn
<1>9. /\ LedgerPerformed' = [LedgerPerformed EXCEPT ![<<s, k>>] = 0]
      /\ LedgerAnswered' = [LedgerAnswered EXCEPT ![<<s, k>>] = None]
  <2>1. OnlyTouches(r) /\ (turns[r] # None => OfMessage(r, s, k))
    BY <1>2
  <2>2. /\ LedgerPerformed' = [LedgerPerformed EXCEPT ![<<s, k>>] = executions'[r]]
        /\ LedgerAnswered' = [LedgerAnswered EXCEPT ![<<s, k>>] = Said(r)']
    BY <1>8, <2>1, MessageOfTurn
  <2> QED
    BY <1>2, <1>8, <2>2
<1>10. LedgerPerformed' = LedgerPerformed /\ LedgerAnswered' = LedgerAnswered
  <2>1. /\ LedgerPerformed = [m \in Sessions \X ClientMessageIds |-> LedgerPerformed[m]]
        /\ LedgerAnswered = [m \in Sessions \X ClientMessageIds |-> LedgerAnswered[m]]
    BY DEF LedgerPerformed, LedgerAnswered
  <2> QED
    BY <1>6, <1>7, <1>9, <2>1, SameValue
<1>11. LedgerOpen[s] = None
  BY <1>3 DEF LedgerOpen, Opened
<1>12. LedgerOpen' = [LedgerOpen EXCEPT ![s] = k]
  <2>1. Opened(s)' = k
    BY <1>2, <1>3, NoneAssumption DEF Opened
  <2>2. ASSUME NEW z \in Sessions \ {s}
        PROVE  Opened(z)' = Opened(z)
    <3>1. sessions[z] # None /\ sessions[z].active # None =>
            sessions[z].active \in Requests \ {r}
      BY <1>2 DEF CoreInv, TypeOK, TablesType, SessionRows, LockInv, Processing
    <3> QED
      BY <1>2, <1>3, <3>1 DEF Opened, OnlyTouches
  <2> QED
    BY <2>1, <2>2 DEF LedgerOpen
<1> QED
  BY <1>7, <1>10, <1>11, <1>12

\* The message of a turn that goes on is the one its session works on.
LEMMA OpenMessage ==
  ASSUME CoreInv, NEW r \in Requests, Processing(r)
  PROVE  /\ turns[r].session \in Sessions /\ turns[r].key \in ClientMessageIds
         /\ OfMessage(r, turns[r].session, turns[r].key)
         /\ LedgerOpen[turns[r].session] = turns[r].key
         /\ LedgerPerformed[<<turns[r].session, turns[r].key>>] = executions[r]
<1> DEFINE s == turns[r].session
           k == turns[r].key
<1>1. turns[r] \in TurnRows /\ s \in Sessions
  BY RowTyped DEF Processing
<1>2. k \in ClientMessageIds
  BY <1>1 DEF TurnRows
<1>3. OfMessage(r, s, k)
  BY DEF OfMessage, Processing
<1>4. sessions[s] # None /\ sessions[s].active = r
  BY DEF CoreInv, LockInv, Processing
<1>5. LedgerOpen[s] = k
  BY <1>1, <1>4, NoneAssumption DEF LedgerOpen, Opened
<1>6. ExecutionsFor(s, k) = executions[r]
  BY <1>1, <1>2, <1>3, LedgerSees DEF Seen
<1>7. <<s, k>> \in Sessions \X ClientMessageIds
  BY <1>1, <1>2
<1>8. LedgerPerformed[<<s, k>>] = executions[r]
  BY <1>6, <1>7 DEF LedgerPerformed
<1> QED
  BY <1>1, <1>2, <1>3, <1>5, <1>8


\* The execution of the intent performs the message.
LEMMA LedgerPerforms ==
  ASSUME CoreInv, CoreInv', NEW r \in Requests, NEW outcome \in Outcomes, Execute(r, outcome)
  PROVE  \E s \in Sessions, k \in ClientMessageIds :
           /\ LedgerOpen[s] = k /\ LedgerPerformed[<<s, k>>] = 0
           /\ LedgerPerformed' = [LedgerPerformed EXCEPT ![<<s, k>>] = 1]
           /\ LedgerOpen' = LedgerOpen /\ LedgerAnswered' = LedgerAnswered
<1>1. /\ pc[r] = "execute" /\ turns' = turns /\ sessions' = sessions
      /\ executions' = [executions EXCEPT ![r] = @ + 1]
  BY DEF Execute, tables
<1>2. Processing(r) /\ executions[r] = 0
  BY <1>1 DEF CoreInv, HandlerInv, ExecutionInv, BeforeExecution, InTurn, Running, Labels
<1>3. executions'[r] = 1 /\ OnlyTouches(r)
  BY <1>1, <1>2 DEF Execute, CoreInv, TypeOK, OnlyTouches, Goto
<1> PICK s \in Sessions, k \in ClientMessageIds : s = turns[r].session /\ k = turns[r].key
  BY <1>2, OpenMessage
<1>4. OfMessage(r, s, k) /\ LedgerOpen[s] = k /\ LedgerPerformed[<<s, k>>] = 0
  BY <1>2, OpenMessage
<1>5. OfMessage(r, s, k)'
  BY <1>1, <1>4 DEF OfMessage
<1>6. LedgerOpen' = LedgerOpen
  BY <1>1, OpenKept
<1>7. Said(r)' = None
  BY <1>1, <1>2 DEF Said, Settled, Processing
<1>8. AnswerFor(s, k) = None
  BY <1>2, <1>4, LedgerSees DEF Seen, Said, Settled, Processing
<1>9. /\ LedgerPerformed' = [LedgerPerformed EXCEPT ![<<s, k>>] = executions'[r]]
      /\ LedgerAnswered' = [LedgerAnswered EXCEPT ![<<s, k>>] = Said(r)']
  BY <1>3, <1>4, <1>5, MessageOfTurn
<1>10. LedgerAnswered' = LedgerAnswered
  <2>1. <<s, k>> \in Sessions \X ClientMessageIds
    OBVIOUS
  <2>2. LedgerAnswered = [m \in Sessions \X ClientMessageIds |-> LedgerAnswered[m]]
    BY DEF LedgerAnswered
  <2>3. LedgerAnswered[<<s, k>>] = None
    BY <1>8, <2>1 DEF LedgerAnswered
  <2> QED
    BY <1>7, <1>9, <2>1, <2>2, <2>3, SameValue
<1> QED
  BY <1>3, <1>4, <1>6, <1>9, <1>10

\* complete_turn answers the message and closes it.
LEMMA LedgerAnswers ==
  ASSUME CoreInv, CoreInv', RecordInv', NEW r \in Requests, Complete(r), Processing(r)
  PROVE  \E s \in Sessions, k \in ClientMessageIds :
           \E a \in [status : ConversationStatuses, result : Outcomes \cup {None}] :
             /\ LedgerOpen[s] = k
             /\ LedgerOpen' = [LedgerOpen EXCEPT ![s] = None]
             /\ LedgerPerformed' = LedgerPerformed
             /\ (a.result # None) <=> (LedgerPerformed[<<s, k>>] = 1)
             /\ LedgerAnswered' = [LedgerAnswered EXCEPT ![<<s, k>>] = a]
<1> PICK s \in Sessions, k \in ClientMessageIds : s = turns[r].session /\ k = turns[r].key
  BY OpenMessage
<1> DEFINE row == [turns[r] EXCEPT !.status = draft[r].status, !.response = draft[r]]
           new == [sessions[s] EXCEPT !.active = None]
<1>1. turns[r] \in TurnRows /\ s \in Sessions /\ pc[r] = "complete"
  BY RowTyped DEF Processing, Complete
<1>2. draft[r] \in Responses /\ draft[r].status \in ConversationStatuses
  BY <1>1 DEF CoreInv, TypeOK, HandlerInv, Responses
<1>3. turns' = [turns EXCEPT ![r] = row]
  BY DEF Complete, SettleTurn, CoreInv, TypeOK, TablesType
<1>4. row \in TurnRows /\ row.session = s /\ row.key = k /\ row.status = draft[r].status
  BY <1>1, <1>2 DEF TurnRows
<1>5. /\ turns'[r] # None /\ turns'[r].session = s /\ turns'[r].key = k
      /\ turns'[r].status # "processing" /\ turns'[r] \in TurnRows
  <2>1. turns'[r] = row
    BY <1>3 DEF CoreInv, TypeOK, TablesType
  <2> HIDE DEF row
  <2> QED
    BY <1>2, <1>4, <2>1, NoneAssumption DEF ConversationStatuses
<1>6. executions' = executions
  BY DEF Complete
<1>7. OnlyTouches(r)
  BY <1>3 DEF CoreInv, TypeOK, TablesType, Complete, Reply, Goto, OnlyTouches
<1>8. /\ OfMessage(r, s, k)
      /\ LedgerOpen[s] = k /\ LedgerPerformed[<<s, k>>] = executions[r]
  BY OpenMessage
<1>9. OfMessage(r, s, k)' /\ Settled(r)'
  BY <1>5 DEF OfMessage, Settled
<1>10. sessions[s] \in SessionRows /\ sessions[s].active = r /\ sessions[s] # None
  BY <1>1 DEF CoreInv, TypeOK, TablesType, LockInv, Processing
<1>11. /\ sessions'[s] # None /\ sessions'[s].active = None
       /\ \A z \in Sessions \ {s} : sessions'[z] = sessions[z]
  <2>1. sessions' = [sessions EXCEPT ![s] = new]
    BY <1>10 DEF Complete, SettleTurn
  <2>2. new \in SessionRows /\ new.active = None
    BY <1>10 DEF SessionRows
  <2> QED
    BY <1>1, <2>1, <2>2, NoneAssumption DEF CoreInv, TypeOK, TablesType
<1>12. LedgerOpen' = [LedgerOpen EXCEPT ![s] = None]
  <2>1. Opened(s)' = None
    BY <1>11 DEF Opened
  <2>2. ASSUME NEW z \in Sessions \ {s}
        PROVE  Opened(z)' = Opened(z)
    <3>1. sessions[z] # None /\ sessions[z].active # None =>
            sessions[z].active \in Requests \ {r}
      BY DEF CoreInv, TypeOK, TablesType, SessionRows, LockInv, Processing
    <3> QED
      BY <1>7, <1>11, <3>1 DEF Opened, OnlyTouches
  <2> QED
    BY <1>1, <2>1, <2>2 DEF LedgerOpen
<1> DEFINE a == Said(r)'
<1>13. /\ a \in [status : ConversationStatuses, result : Outcomes \cup {None}]
       /\ (a.result # None) <=> (executions'[r] = 1)
  <2>1. /\ turns'[r].response # None
        /\ turns'[r].response.result = turns'[r].result
        /\ (turns'[r].result # None) <=> (executions'[r] = 1)
    BY <1>9 DEF RecordInv, Recorded, Agrees, Settled
  <2>2. turns'[r].response \in Responses /\ turns'[r].result \in Outcomes \cup {None}
    BY <1>5, <2>1 DEF TurnRows
  <2>3. a = [status |-> turns'[r].response.status, result |-> turns'[r].response.result]
    BY <1>9 DEF Said
  <2> QED
    BY <2>1, <2>2, <2>3 DEF Responses
<1> HIDE DEF a
<1>14. /\ LedgerPerformed' = [LedgerPerformed EXCEPT ![<<s, k>>] = executions'[r]]
       /\ LedgerAnswered' = [LedgerAnswered EXCEPT ![<<s, k>>] = a]
  BY <1>7, <1>8, <1>9, MessageOfTurn DEF a
<1>15. LedgerPerformed' = LedgerPerformed
  <2>1. <<s, k>> \in Sessions \X ClientMessageIds
    BY <1>1, <1>8
  <2>2. LedgerPerformed = [m \in Sessions \X ClientMessageIds |-> LedgerPerformed[m]]
    BY DEF LedgerPerformed
  <2> QED
    BY <1>6, <1>8, <1>14, <2>1, <2>2, SameValue
<1> QED
  BY <1>1, <1>6, <1>8, <1>12, <1>13, <1>14, <1>15

\* The steps that record the tool call and its result leave the ledger alone.
LEMMA LedgerRecords ==
  ASSUME CoreInv, CoreInv', NEW r \in Requests, RecordToolCall(r) \/ RecordToolResult(r)
  PROVE  LedgerKept
<1>1. Processing(r)
  BY DEF RecordToolCall, RecordToolResult, CoreInv, HandlerInv, InTurn, Running, Labels
<1>2. turns[r] \in TurnRows
  BY <1>1, RowTyped DEF Processing
<1>3. CASE RecordToolCall(r)
  <2> DEFINE row == [turns[r] EXCEPT !.called = TRUE]
  <2>1. /\ row \in TurnRows /\ row.session = turns[r].session /\ row.key = turns[r].key
        /\ row.status = turns[r].status
    BY <1>2 DEF TurnRows
  <2>2. turns' = [turns EXCEPT ![r] = row] /\ sessions' = sessions /\ executions' = executions
    BY <1>3 DEF RecordToolCall, RecordToolCallRow
  <2> HIDE DEF row
  <2> QED
    BY <1>1, <2>1, <2>2, LedgerRowNoted
<1>4. CASE RecordToolResult(r)
  <2> DEFINE row == [turns[r] EXCEPT !.result = result[r]]
  <2>1. result[r] \in Outcomes \cup {None}
    BY DEF CoreInv, TypeOK
  <2>2. /\ row \in TurnRows /\ row.session = turns[r].session /\ row.key = turns[r].key
        /\ row.status = turns[r].status
    BY <1>2, <2>1 DEF TurnRows
  <2>3. turns' = [turns EXCEPT ![r] = row] /\ sessions' = sessions /\ executions' = executions
    BY <1>4 DEF RecordToolResult, RecordToolResultRow
  <2> HIDE DEF row
  <2> QED
    BY <1>1, <2>2, <2>3, LedgerRowNoted
<1> QED
  BY <1>3, <1>4


\* No table holds a row: no message is open, performed or answered.
LEMMA LedgerInit == Init => Ledger!Init
<1> SUFFICES ASSUME Init
             PROVE  Ledger!Init
  OBVIOUS
<1>1. sessions = [s \in Sessions |-> None] /\ turns = [t \in Requests |-> None]
  BY DEF Init, TablesInit
<1>2. ASSUME NEW s \in Sessions, NEW k \in ClientMessageIds
      PROVE  ExecutionsFor(s, k) = 0 /\ AnswerFor(s, k) = None
  <2>1. TurnsFor(s, k) = {}
    BY <1>1 DEF TurnsFor
  <2> QED
    BY <2>1 DEF ExecutionsFor, AnswerFor
<1> QED
  BY <1>1, <1>2 DEF Ledger!Init

\* Every step is one of the ledger or leaves it alone.
LEMMA LedgerNext ==
  ASSUME IndInv, IndInv', [Next]_vars
  PROVE  Ledger!Next \/ LedgerKept
<1>1. CoreInv /\ CoreInv' /\ RecordInv'
  BY DEF IndInv
<1>2. ASSUME NEW r \in Requests, NEW s \in Sessions, BeginTurn(r, s)
      PROVE  Ledger!Next
  <2>1. PICK k \in ClientMessageIds :
           /\ LedgerOpen[s] = None /\ LedgerAnswered[<<s, k>>] = None
           /\ LedgerOpen' = [LedgerOpen EXCEPT ![s] = k]
           /\ LedgerPerformed' = LedgerPerformed /\ LedgerAnswered' = LedgerAnswered
    BY <1>1, <1>2, LedgerOpens
  <2>2. Ledger!Open(s, k)
    BY <2>1 DEF Ledger!Open, LedgerOpen, LedgerPerformed, LedgerAnswered, Opened
  <2> QED
    BY <2>2 DEF Ledger!Next
<1>3. ASSUME NEW r \in Requests, NEW outcome \in Outcomes, Execute(r, outcome)
      PROVE  Ledger!Next
  <2>1. PICK s \in Sessions, k \in ClientMessageIds :
           /\ LedgerOpen[s] = k /\ LedgerPerformed[<<s, k>>] = 0
           /\ LedgerPerformed' = [LedgerPerformed EXCEPT ![<<s, k>>] = 1]
           /\ LedgerOpen' = LedgerOpen /\ LedgerAnswered' = LedgerAnswered
    BY <1>1, <1>3, LedgerPerforms
  <2>2. Ledger!Perform(s, k)
    BY <2>1 DEF Ledger!Perform, LedgerOpen, LedgerPerformed, LedgerAnswered, Opened
  <2> QED
    BY <2>2 DEF Ledger!Next
<1>4. ASSUME NEW r \in Requests, Complete(r), Processing(r)
      PROVE  Ledger!Next
  <2>1. PICK s \in Sessions, k \in ClientMessageIds,
             a \in [status : ConversationStatuses, result : Outcomes \cup {None}] :
             /\ LedgerOpen[s] = k
             /\ LedgerOpen' = [LedgerOpen EXCEPT ![s] = None]
             /\ LedgerPerformed' = LedgerPerformed
             /\ (a.result # None) <=> (LedgerPerformed[<<s, k>>] = 1)
             /\ LedgerAnswered' = [LedgerAnswered EXCEPT ![<<s, k>>] = a]
    BY <1>1, <1>4, LedgerAnswers
  <2>2. Ledger!Answer(s, k)
    BY <2>1 DEF Ledger!Answer, Ledger!Answers, LedgerOpen, LedgerPerformed, LedgerAnswered,
                Opened
  <2> QED
    BY <2>2 DEF Ledger!Next
<1>5. ASSUME NEW r \in Requests, RecordToolCall(r) \/ RecordToolResult(r)
      PROVE  LedgerKept
  BY <1>1, <1>5, LedgerRecords
<1>6. ASSUME UNCHANGED tables, executions' = executions
      PROVE  LedgerKept
  BY <1>1, <1>6, LedgerUntouched
<1>7. ASSUME NEW r \in Requests, Step(r)
      PROVE  \/ UNCHANGED tables /\ executions' = executions
             \/ \E s \in Sessions : BeginTurn(r, s)
             \/ \E outcome \in Outcomes : Execute(r, outcome)
             \/ RecordToolCall(r) \/ RecordToolResult(r) \/ (Complete(r) /\ Processing(r))
  BY <1>7, SettingsAssumption
     DEF Step, BeginRefused, BeginReplays, ReadHistory, ProviderBeginFails,
         ProviderBegin, ProviderRepair, ProviderRender, Complete
<1>8. (UNCHANGED tables /\ executions' = executions) \/ \E r \in Requests : Step(r)
  BY DEF Next, Receive, HandlerAborts, ProcessDies, vars
<1> QED
  BY <1>2, <1>3, <1>4, <1>5, <1>6, <1>7, <1>8

\* The handlers over the SQLite tables, whatever the model answers and whichever of them
\* fail, implement the ledger: one message at a time in a session, at most one execution
\* of a message, and an answer that names an outcome iff there was one.
THEOREM ImplementsLedgerHolds == Spec => ImplementsLedger
<1>1. IndInv /\ IndInv' /\ [Next]_vars => [Ledger!Next]_(Ledger!ledger)
  <2>1. LedgerKept => UNCHANGED Ledger!ledger
    BY DEF LedgerKept, Ledger!ledger, LedgerOpen, LedgerPerformed, LedgerAnswered, Opened
  <2> QED
    BY <2>1, LedgerNext
<1> QED
  BY <1>1, LedgerInit, IndInvHolds, PTL DEF Spec, ImplementsLedger, Ledger!Spec
=============================================================================
