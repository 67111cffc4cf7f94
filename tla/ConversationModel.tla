-------------------------- MODULE ConversationModel --------------------------
(***************************************************************************)
(* The vocabulary of a conversation turn and the pure decisions that        *)
(* app/conversation/service.py takes about it: how an execution outcome is   *)
(* reported, when a sentence of the language model may be shown to the       *)
(* user, and which fixed sentence replaces it.                               *)
(*                                                                         *)
(* Wording is abstracted to what the decisions look at.  A text of the      *)
(* model is "plain", "claims" (it matches _ACTION_SUCCESS: done, created,    *)
(* saved, ...) or "unusable" (absent, blank or over the length limit).       *)
(***************************************************************************)

CONSTANT None       \* SQL NULL, Python's None

-----------------------------------------------------------------------------
(* What the provider sends back: a text and requests for tools.            *)

Texts == {"plain", "claims", "unusable"}

\* "none", "many", or exactly one call: of a tool that is not registered, with
\* arguments that fail validation, or with arguments that map to an intent.
Calls == {"none", "many", "unknown", "invalid", "valid"}

ModelTurns == [text : Texts, calls : Calls]

-----------------------------------------------------------------------------
(* What Beacon's deterministic core did for one structured intent.         *)

Outcomes == {"applied",         \* a task, event or context record was written
             "answered",        \* a brief or a context query: nothing to write
             "declined",        \* a context mutation that changed nothing:
                                \* CONFLICT, AMBIGUOUS or NOT_FOUND
             "clarification",   \* a question back to the user (PENDING)
             "batch_complete", "batch_partial", "batch_failed",
             "exception"}       \* execute_structured_intent raised

\* The "status" of the authoritative result.  Only a calendar batch, a PENDING
\* and a FAILED action are looked at: every other response is "completed".
ResultStatus(outcome) ==
  CASE outcome = "batch_complete"              -> "complete"
    [] outcome = "batch_partial"               -> "partial"
    [] outcome \in {"batch_failed", "exception"} -> "failed"
    [] outcome = "clarification"               -> "clarification_required"
    [] OTHER                                   -> "completed"

ConversationStatuses ==
  {"completed", "clarification_required", "partial", "failed",
   "provider_unavailable", "invalid_tool_call", "unsupported_tool",
   "safety_rejected"}

ConversationStatus(outcome) ==
  LET value == ResultStatus(outcome)
  IN  CASE value \in {"completed", "complete"} -> "completed"
        [] value \in {"clarification_required", "partial"} -> value
        [] OTHER -> "failed"

-----------------------------------------------------------------------------
(* What the user gets to read.                                             *)

Fallbacks == {"created_n", "partially_completed", "more_information",
              "not_completed"}

Replies == Texts \cup Fallbacks \cup {"error_message"}

\* The deterministic sentence used when the model's rendering is not.
Fallback(outcome) ==
  CASE ResultStatus(outcome) = "complete"               -> "created_n"
    [] ResultStatus(outcome) = "partial"                -> "partially_completed"
    [] ResultStatus(outcome) = "clarification_required" -> "more_information"
    [] OTHER                                            -> "not_completed"

\* Fault: the success words are not looked for.
ClaimingReplyAccepted(turn) == turn.text # "unusable"

\* A reply without a tool call is shown only if it claims no success.
DirectReplyAccepted(turn) == turn.text = "plain"

\* A rendering is shown only if it asks for no further tool, and claims
\* success only of a result that is COMPLETED.
RenderAccepted(turn, status) ==
  /\ turn.calls = "none"
  /\ turn.text # "unusable"
  /\ turn.text = "claims" => status = "completed"
=============================================================================
