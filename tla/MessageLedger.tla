---------------------------- MODULE MessageLedger ----------------------------
(***************************************************************************)
(* What the conversation endpoint promises, without handlers, transcripts or *)
(* a language model.  A session works on at most one client message at a     *)
(* time.  A message is performed at most once.  Its answer is given once,     *)
(* never changes, and names an outcome exactly when the message was          *)
(* performed.  A message whose handling was cut off stays open, and with it   *)
(* its session: it is never performed again.                               *)
(***************************************************************************)
EXTENDS Naturals

CONSTANTS Sessions, Keys, Statuses, Outcomes, None

VARIABLES open,       \* the message a session is working on
          performed,  \* how often the intent of a message was executed
          answered    \* the answer a message has got

ledger == <<open, performed, answered>>

Answers == [status : Statuses, result : Outcomes \cup {None}]

TypeOK ==
  /\ open \in [Sessions -> Keys \cup {None}]
  /\ performed \in [Sessions \X Keys -> 0..1]
  /\ answered \in [Sessions \X Keys -> Answers \cup {None}]

Init ==
  /\ open = [s \in Sessions |-> None]
  /\ performed = [m \in Sessions \X Keys |-> 0]
  /\ answered = [m \in Sessions \X Keys |-> None]

Open(s, k) ==
  /\ open[s] = None
  /\ answered[<<s, k>>] = None
  /\ open' = [open EXCEPT ![s] = k]
  /\ UNCHANGED <<performed, answered>>

Perform(s, k) ==
  /\ open[s] = k
  /\ performed[<<s, k>>] = 0
  /\ performed' = [performed EXCEPT ![<<s, k>>] = 1]
  /\ UNCHANGED <<open, answered>>

Answer(s, k) ==
  /\ open[s] = k
  /\ open' = [open EXCEPT ![s] = None]
  /\ UNCHANGED performed
  /\ \E a \in Answers :
       /\ (a.result # None) <=> (performed[<<s, k>>] = 1)
       /\ answered' = [answered EXCEPT ![<<s, k>>] = a]

Next ==
  \E s \in Sessions, k \in Keys :
    \/ Open(s, k)
    \/ Perform(s, k)
    \/ Answer(s, k)

Spec == Init /\ [][Next]_ledger
=============================================================================
