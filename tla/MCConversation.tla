---------------------------- MODULE MCConversation ----------------------------
(***************************************************************************)
(* Model checking of Conversation on a small instance.                     *)
(***************************************************************************)
EXTENDS Conversation, TLC

Symmetry == Permutations(Requests) \cup Permutations(Sessions)
              \cup Permutations(ClientMessageIds)

\* The turns that tell the control flow apart, and no more.
FewTurns == {[text |-> "plain", calls |-> "none"], [text |-> "claims", calls |-> "none"],
             [text |-> "unusable", calls |-> "invalid"],
             [text |-> "unusable", calls |-> "valid"]}

\* A turn that acts, or a plain answer: for the interleavings of many requests.
ActOrTalk == {[text |-> "plain", calls |-> "none"],
              [text |-> "unusable", calls |-> "valid"]}
=============================================================================
