SPECIFICATION Spec
CONSTANTS
  None = None
  Sessions = {s1, s2}
  ClientMessageIds = {k1, k2}
  Contents = {c1, c2}
  Requests = {r1, r2, r3}
  MaxProviderRetries = 0
  MaxRepairs = 0
  MaxToolRounds = 2
  HistoryLimit = 3
  OverlongContents = {}
  ProviderTurns <- ActOrTalk
  CoreOutcomes = {"applied"}
  MaxFailures = 1
SYMMETRY Symmetry
INVARIANTS IndInv SessionLock AtMostOnce TranscriptInOrder PromptIsSettled AnswersAgree
PROPERTIES ImplementsLedger
CHECK_DEADLOCK FALSE
