SPECIFICATION Spec
CONSTANTS
  None = None
  Sessions = {s1, s2}
  ClientMessageIds = {k1}
  Contents = {c1}
  Requests = {r1}
  MaxProviderRetries = 1
  MaxRepairs = 1
  MaxToolRounds = 2
  HistoryLimit = 4
  OverlongContents = {}
  ProviderTurns <- ModelTurns
  CoreOutcomes <- Outcomes
  MaxFailures = 0
INVARIANT FallbackDoesNotDenyAction
CHECK_DEADLOCK FALSE
