SPECIFICATION Spec
CONSTANTS
  None = None
  Sessions = {s1, s2}
  ClientMessageIds = {k1, k2}
  Contents = {c1, c2}
  Requests = {r1, r2}
  MaxProviderRetries = 1
  MaxRepairs = 1
  MaxToolRounds = 2
  HistoryLimit = 4
  OverlongContents = {c2}
  ProviderTurns <- ModelTurns
  CoreOutcomes <- Outcomes
  MaxFailures = 1
SYMMETRY Symmetry
INVARIANTS RowTellsExecution ClaimsAreBacked
PROPERTIES SettledTurnsAreFinal
CHECK_DEADLOCK FALSE
