SPECIFICATION FairSpec
CONSTANTS
  None = None
  Sessions = {s1, s2}
  ClientMessageIds = {k1}
  Contents = {c1}
  Requests = {r1, r2}
  MaxProviderRetries = 1
  MaxRepairs = 1
  MaxToolRounds = 2
  HistoryLimit = 4
  OverlongContents = {}
  ProviderTurns <- FewTurns
  CoreOutcomes = {"applied", "exception"}
  MaxFailures = 0
PROPERTIES EveryRequestAnswered SessionsAreReleased
CHECK_DEADLOCK FALSE
