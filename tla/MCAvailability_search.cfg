SPECIFICATION FairSpec
CONSTANTS
  Requests <- AllRequests
  Calendars <- AllCalendars
  Minutes <- AllMinutes
INVARIANTS IndInv CandidatesAreFirstFits EveryGapIsOffered NothingDoubleBooked EarlierPreferred
PROPERTIES Terminates
CHECK_DEADLOCK FALSE
