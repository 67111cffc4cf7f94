SPECIFICATION Spec
CONSTANTS
  Requests <- AllRequests
  Calendars <- AllCalendars
  Minutes <- AllMinutes
INVARIANT BuffersAreKept
CHECK_DEADLOCK FALSE
