\* Two pages, one of them with two questions in turn: enough for a history that
\* is trimmed in the middle of an exchange and goes on after that.
SPECIFICATION FairSpec
CONSTANTS
  s1 = s1
  s2 = s2
  r1 = r1
  r2 = r2
  r3 = r3
  Session = {s1, s2}
  Request = {r1, r2, r3}
  SessionOf <- TwoPages
  MaxToolRounds = 1
  MaxMessages = 4
  MaxTools = 1
  MaxEvents = 1
  OnePerSession = TRUE
INVARIANTS
  AsksItsOwnQuestion
  HistoriesAreWhole
PROPERTIES
  ImplementsHistory
  RequestsEnd
\* All questions have been asked.
CHECK_DEADLOCK FALSE
