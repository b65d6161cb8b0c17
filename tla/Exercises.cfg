SPECIFICATION Spec
CONSTANTS
  Items = 4
  Squarers = {s1, s2, s3}
  Urls = {good, slow, bad}
  BadUrl = bad
  Jobs = {j1, j2, j3, j4}
  Limit = 3
  Goroutines = {g1, g2, g3}
  Each = 2
  Workers = {w1, w2, w3}
  PoolJobs = 4
  Costs <- SmallAndHuge
  Budget = 3
  UserForms = {"day 3", "day 6"}
  Clients = {c1, c2}
  Names = {"Ada", "Mamun"}
  MaxUsers = 3
  MaxUserCalls = 5
  Titles = {"buy milk", "run"}
  Searches = {"milk"}
  Matching <- OneMatches
  MaxTodoCalls = 6
  Callers = {c1, c2}
  Spellings = {"a@x", "A@x", "b@x"}
  Lower <- LowerCase
  Passwords = {"pw", "full", "longer"}
  TooLong = {"longer"}
  First72 <- PasswordPrefix
  MaxAccountCalls = 3
INVARIANTS ResultsAreRight Interchangeable
PROPERTIES DeliversStream ExercisesEnd
CHECK_DEADLOCK FALSE
