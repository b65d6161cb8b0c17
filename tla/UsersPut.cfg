SPECIFICATION UsersSpec
CONSTANTS
  UserForms = {"day 3"}
  Clients = {c1, c2}
  Names = {"Ada", "Mamun"}
  MaxUsers = 3
  MaxUserCalls = 4
INVARIANT PutReturnsUpdated
CHECK_DEADLOCK FALSE
