SPECIFICATION Spec
CONSTANTS
  None = None
  Ids <- TwoIds
  Models = {"m", "n"}
  Accounts = {"first", "second"}
  Registered = {"first"}
  Known = {"c"}
  Told <- Reports
  Wished <- Entries
  Official <- OneOfficial
  OfficialLists <- TwoLists
  Budgets <- RefreshThrice
INVARIANT OnlyTheUserConfirms
CHECK_DEADLOCK FALSE
