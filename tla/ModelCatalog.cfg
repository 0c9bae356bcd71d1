SPECIFICATION Spec
CONSTANTS
  None = None
  Ids <- TwoIds
  Models = {"m", "n"}
  Accounts = {"first", "second"}
  Registered = {"first"}
  Known = {"c"}
  Told <- Reports
  Wished <- Entries
  Official <- OneOfficial
  OfficialLists <- TwoLists
  Budgets <- Some
INVARIANTS
  SourcesAreHonest
  RoutedAsChosen
  AnsweredAsListed
PROPERTIES
  SessionsHold
CHECK_DEADLOCK FALSE
