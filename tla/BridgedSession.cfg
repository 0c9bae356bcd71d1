SPECIFICATION Spec
CONSTANTS
  Protocols = {"responses", "chat", "anthropic"}
  Limit = 8
  MaxTurns = 4
  Texts = {1, 2}
  Instructions = {1, 2}
  Models = {1}
  Strays = {"gone", "elsewhere"}
  Answers <- RichAnswers
  Habits <- PlainHabits
INVARIANTS
  AsksWhatWasMeant
  HistoryIsTheConversation
CHECK_DEADLOCK FALSE
