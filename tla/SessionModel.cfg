SPECIFICATION Spec
CONSTANTS
  Protocols = {"responses"}
  Limit = 6
  MaxTurns = 3
  Texts = {1, 2}
  Instructions = {1}
  Models = {1, 2}
  Strays = {}
  Answers <- PlainAnswers
  Habits <- NoHabits
INVARIANTS
  AnswersTheModelAsked
CHECK_DEADLOCK FALSE
