CONSTANTS
  Answers <- MCAnswers
SPECIFICATION Spec
CHECK_DEADLOCK FALSE
INVARIANTS
  BodyIsDelivered
  CompleteIsWhole
PROPERTIES
  AnswersEnd
  MakesOneExchange
