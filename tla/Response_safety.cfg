CONSTANTS
  Room = 2
  MaxUpdates = 2
SPECIFICATION Spec
INVARIANTS
  WireValid
  AnswersComplete
  ErrorsShow
  SessionSent
