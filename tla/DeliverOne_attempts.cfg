\* Runs of one row, by claim and by hand, among other workers and an operator.
SPECIFICATION Spec
CONSTANTS
  MaxAttempts = 2  Tokens = {1, 2, 3}  NoToken = 0
  Hooked = TRUE  Listening = TRUE  Nested = TRUE  AnswerLost = FALSE
INVARIANTS IInv FailureIsTold
PROPERTIES ImplementsObligation
