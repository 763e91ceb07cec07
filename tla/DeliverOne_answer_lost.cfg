\* A connection lost between a COMMIT and its answer.
SPECIFICATION Spec
CONSTANTS
  MaxAttempts = 2  Tokens = {1, 2}  NoToken = 0
  Hooked = FALSE  Listening = FALSE  Nested = FALSE  AnswerLost = TRUE
INVARIANTS NoDuplicate
