\* Two questions, two attempts each, the wake-up word and the button once.
CONSTANTS
    Question = {q1, q2}
    None = None
    MaxWakes = 1
    MaxPushes = 1
    MaxTries = 2
    MaxFailures = 1
SPECIFICATION Spec
INVARIANT TypeOK
INVARIANT OneAwaited
PROPERTY CommandReturns
PROPERTY HearsAgain
CHECK_DEADLOCK FALSE
