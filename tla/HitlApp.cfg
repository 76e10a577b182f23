\* The class in the program: no question while one is open, resets at any time; a fair event loop.
SPECIFICATION FairSpec
CONSTANTS
    Request = {r1, r2}
    NoRequest = NoRequest
    MaxAttempts = 2
    AskWhileBusy = FALSE
    ResetWhen = "any"
INVARIANT CurrentIsDriven
PROPERTY StuckKeepsCurrent
PROPERTY EndedByItsTask
PROPERTY HoldEnds
PROPERTY TasksEnd
\* once every request is settled nothing is left to do
CHECK_DEADLOCK FALSE
