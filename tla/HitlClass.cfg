\* The class by itself, used as its documentation says.
SPECIFICATION Spec
CONSTANTS
    Request = {r1, r2, r3}
    NoRequest = NoRequest
    MaxAttempts = 2
    AskWhileBusy = TRUE
    ResetWhen = "stuck"
INVARIANT TypeOK
INVARIANT ServedInOrder
INVARIANT AtMostOneDecision
INVARIANT AnswerForSession
INVARIANT NeverDropped
PROPERTY KeepsPromise
SYMMETRY Symmetry
\* once every request is settled nothing is left to do
CHECK_DEADLOCK FALSE
