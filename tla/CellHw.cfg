\* With the controller's own stops, except during a recovery; a lift may fail,
\* and queries of the controller's state.
SPECIFICATION FairSpec
CONSTANTS
    Apple = {a1}
    NoApple = NoApple
    MaxPickAttempts = 2
    MaxDecisions = 1
    MaxManual = 0
    HwStops = "work"
    Faults = {"arm", "query"}
INVARIANT HandsEmpty
PROPERTY ReleasedInPlace
PROPERTY StopAnswered
PROPERTY PutDown
