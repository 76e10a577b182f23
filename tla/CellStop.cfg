\* The cycle with stops, resumes and pauses at any moment; two apples.
SPECIFICATION Spec
CONSTANTS
    Apple = {a1, a2}
    NoApple = NoApple
    MaxPickAttempts = 2
    MaxDecisions = 2
    MaxManual = 0
    HwStops = "never"
    Faults = {}
INVARIANT HeldIsTracked
INVARIANT HandsEmpty
INVARIANT MeasuredAtCamera
PROPERTY ReleasedInPlace
PROPERTY ReadyAtCamera
SYMMETRY Symmetry
