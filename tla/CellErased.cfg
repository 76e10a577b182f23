\* Is a second EMERGENCY_STOP heard?
SPECIFICATION Spec
CONSTANTS
    Apple = {a1}
    NoApple = NoApple
    MaxPickAttempts = 2
    MaxDecisions = 1
    MaxManual = 0
    HwStops = "any"
    Faults = {}
PROPERTY NoWorkBeforeResume
