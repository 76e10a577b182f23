\* With manual commands and everything that may fail.
SPECIFICATION Spec
CONSTANTS
    Apple = {a1}
    NoApple = NoApple
    MaxPickAttempts = 2
    MaxDecisions = 1
    MaxManual = 1
    HwStops = "never"
    Faults = {"gripper", "sensor", "arm"}
INVARIANT TypeOK
PROPERTY NoWorkBeforeResume
