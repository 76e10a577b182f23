\* Two stops, a question or one use of the panels, a call that fails, one fault.
CONSTANTS
    Others = {}
    FaultKinds = {"block", "drop", "timeout", "unheard", "reset", "voice"}
    MaxFaults = 1
    MaxStops = 2
    MaxUses = 1
SPECIFICATION Spec
INVARIANT TypeOK
INVARIANT PauseShown
INVARIANT PopupFollows
PROPERTY WaitingEnds
CHECK_DEADLOCK FALSE
