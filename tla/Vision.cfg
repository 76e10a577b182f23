\* Two apples, one of them unknown to YOLO, and one thing besides of any kind.
CONSTANTS
    Apples = 2
    Known = {2}
    Confirm = 2
    EmptyReset = 2
    QueueSize = 1
    MaxDecisions = 2
    Verdicts = {"execute", "ask"}
    Faults = {"handled", "unnoticed", "reset", "away", "late"}
    MaxFaults = 1
SPECIFICATION Spec
INVARIANT TypeOK
INVARIANT BusyReportsForgotten
PROPERTY AsksOneAtATime
PROPERTY NeverStranded
CHECK_DEADLOCK FALSE
