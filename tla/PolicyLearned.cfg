\* One mouldy apple after the other, seen clearly, and one box named.
CONSTANTS
    Fruit = {"apple"}
    Object = {"hammer"}
    Unidentified = "unidentified_object"
    Sights <- Clear
    Box = {"discard_box"}
    Rules = {}
    Forced = {}
    Loss <- AllLoss
    Defaults <- NoDefaults
    Pooling = {FALSE}
    K1 = 1
    K2 = 1
    PseudoCount = 2
    MaxHold = 1
    MaxDecisions = 9
    MaxOrders = 0
SPECIFICATION Spec
PROPERTY LearnedIsExecuted
CHECK_DEADLOCK FALSE
