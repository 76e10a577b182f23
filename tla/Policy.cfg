\* Three decisions, two orders, deletions or restarts.
CONSTANTS
    Fruit = {"apple"}
    Object = {"hammer"}
    Unidentified = "unidentified_object"
    Sights <- AllSights
    Box = {"normal_box", "discard_box"}
    Rules <- AllRules
    Forced = {"normal_box"}
    Loss <- AllLoss
    Defaults <- AllDefaults
    Pooling = {TRUE, FALSE}
    K1 = 1
    K2 = 1
    PseudoCount = 2
    MaxHold = 1
    MaxDecisions = 3
    MaxOrders = 2
SPECIFICATION Spec
INVARIANT TypeOK
INVARIANT Balanced
INVARIANT NoBacklog
 
INVARIANT ReplayReproduces
CHECK_DEADLOCK FALSE
