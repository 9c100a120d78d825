SPECIFICATION Spec
CONSTANTS
    Messages = {m1, m2}
    Kind = "gmail"
    Modes = {"scheduled", "continuous", "rescan"}
    QueueSize = 1
    AckSize = 1
    BatchSize = 2
    Margin = 1
    MaxScan = 1
    MaxTime = 2
    MaxFaults = 1
    MaxStops = 1
    MaxClears = 0
SYMMETRY Symmetry
CHECK_DEADLOCK FALSE
INVARIANTS ProcessedArePersisted NoMailSkipped
PROPERTIES ImplementsDelivery FailedReadsStayVisible
