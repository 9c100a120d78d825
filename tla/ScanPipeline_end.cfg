SPECIFICATION FairSpec
CONSTANTS
    Messages = {m1, m2}
    Kind = "thunderbird"
    Modes = {"scheduled", "continuous"}
    QueueSize = 1
    AckSize = 1
    BatchSize = 2
    Margin = 0
    MaxScan = 1
    MaxTime = 0
    MaxFaults = 1
    MaxStops = 1
    MaxClears = 1
CHECK_DEADLOCK FALSE
PROPERTIES RunsEnd
