SPECIFICATION Spec
CONSTANTS
    Clients = {c1}
    Sessions = {s1}
    Ops = {"store", "supersede", "increment"}
    MaxCalls = 3
    MaxClock = 1
    MaxHops = 3
    Cooldown = 1
    Grace = 0
    Threshold = 2
    Expiries = {0}
    Faults = FALSE
CHECK_DEADLOCK FALSE
PROPERTY ArchivedStaysHidden
