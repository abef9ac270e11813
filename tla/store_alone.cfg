SPECIFICATION Spec
CONSTANTS
    Clients = {c1}
    Sessions = {s1, s2}
    Ops = {"store", "supersede", "update", "retire", "forget", "mark", "purge_archived"}
    MaxCalls = 6
    MaxClock = 2
    MaxHops = 6
    Cooldown = 1
    Grace = 0
    Threshold = 2
    Expiries = {0}
    Faults = FALSE
SYMMETRY Symmetry
CHECK_DEADLOCK FALSE
INVARIANT OneVisibleVersion
PROPERTY ForgottenStaysForgotten
INVARIANT PromotedWhenEarned
PROPERTY ArchivedStaysHidden
