SPECIFICATION Spec
CONSTANTS
    Clients = {c1, c2}
    Sessions = {s1, s2}
    Ops = {"store", "supersede", "update", "forget", "increment", "mark", "purge_archived", "purge_expired"}
    MaxCalls = 4
    MaxClock = 2
    MaxHops = 4
    Cooldown = 1
    Grace = 0
    Threshold = 2
    Expiries = {0, 1}
    Faults = TRUE
SYMMETRY Symmetry
CHECK_DEADLOCK FALSE
INVARIANT ChainsForward
INVARIANT NewestSurvives
INVARIANT CallersReachLive
INVARIANT OneCountPerCooldown
INVARIANT PromotionEarned
PROPERTY ImplementsPromise
