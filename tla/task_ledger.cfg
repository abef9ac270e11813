SPECIFICATION Spec
CONSTANTS
    Clients = {c1, c2}
    Tasks = {t1}
    Ops = {"create", "advance", "complete", "hold", "unhold", "pin", "gc"}
    MaxCalls = 5
    MaxClock = 3
    Retention = 1
    Grace = 1
    Modes = {"archive", "delete"}
CHECK_DEADLOCK FALSE
INVARIANT ProgressKept
INVARIANT NoResultLost
INVARIANT RunningNeverTouched
INVARIANT PinsResolve
