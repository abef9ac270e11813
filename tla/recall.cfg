SPECIFICATION Spec
CONSTANTS
    r1 = r1
    r2 = r2
    s1 = s1
    s2 = s2
    Readers <- BothReaders
    Memories = {1, 2, 3}
    Sessions = {s1, s2}
    Settings <- AllSettings
    EvalEvery = 2
    WorkingAccess = 1
    CoreAccess = 2
    AnchorLimit = 1
INVARIANT RightlyInjected
INVARIANT FramingKept
INVARIANT RefusalIsFinal
INVARIANT EvalsOnTime
