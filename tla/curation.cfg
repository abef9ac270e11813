\* Two turns of at most two candidates, a compaction, at most five memories.
SPECIFICATION CurationSpec
CONSTANTS
    f1 = f1
    f2 = f2
    Facts <- TwoFacts
    Extractions <- Turns2
    Settings <- AllSettings
    MaxCands = 2
    MaxRows = 5
    MaxTurns = 2
    MaxRuns = 1
    SearchLimit = 5
    Overfetch = 3
    MinCluster = 2
CHECK_DEADLOCK FALSE
INVARIANT CurationSound
