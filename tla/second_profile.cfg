\* A search that fetches three rows and returns one; five versions of a profile.
SPECIFICATION CurationSpec
CONSTANTS
    f1 = f1
    f2 = f2
    Facts <- OneFact
    Extractions <- Turns1
    Settings <- ProfileOnly
    MaxCands = 1
    MaxRows = 5
    MaxTurns = 5
    MaxRuns = 0
    SearchLimit = 1
    Overfetch = 3
    MinCluster = 2
INVARIANT OneProfile
CHECK_DEADLOCK FALSE
