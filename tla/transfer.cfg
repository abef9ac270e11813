SPECIFICATION Spec
CONSTANTS
    Stores = {"here", "there"}
    Texts = {"t1", "t2"}
    Seeds = {"seed"}
    InitFetch = 2
    MaxRows = 5
    KeepVersions = 3
    NoFile = {nothing}
    Settings <- AllSettings
CHECK_DEADLOCK FALSE
INVARIANT ExportHonest
INVARIANT RestoreExact
INVARIANT InitSpares
