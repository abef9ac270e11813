SPECIFICATION Spec
CONSTANTS
    Agents = {"main", "sub"}
    Lines = {l1}
    Settings <- AllSettings
CHECK_DEADLOCK FALSE
INVARIANT ToldRightly
INVARIANT FreshBlock
INVARIANT RecordHonest
INVARIANT SummarySound
