SPECIFICATION FairStartSpec
CONSTANTS
    Writers = {w1, w2, w3}
    Every = 2
    MaxWrites = 7
    MaxStores = 2
INVARIANT ElectionsExact
INVARIANT SingleFlight
INVARIANT BacklogBounded
INVARIANT StartOnce
PROPERTY RunLockFreed
