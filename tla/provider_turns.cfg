SPECIFICATION FairSpec
CONSTANTS
    h1 = h1
    h2 = h2
    Hosts <- BothHosts
    Sessions = {s1, s2}
    MaxCalls = 7
    Settings <- AllSettings
INVARIANT WritesOrdered
 
INVARIANT EndIsBarrier
INVARIANT CreditSound
PROPERTY CallsReturn
