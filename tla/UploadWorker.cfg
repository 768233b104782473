SPECIFICATION UFairSpec
CONSTANTS
    Events <- MCEvents
    Poison <- MCPoison
    MaxFaults = 1
    t1 = t1
    t2 = t2
    NoToken = NoToken
    Nobody = Nobody
    Tokens <- MCTokens
    Grants <- MCGrants
    MaxRestarts = 1
INVARIANTS
    TypeOK
    OutcomesAreTrue
    DuplicatesNeedFaults
PROPERTIES
    Implements
    EventuallySettled
