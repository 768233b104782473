SPECIFICATION FairSpec
CONSTANTS
    uploadThread = uploadThread
    statusThread = statusThread
    t1 = t1
    t2 = t2
    t3 = t3
    NoToken = NoToken
    Nobody = Nobody
    Callers <- MCCallers
    Reporter = statusThread
    Tokens <- MCTokens
    Grants <- MCGrants
    MaxRestarts = 2
INVARIANTS
    TypeOK
    SecretIsCurrent
    NeverOverdrawn
PROPERTIES
    SessionRecovers
