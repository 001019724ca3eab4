SPECIFICATION FairSpec
CONSTANTS
    Req = {r1, r2}
    u1 = u1
    u2 = u2
    t1 = t1
    t2 = t2
    User = {u1, u2}
    Token <- MCToken
    NoToken = NoToken
    SeedTokens <- MCSeed
INVARIANT RevokedForGood
PROPERTY EveryRequestEnds
