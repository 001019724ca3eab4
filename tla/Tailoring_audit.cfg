SPECIFICATION TailoringSpec
CONSTANTS
    Req = {r1, r2}
    Token = {k1}
    PoolSize = 2
    Put = {p1, p2}
    x1 = x1
    x2 = x2
    s1 = s1
    Text <- MCText
    Structure = {s1}
    Body <- MCBody
    NoStructure = NoStructure
    NoBase = NoBase
    NoAudit = NoAudit
    NoToken = NoToken
INVARIANTS TailoringTypeOK AuditTruthful ResumeWhole TailoredFromStored
PROPERTIES ResultNotMasked EveryoneEnds
