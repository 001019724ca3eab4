SPECIFICATION SessionsSpec
CONSTANTS
    Token = {t1, t2}
    Email = {e1}
    Req = {r1, r2}
    TTL = 1
    MaxTime = 2
    NoLink = NoLink
    NoUser = NoUser
    dev = dev
    k1 = k1
    k2 = k2
    Secret = {dev, k1, k2}
    DevSecret = dev
    NoSecret = NoSecret
    Settings <- MCSettings
    SessionDays = 1
    MaxRestarts = 2
INVARIANTS RotationKeepsSessions NoDevSessions
PROPERTIES EveryRequestEnds DeadLinksSwept
