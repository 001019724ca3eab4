SPECIFICATION Spec
CONSTANTS
    Token = {t1, t2}
    Email = {e1, e2}
    Req = {r1, r2, r3, r4}
    TTL = 1
    MaxTime = 2
    NoLink = NoLink
    NoUser = NoUser
SYMMETRY Symmetry
INVARIANTS SignsInOnce LinkHonoured
PROPERTIES LiveLinksKept OneAccount LogoutCoversAll PromiseKept
