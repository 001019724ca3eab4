SPECIFICATION Spec
CONSTANTS
    Req = {r1, r2, r3}
    root = root
    user = user
    admin = admin
    g0 = g0
    staff = staff
    User = {root, user}
    Role = {admin}
    Confers <- MCConfers
    Group <- MCGroup
    Name = {staff}
    NoName = NoName
    Seeded <- MCSeeded
    SeedGroups <- MCSeedGroups
SYMMETRY Symmetry
INVARIANTS NoOrphans LogCoversGrants GrantsAlternate AuthorityFromLog SomeoneProceeds
PROPERTY AuthorityKept
