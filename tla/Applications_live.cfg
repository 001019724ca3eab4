SPECIFICATION FairSpec
CONSTANTS
    Req = {r1, r2, r3}
    Owner = {o1, o2}
    DefaultOwner = o1
    Company = {"acme"}
    Role = {"dev"}
    Lower <- MCLower
    Job = {}
    NoJob = NoJob
    Status = {applied, interview}
    Applied = applied
    Msg = {m1}
    Ops = {"post", "patch", "delete", "email"}
    NoRow = NoRow
PROPERTIES EveryRequestEnds TenantsApart
