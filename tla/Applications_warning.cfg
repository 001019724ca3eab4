SPECIFICATION Spec
CONSTANTS
    Req = {r1, r2, r3}
    Owner = {o1}
    DefaultOwner = o1
    Company = {"acme"}
    Role = {"dev"}
    Lower <- MCLower
    Job = {}
    NoJob = NoJob
    Status = {applied, interview}
    Applied = applied
    Msg = {}
    Ops = {"post", "patch", "delete"}
    NoRow = NoRow
SYMMETRY Symmetry
INVARIANT SoftDuplicateOnlyWarns
