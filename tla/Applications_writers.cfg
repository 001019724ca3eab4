SPECIFICATION Spec
CONSTANTS
    Req = {r1, r2, r3}
    Owner = {o1}
    DefaultOwner = o1
    Company = {"Acme", "acme"}
    Role = {"dev"}
    Lower <- MCLower
    Job = {j1}
    NoJob = NoJob
    Status = {applied, interview, rejected}
    Applied = applied
    Msg = {m1}
    Ops = {"post", "generate", "patch", "delete", "email"}
    NoRow = NoRow
SYMMETRY Symmetry
INVARIANTS HistoryMatchesStatus DuplicatesAreRaced MessageAppliedOnce
PROPERTIES DeletedStaysDeleted LedgerKept
