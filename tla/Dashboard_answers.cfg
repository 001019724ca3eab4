SPECIFICATION Spec
CONSTANTS
    Task = {t1, t2}
    App = {a1}
    Status = {applied}
    All = All
    NoApp = NoApp
    NoRow = NoRow
SYMMETRY Symmetry
INVARIANTS ListIsCurrent GhostsAreRaced SpinnersEnd NoDoubleSubmit
