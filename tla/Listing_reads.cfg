SPECIFICATION Spec
CONSTANTS
    App = {a1, a2, a3}
    Client = {c1}
    Filter <- MCFilter
    Limit = 1
    WeekDays = 2
    Weeks = 2
    Today = 5
    Day = {1, 2, 3}
    MaxWrites = 3
SYMMETRY Symmetry
INVARIANTS PagesComplete FiguresAgree
