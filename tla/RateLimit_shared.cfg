SPECIFICATION Spec
CONSTANTS
    ip1 = ip1
    ip2 = ip2
    mail = mail
    Key = {ip1, ip2, mail}
    Window <- MCWindow
    Limit <- MCLimit
    Capacity = 2
    Second = 2
    MaxTime = 8
    MaxCount = 3
    NoEntry = NoEntry
SYMMETRY Symmetry
INVARIANTS ShortestLimitExact RetryEnough
