CONSTANTS
    p1 = p1
    p2 = p2
    j1 = j1
    j2 = j2
    j3 = j3
    c1 = c1
    Jobs = {j1, j2}
    Checkouts = {c1}
    Procs = {p1, p2}
    Prices = {2}
    Trial = 3
    Amount = 2
    LowBalance = 3
    AlertBelow = 3
    MaxSends = 2
    MaxHours = 0
    MaxMishaps = 1
SPECIFICATION Spec
SYMMETRY Symmetry
INVARIANT
    BalanceIsTheLedgers
