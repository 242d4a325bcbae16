SPECIFICATION Spec
CONSTANTS
    a = a
    b = b
    x = x
    p1 = p1
    p2 = p2
    People = {a, b}
    Allowed = {a, b}
    Audiences <- SmallAudiences
    Cost <- Costs
    Procs = {p1, p2}
    BatchSize = 1
    MaxTicks = 1
    HoursPass = TRUE
    PlanFails = TRUE
    MaxCrashes = 1
    MaxEdits = 1
    MaxDebits = 2
    MaxReports = 0
SYMMETRY Symmetry
CHECK_DEADLOCK FALSE
INVARIANTS TypeOK RefundWithinDebit RefundOnlyWhenOver CancelledSendsNothing NeverOrphaned
PROPERTIES TerminalIsFinal
