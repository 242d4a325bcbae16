SPECIFICATION Spec
CONSTANTS
    a = a
    b = b
    x = x
    p1 = p1
    p2 = p2
    People = {a, b, x}
    Allowed = {a, b}
    Audiences <- ForeignAudiences
    Cost <- Costs
    Procs = {p1, p2}
    BatchSize = 2
    MaxTicks = 1
    HoursPass = FALSE
    PlanFails = FALSE
    MaxCrashes = 2
    MaxEdits = 0
    MaxDebits = 1
    MaxReports = 1
CHECK_DEADLOCK FALSE
SYMMETRY Symmetry
INVARIANTS AccountedFor BilledAsSent
