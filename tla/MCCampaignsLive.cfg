SPECIFICATION FairSpec
CONSTANTS
    a = a
    b = b
    x = x
    p1 = p1
    p2 = p2
    People = {a, b}
    Allowed = {a, b}
    Audiences <- SmallAudiences
    Cost <- Costs
    Procs = {p1}
    BatchSize = 1
    MaxTicks = 1
    HoursPass = TRUE
    PlanFails = FALSE
    MaxCrashes = 1
    MaxEdits = 0
    MaxDebits = 1
    MaxReports = 1
CHECK_DEADLOCK FALSE
PROPERTIES SettlesInTheEnd
