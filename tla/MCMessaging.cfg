\* Two workers on one recipient enqueued twice, with daily cap to spare.
SPECIFICATION FairSpec
CONSTANTS
    Recipients = {r1}
    Workers = {w1, w2}
    NoJob = NoJob
    DailyCap = 2
    MaxCopies = 2
    MaxReceives = 2
    MaxCrashes = 1
    Overlap = TRUE
INVARIANTS TypeOK AttemptedOnce DeliveredOnce
PROPERTIES RowOnlyAdvances EveryJobAnswered
CHECK_DEADLOCK FALSE
