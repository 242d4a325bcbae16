\* Redeliveries of a job one after the other, with a crash between them.
SPECIFICATION Spec
CONSTANTS
    Recipients = {r1, r2}
    Workers = {w1, w2}
    NoJob = NoJob
    DailyCap = 1
    MaxCopies = 1
    MaxReceives = 2
    MaxCrashes = 2
    Overlap = FALSE
SYMMETRY Symmetry
INVARIANTS CapRespected
PROPERTY KeepsPromise
CHECK_DEADLOCK FALSE
