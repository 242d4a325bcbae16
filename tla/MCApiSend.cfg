SPECIFICATION Spec
CONSTANTS
  Requests = {q1, q2}
  Keys = {}
  NoKey = no_key
  d1 = d1
  Destinations = {d1}
  Batches <- OneMessage
  DISPATCH_CONCURRENCY = 1
  MaxBreaks = 0
  MaxLives = 0
INVARIANT BilledIsSent
CHECK_DEADLOCK FALSE
