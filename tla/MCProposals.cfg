SPECIFICATION Spec
CONSTANTS
  Requests = {r1, r2}
  Handlers = {h1, h2}
  Fields = {f}
  Values = {v1, v2}
  MaxPending = 1
  KeepDecided = 0
  ApplyAttempts = 2
INVARIANTS ToldTheTruth DecidedOnce
PROPERTIES AppliesWhatWasReviewed OffMeansNoApproval EventuallyDecided
CHECK_DEADLOCK FALSE
