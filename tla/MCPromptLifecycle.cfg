CONSTANTS
  a1 = a1
  a2 = a2
  b1 = b1
  run1 = run1
  settled = settled
  refresh = refresh
  shutdown = shutdown
  Handlers = {a1, a2, b1, run1, settled, refresh, shutdown}
  Event <- MCEvent
  Signature <- MCSignature
  Tracing = {a1, a2, b1, run1, settled, refresh, shutdown}
  OtherLease = FALSE
  None = None
SPECIFICATION SafeSpec
INVARIANTS TypeOK OpenRootOwned ScoredOnce PendingStartRuns FeedbackTargetEnded NoRecordAfterEnd ReplacedForAReason
PROPERTIES RootsTakeTurns
SYMMETRY MCSymmetry
