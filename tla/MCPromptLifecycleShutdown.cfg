CONSTANTS
  a1 = a1
  a2 = a2
  b1 = b1
  run1 = run1
  settled = settled
  refresh = refresh
  shutdown = shutdown
  Handlers = {a1, b1, shutdown}
  Event <- MCEvent
  Signature <- MCSignature
  Tracing = {a1, b1, shutdown}
  OtherLease = FALSE
  None = None
SPECIFICATION SafeSpec
INVARIANTS NothingOpenAfterShutdown
