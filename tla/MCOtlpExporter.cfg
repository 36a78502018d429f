CONSTANTS
  e1 = e1
  e2 = e2
  e3 = e3
  e4 = e4
  Exports = {e1, e2, e3, e4}
  SpanCount <- MCSpanCount
  DispatchExports <- MCDispatch
  lingerMs = 1
  MAX_CONCURRENT_EXPORTS = 2
  MAX_LINGERING_SPANS = 2
  Flushes = {f1}
  Closer = closer
SPECIFICATION SafeSpec
INVARIANTS TypeOK SlotsSound ExactlyOnce SuccessMeansStored FlushCovers
SYMMETRY MCSymmetry
