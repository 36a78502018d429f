CONSTANTS
  trace1 = trace1
  score1 = score1
  trace2 = trace2
  flush = flush
  reconfigure = reconfigure
  shutdown = shutdown
  Calls = {trace1, score1, trace2, flush, reconfigure, shutdown}
  Operation <- MCOperation
  Key <- MCKey
  TraceOf <- MCTraceOf
  None = None
SPECIFICATION SafeSpec
INVARIANTS TypeOK OneLiveRuntime RightProject RootsNeverLost FlushCovers
PROPERTIES OnlyShutdownCuts
