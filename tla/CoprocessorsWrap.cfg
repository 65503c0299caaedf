SPECIFICATION Spec
CONSTANTS
  M = 24
  Units = {"MULDIV", "GTE"}
  Interlocked = {"GTE"}
  Latencies = {2, 5}
  Costs = {1, 3}
INVARIANT StallsUntilReady
