SPECIFICATION CoreSpec
CONSTANTS
  Lines = {"TMR0"}
  CounterModulus = 24
  LastEvent = 1
  DmaEvents = {1}
  Delays = {1, 7}
  FetchCosts = {0, 1}
  MemStalls = {0, 2}
  DmaStalls = {3}
  Wrap = 3
  SystemDivider = 2
  VideoRates = {1, 2}
  TimerModes <- GuestModes
  StepCosts = {1, 3}
  Late = 2
  M = 24
  Units = {"MULDIV", "GTE"}
  Interlocked = {"GTE"}
  Latencies = {2, 5}
  Costs = {1, 3}
  Registers = {"a", "b"}
  Programs <- ThreeInstructions
  Breakpoints = {}
  MaxInterrupts = 1
  Tags = {0, 1}
  CacheLines = {0, 1}
  LineWords = 2
  MaxStores = 1
  Modulus = 8
  Operations = {"DIV", "DIVU", "MULT", "MULTU", "ADD", "SUB", "SLT", "SLTU"}
INVARIANTS TypesOK ScheduleIsExact TimerIsExact ExactWithinOneWrap ResultIsTheProgram FetchesThatAddress DataIsExact
PROPERTY EventsKeepTime
