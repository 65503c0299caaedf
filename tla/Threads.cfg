SPECIFICATION ThreadsSpec
CONSTANTS
  Blocks = 2
  BlockFlags <- StreamFlags
  Envelopes <- OneEnvelope
  FifoSize = 1
  SpuWrites = 3
  Size = 3
  Numbers = 2
  Sequence = 21
  SeekWindow = 14
  Overlap = 7
  InCapacity = 100
  Margin = 10
  RingCapacity = 65
  Target = 32
  Field = 12
  Requests = {7, 8}
  Lbas = {0, 1, 2}
  Unreadable = {2}
  Garbage = Garbage
  Pregaps = {0, 2}
  Patches <- PatchFiles
INVARIANTS TypesOK SilenceMeansDry DiscIsThePressed
PROPERTIES TrapIsSprung KeyOffSilences RingIsAQueue PacerReleases KeepsThePromise DiscAnswers
CHECK_DEADLOCK FALSE
