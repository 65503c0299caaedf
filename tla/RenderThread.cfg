SPECIFICATION RenderSpec
CONSTANTS
  MaxAsked = 3
  MaxBatches = 2
  MaxUpdates = 1
  MaxVertices = 2
  MaxSessions = 2
INVARIANTS VramIsInOrder HandoversAreClean
PROPERTY WaitsEnd
