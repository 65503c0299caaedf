SPECIFICATION ChannelsSpec
CONSTANTS
  Lines = {"DMA"}
  RamLimit = 3
  MaxWords = 2
  SliceWords = 1
  SliceEnd <- BadSliceEnd
  ListEnd <- BadListEnd
  MadrWords = {0, 1, 2, 3, 4}
  BcrWords = {0, 1}
  ChcrWords <- ChannelChcr
  DicrWords <- ChannelDicr
INVARIANTS ControllerIsSound SlicesAgree
PROPERTIES StartsAreKept EndsAreHeard GpuListEnds
