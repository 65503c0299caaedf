SPECIFICATION Spec
CONSTANTS
  Lines = {"DMA"}
  RamLimit = 3
  MaxWords = 2
  SliceWords = 1
  SliceEnd <- FiniteSliceEnd
  ListEnd <- FiniteListEnd
  MadrWords = {0, 1}
  BcrWords = {0, 1}
  ChcrWords <- GpuChcr
  DicrWords <- GpuDicr
PROPERTY StartedChannelWaits
