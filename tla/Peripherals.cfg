SPECIFICATION PeripheralsSpec
CONSTANTS
  Lines = {"VBLANK", "GPU", "SPU", "SIO", "CDROM"}
  SectorBytes = 1
  SioBytes = {"81", "57", "52", "01"}
  CtrlWords <- GuestCtrl
  PadLast = {4}
  PadBytes = {"00", "01", "42", "43", "44", "4D", "FF"}
  RumbleSteps = {3}
  Contents = {"blank", "A", "B"}
  Formatted = "blank"
  InCapacity = 6
  NumBlocks = 2
  TableWords = 1
  OutWords <- DepthWords
  MdecWords <- GuestMdec
  MaxDma = 2
  MdecSlice = 1
  VramWidth = 4
  VramHeight = 2
  TileSize = 2
  GpuWords <- GuestWords
  GpuRects <- GuestRects
  DrawAreas <- GuestAreas
  BufferWords = 4
  PolylineMax = 3
  Values = {0, 1}
  Ranges <- GuestRanges
  LineRanges <- GuestLines
  StartLines = {510}
  VideoModes <- GuestVideo
  Cropping = TRUE
  LastMoment = 1
  Discs = {"A", "B"}
INVARIANTS TypesOK RequestsAreKept PacketMatchesItsId  DecoderFlows  WordsAreAccounted RegionIsShowable
PROPERTIES CardsChangeByWholePackets DrawsAreFaithful LoadsAreWhole
