SPECIFICATION DiscSpec
CONSTANTS
  ImageSectors <- TwoFiles
  EcmImages = {}
  Pregaps = {0, 2}
  Protected <- NoPatches
  MaxTracks = 2
INVARIANT ReadsThePressedDisc
CHECK_DEADLOCK FALSE
