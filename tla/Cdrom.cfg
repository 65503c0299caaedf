SPECIFICATION FairSpec
CONSTANTS
  MaxLba = 4
  Total = 3
  Damaged = {}
  TrackOf <- DiscTracks
  AudioTracks = {2}
  XaMatch = {1}
  XaOther = {0}
  BadQ = {}
  ReportAt = {2}
  MaxSpeed = 2
  Back = 1
  AckDelay = 2
  Period = 2
  Delays = {1, 3}
  Guests <- AllGuests
INVARIANT NothingForgotten
PROPERTIES NeverOverwritten ReadsAreWhole CommandIsExecuted
