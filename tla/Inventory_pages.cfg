SPECIFICATION FairSpec
CONSTANTS
  Devices = {d1, d2, d3, d4}
  Keyless = {d4}
  PageSize = 3
  ShortPage = 2
  MaxChanges = 3
  MaxOffset = 12
INVARIANT OffsetBound
PROPERTIES CompleteUnlessShrunk OnlyRegistered ListingEnds
