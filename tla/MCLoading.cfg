CONSTANTS
  Images <- MCImages
  Counts = {0, 1}
  MaxListing = 4
SPECIFICATION FairSpec
INVARIANTS
  Reassembles
  DecodesToAnImage
  DciIsTransparent
PROPERTIES
  ListingEnds
CHECK_DEADLOCK FALSE
