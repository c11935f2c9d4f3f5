SPECIFICATION FairSpec
CONSTANTS
  NBlocks = 9
  PageUnits = 2
  BlockPages = 2
  Area = {1, 2}
  Base <- MCBase
  Bound <- MCBound
  Img <- MCImg
  UPGRADE_RETRY_TIME = 3
  Settings <- MCSettings
INVARIANT ImageKept
PROPERTIES
  OthersKept
  
