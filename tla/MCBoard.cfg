SPECIFICATION Spec
CONSTANTS
  CtlNum = 2
  RAID = TRUE
  DetectTime = 2
  Count8 = 3
  PrdMax = 2
  Pipe = 3
  MaxReq = 3
  Image <- MCImage
  Tries = 3
  MaxFiles = 2
  BlockSize = 2
  PerBlock = 2
  Direct = 1
  Home <- MCHome
  Size <- MCSize
  Table <- MCTable
  Root <- MCRoot
  Number <- MCNumber
  Blocks = 1
  Unaligned = FALSE
  MaxWrites = 3
  Byte = 3
  Chunk = 2
  DevSectors = 9
  LenMax = 9
  Data0 = 5
  NAND = FALSE
  Setting = {1}
  Letter = {"x"}
  RxSize = 2
  FifoSize = 1
  MaxHistory = 2
  MaxChars = 3
  FieldSize = 1
  FlashBase = 100
  BootPages = 6
  BlockPages = 2
  Boot1Pages = 1
  Boot2Pages = 3
  DirSize = 3
  BlockWords = 2
  BootSectors = 2
  NorBlocks = 2
  Polls = 2
  Word = {"v"}
  LineBits = 2
  ColBits = 2
  Steps = 2
  OobSel <- MCOobSel
  Pages <- MCPages
  MaxFlips = 2
INVARIANTS    WriteWhole   OkIsDone PageRestored
 
CHECK_DEADLOCK FALSE
