SPECIFICATION Spec
CONSTANTS
  Peer = {"p", "q"}
  Poster = {"p"}
  SockMax = 2
  FileLen = 2
  Nesting = 1
  FreeNum = 3
  RxNum = 4
  TxNum = 3
  Batch = 2
  RxDesc = 3
  TxDesc = 2
  FrameMod = 5
  PreLen = 3
  AddrBits = 2
  DataBits = 2
  Phy <- MCPhy
  GPhy <- MCGPhy
  RegAd <- MCRegAd
  MiiCalls = 2
  Host = {"h", "q", "far", "gw"}
  Local = {"h", "q", "gw"}
  Gateway = "gw"
  CacheNum = 2
  IdentMod = 2
  Tries = 2
  Depth = 2
  MaxIdent = 3
  PutBlock = 2
  PutTimeouts = 1
  PutMod = 3
  PutLens = {1, 4, 5}
  MaxPort = 2
INVARIANTS  RxIntact RingsInOrder MiiExact PingHonest ArpSound 
CHECK_DEADLOCK FALSE
