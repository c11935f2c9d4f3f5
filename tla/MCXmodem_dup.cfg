SPECIFICATION Spec
CONSTANTS
  Blocks = 5
  BlkMod = 3
  Retries = 5
  OpenRetries = 3
  CrcRetries = 2
  SendTries = 4
  BufBlocks = 6
  CtrlZ = {5}
  Settings <- MCDeaf
INVARIANT ImageFaithful
