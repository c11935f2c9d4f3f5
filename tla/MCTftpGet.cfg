SPECIFICATION FairSpec
CONSTANTS
  TFTP_BUF_SIZE = 2
  TFTP_TIMEOUT_NUM = 2
  BlkMod = 4
  RingSize = 5
  Downloads = 2
  Settings <- MCSettings
INVARIANTS SuccessIsWhole SocketReleased
PROPERTIES Terminates SurvivesLoss
