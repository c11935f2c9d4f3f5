SPECIFICATION FairSpec
CONSTANTS
  Entries = 4
  FlashSize = 6
  BootSize = 2
  KernelAddr = 2
  KernelSize = 2
  FisAddr = 5
  UPGRADE_RETRY_TIME = 3
  Names = {"BOOT", "DIR", "KERNEL", "APP"}
  Settings <- MCSettings
INVARIANTS
  DirectorySound
  OperationOver
PROPERTIES
  Confined
  CallsReturn
