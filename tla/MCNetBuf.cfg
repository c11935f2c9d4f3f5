SPECIFICATION Spec
CONSTANTS
  NET_BUF_NUM = 4
  WEB = TRUE
  ArpTries = 2
  Burst = 3
INVARIANTS QueuesSound OneOwner PollDrains
