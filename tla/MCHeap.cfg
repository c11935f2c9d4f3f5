SPECIFICATION FairSpec
CONSTANTS
  HeapUnits = 15
  Requests = {16, 40}
  ClientsStore = TRUE
INVARIANTS PayloadsDisjoint FreeAccepted Coalesced
PROPERTIES HeldStable NothingRegained CallsReturn
