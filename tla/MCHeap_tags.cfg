SPECIFICATION Spec
CONSTANTS
  HeapUnits = 18
  Requests = {16, 40}
  ClientsStore = FALSE
INVARIANT TagsIntact
