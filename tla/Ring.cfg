SPECIFICATION RingSpec
CONSTANTS
  Producers = {p1, p2}
  Consumers = {c1, c2}
  Size = 4
  Capacity = 2
  IndexMod = 4
  MaxStall = 1
  Values = {a, b}
  EnqueueRequests <- OneByOne
  DequeueRequests <- InPairs
  ProdSingle = FALSE
  ConsSingle = FALSE
  Callers = {}
  Subjects = {"ring"}
SYMMETRY Symmetry
INVARIANTS RingInv SlotsExclusive TailsComing
PROPERTIES FailureJustified RefinesFifo
