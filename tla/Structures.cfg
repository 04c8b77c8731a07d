SPECIFICATION SharedSpec
CONSTANTS
  Producers = {p1}
  Consumers = {c1}
  Size = 4
  Capacity = 2
  IndexMod = 8
  MaxStall = 4
  Values = {a, b}
  EnqueueRequests <- Mixed
  DequeueRequests <- Mixed
  ProdSingle = TRUE
  ConsSingle = TRUE
  Callers = {p1, c1}
  Subjects = {"ring", "table", "sema", "mbuf"}
SYMMETRY Symmetry
INVARIANTS CountSafe SemaRight BuffersRight
PROPERTIES RefinesFifo
CHECK_DEADLOCK FALSE
