SPECIFICATION LibSpec
CONSTANTS
  Threads = {u1, u2, u3}
  Users = {u1, u2, u3}
  CacheMax = 2
  CacheSizes = {0, 1, 2}
  Counts = {1, 2, 3}
  Capacity = 1
  MaxAttach = 2
  MaxSent = 1
  MaxTimeouts = 1
  Objects = {o1}
  RingSize = 2
  Subjects = {"queue"}
  QueuePrompts = {FALSE}
INVARIANTS NodesOnce
CHECK_DEADLOCK FALSE
