SPECIFICATION EitherSpec
CONSTANTS
  Cthreads = {A, B, C}
  Schedulers = {s1, s2}
  Homes <- OnTwo
  Queues = {"mutex", "cond"}
  NoCthread = NoCthread
  MaxCycles = 2
  A = A
  B = B
  s1 = s1
  s2 = s2
  Apart = C
  Subjects = {"sync"}
INVARIANTS OwnersExclusive
CHECK_DEADLOCK FALSE
