SPECIFICATION EitherFairSpec
CONSTANTS
  Cthreads = {A, B, C}
  Schedulers = {s1, s2}
  Homes <- OnOne
  Queues = {"mutex", "cond"}
  NoCthread = NoCthread
  MaxCycles = 2
  A = A
  B = B
  s1 = s1
  s2 = s2
  Apart = C
  Subjects = {"sync", "life"}
INVARIANTS MutexExact BarrierExact LifeExact
PROPERTIES BarrierReturns JoinReturns
CHECK_DEADLOCK FALSE
