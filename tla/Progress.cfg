SPECIFICATION EitherFairSpec
CONSTANTS
  Main = main
  Children = {c1, c2}
  Foreign = {f1}
  MaxThreads = 3
  FaultSets = {{}, {"pthread_create", "pthread_setname_np"}}
  Subjects = {"threads", "timers"}
  Timers = {m1}
  Workloads <- OneShot
  MaxTime = 1
INVARIANTS IdsUnique Balanced WaitMeansStopped
PROPERTIES CreateReturns ExpiredRun
