SPECIFICATION LibSpec
CONSTANT
  Subjects = {"hash", "fib", "acl", "channels", "tables", "xskdev", "pktdev", "memif"}
INVARIANTS LookupsRight CnetRight DevicesRight
CHECK_DEADLOCK FALSE
