SPECIFICATION LibSpec
CONSTANT
  Subjects = {"graph", "uds", "events", "jcfg", "cli", "containers", "cndpfwd"}
INVARIANTS RegistryRight ServicesRight ConsoleRight ContainersRight CndpfwdRight
CHECK_DEADLOCK FALSE
