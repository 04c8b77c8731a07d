SPECIFICATION PacketSpec
CONSTANTS
  Isas = {"sse", "avx2", "avx512"}
  Sizes <- CopySizes
  Addrs = {0, 1, 15, 16, 32, 63}
  Burst = 6
  Arrivals <- MixedArrivals
  Apps = {"cnet", "l3fwd"}
  Settings <- SafeSettings
  Subjects = {"packets", "tcp", "copy"}
INVARIANTS PacketsRight TcpRight CopyExact
