\* Two addresses, two local ones, two retries, a socket that is opened twice;
\* a timeout and a buffer of two sizes, two ports, two addresses of a host.
CONSTANTS
  Timeouts = {0, 3}
  MaxRetries = 2
  Families = {"inet", "inet6"}
  MaxAddrs = 2
  MaxLocals = 2
  Peers = {"speaker", "stranger"}
  Remote = "speaker"
  MaxOpens = 2
  TimeoutOptions = {"recvTimeout"}
  BufferOptions = {"recvBufSize"}
  MaxValue = 2
  Ports = {"p1", "p2"}
  Hosts = {1, 2}
SPECIFICATION SocketsSpec
CHECK_DEADLOCK FALSE
INVARIANTS NothingLeaks OpenIsUsable OptionsHold TotalIsBounded
PROPERTY AnswerReachesAsker
