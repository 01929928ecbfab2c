\* A write that fails while the PTZ is being stopped.
CONSTANTS
  MaxPackets = 2
  MaxBeats = 0
SPECIFICATION Spec
INVARIANT OneJoiner
CHECK_DEADLOCK FALSE
