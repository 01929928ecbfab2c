\* A buffer of three bytes, datagrams of at most two; pushes may overflow it.
CONSTANTS
  Bytes <- MCBytes
  NoByte = 0
  Capacity = 4
  MaxLen = 2
  Chunk = 2
  MaxPushed = 6
  MaxToggles = 3
SPECIFICATION Spec
INVARIANTS StreamOrder BufferAliveWhenRead OneLateChunk
PROPERTIES StreamFlows StopEnds
