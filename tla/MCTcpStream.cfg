\* Packets of up to four fragments, and just as long as a boundary.
CONSTANTS
  Packets = 2
  Lengths = {2, 5, 6, 8, 9, 10, 11}
  CutLengths = {3, 6}
  MaxPatch = 5  MinPacket = 5  RawLen = 12  Mark = 2  Header = 1
  MaxInterrupts = 1
SPECIFICATION Spec
CHECK_DEADLOCK FALSE
INVARIANTS StaysInBuffer WrittenIsSent RoundTrip
PROPERTY EventuallyRead
