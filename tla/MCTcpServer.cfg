\* Two clients, a server that listens twice; the owner joins before it closes.
CONSTANTS
  Conns = {c1, c2}
  MaxListens = 2
  MaxInterrupts = 2
  Interruptable = TRUE
  CloseWaits = TRUE
SPECIFICATION Spec
CHECK_DEADLOCK FALSE
INVARIANT OpenIsOwned
PROPERTIES InterruptEndsAccept ChildrenEnd
