\* Two producers and one consumer, which calls pop() and Thread::processEvent.
CONSTANTS
  Producers = {p1, p2}
  Consumers = {c1}
  Peekers = {c1}
  MaxSize = 2
  MaxPosts = 3
  NoThread = NoThread
  NoEvent = NoEvent
SPECIFICATION Spec
INVARIANTS SemaphoreMatchesQueue NoLostWakeup
PROPERTIES EventuallyHandled ImplementsChannel
CHECK_DEADLOCK FALSE
