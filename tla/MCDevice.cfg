\* Each of the four drivers, with two packets, and heartbeats of the loudspeaker.
CONSTANTS
  MaxPackets = 2
  MaxBeats = 2
SPECIFICATION Spec
INVARIANTS NoteMatchesState ResourcesFollowState NothingOutlivesStop
PROPERTIES LegalTransitions QuitEnds ImplementsLifecycle
CHECK_DEADLOCK FALSE
