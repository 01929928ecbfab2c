\* One Thread object, its owner, its thread, and two events posted by others.
CONSTANT MaxPosts = 2
SPECIFICATION Spec
INVARIANT StateTellsWorker
PROPERTIES QuitStops
CHECK_DEADLOCK FALSE
