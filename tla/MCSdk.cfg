\* Four slots, a client that releases before it initialises again; two commands.
CONSTANTS
  Sections <- MCSections
  ReleasesFirst = TRUE
  MaxInits = 2
  MaxWrites = 1
  Fleets <- MCFleets
  Views = {"life", "commands"}
  Levels = {0, 39, 100}
  Speeds = {64}
  Indexes = {255}
  Volumes = {100}
  Texts = {"text"}
  MaxCalls = 2
  MaxBeats = 1
SPECIFICATION ClientSpec
INVARIANTS DevicesAreOwned DevicesAsConfigured CommandsArrive StopCutsOff
PROPERTY ReleaseEnds
