\* The configuration ConfigTool writes: the loudspeaker.
CONSTANTS
  Sections <- MCGenerated
  ReleasesFirst = TRUE
  MaxInits = 1
  MaxWrites = 0
  Fleets = {}
  Views = {"life"}
  Levels = {0}
  Speeds = {0}
  Indexes = {1}
  Volumes = {0}
  Texts = {"text"}
  MaxCalls = 0
  MaxBeats = 0
SPECIFICATION ClientSpec
INVARIANT LoudspeakerIsMade
