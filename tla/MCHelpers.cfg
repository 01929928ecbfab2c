\* A ring of four places, a buffer of up to five bytes, eight days from each of
\* six dates, two cameras and two frames, two threads that log two messages,
\* a configuration file of up to three lines that is rewritten twice.
CONSTANTS
  Bytes = {b0, b1}
  NoByte = b0
  Capacity = 4
  MaxLen = 4
  MaxSize = 5
  Starts <- MCStarts
  Stops = {0, 17, 36000, 57600, 86381, 86382, 86399}
  Days = 8
  Zones <- MCZones
  Leaps <- MCLeaps
  LastYear = 2027
  m_addr = 1
  Addresses = {1, 30}
  Highs = {0, 89, 140}
  Lows = {0, 89, 255}
  MaxFrames = 2
  Threads = {t1, t2}
  MaxInits = 2
  MaxMessages = 2
  Slots = {1, 2}
  Keys = {1, 2}
  Values = {"on", "off"}
  Bracketed = {"Light[1]"}
  FirstLines = 3
  MaxUpdates = 2
SPECIFICATION HelpersSpec
CHECK_DEADLOCK FALSE
INVARIANTS TimesAgree ReportedWasSent LogCanBeTrusted ConfigSurvives
PROPERTIES ImplementsFifo ImplementsDeque
