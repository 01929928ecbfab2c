------------------------------- MODULE Helpers -------------------------------
(***************************************************************************)
(* The helpers that the drivers and the network code share, side by side:  *)
(* the RingBuffer (RingBufferCalls, which this module extends), the Buffer *)
(* (Buffer), the GPS time conversions (GpsTime), the PTZ driver's frame    *)
(* scanner (PelcoReader), the log files (Logger) and the configuration     *)
(* file (ConfigFile).  They share no state, so a behaviour uses one of     *)
(* them, its subject; the others stay as they are made.                    *)
(***************************************************************************)
EXTENDS RingBufferCalls, FiniteSets

CONSTANTS
  MaxSize,                             \* Buffer
  Starts, Stops, Days,                 \* GpsTime
  Zones, Leaps, LastYear,
  m_addr, Addresses, Highs, Lows,      \* PelcoReader
  MaxFrames,
  Threads, MaxInits, MaxMessages,      \* Logger
  Slots, Keys, Values, Bracketed,      \* ConfigFile
  FirstLines, MaxUpdates

VARIABLES
  subject,                             \* the helper in use
  mem, pos, count,                     \* Buffer
  utc, elapsed, left,                  \* GpsTime
  frames, wire, reported,              \* PelcoReader
  fout, files, lock, call, logged,     \* Logger
  inits, broken,
  file, op, out, want, before,         \* ConfigFile
  request, said, short, updates

ringVars   == callVars
bufferVars == <<mem, pos, count>>
timeVars   == <<utc, elapsed, left>>
pelcoVars  == <<frames, wire, reported>>
loggerVars == <<fout, files, lock, call, logged, inits, broken>>
configVars == <<file, op, out, want, before, request, said, short, updates>>
helperVars == <<subject, ringVars, bufferVars, timeVars, pelcoVars, loggerVars, configVars>>

(* A Buffer holds a number of bytes; the driver's camera is number 1, and an
   angle is less than 360 degrees; no thread has the name that stands for
   nobody. *)
ASSUME BufferAssumption == MaxSize \in Nat
ASSUME PelcoAssumption ==
  /\ m_addr = 1 /\ Addresses \subseteq 0..255
  /\ Highs \subseteq 0..140 /\ Lows \subseteq 0..255
ASSUME LoggerAssumption == "free" \notin Threads

(* Sections and keys are numbers, in the order of their names; a value has
   brackets or it has none, also when it was cut. *)
ASSUME ConfigAssumption ==
  /\ Slots \subseteq Nat \ {0} /\ Keys \subseteq Nat \ {0} /\ IsFiniteSet(Slots) /\ IsFiniteSet(Keys)
  /\ Keys # {} /\ Values # {} /\ Values \cap Bracketed = {} /\ "cut" \notin Bracketed
  /\ FirstLines \in Nat /\ MaxUpdates \in Nat

Memory == INSTANCE Buffer
Clock  == INSTANCE GpsTime
Pelco  == INSTANCE PelcoReader WITH sent <- frames
Log    == INSTANCE Logger WITH sent <- logged
Config == INSTANCE ConfigFile WITH answer <- said

(* A clock starts the day after the GPS epoch or later and stays inside its
   years, whose weeks 16 bits can number; a zone is at most 14 hours off UTC
   and leap_sec, which is negative, less than an hour. *)
ASSUME TimeAssumption ==
  /\ LastYear \in 1980..3000 /\ Days \in Nat
  /\ Stops \subseteq 0..(Clock!DaySeconds - 1)
  /\ Zones \subseteq -12..14 /\ Leaps \subseteq -3600..0
  /\ \A t \in Starts : /\ Clock!IsDate(t) /\ Clock!DayNumber(t) >= 1
                      /\ Clock!DayNumber(t) + Days + 1 < Clock!YearStart(LastYear + 1)

(* A default Buffer, and a clock that stands at one of its starts. *)
BufferAtRest == mem = Memory!Junks(16) /\ pos = 0 /\ count = 0
ClockAtRest == utc = (CHOOSE t \in Starts : TRUE) /\ elapsed = Clock!timegm(utc) /\ left = 0

(* No configuration file, and nobody who wants one. *)
NoConfig ==
  /\ file = Config!NoFile /\ before = file /\ op = "idle" /\ out = <<>> /\ want = Config!Nothing
  /\ request = <<>> /\ said = "none" /\ short = FALSE /\ updates = 0

HelpersInit ==
  /\ subject \in {"ring", "buffer", "time", "pelco", "log", "config"}
  /\ CallsInit /\ Pelco!Init /\ Log!Init
  /\ IF subject = "buffer" THEN Memory!Init ELSE BufferAtRest
  /\ IF subject = "time" THEN Clock!Init ELSE ClockAtRest
  /\ IF subject = "config" THEN Config!Init ELSE NoConfig

UseRing   == subject = "ring"   /\ CallsNext   /\ UNCHANGED <<bufferVars, timeVars, pelcoVars, loggerVars, configVars>>
UseBuffer == subject = "buffer" /\ Memory!Next /\ UNCHANGED <<ringVars, timeVars, pelcoVars, loggerVars, configVars>>
UseTime   == subject = "time"   /\ Clock!Next  /\ UNCHANGED <<ringVars, bufferVars, pelcoVars, loggerVars, configVars>>
UsePelco  == subject = "pelco"  /\ Pelco!Next  /\ UNCHANGED <<ringVars, bufferVars, timeVars, loggerVars, configVars>>
UseLog    == subject = "log"    /\ Log!Next    /\ UNCHANGED <<ringVars, bufferVars, timeVars, pelcoVars, configVars>>
UseConfig == subject = "config" /\ Config!Next /\ UNCHANGED <<ringVars, bufferVars, timeVars, pelcoVars, loggerVars>>

HelpersNext == (UseRing \/ UseBuffer \/ UseTime \/ UsePelco \/ UseLog \/ UseConfig) /\ UNCHANGED subject

HelpersSpec == HelpersInit /\ [][HelpersNext]_helperVars

-----------------------------------------------------------------------------
(* Properties: ImplementsFifo of RingBufferCalls, and those of the others  *)

(* Whatever was popped, moved and reallocated before, a Buffer is a deque of
   the bytes pushed: none is lost, repeated or moved past another. *)
ImplementsDeque == Memory!ImplementsDeque

(* Calendar time, local time of any zone and GPS time name one instant, also
   where a zone or the leap seconds cross a day, month, year or week. *)
TimesAgree == subject = "time" => Clock!TimesAgree

(* However the reads cut the stream of frames of several cameras, every angle
   reported is one that the driver's camera sent, below 360 degrees and in the order sent. *)
ReportedWasSent == Pelco!TypeOK /\ Pelco!ReportedWasSent

(* Whichever threads log while the log is initialised again, a body follows
   its own head, and what must not be lost in a crash is on the disk. *)
LogCanBeTrusted == Log!LogCanBeTrusted

(* Wherever the writing of the configuration file stops short, it is left a
   first part of what was wanted; an update that is not cut short changes one
   value and no other, and one that is refused leaves the file alone. *)
ConfigSurvives == Config!ConfigSurvives
=============================================================================
