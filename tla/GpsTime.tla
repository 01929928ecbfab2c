------------------------------- MODULE GpsTime -------------------------------
(***************************************************************************)
(* The conversions between calendar time and GPS weeks of                  *)
(* src/time/time_convert.cpp, at every instant a clock goes through.  The  *)
(* clock counts days of the calendar and, beside them, the seconds since   *)
(* the GPS epoch, 1980-01-06 00:00:00 UTC: the conversions are compared    *)
(* with that count.  A date is [year, mon, day, sod], sod the second of    *)
(* the day that hour, minute and second stand for.                         *)
(***************************************************************************)
EXTENDS Integers, Sequences

CONSTANTS
  Starts,     \* dates the clock starts at
  Stops,      \* seconds of the day it stops at, 0 among them
  Days,       \* days it runs
  Zones,      \* hours east of UTC
  Leaps,      \* values of leap_sec, negative
  LastYear    \* the last year gmtime() is asked for

VARIABLES
  utc,        \* the calendar's date
  elapsed,    \* seconds since the GPS epoch, without leap seconds
  left        \* days still to run

vars == <<utc, elapsed, left>>

DaySeconds == 24 * 3600
WeekSeconds == 7 * DaySeconds
WeekNumbers == 65536   \* of 16 bits

IsLeap(y) == (y % 4 = 0 /\ y % 100 # 0) \/ y % 400 = 0

MonthDays(y, m) ==
  IF m = 2 THEN (IF IsLeap(y) THEN 29 ELSE 28)
           ELSE IF m \in {4, 6, 9, 11} THEN 30 ELSE 31

----------------------------------------------------------------------------
(* The C library: timegm() and gmtime(), here from the GPS epoch. *)

LeapsUpTo(y) == y \div 4 - y \div 100 + y \div 400

\* Days from the epoch to the first of January of a year.
YearStart(y) == 365 * (y - 1980) + LeapsUpTo(y - 1) - LeapsUpTo(1979) - 5

\* Days of a year before the first of a month.
DaysBefore(y, m) ==
  <<0, 31, 59, 90, 120, 151, 181, 212, 243, 273, 304, 334>>[m]
    + (IF m > 2 /\ IsLeap(y) THEN 1 ELSE 0)

MonthStart(y, m) == YearStart(y) + DaysBefore(y, m)

DayNumber(t) == MonthStart(t.year, t.mon) + (t.day - 1)

timegm(t) == DayNumber(t) * DaySeconds + t.sod

\* The years a local time of the clock's years may be in.
Years == 1979 .. LastYear

gmtime(s) ==
  LET d == s \div DaySeconds
      y == CHOOSE n \in Years: YearStart(n) <= d /\ d < YearStart(n + 1)
      m == CHOOSE n \in 1 .. 12: MonthStart(y, n) <= d /\ d < MonthStart(y, n) + MonthDays(y, n)
  IN  [year |-> y, mon |-> m, day |-> d - MonthStart(y, m) + 1, sod |-> s % DaySeconds]

----------------------------------------------------------------------------
(* src/time/time_convert.cpp *)

gps2local(wsm, zone, leap_sec) ==
  gmtime(wsm.week * WeekSeconds + wsm.sec + zone * 3600 + leap_sec)

(* Mutant of local2gps: the week is that of the calendar's day, before the
   zone and the leap seconds are taken off. *)
WeekOfDay(t, zone, leap_sec) ==
  LET s == timegm(t) - zone * 3600 - leap_sec
  IN  [week |-> (timegm(t) \div WeekSeconds) % WeekNumbers, sec |-> s % WeekSeconds]

\* The instants are after the epoch: / and % of C are those of TLA+.
local2gps(t, zone, leap_sec) ==
  LET s == timegm(t) - zone * 3600 - leap_sec
  IN  [week |-> (s \div WeekSeconds) % WeekNumbers, sec |-> s % WeekSeconds]

gps2utc(wsm, leap_sec) == gps2local(wsm, 0, leap_sec)
utc2gps(t, leap_sec) == local2gps(t, 0, leap_sec)

\* The loop over the years before y, and that over the months before m.
DayofYear[y \in 1980 .. LastYear] ==
  IF y = 1980 THEN 0 ELSE DayofYear[y - 1] + (IF IsLeap(y - 1) THEN 366 ELSE 365)

DayofMonth(y) ==
  LET before[m \in 1 .. 12] == IF m = 1 THEN 0 ELSE before[m - 1] + MonthDays(y, m - 1)
  IN  before

UTC2GPS(t) ==
  LET Day == DayofMonth(t.year)[t.mon] + t.day + DayofYear[t.year] - 6
  IN  [week |-> Day \div 7, sec |-> (Day % 7) * DaySeconds + t.sod + 18]

----------------------------------------------------------------------------
(* The clock *)

\* The dates of the calendar.
IsDate(t) ==
  /\ t \in [year: 1980 .. LastYear, mon: 1 .. 12, day: 1 .. 31, sod: 0 .. DaySeconds - 1]
  /\ t.day <= MonthDays(t.year, t.mon)

Init ==
  /\ utc \in Starts
  /\ elapsed = timegm(utc)
  /\ left = Days

\* The clock goes on to its next stop of the day.
Tick ==
  \E s \in Stops:
    /\ s > utc.sod
    /\ \A n \in Stops: n > utc.sod => n >= s
    /\ utc' = [utc EXCEPT !.sod = s]
    /\ elapsed' = elapsed + s - utc.sod
    /\ UNCHANGED left

\* Midnight: the next day, month or year.
Midnight ==
  /\ left > 0
  /\ \A s \in Stops: s <= utc.sod
  /\ utc' = CASE utc.day < MonthDays(utc.year, utc.mon) ->
                   [utc EXCEPT !.day = @ + 1, !.sod = 0]
              [] utc.day = MonthDays(utc.year, utc.mon) /\ utc.mon < 12 ->
                   [utc EXCEPT !.mon = @ + 1, !.day = 1, !.sod = 0]
              [] OTHER -> [year |-> utc.year + 1, mon |-> 1, day |-> 1, sod |-> 0]
  /\ elapsed' = elapsed + DaySeconds - utc.sod
  /\ left' = left - 1

Next == Tick \/ Midnight

Spec == Init /\ [][Next]_vars

----------------------------------------------------------------------------
Instant(wsm) == wsm.week * WeekSeconds + wsm.sec

(* Type invariant: local2gps() returns a week of 16 bits and a second of
   that week, for every zone and leap second. *)
TypeOK ==
  /\ IsDate(utc)
  /\ left \in 0 .. Days
  /\ \A z \in Zones, l \in Leaps:
       local2gps(utc, z, l) \in [week: 0 .. WeekNumbers - 1, sec: 0 .. WeekSeconds - 1]

(* gps2local() undoes local2gps() in every zone, also where the zone or the
   leap seconds move the time into another day, month, year or week. *)
RoundTrip ==
  \A z \in Zones, l \in Leaps: gps2local(local2gps(utc, z, l), z, l) = utc

(* The GPS time of the clock is the count of its seconds plus the leap
   seconds, whatever zone the local time is given in. *)
OneInstant ==
  \A z \in Zones, l \in Leaps:
    Instant(local2gps(gmtime(elapsed + z * 3600), z, l)) = elapsed - l

(* UTC2GPS(), written with its own calendar and its own 18 leap seconds,
   names the same instant as utc2gps(). *)
SameInstant == Instant(UTC2GPS(utc)) = Instant(utc2gps(utc, -18))

(* All conversions agree about the instant, in both directions, and name it in
   range. *)
TimesAgree == TypeOK /\ OneInstant /\ RoundTrip /\ SameInstant

=============================================================================
