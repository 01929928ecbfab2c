------------------------------ MODULE MCHelpers ------------------------------
(* TLC instance of Helpers.  The clock goes through the ends of leap years,
   of common years and of the year 2000, and through the days around a new GPS
   week. *)
EXTENDS Helpers

Date(y, m, d) == [year |-> y, mon |-> m, day |-> d, sod |-> 0]

MCStarts == {Date(1980, 1, 7), Date(1999, 12, 30), Date(2000, 2, 27), Date(2023, 2, 26),
             Date(2024, 2, 27), Date(2025, 12, 29)}
MCZones == {-12, 0, 8, 14}
MCLeaps == {-18, -1}
=============================================================================
