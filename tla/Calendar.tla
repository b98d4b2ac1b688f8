------------------------------ MODULE Calendar ------------------------------
(***************************************************************************)
(* Dates and times (rustypi_core::time): what DateTime and Zone compute,   *)
(* beside a calendar that is kept by hand.  It goes from one day to the    *)
(* next as a calendar on paper does, and from one of the Times of a day to *)
(* the next, beginning with the first day of any month.                    *)
(*                                                                         *)
(* Unix time is a pair <<days, seconds of the day>>: a number of seconds   *)
(* would not fit TLC's integers past 2038.  The code's is 64 bits wide.    *)
(***************************************************************************)
EXTENDS Integers, FiniteSetsExt

CONSTANTS Times,      \* the times of day, in seconds
          LastYear    \* bound: the last year of the calendar

VARIABLES unix,       \* Unix time
          date,       \* the date on paper, with its weekday: 0 for Monday
          summer,     \* whether Sweden has summer time
          stamp       \* what a file written at the time before this one got, in each zone,
                      \* and whether Sweden had summer time then

vars == <<unix, date, summer, stamp>>

Date(year, month, day) == [year |-> year, month |-> month, day |-> day]
-----------------------------------------------------------------------------
(* DateTime and Zone.  The remainders are Euclidean, as TLA+'s are.        *)

DaysFromCivil(year, month, day) ==
  LET y0 == IF month > 12 THEN year + 1 ELSE year
      m == IF month > 12 THEN month - 12 ELSE month
      y == IF m <= 2 THEN y0 - 1 ELSE y0
      yoe == y % 400
      doy == (153 * ((m + 9) % 12) + 2) \div 5 + day - 1
      doe == yoe * 365 + yoe \div 4 - yoe \div 100 + doy
  IN  (y \div 400) * 146097 + doe - 719468

\* Mutated form of YearOfEra: an era of 400 years doesn't end with a leap day.
YearOfEraShort(doe) == (doe - doe \div 1460 + doe \div 36524) \div 365

YearOfEra(doe) == (doe - doe \div 1460 + doe \div 36524 - doe \div 146096) \div 365

\* DateTime::from_unix: the date
FromDays(days) ==
  LET z == days + 719468
      doe == z % 146097
      yoe == YearOfEra(doe)
      doy == doe - (365 * yoe + yoe \div 4 - yoe \div 100)
      mp == (5 * doy + 2) \div 153
      month == IF mp < 10 THEN mp + 3 ELSE mp - 9
  IN  Date(yoe + (z \div 146097) * 400 + (IF month <= 2 THEN 1 ELSE 0), month, doy - (153 * mp + 2) \div 5 + 1)

Weekday(days) == (days + 3) % 7

\* Mutated form of LastSunday: a month that ends on a Sunday.
LastSundayBefore(year, month) ==
  LET last == DaysFromCivil(year, month + 1, 1) - 1
  IN  last - (Weekday(last) + 1)

LastSunday(year, month) ==
  LET last == DaysFromCivil(year, month + 1, 1) - 1
  IN  last - ((Weekday(last) + 1) % 7)

Before(a, b) == a[1] < b[1] \/ (a[1] = b[1] /\ a[2] < b[2])

Zones == {"utc", "sv"}

\* Zone::offset
Offset(zone, time) ==
  LET year == FromDays(time[1]).year
      start == <<LastSunday(year, 3), 3600>>
      end == <<LastSunday(year, 10), 3600>>
  IN  CASE zone = "utc" -> 0
        [] ~Before(time, start) /\ Before(time, end) -> 7200
        [] OTHER -> 3600

Later(time, seconds) == <<time[1] + (time[2] + seconds) \div 86400, (time[2] + seconds) % 86400>>

\* Zone::local
Local(zone, time) == Later(time, Offset(zone, time))

\* Mutated form of Years: years before FAT's first aren't looked at.
YearsUnclamped(year) == (IF year - 1980 <= 127 THEN year - 1980 ELSE 127) % 65536

\* The year as a FAT date has it, or -1 for one before its first.
Years(year) == IF year < 1980 THEN -1 ELSE IF year - 1980 <= 127 THEN year - 1980 ELSE 127

\* DateTime::fat: the date and the time, 16 bits each
Fat(time) ==
  LET d == FromDays(time[1])
      s == time[2]
  IN  IF Years(d.year) = -1 THEN <<33, 0>>
      ELSE <<(Years(d.year) * 512 + d.month * 32 + d.day) % 65536,
             (s \div 3600) * 2048 + ((s \div 60) % 60) * 32 + (s % 60) \div 2>>

\* with_fs_writing: entries get the local time.
Stamp(zone, time) == Fat(Local(zone, time))
-----------------------------------------------------------------------------
(* The calendar on paper                                                   *)

IsLeap(year) == year % 4 = 0 /\ (year % 100 = 0 => year % 400 = 0)

DaysIn(year, month) ==
  CASE month = 2 -> IF IsLeap(year) THEN 29 ELSE 28
    [] month \in {4, 6, 9, 11} -> 30
    [] OTHER -> 31

Following(d) ==
  IF d.day < DaysIn(d.year, d.month) THEN [d EXCEPT !.day = @ + 1]
  ELSE IF d.month < 12 THEN [d EXCEPT !.day = 1, !.month = @ + 1]
  ELSE [d EXCEPT !.day = 1, !.month = 1, !.year = @ + 1]

\* What is remembered of a time when the next comes.
Stamped == [at |-> [zone \in Zones |-> Stamp(zone, unix)], summer |-> summer]

NextWeekday(w) == (w + 1) % 7

First == CHOOSE s \in Times : \A other \in Times : s <= other

\* In the last seven days of March and October, on the Sunday, from 01:00.
Switches(d, s) == d.weekday = 6 /\ s >= 3600 /\ d.day + 7 > DaysIn(d.year, d.month)

Noted(d, s) ==
  summer' = (CASE d.month = 3 /\ Switches(d, s) -> TRUE
               [] d.month = 10 /\ Switches(d, s) -> FALSE
               [] OTHER -> summer)

SameDay ==
  LET later == {s \in Times : s > unix[2]}
      s == CHOOSE x \in later : \A other \in later : x <= other
  IN  /\ later # {}
      /\ unix' = <<unix[1], s>>
      /\ Noted(date, s)
      /\ stamp' = Stamped
      /\ UNCHANGED date

NextDay ==
  LET d == [Following(date) EXCEPT !.weekday = NextWeekday(@)]
  IN  /\ \A s \in Times : s <= unix[2]
      /\ d.year <= LastYear
      /\ unix' = <<unix[1] + 1, First>>
      /\ date' = d
      /\ Noted(d, First)
      /\ stamp' = Stamped

DaysBefore(year, month) ==
  365 * (year - 1970) + Cardinality({y \in 1970 .. year - 1 : IsLeap(y)})
    + MapThenSumSet(LAMBDA m : DaysIn(year, m), 1 .. month - 1)

\* The first of any month; 1 January 1970 was a Thursday.
Init ==
  /\ \E year \in 1970 .. LastYear, month \in 1 .. 12 :
       LET days == DaysBefore(year, month)
       IN  /\ unix = <<days, First>>
           /\ date = [year |-> year, month |-> month, day |-> 1, weekday |-> (days + 3) % 7]
           /\ summer = (month \in 4 .. 10)
  /\ stamp = Stamped

Next == SameDay \/ NextDay

Spec == Init /\ [][Next]_vars
-----------------------------------------------------------------------------
(* Properties.                                                             *)

\* from_unix gives every day its date and weekday, over leap years, centuries and the end of an
\* era of 400 years; days_from_civil takes a date back to its day.
DateIsRight ==
  /\ FromDays(unix[1]) = Date(date.year, date.month, date.day)
  /\ Weekday(unix[1]) = date.weekday
  /\ DaysFromCivil(date.year, date.month, date.day) = unix[1]

\* "CET, UTC+1, and CEST, UTC+2, from the last Sunday of March to the last Sunday of October,
\* switching at 01:00 UTC": Zone::offset switches at the second, and local is that far ahead.
SummerTimeRight ==
  /\ Offset("sv", unix) = (IF summer THEN 7200 ELSE 3600)
  /\ \A zone \in Zones :
       LET local == Local(zone, unix)
       IN  (local[1] - unix[1]) * 86400 + local[2] - unix[2] = Offset(zone, unix)

\* A file that is written later has no earlier modification time, through the end of a minute, a
\* day and a year, and before 1980, but for one: it is the local time that with_fs_writing stamps,
\* and in Sweden that goes back from 03:00 to 02:00 when summer time ends. Then, and at no other
\* time, a stamp may be earlier than one before, by an hour at most (as long as the zone is not
\* switched). That is so until the end of 2107: the year is clamped after that, but not the month and
\* the day.
StampsGoForward ==
  \A zone \in Zones :
    LET local == Local(zone, unix)
        repeated == IF zone = "sv" /\ stamp.summer /\ ~summer THEN 3600 ELSE 0
    IN  FromDays(local[1]).year <= 2107 => ~Before(Fat(Later(local, repeated)), stamp.at[zone])
=============================================================================
