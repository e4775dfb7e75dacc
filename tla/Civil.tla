------------------------------- MODULE Civil -------------------------------
(***************************************************************************)
(* papryka/detail/date.ipp: the calendar algorithms, days since 1970-01-01  *)
(* to year, month and day and back, as arithmetic.                         *)
(*                                                                         *)
(* A point of time is a number of minutes since the epoch, and a time of    *)
(* day one of minutes since midnight: seconds go through every conversion   *)
(* unchanged, and are left out.                                            *)
(***************************************************************************)
EXTENDS Integers

\* C++ division of integers rounds towards zero.
TruncDiv(a, b) == IF a >= 0 THEN a \div b ELSE -((-a) \div b)
TruncMod(a, b) == a - b * TruncDiv(a, b)

MinutesPerHour == 60
MinutesPerDay == 1440
DaysPerEra == 146097        \* 400 years

-----------------------------------------------------------------------------
\* The era, of the given length, that n falls into.
EraOf(n, length) == TruncDiv(IF n >= 0 THEN n ELSE n - (length - 1), length)

\* The day's number within a year that begins in March.
DayOfYear(m, d) == (153 * (m + (IF m > 2 THEN -3 ELSE 9)) + 2) \div 5 + d - 1

DaysFromCivil(year, m, d) ==
    LET y == IF m <= 2 THEN year - 1 ELSE year
        era == EraOf(y, 400)
        yoe == y - era * 400
        doe == yoe * 365 + yoe \div 4 - yoe \div 100 + DayOfYear(m, d)
    IN  era * DaysPerEra + doe - 719468

\* Slip: forgets that the last day of an era is a leap day.
YearOfEra_NoLeapEra(doe) == (doe - doe \div 1460 + doe \div 36524) \div 365

YearOfEra(doe) == (doe - doe \div 1460 + doe \div 36524 - doe \div 146096) \div 365

CivilFromDays(days) ==
    LET z == days + 719468
        era == EraOf(z, DaysPerEra)
        doe == z - era * DaysPerEra
        yoe == YearOfEra(doe)
        doy == doe - (365 * yoe + yoe \div 4 - yoe \div 100)
        mp == (5 * doy + 2) \div 153
        m == mp + (IF mp < 10 THEN 3 ELSE -9)
    IN  [year |-> yoe + era * 400 + (IF m <= 2 THEN 1 ELSE 0),
         month |-> m,
         day |-> doy - (153 * mp + 2) \div 5 + 1]

\* 0 is Sunday.
WeekdayFromDays(z) ==
    IF z >= -4 THEN TruncMod(z + 4, 7) ELSE TruncMod(z + 5, 7) + 6

\* round_down<days>: the cast truncates, and a later result is set back.
RoundDown(t) ==
    LET days == TruncDiv(t, MinutesPerDay)
    IN  IF days * MinutesPerDay > t THEN days - 1 ELSE days

\* utc_tm, with the year and the month as people count them.
UtcTm(t) ==
    LET d == RoundDown(t)
        civil == CivilFromDays(d)
    IN  [year |-> civil.year, month |-> civil.month, day |-> civil.day,
         wday |-> WeekdayFromDays(d),
         yday |-> d - DaysFromCivil(civil.year, 1, 1),
         time |-> t - d * MinutesPerDay]
=============================================================================
