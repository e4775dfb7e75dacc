------------------------------- MODULE Dates -------------------------------
(***************************************************************************)
(* papryka/detail/date.ipp: texts to points of time and back.               *)
(*                                                                         *)
(* A text is the record of the fields it shows.  What the conversions do    *)
(* depends on the zone of the process and, since to_time_t corrects         *)
(* mktime's answer by the offset of the moment it runs at, on the wall      *)
(* clock.  A zone has an offset to UTC, in minutes, and the months in which *)
(* clocks are set forward by an hour; it changes its clocks at the          *)
(* beginning of a month, and it may have no such months.  What mktime then  *)
(* makes of tm_isdst = 1 is up to the C library: minds tells whether it     *)
(* takes the text for that of a clock set forward all the same.            *)
(***************************************************************************)
EXTENDS Civil

Months == 1 .. 12

Zone == [offset : -12 * MinutesPerHour .. 14 * MinutesPerHour,
         saving : SUBSET Months, minds : BOOLEAN]

\* nulldate
NullDate == 0

-----------------------------------------------------------------------------
(***************************************************************************)
(* The C library.                                                          *)
(***************************************************************************)
\* gmtime; utc_tm gives the same fields.
GmTime(t) == UtcTm(t)

\* tm_gmtoff of localtime.
OffsetAt(zone, t) ==
    IF GmTime(t).month \in zone.saving THEN zone.offset + MinutesPerHour ELSE zone.offset

LocalTime(zone, t) == GmTime(t + OffsetAt(zone, t))

\* The point of time at which a clock of UTC shows the text.
Shown(text) ==
    DaysFromCivil(text.year, text.month, text.day) * MinutesPerDay + text.time

\* Slip: with tm_isdst = -1, mktime finds out whether the clock was set forward.
MkTime_FindsOut(zone, text) == Shown(text) - OffsetAt(zone, Shown(text) - zone.offset)

\* mktime with tm_isdst = 1 takes the text for that of a clock set forward, also
\* in the months in which the zone's clocks are not.
SetForward(zone) == zone.saving # {} \/ zone.minds
MkTime(zone, text) ==
    Shown(text) - zone.offset - (IF SetForward(zone) THEN MinutesPerHour ELSE 0)

-----------------------------------------------------------------------------
\* Slip: the local time is left as it is.
GmtOf_Local(zone, now, t) == t

\* to_time_t adds get_utc_offset(), which is that of the wall clock.
GmtOf(zone, now, t) == t + OffsetAt(zone, now)

\* to_time_t; to_datetime has nothing to add but milliseconds.
ToDatetime(zone, now, text) == GmtOf(zone, now, MkTime(zone, text))

\* to_date of a point of time: time_point_cast truncates.
ToDate(t) == TruncDiv(t, MinutesPerDay)

\* to_str of a point of time, in UTC, and of a date.
ToStr(t) == GmTime(t)
DateToStr(date) == GmTime(date * MinutesPerDay)

\* The years of a QuantLib date.
QlYears == 1901 .. 2199

\* to_qdate: the local fields of the text, parsed again.
ToQdate(zone, now, t) == LocalTime(zone, ToDatetime(zone, now, ToStr(t)))
=============================================================================
