----------------------------- MODULE DatedRows -----------------------------
(***************************************************************************)
(* The two loops that make the dates of a feed's rows: generate() of        *)
(* FeedSynthetic's generators, which asks the calendar about every point of *)
(* time, and FeedCsv's loop over the lines of a file.  Both convert dates   *)
(* one by one while the wall clock runs on, and its offset may change.      *)
(*                                                                         *)
(* Of the generated rows only the last is kept; what Feed does with rows is *)
(* in module Feed.                                                         *)
(***************************************************************************)
EXTENDS Dates, Sequences

CONSTANTS
    Zones,          \* the zones the process may run in
    Clock,          \* the readings of the wall clock
    Starts,         \* the generator's first dates, each with its place in the calendar
    Frequencies,    \* minutes from one generated date to the next
    Holidays,       \* days on which the exchanges of QuantLib's calendar are closed
    Maxlen,         \* GeneratorBase::maxlen
    Texts,          \* what a line of a file may show, in any order
    MaxLines        \* bound on the lines of a file

\* A place in the calendar, and the clock beside it.
Place == [year : Int, month : Months, day : 1 .. 31, wday : 0 .. 6, yday : 0 .. 365,
          time : 0 .. MinutesPerDay - 1]

\* The first dates are such that utc_tm shows their places.
ASSUME DatedRowsAssumption ==
    /\ Zones \subseteq Zone /\ Clock \subseteq Int
    /\ Starts \subseteq Place /\ \A start \in Starts : UtcTm(Shown(start)) = start
    /\ Frequencies \subseteq 1 .. MinutesPerDay
    /\ Holidays \subseteq Int /\ Maxlen \in Nat
    /\ Texts \subseteq Place /\ MaxLines \in Nat

VARIABLES
    zone,           \* TZ, as the process found it
    now,            \* the wall clock
    source,         \* which loop runs: "generator" or "file"
    frequency,
    date,           \* the generator's date
    counter,
    row,            \* the date of the last generated row, NullDate if there is none
    lines,          \* the rows of the file: date, and as history what the line
                    \* showed and the reading of the clock at which it was read
    calendar,       \* history: what a calendar shows on the generator's date
    state           \* "loop", "done", "null_date" or "no_qdate"

vars == << zone, now, source, frequency, date, counter, row, lines, calendar, state >>

-----------------------------------------------------------------------------
(***************************************************************************)
(* The calendar people use, turned over day by day.                        *)
(***************************************************************************)
IsLeap(year) == year % 4 = 0 /\ (year % 100 # 0 \/ year % 400 = 0)

DaysOf(year, month) ==
    CASE month = 2 -> IF IsLeap(year) THEN 29 ELSE 28
      [] month \in {4, 6, 9, 11} -> 30
      [] OTHER -> 31

DayAfter(c) ==
    LET lastOfMonth == c.day = DaysOf(c.year, c.month)
        lastOfYear == lastOfMonth /\ c.month = 12
    IN  [year |-> IF lastOfYear THEN c.year + 1 ELSE c.year,
         month |-> IF lastOfYear THEN 1 ELSE IF lastOfMonth THEN c.month + 1 ELSE c.month,
         day |-> IF lastOfMonth THEN 1 ELSE c.day + 1,
         wday |-> (c.wday + 1) % 7,
         yday |-> IF lastOfYear THEN 0 ELSE c.yday + 1,
         time |-> c.time]

\* The calendar, and the clock beside it, a number of minutes later.
Later(c, minutes) ==
    IF c.time + minutes < MinutesPerDay
    THEN [c EXCEPT !.time = @ + minutes]
    ELSE [DayAfter(c) EXCEPT !.time = c.time + minutes - MinutesPerDay]

-----------------------------------------------------------------------------
IsBusinessDay(fields) ==
    /\ fields.wday \notin {0, 6}
    /\ DaysFromCivil(fields.year, fields.month, fields.day) \notin Holidays

\* get_next_timepoint asserts that it is not asked about the null date.
GetNextTimepoint ==
    IF date = NullDate
    THEN state' = "null_date" /\ UNCHANGED << date, calendar >>
    ELSE /\ date' = date + frequency
         /\ calendar' = Later(calendar, frequency)
         /\ UNCHANGED state

(***************************************************************************)
(* One pass of generate() at a date that is not beyond its end: a row if    *)
(* the day is a business day.  counter++ is part of the loop's condition.   *)
(* A day that QuantLib has no date for throws.                             *)
(***************************************************************************)
Generate ==
    /\ source = "generator" /\ state = "loop"
    /\ counter' = counter + 1
    /\ IF counter >= Maxlen
       THEN state' = "done" /\ UNCHANGED << date, row, calendar >>
       ELSE LET day == ToQdate(zone, now, date) IN
            IF day.year \notin QlYears
            THEN state' = "no_qdate" /\ UNCHANGED << date, row, calendar >>
            ELSE /\ row' = IF IsBusinessDay(day) THEN date ELSE row
                 /\ GetNextTimepoint
    /\ UNCHANGED << zone, now, source, frequency, lines >>

(***************************************************************************)
(* One line of a file of bars: its text becomes the date of a row, which    *)
(* the loop asserts is not null.                                           *)
(***************************************************************************)
ReadLine(text) ==
    LET read == ToDatetime(zone, now, text)
    IN  /\ source = "file" /\ state = "loop"
        /\ Len(lines) < MaxLines
        /\ IF read = NullDate
           THEN state' = "null_date" /\ UNCHANGED lines
           ELSE /\ lines' = Append(lines, [shown |-> Shown(text), at |-> now, date |-> read])
                /\ UNCHANGED state
        /\ UNCHANGED << zone, now, source, frequency, date, counter, row, calendar >>

\* The generator's date is beyond its end, or the file has no more lines.
LoopEnds ==
    /\ state = "loop"
    /\ state' = "done"
    /\ UNCHANGED << zone, now, source, frequency, date, counter, row, lines, calendar >>

\* The wall clock, which only goes forward.
Tick ==
    /\ state = "loop"
    /\ now' \in {t \in Clock : t > now}
    /\ UNCHANGED << zone, source, frequency, date, counter, row, lines, calendar, state >>

Init ==
    /\ zone \in Zones /\ now \in Clock
    /\ source \in {"generator", "file"} /\ frequency \in Frequencies
    /\ calendar \in Starts /\ date = Shown(calendar)
    /\ counter = 0 /\ row = NullDate /\ lines = << >>
    /\ state = "loop"

Next ==
    \/ Generate
    \/ \E text \in Texts : ReadLine(text)
    \/ LoopEnds
    \/ Tick

Spec == Init /\ [][Next]_vars

-----------------------------------------------------------------------------
(***************************************************************************)
(* Properties.                                                             *)
(***************************************************************************)
\* A place in the calendar a number of years on, at midnight.
Midnight(place, years) == [place EXCEPT !.year = @ + years, !.time = 0]

(***************************************************************************)
(* The calendar algorithms show what a calendar shows that was turned over  *)
(* day by day, and lead back to the same day; eras away, where the date of  *)
(* no row can be, they show the same day of another year (civil_from_days,  *)
(* days_from_civil, weekday_from_days, round_down, utc_tm).                *)
(***************************************************************************)
CalendarAgrees ==
    /\ UtcTm(date) = calendar
    /\ \A era \in -6 .. 1 :
          LET days == DaysFromCivil(calendar.year + 400 * era, calendar.month, calendar.day) IN
          /\ days = RoundDown(date) + DaysPerEra * era
          /\ UtcTm(days * MinutesPerDay) = Midnight(calendar, 400 * era)

(***************************************************************************)
(* Of two lines, the one that shows the earlier time gets the earlier date, *)
(* so that the sort after the loop, which does not keep the order of equal  *)
(* ones, puts them in the order of their texts, in any zone and season and  *)
(* whatever order they are read in.  Only lines that are no more than an    *)
(* hour apart may change places, and only when the earlier one was read by  *)
(* a clock set forward and the later one was not, which loses it an hour    *)
(* (to_time_t).                                                            *)
(***************************************************************************)
LinesKeepOrder ==
    \A i, j \in DOMAIN lines :
        /\ lines[i].shown < lines[j].shown
        /\ \/ lines[j].shown > lines[i].shown + MinutesPerHour
           \/ OffsetAt(zone, lines[j].at) >= OffsetAt(zone, lines[i].at)
        => lines[i].date < lines[j].date

(***************************************************************************)
(* An hour or more east of Greenwich a generator with one row a day, at     *)
(* midnight, has rows on the business days of the calendar and on no other, *)
(* whatever season it is generated in (to_qdate).  Elsewhere the hour that  *)
(* parsing loses, or the zone, makes the calendar judge the day before.     *)
(***************************************************************************)
RowsOnBusinessDays ==
    [][ /\ source = "generator" /\ frequency = MinutesPerDay
        /\ calendar.time = 0 /\ zone.offset >= MinutesPerHour
        /\ counter' # counter /\ date' # date
        => (row' = date <=> IsBusinessDay(calendar)) ]_vars

(***************************************************************************)
(* TEST(detail, dateString): the text of a day, converted to a date and     *)
(* back, is the same text.                                                 *)
(***************************************************************************)
DateString ==
    LET text == [calendar EXCEPT !.time = 0]
    IN  DateToStr(ToDate(ToDatetime(zone, now, text))) = text
=============================================================================
