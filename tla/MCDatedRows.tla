---------------------------- MODULE MCDatedRows ----------------------------
(***************************************************************************)
(* Instances of module DatedRows.                                          *)
(***************************************************************************)
EXTENDS DatedRows

London == [offset |-> 0, saving |-> 4 .. 10, minds |-> TRUE]
NewYork == [offset |-> -300, saving |-> 4 .. 10, minds |-> TRUE]
Berlin == [offset |-> 60, saving |-> 4 .. 10, minds |-> TRUE]
Sydney == [offset |-> 600, saving |-> {1, 2, 3, 10, 11, 12}, minds |-> TRUE]

\* Clocks that are never set forward, with a C library that minds and one that does not.
Tokyo == [offset |-> 540, saving |-> {}, minds |-> TRUE]
Kolkata == [offset |-> 330, saving |-> {}, minds |-> FALSE]

SomeZones == {London, NewYork, Berlin, Sydney, Tokyo, Kolkata}
JustLondon == {London}

Month(year, month) == DaysFromCivil(year, month, 1) * MinutesPerDay

\* A winter, the summer after it, and the next winter.
SomeClock == {Month(2018, 1), Month(2018, 7), Month(2019, 1)}

At(year, month, day, wday, yday, time) ==
    [year |-> year, month |-> month, day |-> day, wday |-> wday, yday |-> yday, time |-> time]

\* Before what QuantLib has dates for; before the epoch, with midnights that come
\* upon it and without; before the leap day of an era; before a year without one.
SomeStarts ==
    { At(1900, 12, 30, 0, 363, 0), At(1901, 1, 2, 3, 1, 0),
      At(1969, 12, 1, 1, 334, 0), At(1969, 3, 31, 1, 89, 720),
      At(1999, 9, 1, 3, 243, 0), At(2099, 1, 1, 4, 0, 0) }

\* The epoch and an hour later; and less than an hour, an hour, and more apart, about
\* a change of the clocks.
SomeTexts ==
    { At(1970, 1, 1, 4, 0, 0), At(1970, 1, 1, 4, 0, 60),
      At(2018, 3, 31, 6, 89, 1410), At(2018, 4, 1, 0, 90, 0), At(2018, 4, 1, 0, 90, 30),
      At(2018, 4, 1, 0, 90, 31) }

TestStart == { At(2000, 11, 3, 5, 307, 0) }

\* 1999-11-25 and 2000-01-17, which were Thanksgiving and Martin Luther King's day.
SomeHolidays == {DaysFromCivil(1999, 11, 25), DaysFromCivil(2000, 1, 17)}
=============================================================================
