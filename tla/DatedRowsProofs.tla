-------------------------- MODULE DatedRowsProofs --------------------------
(***************************************************************************)
(* Proofs about the calendar algorithms of date.ipp, for every day there    *)
(* is, and about the loops of DatedRows, for all zones, clocks and first    *)
(* dates.                                                                  *)
(*                                                                         *)
(* Both directions of the conversion are reduced to one function: the day   *)
(* on which a year that begins in March begins (YearStart).  A day belongs  *)
(* to the only year that begins on it or before and ends after it, and      *)
(* days_from_civil and civil_from_days both go through that year.  The next *)
(* day is then in the same year or the first of the next one, and within a  *)
(* year the months are a finite table.                                     *)
(*                                                                         *)
(* Leaves name SMT where numbers are large, since Zenon writes them out.    *)
(***************************************************************************)
EXTENDS DatedRows, TLAPS

\* The day on which year y begins, in March, counted from that of year 0.
YearStart(y) == 365 * y + y \div 4 - y \div 100 + y \div 400

\* Subtracting an era less one before a truncating division rounds it down.
LEMMA EraIsFloor ==
    \A n \in Int : EraOf(n, 400) = n \div 400 /\ EraOf(n, DaysPerEra) = n \div DaysPerEra
BY SMT DEF EraOf, TruncDiv, DaysPerEra

\* weekday_from_days counts the days modulo 7, before the epoch too.
LEMMA WeekdayIs == \A z \in Int : WeekdayFromDays(z) = (z + 4) % 7
BY SMTT(30) DEF WeekdayFromDays, TruncMod, TruncDiv

\* round_down rounds down, before the epoch too.
LEMMA RoundDownIs ==
    \A t \in Int : RoundDown(t) = t \div 1440 /\ RoundDown(t) \in Int
BY SMTT(30) DEF RoundDown, TruncDiv, MinutesPerDay

\* 400 years are an era: that many years on, the year begins an era's days on.
LEMMA YearStartByEra ==
    \A y, k, n \in Int : n = y + 400 * k => YearStart(n) = YearStart(y) + DaysPerEra * k
<1> SUFFICES ASSUME NEW y \in Int, NEW k \in Int
    PROVE  YearStart(y + 400 * k) = YearStart(y) + DaysPerEra * k
    BY SMT
<1>1. (y + 400 * k) \div 4 = y \div 4 + 100 * k
    BY SMT
<1>2. (y + 400 * k) \div 100 = y \div 100 + 4 * k
    BY SMT
<1>3. (y + 400 * k) \div 400 = y \div 400 + k
    BY SMT
<1> QED BY <1>1, <1>2, <1>3, SMT DEF YearStart, DaysPerEra

\* The same of the year after.
LEMMA NextYearStartByEra ==
    \A y, k, n \in Int : n = y + 400 * k
        => YearStart(n + 1) = YearStart(y + 1) + DaysPerEra * k
<1> SUFFICES ASSUME NEW y \in Int, NEW k \in Int, NEW n \in Int, n = y + 400 * k
    PROVE  YearStart(n + 1) = YearStart(y + 1) + DaysPerEra * k
    BY SMT
<1> DEFINE y1 == y + 1
           n1 == n + 1
<1>1. y1 \in Int /\ n1 \in Int /\ n1 = y1 + 400 * k
    BY SMT
<1> HIDE DEF y1, n1
<1>2. YearStart(n1) = YearStart(y1) + DaysPerEra * k
    BY <1>1, YearStartByEra, SMT
<1> QED BY <1>2, SMT DEF y1, n1

\* The day on which a year begins is a number.
LEMMA YearStartType == \A y \in Int : YearStart(y) \in Int
BY SMT DEF YearStart

\* A year that begins in March has its leap day at its end.
LEMMA YearLength ==
    \A y \in Int : YearStart(y + 1) - YearStart(y) = IF IsLeap(y + 1) THEN 366 ELSE 365
BY SMTT(60) DEF YearStart, IsLeap

\* A later year does not begin earlier.
LEMMA YearsInOrder ==
    \A y, z \in Int : y <= z => YearStart(y) <= YearStart(z)
BY SMTT(60) DEF YearStart

\* days_from_civil, without the detour by eras.
LEMMA DaysFromCivilIs ==
    \A y \in Int, m \in Months, d \in Int :
        DaysFromCivil(y, m, d)
            = YearStart(IF m <= 2 THEN y - 1 ELSE y) + DayOfYear(m, d) - 719468
<1> SUFFICES ASSUME NEW y \in Int, NEW m \in Months, NEW d \in Int
    PROVE  DaysFromCivil(y, m, d)
            = YearStart(IF m <= 2 THEN y - 1 ELSE y) + DayOfYear(m, d) - 719468
    BY SMT
<1> DEFINE n == IF m <= 2 THEN y - 1 ELSE y
           era == n \div 400
           yoe == n - era * 400
<1>1. n \in Int /\ era \in Int /\ yoe \in 0 .. 399 /\ n = yoe + 400 * era
    BY SMT
<1>2. DaysFromCivil(y, m, d)
          = era * DaysPerEra + (yoe * 365 + yoe \div 4 - yoe \div 100 + DayOfYear(m, d)) - 719468
    <2>1. EraOf(n, 400) = n \div 400
        <3> HIDE DEF n
        <3> QED BY <1>1, EraIsFloor, SMT
    <2>2. DaysFromCivil(y, m, d)
              = EraOf(n, 400) * DaysPerEra
                    + ((n - EraOf(n, 400) * 400) * 365 + (n - EraOf(n, 400) * 400) \div 4
                       - (n - EraOf(n, 400) * 400) \div 100 + DayOfYear(m, d)) - 719468
        <3> HIDE DEF era, yoe
        <3> QED BY SMT DEF DaysFromCivil
    <2> HIDE DEF n
    <2> QED BY <2>1, <2>2, SMT
<1>3. YearStart(n) = YearStart(yoe) + DaysPerEra * era
    <2> HIDE DEF n, era, yoe
    <2> QED BY <1>1, YearStartByEra, SMT
<1>4. YearStart(yoe) = 365 * yoe + yoe \div 4 - yoe \div 100
    BY <1>1, SMT DEF YearStart
<1>5. DayOfYear(m, d) \in Int
    BY SMT DEF DayOfYear, Months
<1> HIDE DEF n, era, yoe
<1>6. YearStart(n) = 365 * yoe + yoe \div 4 - yoe \div 100 + 146097 * era
    BY <1>3, <1>4, SMT DEF DaysPerEra
<1>7. era * DaysPerEra = 146097 * era
    BY <1>1, SMT DEF DaysPerEra
<1> QED BY <1>1, <1>2, <1>6, <1>7, <1>5, SMT DEF n

\* The year of the era that the algorithm finds by its three divisions is the one that
\* the day falls into.  Its day is split into centuries c, four-year cycles k and days p.
LEMMA YearOfEraIs ==
    \A doe \in Int : 0 <= doe /\ doe < DaysPerEra =>
        /\ YearOfEra(doe) \in 0 .. 399
        /\ YearStart(YearOfEra(doe)) <= doe
        /\ doe < YearStart(YearOfEra(doe) + 1)
<1> SUFFICES ASSUME NEW doe \in Int, 0 <= doe, doe < DaysPerEra
    PROVE  /\ YearOfEra(doe) \in 0 .. 399
           /\ YearStart(YearOfEra(doe)) <= doe
           /\ doe < YearStart(YearOfEra(doe) + 1)
    BY SMT
<1>0. doe \in Int /\ 0 <= doe /\ doe <= 146096
    BY SMT DEF DaysPerEra
<1>1. CASE doe = 146096
    <2>1. YearOfEra(doe) = 399
        BY <1>1, SMT DEF YearOfEra
    <2> QED BY <2>1, <1>1, SMT DEF YearStart
<1>2. CASE doe < 146096
    <2> DEFINE c == doe \div 36524
               k == (doe % 36524) \div 1461
               p == (doe % 36524) % 1461
    <2>1. /\ c \in 0 .. 3 /\ k \in 0 .. 24 /\ p \in 0 .. 1460
          /\ doe = 36524 * c + 1461 * k + p
          /\ 1461 * k + p < 36524
        BY <1>0, <1>2, SMT
    <2> HIDE DEF k, p
    <2>2. doe \div 146096 = 0
        BY <1>0, <1>2, SMT
    <2> DEFINE s == IF p < 365 THEN 0 ELSE IF p < 730 THEN 1 ELSE IF p < 1095 THEN 2 ELSE 3
               yoe == 100 * c + 4 * k + s
    <2>3. s \in 0 .. 3 /\ 365 * s <= p /\ p <= 365 * s + (IF s = 3 THEN 365 ELSE 364)
        BY <2>1, SMT
    <2>4. YearOfEra(doe) = (doe - doe \div 1460 + c) \div 365
        BY <2>2, <1>0, SMT DEF YearOfEra
    <2> HIDE DEF c, s
    <2>5. doe \div 1460 = 25 * c + k + (IF 24 * c + k + p < 1460 THEN 0 ELSE 1)
        BY <2>1, SMT
    <2>6. YearOfEra(doe) = yoe
        <3>1. CASE 24 * c + k + p < 1460
            <4>1. doe - doe \div 1460 + c = 365 * yoe + (p - 365 * s)
                BY <3>1, <2>5, <2>1, <2>3, SMT
            <4>2. p - 365 * s \in 0 .. 364
                BY <3>1, <2>1, <2>3, SMT
            <4>3. yoe \in Int
                BY <2>1, <2>3, SMT
            <4> HIDE DEF yoe
            <4>4. (365 * yoe + (p - 365 * s)) \div 365 = yoe
                BY <4>2, <4>3, SMT
            <4> QED BY <4>1, <4>4, <2>4, SMT
        <3>2. CASE ~ (24 * c + k + p < 1460)
            <4>1. doe - doe \div 1460 + c = 365 * yoe + (p - 365 * s - 1)
                BY <3>2, <2>5, <2>1, <2>3, SMT
            <4>2. p - 365 * s - 1 \in 0 .. 364
                BY <3>2, <2>1, <2>3, SMT DEF s
            <4>3. yoe \in Int
                BY <2>1, <2>3, SMT
            <4> HIDE DEF yoe
            <4>4. (365 * yoe + (p - 365 * s - 1)) \div 365 = yoe
                BY <4>2, <4>3, SMT
            <4> QED BY <4>1, <4>4, <2>4, SMT
        <3> QED BY <3>1, <3>2, SMT
    <2>7. yoe \in 0 .. 399
        BY <2>1, <2>3, SMT
    <2>8. yoe \div 4 = 25 * c + k /\ yoe \div 100 = c /\ yoe \div 400 = 0
        BY <2>1, <2>3, SMT
    <2>9. YearStart(yoe) = 36524 * c + 1461 * k + 365 * s
        BY <2>8, <2>1, <2>3, SMT DEF YearStart
    <2>10. YearStart(yoe + 1) = YearStart(yoe) + (IF IsLeap(yoe + 1) THEN 366 ELSE 365)
        <3> HIDE DEF yoe
        <3>1. yoe \in Int /\ YearStart(yoe) \in Int /\ YearStart(yoe + 1) \in Int
            BY <2>7, SMT DEF YearStart
        <3> QED BY <2>7, <3>1, YearLength, SMT
    <2>11. p - 365 * s = 365 => IsLeap(yoe + 1)
        <3> SUFFICES ASSUME p - 365 * s = 365 PROVE IsLeap(yoe + 1)
            BY SMT
        <3>1. s = 3 /\ k < 24
            BY <2>1, <2>3, SMT
        <3>2. yoe + 1 = 100 * c + 4 * (k + 1)
            BY <3>1, <2>1, SMT
        <3>3. (yoe + 1) % 4 = 0 /\ (yoe + 1) % 100 # 0
            BY <3>1, <3>2, <2>1, SMT
        <3> QED BY <3>3, SMT DEF IsLeap
    <2>12. p - 365 * s \in 0 .. 365
        BY <2>1, <2>3, SMT
    <2>13. doe = YearStart(yoe) + (p - 365 * s)
        BY <2>1, <2>9, <2>3, SMT
    <2> QED BY <2>6, <2>7, <2>9, <2>10, <2>11, <2>12, <2>13, <2>1, <2>3, SMT
<1> QED BY <1>0, <1>1, <1>2, SMT

-----------------------------------------------------------------------------
\* The year, from March on, that civil_from_days finds for day z, and the day in it.
MarchYear(z) ==
    LET n == z + 719468
        era == EraOf(n, DaysPerEra)
    IN  YearOfEra(n - era * DaysPerEra) + era * 400

MarchDay(z) == z + 719468 - YearStart(MarchYear(z))

\* Its months, counted from March, and their days.
MonthNumber(doy) == (5 * doy + 2) \div 153
MonthOf(doy) == MonthNumber(doy) + (IF MonthNumber(doy) < 10 THEN 3 ELSE -9)
DayOfMonth(doy) == doy - (153 * MonthNumber(doy) + 2) \div 5 + 1

\* The year that civil_from_days finds has begun on that day, and has not ended.
LEMMA YearIs ==
    \A z \in Int : /\ MarchYear(z) \in Int /\ MarchDay(z) \in 0 .. 365
                   /\ YearStart(MarchYear(z)) <= z + 719468
                   /\ z + 719468 < YearStart(MarchYear(z) + 1)
<1> SUFFICES ASSUME NEW z \in Int
    PROVE  /\ MarchYear(z) \in Int /\ MarchDay(z) \in 0 .. 365
           /\ YearStart(MarchYear(z)) <= z + 719468
           /\ z + 719468 < YearStart(MarchYear(z) + 1)
    BY SMT
<1> DEFINE n == z + 719468
           era == n \div DaysPerEra
           doe == n - era * DaysPerEra
           yoe == YearOfEra(doe)
<1>1. /\ n \in Int /\ era \in Int /\ doe \in Int
      /\ 0 <= doe /\ doe < DaysPerEra /\ n = doe + DaysPerEra * era
    <2>1. n \in Int
        BY SMT
    <2> HIDE DEF n
    <2> QED BY <2>1, SMT DEF DaysPerEra
<1>2. MarchYear(z) = yoe + era * 400
    <2>1. EraOf(n, DaysPerEra) = era
        BY <1>1, EraIsFloor, SMT
    <2> HIDE DEF era
    <2> QED BY <2>1, SMT DEF MarchYear
<1> HIDE DEF doe, era
<1>3. /\ yoe \in 0 .. 399 /\ YearStart(yoe) <= doe /\ doe < YearStart(yoe + 1)
    BY <1>1, YearOfEraIs, SMT
<1> HIDE DEF yoe, n
<1>4. /\ MarchYear(z) \in Int /\ MarchYear(z) = yoe + 400 * era
      /\ MarchYear(z) + 1 \in Int /\ MarchYear(z) + 1 = (yoe + 1) + 400 * era
      /\ yoe \in Int /\ yoe + 1 \in Int
    BY <1>1, <1>2, <1>3, SMT
<1>5. /\ YearStart(MarchYear(z)) = YearStart(yoe) + DaysPerEra * era
      /\ YearStart(MarchYear(z) + 1) = YearStart(yoe + 1) + DaysPerEra * era
      /\ YearStart(yoe) \in Int /\ YearStart(yoe + 1) \in Int
    <2>1. YearStart(yoe) \in Int /\ YearStart(yoe + 1) \in Int
        BY <1>4, YearStartType, SMT
    <2>2. YearStart(MarchYear(z)) = YearStart(yoe) + DaysPerEra * era
        BY <1>1, <1>4, YearStartByEra, SMT
    <2>3. YearStart(MarchYear(z) + 1) = YearStart(yoe + 1) + DaysPerEra * era
        BY <1>1, <1>4, NextYearStartByEra, SMT
    <2> QED BY <2>1, <2>2, <2>3, SMT
<1>6. YearStart(MarchYear(z)) <= n /\ n < YearStart(MarchYear(z) + 1)
    <2>1. n = doe + 146097 * era /\ n \in Int /\ era \in Int /\ doe \in Int
        BY <1>1, SMT DEF DaysPerEra
    <2>2. YearStart(MarchYear(z)) = YearStart(yoe) + 146097 * era
        BY <1>4, <1>5, SMT DEF DaysPerEra
    <2>3. YearStart(MarchYear(z) + 1) = YearStart(yoe + 1) + 146097 * era
        BY <1>4, <1>5, SMT DEF DaysPerEra
    <2> QED BY <2>1, <2>2, <2>3, <1>3, <1>5, SMT
<1>7. YearStart(MarchYear(z)) \in Int /\ YearStart(MarchYear(z) + 1) \in Int
    BY <1>4, YearStartType, SMT
<1>8. YearStart(MarchYear(z) + 1) - YearStart(MarchYear(z)) <= 366
    BY <1>4, YearLength, SMT
<1> QED BY <1>4, <1>6, <1>7, <1>8, SMT DEF n, MarchDay

\* No other year has begun on a day and not ended.
LEMMA YearIsUnique ==
    ASSUME NEW z \in Int, NEW y \in Int,
           YearStart(y) <= z + 719468, z + 719468 < YearStart(y + 1)
    PROVE  MarchYear(z) = y
<1>1. MarchYear(z) \in Int /\ YearStart(MarchYear(z)) \in Int /\ YearStart(MarchYear(z) + 1) \in Int
      /\ YearStart(y) \in Int /\ YearStart(y + 1) \in Int
    <2>1. MarchYear(z) \in Int
        BY YearIs, SMT
    <2>2. MarchYear(z) + 1 \in Int /\ y + 1 \in Int
        BY <2>1, SMT
    <2> QED BY <2>1, <2>2, YearStartType, SMT
<1>2. ~ (MarchYear(z) + 1 <= y)
    BY <1>1, YearIs, YearsInOrder, SMT
<1>3. ~ (y + 1 <= MarchYear(z))
    BY <1>1, YearIs, YearsInOrder, SMT
<1> QED BY <1>1, <1>2, <1>3, SMT

\* civil_from_days, as the month and the day of a day of the year from March on.
LEMMA CivilFromDaysIs ==
    \A z \in Int :
        CivilFromDays(z)
            = [year |-> MarchYear(z) + (IF MonthOf(MarchDay(z)) <= 2 THEN 1 ELSE 0),
               month |-> MonthOf(MarchDay(z)), day |-> DayOfMonth(MarchDay(z))]
<1> SUFFICES ASSUME NEW z \in Int
    PROVE  CivilFromDays(z)
            = [year |-> MarchYear(z) + (IF MonthOf(MarchDay(z)) <= 2 THEN 1 ELSE 0),
               month |-> MonthOf(MarchDay(z)), day |-> DayOfMonth(MarchDay(z))]
    BY SMT
<1> DEFINE n == z + 719468
           era == EraOf(n, DaysPerEra)
           doe == n - era * DaysPerEra
           yoe == YearOfEra(doe)
           doy == doe - (365 * yoe + yoe \div 4 - yoe \div 100)
<1>1. n \in Int /\ era \in Int /\ doe \in Int /\ 0 <= doe /\ doe < DaysPerEra
    <2>1. n \in Int
        BY SMT
    <2> HIDE DEF n
    <2>2. era = n \div DaysPerEra
        BY <2>1, EraIsFloor, SMT
    <2> HIDE DEF era
    <2> QED BY <2>1, <2>2, SMT DEF DaysPerEra
<1>2. MarchYear(z) = yoe + era * 400
    BY SMT DEF MarchYear
<1>3. doy = MarchDay(z)
    <2> HIDE DEF era, n
    <2>1. yoe \in 0 .. 399 /\ doe = n - era * 146097 /\ doe \in Int
        <3>1. doe = n - era * 146097 /\ doe \in Int
            BY <1>1, SMT DEF DaysPerEra
        <3> HIDE DEF doe
        <3>2. yoe \in 0 .. 399
            BY <1>1, YearOfEraIs, SMT
        <3> QED BY <3>1, <3>2, SMT DEF doe
    <2>2. YearStart(yoe) = 365 * yoe + yoe \div 4 - yoe \div 100
        <3> HIDE DEF yoe
        <3> QED BY <2>1, SMT DEF YearStart
    <2> HIDE DEF yoe, doe
    <2>3. MarchYear(z) \in Int /\ MarchYear(z) = yoe + 400 * era /\ yoe \in Int
        BY <1>1, <1>2, <2>1, SMT
    <2>4. YearStart(MarchYear(z)) = YearStart(yoe) + DaysPerEra * era
        BY <1>1, <2>3, YearStartByEra, SMT
    <2>5. YearStart(MarchYear(z)) = YearStart(yoe) + 146097 * era
        BY <2>4, SMT DEF DaysPerEra
    <2>6. MarchDay(z) = n - YearStart(MarchYear(z))
        <3>1. YearStart(MarchYear(z)) \in Int
            BY YearIs, YearStartType, SMT
        <3> QED BY <3>1, SMT DEF n, MarchDay
    <2>7. YearStart(yoe) \in Int /\ yoe \in Int
        BY <2>1, YearStartType, SMT
    <2> QED BY <1>1, <2>1, <2>2, <2>5, <2>6, <2>7, SMT
<1>4. CivilFromDays(z)
          = [year |-> yoe + era * 400 + (IF MonthOf(doy) <= 2 THEN 1 ELSE 0),
             month |-> MonthOf(doy), day |-> DayOfMonth(doy)]
    <2> HIDE DEF DaysPerEra
    <2> QED BY SMTT(30) DEF CivilFromDays, MonthOf, DayOfMonth, MonthNumber
<1> HIDE DEF doy, yoe, era
<1> QED BY <1>2, <1>3, <1>4, SMT

\* The month and the day of a day of the year, and back.
LEMMA DayOfYearIs ==
    \A doy \in 0 .. 365 :
        /\ MonthOf(doy) \in Months /\ DayOfMonth(doy) \in 1 .. 31
        /\ DayOfYear(MonthOf(doy), DayOfMonth(doy)) = doy
        /\ MonthOf(doy) = 2 <=> doy >= 337
        /\ MonthOf(doy) = 2 => DayOfMonth(doy) = doy - 336
        /\ MonthOf(doy) = 3 /\ DayOfMonth(doy) = 1 <=> doy = 0
BY SMTT(60) DEF MonthOf, DayOfMonth, MonthNumber, DayOfYear, Months

(***************************************************************************)
(* Back and forth: what civil_from_days says of any day is a date, and      *)
(* days_from_civil leads from it to the same day.                          *)
(***************************************************************************)
THEOREM DaysSurvive ==
    \A z \in Int : LET c == CivilFromDays(z) IN
        /\ c.year \in Int /\ c.month \in Months /\ c.day \in 1 .. 31
        /\ DaysFromCivil(c.year, c.month, c.day) = z
<1> SUFFICES ASSUME NEW z \in Int
    PROVE  LET c == CivilFromDays(z) IN
        /\ c.year \in Int /\ c.month \in Months /\ c.day \in 1 .. 31
        /\ DaysFromCivil(c.year, c.month, c.day) = z
    BY SMT
<1> DEFINE y == MarchYear(z)
           doy == MarchDay(z)
           c == CivilFromDays(z)
<1>1. y \in Int /\ doy \in 0 .. 365 /\ YearStart(y) \in Int /\ doy = z + 719468 - YearStart(y)
    BY YearIs, YearStartType, SMT DEF MarchDay
<1>2. c = [year |-> y + (IF MonthOf(doy) <= 2 THEN 1 ELSE 0),
           month |-> MonthOf(doy), day |-> DayOfMonth(doy)]
    BY CivilFromDaysIs, SMT
<1> HIDE DEF y, doy, c
<1>3. /\ c.month = MonthOf(doy) /\ c.month \in Months /\ c.day \in 1 .. 31
      /\ c.year \in Int /\ y = (IF c.month <= 2 THEN c.year - 1 ELSE c.year)
    <2>1. MonthOf(doy) \in Months /\ DayOfMonth(doy) \in 1 .. 31
        BY <1>1, DayOfYearIs, SMT
    <2>2. /\ c.month = MonthOf(doy) /\ c.day = DayOfMonth(doy)
          /\ c.year = y + (IF MonthOf(doy) <= 2 THEN 1 ELSE 0)
        BY <1>2, SMT
    <2> QED BY <1>1, <2>1, <2>2, SMT DEF Months
<1>4. DayOfYear(c.month, c.day) = doy
    BY <1>1, <1>2, DayOfYearIs, SMT
<1>5. DaysFromCivil(c.year, c.month, c.day) = YearStart(y) + doy - 719468
    BY <1>3, <1>4, DaysFromCivilIs, SMT
<1>6. DaysFromCivil(c.year, c.month, c.day) = z
    BY <1>1, <1>5, SMT
<1> QED BY <1>3, <1>6, SMT DEF c

\* Within a year the next day is in the same month, or the first of the next.
LEMMA NextDayOfYear ==
    \A doy \in 0 .. 364 :
        /\ MonthOf(doy) = 2 => MonthOf(doy + 1) = 2
        /\ MonthOf(doy) # 2 /\ DayOfMonth(doy) = DaysOf(0, MonthOf(doy))
              => /\ MonthOf(doy + 1) = IF MonthOf(doy) = 12 THEN 1 ELSE MonthOf(doy) + 1
                 /\ DayOfMonth(doy + 1) = 1
        /\ MonthOf(doy) # 2 /\ DayOfMonth(doy) # DaysOf(0, MonthOf(doy))
              => /\ MonthOf(doy + 1) = MonthOf(doy)
                 /\ DayOfMonth(doy + 1) = DayOfMonth(doy) + 1
BY SMTT(60) DEF MonthOf, DayOfMonth, MonthNumber, DaysOf

\* The next day of civil_from_days is the next day of the calendar.
LEMMA NextCivil ==
    ASSUME NEW z \in Int
    PROVE  LET c == CivilFromDays(z)
               lastOfMonth == c.day = DaysOf(c.year, c.month)
               lastOfYear == lastOfMonth /\ c.month = 12
           IN  CivilFromDays(z + 1)
                 = [year |-> IF lastOfYear THEN c.year + 1 ELSE c.year,
                    month |-> IF lastOfYear THEN 1
                              ELSE IF lastOfMonth THEN c.month + 1 ELSE c.month,
                    day |-> IF lastOfMonth THEN 1 ELSE c.day + 1]
<1> DEFINE y == MarchYear(z)
           doy == MarchDay(z)
           c == CivilFromDays(z)
           next == CivilFromDays(z + 1)
           lastOfMonth == c.day = DaysOf(c.year, c.month)
           lastOfYear == lastOfMonth /\ c.month = 12
<1>1. /\ y \in Int /\ doy \in 0 .. 365 /\ YearStart(y) \in Int /\ YearStart(y + 1) \in Int
      /\ YearStart(y + 1 + 1) \in Int
      /\ z + 719468 = YearStart(y) + doy /\ YearStart(y) + doy < YearStart(y + 1)
    <2>1. /\ y \in Int /\ doy \in 0 .. 365 /\ doy = z + 719468 - YearStart(y)
          /\ z + 719468 < YearStart(y + 1)
        BY YearIs, SMT DEF MarchDay
    <2> HIDE DEF y, doy
    <2> QED BY <2>1, YearStartType, SMT
<1>2. c = [year |-> y + (IF MonthOf(doy) <= 2 THEN 1 ELSE 0),
           month |-> MonthOf(doy), day |-> DayOfMonth(doy)]
    BY CivilFromDaysIs, SMT
<1>3. next = [year |-> MarchYear(z + 1) + (IF MonthOf(MarchDay(z + 1)) <= 2 THEN 1 ELSE 0),
              month |-> MonthOf(MarchDay(z + 1)), day |-> DayOfMonth(MarchDay(z + 1))]
    BY CivilFromDaysIs, SMT
<1>4. MarchDay(z + 1) = z + 1 + 719468 - YearStart(MarchYear(z + 1))
    BY SMT DEF MarchDay
<1>5. YearStart(y + 1) - YearStart(y) = IF IsLeap(y + 1) THEN 366 ELSE 365
    BY <1>1, YearLength, SMT
<1>6. /\ MonthOf(doy) \in Months /\ DayOfMonth(doy) \in 1 .. 31
      /\ MonthOf(doy) = 2 <=> doy >= 337
      /\ MonthOf(doy) = 2 => DayOfMonth(doy) = doy - 336
    BY <1>1, DayOfYearIs, SMT
<1>7. /\ MonthOf(doy) = 2 => DaysOf(c.year, c.month) = IF IsLeap(y + 1) THEN 29 ELSE 28
      /\ MonthOf(doy) # 2 => DaysOf(c.year, c.month) = DaysOf(0, MonthOf(doy))
    BY <1>2, SMT DEF DaysOf
<1>8. CASE YearStart(y) + doy + 1 < YearStart(y + 1)
    <2>1. YearStart(y) <= (z + 1) + 719468 /\ (z + 1) + 719468 < YearStart(y + 1) /\ z + 1 \in Int
        BY <1>1, <1>8, SMT
    <2>2. MarchYear(z + 1) = y
        <3> HIDE DEF y
        <3> QED BY <2>1, <1>1, YearIsUnique, SMT
    <2>3. MarchDay(z + 1) = doy + 1 /\ doy \in 0 .. 364
        <3> HIDE DEF y, doy
        <3> QED BY <2>2, <1>1, <1>4, <1>5, <1>8, SMT
    <2>4. next = [year |-> y + (IF MonthOf(doy + 1) <= 2 THEN 1 ELSE 0),
                  month |-> MonthOf(doy + 1), day |-> DayOfMonth(doy + 1)]
        <3> HIDE DEF y, doy, next
        <3> QED BY <1>3, <2>2, <2>3, SMT
    <2>5. doy + 1 \in 0 .. 365
        <3> HIDE DEF doy
        <3> QED BY <2>3, SMT
    <2> HIDE DEF y, doy, c, next
    <2>6. CASE MonthOf(doy) = 2
        <3>1. MonthOf(doy + 1) = 2 /\ doy + 1 >= 337 /\ DayOfMonth(doy + 1) = DayOfMonth(doy) + 1
            BY <2>6, <2>3, <2>5, <1>6, NextDayOfYear, DayOfYearIs, SMT
        <3>2. ~ lastOfMonth
            BY <2>6, <1>1, <1>2, <1>5, <1>6, <1>7, <1>8, SMT
        <3> QED BY <2>4, <2>6, <3>1, <3>2, <1>2, SMT DEF c, next
    <2>7. CASE MonthOf(doy) # 2
        <3>1. CASE lastOfMonth
            <4>1. DayOfMonth(doy) = DaysOf(0, MonthOf(doy))
                BY <2>7, <3>1, <1>2, <1>7, SMT
            <4>2. /\ MonthOf(doy + 1) = IF MonthOf(doy) = 12 THEN 1 ELSE MonthOf(doy) + 1
                  /\ DayOfMonth(doy + 1) = 1
                BY <2>7, <4>1, <2>3, NextDayOfYear, SMT
            <4>3. /\ c.year = y + (IF MonthOf(doy) <= 2 THEN 1 ELSE 0)
                  /\ c.month = MonthOf(doy) /\ c.day = DayOfMonth(doy)
                BY <1>2, SMT
            <4>4. next = [year |-> IF c.month = 12 THEN c.year + 1 ELSE c.year,
                          month |-> IF c.month = 12 THEN 1 ELSE c.month + 1, day |-> 1]
                BY <4>2, <4>3, <2>4, <2>7, <1>1, <1>6, SMT DEF Months
            <4> QED BY <3>1, <4>4, SMT DEF c, next
        <3>2. CASE ~ lastOfMonth
            <4>1. DayOfMonth(doy) # DaysOf(0, MonthOf(doy))
                BY <2>7, <3>2, <1>2, <1>7, SMT
            <4>2. MonthOf(doy + 1) = MonthOf(doy) /\ DayOfMonth(doy + 1) = DayOfMonth(doy) + 1
                BY <2>7, <4>1, <2>3, NextDayOfYear, SMT
            <4> QED BY <3>2, <4>2, <2>4, <1>2, SMT DEF c, next
        <3> QED BY <3>1, <3>2, SMT
    <2> QED BY <2>6, <2>7, SMT
<1>9. CASE ~ (YearStart(y) + doy + 1 < YearStart(y + 1))
    <2>1. YearStart(y + 1) = (z + 1) + 719468 /\ z + 1 \in Int /\ y + 1 \in Int
        BY <1>1, <1>9, SMT
    <2>2. YearStart(y + 1) < YearStart(y + 1 + 1)
        <3> HIDE DEF y
        <3> QED BY <2>1, <1>1, YearLength, SMT
    <2>3. MarchYear(z + 1) = y + 1
        <3> HIDE DEF y
        <3> QED BY <2>1, <2>2, <1>1, YearIsUnique, SMT
    <2>4. MarchDay(z + 1) = 0
        <3> HIDE DEF y
        <3> QED BY <2>1, <2>3, <1>1, <1>4, SMT
    <2>5. MonthOf(0) = 3 /\ DayOfMonth(0) = 1
        BY DayOfYearIs, SMT
    <2>6. next = [year |-> y + 1, month |-> 3, day |-> 1]
        <3> HIDE DEF y, next
        <3> QED BY <2>3, <2>4, <2>5, <1>1, <1>3, SMT
    <2> HIDE DEF y, doy, c, next
    <2>7. doy >= 364 /\ doy = (IF IsLeap(y + 1) THEN 365 ELSE 364)
        BY <1>1, <1>5, <1>9, SMT
    <2>8. MonthOf(doy) = 2 /\ c.day = DaysOf(c.year, c.month) /\ c.month = 2 /\ c.year = y + 1
        BY <2>7, <1>1, <1>2, <1>6, <1>7, SMT
    <2> QED BY <2>6, <2>8, SMT DEF c, next
<1> QED BY <1>8, <1>9, SMT

-----------------------------------------------------------------------------
\* What utc_tm shows on day d, h minutes after midnight.
FieldsOf(d, h) ==
    LET c == CivilFromDays(d)
    IN  [year |-> c.year, month |-> c.month, day |-> c.day,
         wday |-> (d + 4) % 7, yday |-> d - DaysFromCivil(c.year, 1, 1), time |-> h]

\* utc_tm shows the fields of the day, and the minutes since it began.
LEMMA UtcTmIs == \A t \in Int : UtcTm(t) = FieldsOf(t \div 1440, t % 1440)
<1> SUFFICES ASSUME NEW t \in Int PROVE UtcTm(t) = FieldsOf(t \div 1440, t % 1440)
    BY SMT
<1> DEFINE d == t \div 1440
<1>1. RoundDown(t) = d /\ d \in Int
    BY RoundDownIs, SMT
<1>2. t - d * 1440 = t % 1440
    BY SMT
<1> HIDE DEF d
<1>3. WeekdayFromDays(d) = (d + 4) % 7
    BY <1>1, WeekdayIs, SMT
<1>4. UtcTm(t) = FieldsOf(d, t % 1440)
    BY <1>1, <1>2, <1>3, SMT DEF UtcTm, FieldsOf, MinutesPerDay
<1> QED BY <1>4, SMT DEF d

\* Another time of the same day.
LEMMA OtherTime == \A d, h, g : [FieldsOf(d, h) EXCEPT !.time = g] = FieldsOf(d, g)
BY SMT DEF FieldsOf

\* A day later utc_tm shows the calendar turned by a day.
LEMMA NextDay == \A d \in Int : \A h : DayAfter(FieldsOf(d, h)) = FieldsOf(d + 1, h)
<1> SUFFICES ASSUME NEW d \in Int, NEW h
    PROVE  DayAfter(FieldsOf(d, h)) = FieldsOf(d + 1, h)
    BY SMT
<1> DEFINE c == CivilFromDays(d)
           next == CivilFromDays(d + 1)
           today == FieldsOf(d, h)
           lastOfMonth == c.day = DaysOf(c.year, c.month)
           lastOfYear == lastOfMonth /\ c.month = 12
           newYearsDay(year) == DaysFromCivil(year, 1, 1)
<1>1. next = [year |-> IF lastOfYear THEN c.year + 1 ELSE c.year,
              month |-> IF lastOfYear THEN 1
                        ELSE IF lastOfMonth THEN c.month + 1 ELSE c.month,
              day |-> IF lastOfMonth THEN 1 ELSE c.day + 1]
    BY NextCivil, SMT
<1>2. /\ c.year \in Int /\ newYearsDay(c.year) \in Int
      /\ DaysFromCivil(next.year, next.month, next.day) = d + 1
    <2>1. c.year \in Int /\ DaysFromCivil(next.year, next.month, next.day) = d + 1
        BY DaysSurvive, SMT
    <2> HIDE DEF c, next
    <2>2. 1 \in Months /\ DayOfYear(1, 1) \in Int
        BY SMT DEF Months, DayOfYear
    <2>3. newYearsDay(c.year) = YearStart(c.year - 1) + DayOfYear(1, 1) - 719468
        BY <2>1, <2>2, DaysFromCivilIs, SMT
    <2>4. YearStart(c.year - 1) \in Int
        BY <2>1, YearStartType, SMT
    <2> QED BY <2>1, <2>2, <2>3, <2>4, SMT
<1>3. /\ today.year = c.year /\ today.month = c.month /\ today.day = c.day
      /\ today.wday = (d + 4) % 7 /\ today.yday = d - newYearsDay(c.year) /\ today.time = h
    BY SMT DEF FieldsOf
<1>4. FieldsOf(d + 1, h)
          = [year |-> next.year, month |-> next.month, day |-> next.day,
             wday |-> (d + 1 + 4) % 7, yday |-> (d + 1) - newYearsDay(next.year), time |-> h]
    <2> HIDE DEF c
    <2> QED BY SMT DEF FieldsOf
<1> HIDE DEF c, next, today
<1>5. (today.wday + 1) % 7 = (d + 1 + 4) % 7
    BY <1>3, SMT
<1>6. /\ lastOfYear => (d + 1) - newYearsDay(next.year) = 0
      /\ ~ lastOfYear => (d + 1) - newYearsDay(next.year) = today.yday + 1
    <2>1. CASE lastOfYear
        <3>1. newYearsDay(next.year) = d + 1
            BY <2>1, <1>1, <1>2, SMT
        <3> QED BY <2>1, <3>1, SMT
    <2>2. CASE ~ lastOfYear
        <3>1. next.year = c.year
            BY <2>2, <1>1, SMT
        <3> QED BY <2>2, <3>1, <1>2, <1>3, SMT
    <2> QED BY <2>1, <2>2, SMT
<1>7. DayAfter(today)
          = [year |-> IF lastOfYear THEN c.year + 1 ELSE c.year,
             month |-> IF lastOfYear THEN 1
                       ELSE IF lastOfMonth THEN c.month + 1 ELSE c.month,
             day |-> IF lastOfMonth THEN 1 ELSE c.day + 1,
             wday |-> (today.wday + 1) % 7,
             yday |-> IF lastOfYear THEN 0 ELSE today.yday + 1,
             time |-> h]
    BY <1>3, SMT DEF DayAfter
<1>8. DayAfter(today) = FieldsOf(d + 1, h)
    <2>1. CASE lastOfYear
        BY <2>1, <1>1, <1>4, <1>5, <1>6, <1>7, SMT
    <2>2. CASE ~ lastOfYear
        BY <2>2, <1>1, <1>4, <1>5, <1>6, <1>7, SMT
    <2> QED BY <2>1, <2>2, SMT
<1> QED BY <1>8, SMT DEF today

\* Some minutes later utc_tm shows the calendar turned by as many.
LEMMA LaterTime ==
    ASSUME NEW t \in Int, NEW minutes \in Int, minutes >= 1, minutes <= 1440
    PROVE  Later(UtcTm(t), minutes) = UtcTm(t + minutes)
<1> DEFINE d == t \div 1440
           h == t % 1440
           later == t + minutes
<1>1. d \in Int /\ h \in 0 .. 1439 /\ t = d * 1440 + h /\ later \in Int
    BY SMT
<1>2. UtcTm(t) = FieldsOf(d, h) /\ UtcTm(t).time = h
    <2>1. UtcTm(t) = FieldsOf(d, h)
        BY UtcTmIs, SMT
    <2> HIDE DEF d, h
    <2> QED BY <2>1, SMT DEF FieldsOf
<1>3. UtcTm(later) = FieldsOf(later \div 1440, later % 1440)
    <2> HIDE DEF later
    <2> QED BY <1>1, UtcTmIs, SMT
<1> HIDE DEF d, h
<1>4. CASE h + minutes < 1440
    <2>1. later \div 1440 = d /\ later % 1440 = h + minutes
        BY <1>1, <1>4, SMT
    <2> HIDE DEF later
    <2>2. Later(UtcTm(t), minutes) = [FieldsOf(d, h) EXCEPT !.time = h + minutes]
        BY <1>2, <1>4, SMT DEF Later, MinutesPerDay
    <2> QED BY <2>1, <2>2, <1>3, OtherTime, SMT DEF later
<1>5. CASE ~ (h + minutes < 1440)
    <2>1. later \div 1440 = d + 1 /\ later % 1440 = h + minutes - 1440
        BY <1>1, <1>5, SMT
    <2> HIDE DEF later
    <2>2. Later(UtcTm(t), minutes) = [DayAfter(FieldsOf(d, h)) EXCEPT !.time = h + minutes - 1440]
        BY <1>2, <1>5, SMT DEF Later, MinutesPerDay
    <2>3. DayAfter(FieldsOf(d, h)) = FieldsOf(d + 1, h)
        BY <1>1, NextDay, SMT
    <2> QED BY <2>1, <2>2, <2>3, <1>3, OtherTime, SMT DEF later
<1> QED BY <1>4, <1>5, SMT

-----------------------------------------------------------------------------
\* What utc_tm shows is shown at that point of time: utc_tm can be undone.
LEMMA ShownAgain == \A t \in Int : Shown(UtcTm(t)) = t
<1> SUFFICES ASSUME NEW t \in Int PROVE Shown(UtcTm(t)) = t
    BY SMT
<1> DEFINE d == t \div 1440
           h == t % 1440
           c == CivilFromDays(d)
<1>1. d \in Int /\ h \in 0 .. 1439 /\ t = d * 1440 + h
    BY SMT
<1>2. UtcTm(t) = FieldsOf(d, h)
    BY UtcTmIs, SMT
<1> HIDE DEF d, h
<1>3. DaysFromCivil(c.year, c.month, c.day) = d
    BY <1>1, DaysSurvive, SMT
<1>4. /\ UtcTm(t).year = c.year /\ UtcTm(t).month = c.month /\ UtcTm(t).day = c.day
      /\ UtcTm(t).time = h
    BY <1>2, SMT DEF FieldsOf
<1> HIDE DEF c
<1> QED BY <1>1, <1>3, <1>4, SMT DEF Shown, MinutesPerDay

\* An era on, the calendar shows the same day, 400 years on.
LEMMA EraShift ==
    ASSUME NEW d \in Int, NEW k \in Int, NEW e \in Int, e = d + DaysPerEra * k, NEW h
    PROVE  /\ FieldsOf(e, 0) = Midnight(FieldsOf(d, h), 400 * k)
           /\ DaysFromCivil(CivilFromDays(d).year + 400 * k, CivilFromDays(d).month,
                            CivilFromDays(d).day) = e
<1> DEFINE c == CivilFromDays(d)
           y == MarchYear(d)
           x == y + 400 * k
           far == CivilFromDays(e)
<1>1. e \in Int /\ x \in Int /\ e = d + 146097 * k /\ y \in Int
    BY YearIs, SMT DEF DaysPerEra
<1>2. /\ YearStart(x) = YearStart(y) + 146097 * k
      /\ YearStart(x + 1) = YearStart(y + 1) + 146097 * k
    <2> HIDE DEF y
    <2>1. x = y + 400 * k /\ x + 1 = (y + 1) + 400 * k /\ y + 1 \in Int /\ x + 1 \in Int
        BY <1>1, SMT
    <2> HIDE DEF x
    <2>2. /\ YearStart(x) = YearStart(y) + DaysPerEra * k
          /\ YearStart(x + 1) = YearStart(y + 1) + DaysPerEra * k
        <3>1. YearStart(x) = YearStart(y) + DaysPerEra * k
            BY <1>1, <2>1, YearStartByEra, SMT
        <3>2. YearStart(x + 1) = YearStart(y + 1) + DaysPerEra * k
            BY <1>1, <2>1, NextYearStartByEra, SMT
        <3> QED BY <3>1, <3>2, SMT
    <2> QED BY <2>2, SMT DEF DaysPerEra
<1>3. /\ YearStart(y) <= d + 719468 /\ d + 719468 < YearStart(y + 1)
      /\ YearStart(y) \in Int /\ YearStart(y + 1) \in Int
    BY YearIs, YearStartType, SMT
<1>4. MarchYear(e) = x
    <2> HIDE DEF x, y
    <2>1. YearStart(x) <= e + 719468 /\ e + 719468 < YearStart(x + 1)
        BY <1>1, <1>2, <1>3, SMT
    <2> QED BY <2>1, <1>1, YearIsUnique, SMT
<1>5. MarchDay(e) = MarchDay(d) /\ MarchDay(d) \in 0 .. 365
    <2>1. MarchDay(e) = e + 719468 - YearStart(MarchYear(e))
        BY SMT DEF MarchDay
    <2>2. MarchDay(d) = d + 719468 - YearStart(y) /\ MarchDay(d) \in 0 .. 365
        BY YearIs, SMT DEF MarchDay
    <2> HIDE DEF x, y
    <2> QED BY <2>1, <2>2, <1>1, <1>2, <1>3, <1>4, SMT
<1> HIDE DEF y
<1>6. /\ far.year = c.year + 400 * k /\ far.month = c.month /\ far.day = c.day
      /\ c.year \in Int /\ c.month \in Months /\ c.day \in 1 .. 31
    <2>1. c = [year |-> y + (IF MonthOf(MarchDay(d)) <= 2 THEN 1 ELSE 0),
               month |-> MonthOf(MarchDay(d)), day |-> DayOfMonth(MarchDay(d))]
        BY CivilFromDaysIs, SMT DEF y
    <2> HIDE DEF x
    <2>2. far = [year |-> x + (IF MonthOf(MarchDay(d)) <= 2 THEN 1 ELSE 0),
                 month |-> MonthOf(MarchDay(d)), day |-> DayOfMonth(MarchDay(d))]
        BY <1>1, <1>4, <1>5, CivilFromDaysIs, SMT
    <2>3. c.year \in Int /\ c.month \in Months /\ c.day \in 1 .. 31
        BY DaysSurvive, SMT
    <2> HIDE DEF far, c
    <2>4. far.year = c.year + 400 * k
        BY <2>1, <2>2, <1>1, SMT DEF x
    <2> QED BY <2>1, <2>2, <2>3, <2>4, SMT
<1>7. DaysFromCivil(far.year, far.month, far.day) = e
    <2> QED BY <1>1, DaysSurvive, SMT
<1>8. (e + 4) % 7 = (d + 4) % 7
    <2> QED BY <1>1, SMT
<1>9. e - DaysFromCivil(far.year, 1, 1) = d - DaysFromCivil(c.year, 1, 1)
    <2> DEFINE n == c.year - 1
               m == far.year - 1
    <2>1. 1 \in Months /\ DayOfYear(1, 1) \in Int /\ far.year \in Int
        BY <1>6, SMT DEF Months, DayOfYear
    <2>2. n \in Int /\ m \in Int /\ m = n + 400 * k
        BY <1>6, SMT
    <2> HIDE DEF c, far
    <2>3. DaysFromCivil(c.year, 1, 1) = YearStart(n) + DayOfYear(1, 1) - 719468
        BY <1>6, <2>1, DaysFromCivilIs, SMT
    <2>4. DaysFromCivil(far.year, 1, 1) = YearStart(m) + DayOfYear(1, 1) - 719468
        BY <2>1, DaysFromCivilIs, SMT
    <2> HIDE DEF n, m
    <2>5. YearStart(m) = YearStart(n) + 146097 * k /\ YearStart(n) \in Int
        BY <2>2, YearStartByEra, YearStartType, SMT DEF DaysPerEra
    <2> QED BY <2>1, <2>3, <2>4, <2>5, <1>1, SMT
<1>10. FieldsOf(e, 0) = [year |-> far.year, month |-> far.month, day |-> far.day,
          wday |-> (e + 4) % 7, yday |-> e - DaysFromCivil(far.year, 1, 1), time |-> 0]
    BY SMT DEF FieldsOf
<1>11. FieldsOf(d, h) = [year |-> c.year, month |-> c.month, day |-> c.day,
          wday |-> (d + 4) % 7, yday |-> d - DaysFromCivil(c.year, 1, 1), time |-> h]
    BY SMT DEF FieldsOf
<1> HIDE DEF far, c
<1>12. DaysFromCivil(c.year + 400 * k, c.month, c.day) = e
    BY <1>6, <1>7, SMT
<1>13. FieldsOf(e, 0) = Midnight(FieldsOf(d, h), 400 * k)
    <2> DEFINE year == c.year + 400 * k
               wday == (d + 4) % 7
               yday == d - DaysFromCivil(c.year, 1, 1)
               near == FieldsOf(d, h)
               moved == [near EXCEPT !.year = near.year + 400 * k]
    <2>1. FieldsOf(e, 0) = [year |-> year, month |-> c.month, day |-> c.day,
                            wday |-> wday, yday |-> yday, time |-> 0]
        BY <1>6, <1>8, <1>9, <1>10, SMT
    <2>2. near = [year |-> c.year, month |-> c.month, day |-> c.day,
                  wday |-> wday, yday |-> yday, time |-> h]
        BY <1>11, SMT
    <2>3. near.year + 400 * k = year
        BY <2>2, SMT
    <2> HIDE DEF year, wday, yday
    <2>4. Midnight(near, 400 * k) = [moved EXCEPT !.time = 0]
        BY SMT DEF Midnight
    <2>5. moved = [near EXCEPT !.year = year]
        BY <2>3, Zenon
    <2> HIDE DEF near
    <2>6. [near EXCEPT !.year = year]
              = [year |-> year, month |-> c.month, day |-> c.day,
                 wday |-> wday, yday |-> yday, time |-> h]
        BY <2>2, SMT
    <2>7. moved = [year |-> year, month |-> c.month, day |-> c.day,
                   wday |-> wday, yday |-> yday, time |-> h]
        BY <2>5, <2>6, Zenon
    <2> HIDE DEF moved
    <2>8. [moved EXCEPT !.time = 0]
              = [year |-> year, month |-> c.month, day |-> c.day,
                 wday |-> wday, yday |-> yday, time |-> 0]
        BY <2>7, SMT
    <2> QED BY <2>1, <2>4, <2>8, SMT DEF near
<1> QED BY <1>12, <1>13, SMT DEF c

-----------------------------------------------------------------------------
(***************************************************************************)
(* What is added to the time that a line shows: mktime takes the zone's     *)
(* offset off it, and the hour, and get_utc_offset adds the clock's.        *)
(***************************************************************************)
Shift(z, wall) ==
    OffsetAt(z, wall) - z.offset - (IF SetForward(z) THEN MinutesPerHour ELSE 0)

(***************************************************************************)
(* The invariant: the calendar that was turned over shows what utc_tm       *)
(* shows, the last generated row is before the loop's date, and every line  *)
(* was dated by the clock it was read by.                                  *)
(***************************************************************************)
Inv ==
    /\ zone \in Zone /\ now \in Int /\ date \in Int /\ frequency \in 1 .. 1440
    /\ calendar = UtcTm(date)
    /\ row \in Int /\ (row # NullDate => row < date)
    /\ lines \in Seq([shown : Int, at : Int, date : Int])
    /\ \A i \in 1 .. Len(lines) : lines[i].date = lines[i].shown + Shift(zone, lines[i].at)

\* A text shows a point of time.
LEMMA ShownType == \A place \in Place : Shown(place) \in Int
<1> SUFFICES ASSUME NEW place \in Place PROVE Shown(place) \in Int
    BY SMT
<1> DEFINE y == place.year
           m == place.month
           d == place.day
           n == IF m <= 2 THEN y - 1 ELSE y
<1>1. y \in Int /\ m \in Months /\ d \in Int /\ place.time \in Int
    BY SMT DEF Place, MinutesPerDay
<1>2. n \in Int /\ DayOfYear(m, d) \in Int
    BY <1>1, SMT DEF Months, DayOfYear
<1> HIDE DEF y, m, d
<1>3. DaysFromCivil(y, m, d) = YearStart(n) + DayOfYear(m, d) - 719468
    BY <1>1, DaysFromCivilIs, SMT
<1> HIDE DEF n
<1>4. DaysFromCivil(y, m, d) \in Int
    BY <1>2, <1>3, YearStartType, SMT
<1> QED BY <1>1, <1>4, SMT DEF y, m, d, Shown, MinutesPerDay

\* What a clock's offset may be, and what is lost: an hour or nothing.
Lost(z) == IF SetForward(z) THEN 60 ELSE 0

ShiftFacts(z, wall) ==
    /\ z.offset \in Int /\ -720 <= z.offset /\ z.offset <= 840
    /\ OffsetAt(z, wall) \in Int
    /\ OffsetAt(z, wall) = z.offset \/ OffsetAt(z, wall) = z.offset + 60
    /\ Shift(z, wall) \in Int /\ Shift(z, wall) \in {-60, 0}
    /\ Lost(z) \in Int /\ Shift(z, wall) = OffsetAt(z, wall) - z.offset - Lost(z)

LEMMA ShiftIs == \A z \in Zone, wall \in Int : ShiftFacts(z, wall)
<1> SUFFICES ASSUME NEW z \in Zone, NEW wall \in Int PROVE ShiftFacts(z, wall)
    BY Zenon
<1> DEFINE offset == z.offset
           at == OffsetAt(z, wall)
<1>1. offset \in -720 .. 840
    BY SMT DEF Zone, MinutesPerHour
<1>2. at = offset \/ at = offset + 60
    BY SMT DEF OffsetAt, MinutesPerHour
<1>3. ~ SetForward(z) => at = offset
    <2> SUFFICES ASSUME ~ SetForward(z) PROVE at = offset
        BY Zenon
    <2>1. z.saving = {}
        BY SMT DEF SetForward
    <2>2. GmTime(wall).month \notin z.saving
        BY <2>1, SMT
    <2> QED BY <2>2, SMT DEF OffsetAt
<1>4. Shift(z, wall) = at - offset - Lost(z) /\ Lost(z) \in Int
    BY SMT DEF Shift, Lost, MinutesPerHour
<1> HIDE DEF offset, at
<1>5. Shift(z, wall) \in {-60, 0} /\ Shift(z, wall) \in Int /\ at \in Int
    <2>1. CASE SetForward(z)
        <3>1. Shift(z, wall) = at - offset - 60
            BY <1>4, <2>1, SMT DEF Lost
        <3> QED BY <1>1, <1>2, <3>1, SMT
    <2>2. CASE ~ SetForward(z)
        <3>1. Shift(z, wall) = at - offset
            BY <1>1, <1>2, <1>4, <2>2, SMT DEF Lost
        <3> QED BY <1>1, <1>2, <1>3, <2>2, <3>1, SMT
    <2> QED BY <2>1, <2>2, SMT
<1> QED BY <1>1, <1>2, <1>4, <1>5, SMT DEF offset, at, ShiftFacts

\* A clock whose offset is no less loses no more.
LEMMA ShiftGrows ==
    ASSUME NEW z \in Zone, NEW wall \in Int, NEW late \in Int,
           OffsetAt(z, late) >= OffsetAt(z, wall)
    PROVE  Shift(z, late) >= Shift(z, wall)
<1>1. ShiftFacts(z, wall) /\ ShiftFacts(z, late)
    BY ShiftIs, Zenon
<1> QED BY <1>1, SMT DEF ShiftFacts

\* What a text is read as.
LEMMA ReadAs ==
    ASSUME NEW z \in Zone, NEW wall \in Int, NEW text, Shown(text) \in Int
    PROVE  ToDatetime(z, wall, text) = Shown(text) + Shift(z, wall)
<1>1. ShiftFacts(z, wall)
    BY ShiftIs, Zenon
<1>2. ToDatetime(z, wall, text) = (Shown(text) - z.offset - Lost(z)) + OffsetAt(z, wall)
    BY SMT DEF ToDatetime, GmtOf, MkTime, Lost, MinutesPerHour
<1> QED BY <1>1, <1>2, SMT DEF ShiftFacts

\* The invariant holds at the first date.
LEMMA InitInv == Init => Inv
<1> SUFFICES ASSUME Init PROVE Inv
    BY SMT
<1>1. calendar \in Place /\ UtcTm(Shown(calendar)) = calendar /\ date = Shown(calendar)
    BY DatedRowsAssumption, SMT DEF Init
<1>2. date \in Int
    BY <1>1, ShownType, SMT
<1>3. zone \in Zone /\ now \in Int /\ frequency \in 1 .. 1440
    BY DatedRowsAssumption, SMT DEF Init, MinutesPerDay
<1>4. row = NullDate /\ row \in Int
    BY SMT DEF Init, NullDate
<1>5. lines = << >> /\ lines \in Seq([shown : Int, at : Int, date : Int]) /\ Len(lines) = 0
    BY SMT DEF Init
<1> QED BY <1>1, <1>2, <1>3, <1>4, <1>5, SMT DEF Inv

\* The loop's date and the calendar beside it go on by the frequency.
LEMMA GoesOn ==
    ASSUME Inv, date' = date + frequency, calendar' = Later(calendar, frequency)
    PROVE  date' \in Int /\ date' > date /\ calendar' = UtcTm(date')
<1>1. date \in Int /\ frequency \in 1 .. 1440 /\ calendar = UtcTm(date)
    BY SMT DEF Inv
<1>2. frequency \in Int /\ frequency >= 1 /\ frequency <= 1440
    BY <1>1, SMT
<1>3. Later(UtcTm(date), frequency) = UtcTm(date + frequency)
    BY <1>1, <1>2, LaterTime, SMT
<1> QED BY <1>1, <1>2, <1>3, SMT

\* A pass of generate keeps the invariant, also where it stops at the null date.
LEMMA GenerateInv == Inv /\ Generate => Inv'
<1> SUFFICES ASSUME Inv, Generate PROVE Inv'
    BY SMT
<1>1. zone' = zone /\ now' = now /\ frequency' = frequency /\ lines' = lines
    BY SMT DEF Generate
<1>2. CASE UNCHANGED << date, row, calendar >>
    BY <1>1, <1>2, SMT DEF Inv
<1>3. CASE row' \in {date, row} /\ GetNextTimepoint
    <2>1. CASE date = NullDate
        <3>1. date' = date /\ calendar' = calendar
            BY <1>3, <2>1, SMT DEF GetNextTimepoint
        <3>2. row' \in Int /\ (row' # NullDate => row' < date')
            BY <1>3, <2>1, <3>1, SMT DEF Inv, NullDate
        <3> QED BY <1>1, <3>1, <3>2, SMT DEF Inv
    <2>2. CASE date # NullDate
        <3>1. date' = date + frequency /\ calendar' = Later(calendar, frequency)
            BY <1>3, <2>2, SMT DEF GetNextTimepoint
        <3>2. date' \in Int /\ date' > date /\ calendar' = UtcTm(date')
            BY <3>1, GoesOn, SMT
        <3>3. row' \in Int /\ (row' # NullDate => row' < date')
            BY <1>3, <3>2, SMT DEF Inv
        <3> QED BY <1>1, <3>2, <3>3, SMT DEF Inv
    <2> QED BY <2>1, <2>2, SMT
<1> QED BY <1>2, <1>3, SMT DEF Generate

\* Reading a line keeps the invariant.
LEMMA ReadLineInv == \A text \in Texts : Inv /\ ReadLine(text) => Inv'
<1> SUFFICES ASSUME NEW text \in Texts, Inv, ReadLine(text) PROVE Inv'
    BY SMT
<1> DEFINE line == [shown |-> Shown(text), at |-> now, date |-> ToDatetime(zone, now, text)]
<1>1. UNCHANGED << zone, now, frequency, date, row, calendar >>
    BY SMT DEF ReadLine
<1>2. lines' = lines \/ lines' = Append(lines, line)
    BY SMT DEF ReadLine
<1>3. CASE lines' = lines
    BY <1>1, <1>3, SMT DEF Inv
<1>4. CASE lines' = Append(lines, line)
    <2>1. Shown(text) \in Int /\ now \in Int /\ zone \in Zone
        BY ShownType, DatedRowsAssumption, SMT DEF Inv
    <2>2. ToDatetime(zone, now, text) = Shown(text) + Shift(zone, now)
          /\ Shift(zone, now) \in Int
        <3>1. ShiftFacts(zone, now)
            BY <2>1, ShiftIs, Zenon
        <3> QED BY <2>1, <3>1, ReadAs, SMT DEF ShiftFacts
    <2>3. /\ line \in [shown : Int, at : Int, date : Int]
          /\ line.date = line.shown + Shift(zone, line.at)
        BY <2>1, <2>2, SMT
    <2> HIDE DEF line
    <2>4. /\ lines \in Seq([shown : Int, at : Int, date : Int])
          /\ \A i \in 1 .. Len(lines) :
                lines[i].date = lines[i].shown + Shift(zone, lines[i].at)
        BY SMT DEF Inv
    <2>5. lines' \in Seq([shown : Int, at : Int, date : Int])
        BY <1>4, <2>3, <2>4, SMT
    <2>6. \A i \in 1 .. Len(lines') :
              lines'[i].date = lines'[i].shown + Shift(zone, lines'[i].at)
        <3> SUFFICES ASSUME NEW i \in 1 .. Len(lines')
            PROVE  lines'[i].date = lines'[i].shown + Shift(zone, lines'[i].at)
            BY SMT
        <3>1. Len(lines') = Len(lines) + 1 /\ Len(lines) \in Nat
            BY <1>4, <2>4, SMT
        <3>2. lines'[i] = IF i <= Len(lines) THEN lines[i] ELSE line
            BY <1>4, <2>3, <2>4, <3>1, SMT
        <3>3. CASE i <= Len(lines)
            BY <2>4, <3>1, <3>2, <3>3, SMT
        <3>4. CASE ~ (i <= Len(lines))
            BY <2>3, <3>2, <3>4, SMT
        <3> QED BY <3>3, <3>4, SMT
    <2>7. zone' = zone /\ now' = now
        BY <1>1, SMT
    <2> QED BY <1>1, <2>5, <2>6, <2>7, SMT DEF Inv
<1> QED BY <1>2, <1>3, <1>4, SMT

\* Every step keeps the invariant.
LEMMA NextInv == Inv /\ [Next]_vars => Inv'
<1> SUFFICES ASSUME Inv, [Next]_vars PROVE Inv'
    BY SMT
<1>1. CASE Generate
    BY <1>1, GenerateInv, SMT
<1>2. ASSUME NEW text \in Texts, ReadLine(text) PROVE Inv'
    BY <1>2, ReadLineInv, SMT
<1>3. CASE LoopEnds
    BY <1>3, SMT DEF LoopEnds, Inv
<1>4. CASE Tick
    <2>1. now' \in Int
        BY <1>4, DatedRowsAssumption, SMT DEF Tick
    <2> QED BY <1>4, <2>1, SMT DEF Tick, Inv
<1>5. CASE UNCHANGED vars
    BY <1>5, SMT DEF vars, Inv
<1> QED BY <1>1, <1>2, <1>3, <1>4, <1>5, SMT DEF Next

\* The invariant of both loops, generate() and that over the lines of a file.
THEOREM InvCorrect == Spec => []Inv
BY InitInv, NextInv, PTL DEF Spec

-----------------------------------------------------------------------------
\* The invariant says what the calendar algorithms promise.
LEMMA InvAgrees == Inv => CalendarAgrees
<1> SUFFICES ASSUME Inv, NEW k \in -6 .. 1
    PROVE  LET days == DaysFromCivil(calendar.year + 400 * k, calendar.month, calendar.day) IN
           /\ days = RoundDown(date) + DaysPerEra * k
           /\ UtcTm(days * MinutesPerDay) = Midnight(calendar, 400 * k)
    BY Zenon DEF CalendarAgrees, Inv
<1>0. k \in Int
    BY SMT
<1> DEFINE d == date \div 1440
           h == date % 1440
           c == CivilFromDays(d)
           e == d + DaysPerEra * k
           t == e * 1440
<1>1. d \in Int /\ RoundDown(date) = d /\ date \in Int
    BY RoundDownIs, SMT DEF Inv
<1>2. calendar = FieldsOf(d, h)
    BY UtcTmIs, SMT DEF Inv
<1> HIDE DEF d, h
<1>3. calendar.year = c.year /\ calendar.month = c.month /\ calendar.day = c.day
    BY <1>2, SMT DEF FieldsOf
<1>4. /\ DaysFromCivil(c.year + 400 * k, c.month, c.day) = e
      /\ FieldsOf(e, 0) = Midnight(FieldsOf(d, h), 400 * k)
    <2>1. e \in Int /\ e = d + DaysPerEra * k
        BY <1>0, <1>1, SMT DEF DaysPerEra
    <2> HIDE DEF e
    <2> QED BY <1>0, <1>1, <2>1, EraShift, SMT
<1>5. DaysFromCivil(calendar.year + 400 * k, calendar.month, calendar.day) = e
    BY <1>3, <1>4, SMT
<1>6. t \in Int /\ t \div 1440 = e /\ t % 1440 = 0
    <2>1. e \in Int
        BY <1>0, <1>1, SMT DEF DaysPerEra
    <2> HIDE DEF e
    <2> QED BY <2>1, SMT
<1>7. UtcTm(t) = FieldsOf(e, 0)
    <2> HIDE DEF t, e
    <2> QED BY <1>6, UtcTmIs, SMT
<1>8. UtcTm(e * MinutesPerDay) = Midnight(calendar, 400 * k)
    <2> HIDE DEF e
    <2> QED BY <1>2, <1>4, <1>7, SMT DEF MinutesPerDay
<1> HIDE DEF e
<1> QED BY <1>1, <1>5, <1>8, SMT DEF e

(***************************************************************************)
(* The calendar algorithms show what a calendar shows that is turned over   *)
(* by the frequency from the first date, for as long as one goes on, and    *)
(* lead back, eras away too.                                               *)
(***************************************************************************)
THEOREM CalendarCorrect == Spec => []CalendarAgrees
BY InvCorrect, InvAgrees, PTL

(***************************************************************************)
(* However many lines a file has, whatever they show, in whatever order and *)
(* zone and across whatever changes of the clock they are read: a line that *)
(* shows a later time gets a later date, if it shows one later by more than *)
(* an hour, or if it was not read by a clock set back where the other was   *)
(* read by one set forward.                                                *)
(***************************************************************************)
THEOREM LinesStayInOrder == Spec => []LinesKeepOrder
<1>1. Inv => LinesKeepOrder
    <2> SUFFICES ASSUME Inv, NEW i \in DOMAIN lines, NEW j \in DOMAIN lines,
                        lines[i].shown < lines[j].shown,
                        \/ lines[j].shown > lines[i].shown + MinutesPerHour
                        \/ OffsetAt(zone, lines[j].at) >= OffsetAt(zone, lines[i].at)
        PROVE  lines[i].date < lines[j].date
        BY Zenon DEF LinesKeepOrder
    <2>1. lines \in Seq([shown : Int, at : Int, date : Int]) /\ zone \in Zone
        BY SMT DEF Inv
    <2>2. /\ i \in 1 .. Len(lines) /\ j \in 1 .. Len(lines)
          /\ lines[i].shown \in Int /\ lines[j].shown \in Int
          /\ lines[i].at \in Int /\ lines[j].at \in Int
        <3>1. i \in 1 .. Len(lines) /\ j \in 1 .. Len(lines)
            BY <2>1, SMT
        <3>2. /\ lines[i] \in [shown : Int, at : Int, date : Int]
              /\ lines[j] \in [shown : Int, at : Int, date : Int]
            <4> DEFINE Line == [shown : Int, at : Int, date : Int]
            <4> HIDE DEF Line
            <4>1. lines \in Seq(Line)
                BY <2>1, Zenon DEF Line
            <4>2. lines[i] \in Line /\ lines[j] \in Line
                BY ONLY <3>1, <4>1, SMT
            <4> QED BY <4>2, Zenon DEF Line
        <3> QED BY ONLY <3>1, <3>2, SMT
    <2>3. /\ lines[i].shown \in Int /\ lines[j].shown \in Int
          /\ lines[i].date = lines[i].shown + Shift(zone, lines[i].at)
          /\ lines[j].date = lines[j].shown + Shift(zone, lines[j].at)
        <3>1. \A n \in 1 .. Len(lines) : lines[n].date = lines[n].shown + Shift(zone, lines[n].at)
            BY Zenon DEF Inv
        <3> QED BY ONLY <2>2, <3>1, Zenon
    <2>4. /\ lines[i].at \in Int /\ lines[j].at \in Int
          /\ Shift(zone, lines[i].at) \in {-60, 0} /\ Shift(zone, lines[j].at) \in {-60, 0}
        <3>1. ShiftFacts(zone, lines[i].at) /\ ShiftFacts(zone, lines[j].at)
            BY <2>1, <2>2, ShiftIs, Zenon
        <3> QED BY <2>2, <3>1, SMT DEF ShiftFacts
    <2>5. CASE lines[j].shown > lines[i].shown + MinutesPerHour
        BY <2>3, <2>4, <2>5, SMT DEF MinutesPerHour
    <2>6. CASE OffsetAt(zone, lines[j].at) >= OffsetAt(zone, lines[i].at)
        <3>1. Shift(zone, lines[j].at) >= Shift(zone, lines[i].at)
            BY <2>1, <2>4, <2>6, ShiftGrows, SMT
        <3> QED BY <2>3, <2>4, <3>1, SMT
    <2> QED BY <2>5, <2>6, SMT
<1> QED BY <1>1, InvCorrect, PTL

\* An hour or more east of Greenwich the local date of a midnight's text is that day.
LEMMA SameDay ==
    ASSUME NEW z \in Zone, z.offset >= MinutesPerHour, NEW wall \in Int, NEW t \in Int, t % 1440 = 0
    PROVE  \E g : ToQdate(z, wall, t) = FieldsOf(t \div 1440, g)
<1> DEFINE read == ToDatetime(z, wall, ToStr(t))
           local == read + OffsetAt(z, read)
<1>1. read \in {t - 60, t}
    <2>1. Shown(ToStr(t)) = t
        BY ShownAgain, SMT DEF ToStr, GmTime
    <2>2. read = t + Shift(z, wall)
        BY <2>1, ReadAs, SMT
    <2>3. Shift(z, wall) \in {-60, 0}
        BY ShiftIs, SMT DEF ShiftFacts
    <2> HIDE DEF read
    <2> QED BY <2>2, <2>3, SMT
<1> HIDE DEF read
<1>2. /\ OffsetAt(z, read) = z.offset \/ OffsetAt(z, read) = z.offset + 60
      /\ z.offset \in 60 .. 840
    <2>1. read \in Int
        BY <1>1, SMT
    <2>2. ShiftFacts(z, read)
        BY <2>1, ShiftIs, Zenon
    <2>3. OffsetAt(z, read) = z.offset \/ OffsetAt(z, read) = z.offset + 60
        BY <2>2, SMT DEF ShiftFacts
    <2>4. z.offset \in Int /\ z.offset <= 840
        BY <2>2, SMT DEF ShiftFacts
    <2>5. z.offset >= 60
        BY <2>4, SMT DEF MinutesPerHour
    <2> QED BY ONLY <2>3, <2>4, <2>5, SMT
<1>3. local \in Int /\ local \div 1440 = t \div 1440
    <2> DEFINE gone == OffsetAt(z, read)
    <2>1. gone \in 60 .. 900
        BY <1>2, SMT
    <2>2. local = read + gone
        BY Zenon
    <2> HIDE DEF gone, local
    <2> QED BY <1>1, <2>1, <2>2, SMT
<1>4. ToQdate(z, wall, t) = UtcTm(local)
    BY SMT DEF ToQdate, LocalTime, GmTime, read
<1> HIDE DEF local
<1>5. UtcTm(local) = FieldsOf(local \div 1440, local % 1440)
    BY <1>3, UtcTmIs, SMT
<1>6. ToQdate(z, wall, t) = FieldsOf(t \div 1440, local % 1440)
    BY <1>3, <1>4, <1>5, SMT
<1> QED BY <1>6, SMT

(***************************************************************************)
(* East of Greenwich, one row a day at midnight: rows on the business days  *)
(* and on no other, as the hour that is lost is made up for by the zone.    *)
(***************************************************************************)
THEOREM BusinessDaysCorrect == Spec => RowsOnBusinessDays
<1>1. ASSUME Inv, Next,
             source = "generator", calendar.time = 0, zone.offset >= MinutesPerHour, date' # date
      PROVE  row' = date <=> IsBusinessDay(calendar)
    <2>1. /\ zone \in Zone /\ now \in Int /\ date \in Int /\ calendar = UtcTm(date)
          /\ row \in Int /\ (row # NullDate => row < date)
        BY <1>1, SMT DEF Inv
    <2>2. Generate
        BY <1>1, SMT DEF Next, ReadLine, LoopEnds, Tick
    <2> DEFINE day == ToQdate(zone, now, date)
    <2>3. /\ row' = (IF IsBusinessDay(day) THEN date ELSE row)
          /\ date # NullDate
        BY <1>1, <2>2, SMT DEF Generate, GetNextTimepoint
    <2>4. calendar = FieldsOf(date \div 1440, date % 1440)
        BY <2>1, UtcTmIs, SMT
    <2>5. date % 1440 = 0
        BY <1>1, <2>4, SMT DEF FieldsOf
    <2>6. PICK g : day = FieldsOf(date \div 1440, g)
        BY <1>1, <2>1, <2>5, SameDay, SMT
    <2> HIDE DEF day
    <2>7. /\ day.year = calendar.year /\ day.month = calendar.month
          /\ day.day = calendar.day /\ day.wday = calendar.wday
        BY <2>4, <2>6, SMT DEF FieldsOf
    <2>8. IsBusinessDay(day) <=> IsBusinessDay(calendar)
        BY <2>7, SMT DEF IsBusinessDay
    <2>9. row # date
        BY <2>1, <2>3, SMT
    <2> QED BY <2>3, <2>8, <2>9, SMT
<1>2. ASSUME Inv, [Next]_vars
      PROVE  [ /\ source = "generator" /\ frequency = MinutesPerDay
               /\ calendar.time = 0 /\ zone.offset >= MinutesPerHour
               /\ counter' # counter /\ date' # date
               => (row' = date <=> IsBusinessDay(calendar)) ]_vars
    BY <1>1, <1>2, Zenon
<1> QED BY <1>2, InvCorrect, PTL DEF Spec, RowsOnBusinessDays
=============================================================================
