SPECIFICATION Spec
CONSTANTS
    Zones <- SomeZones
    Clock <- SomeClock
    Starts <- SomeStarts
    Frequencies = {60, 1440}
    Holidays <- SomeHolidays
    Maxlen = 1024
    Texts <- SomeTexts
    MaxLines = 2
INVARIANTS
    CalendarAgrees
    LinesKeepOrder
PROPERTY RowsOnBusinessDays
CHECK_DEADLOCK FALSE
