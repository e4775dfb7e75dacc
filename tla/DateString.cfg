SPECIFICATION Spec
CONSTANTS
    Zones <- JustLondon
    Clock <- SomeClock
    Starts <- TestStart
    Frequencies = {1440}
    Holidays = {}
    Maxlen = 4
    Texts = {}
    MaxLines = 0
INVARIANT DateString
CHECK_DEADLOCK FALSE
