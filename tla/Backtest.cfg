SPECIFICATION BacktestSpec
CONSTANTS
    Symbols = {1, 2}
    OrderSpecs <- SomeSpecs
    ValueMaps <- SomeValues
    InitialCash = 5
    Gaps = {0, 1, 2, 3}
    TickFeed = FALSE
    KeepsOrder = {TRUE, FALSE}
    Word = 64
    Scale = 7
    Exact = 16
    Spacings = {1, 2, 4}
    Casts = {"wraps"}
    MaxOrders = 2
    MaxBars = 8
    MaxDepth = 1
    Files <- SomeFiles
    Maxlen = 2
    MaxLoads = 2
    PerDay = 2
INVARIANTS
    EquityIsCashAndGains
    VolumeOfFirstBar
    KnownDeaths
PROPERTIES
    StepsOfTheExchange
    LongSharesKept
    ImplementsBrokerage
    BacktestEnds
