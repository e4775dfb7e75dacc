SPECIFICATION Spec
CONSTANTS
    Symbols = {"A"}
    OrderSpecs <- WalkSpecs
    ValueMaps <- WalkValues
    InitialCash = 6
    Gaps = {0, 1}
    TickFeed = FALSE
    KeepsOrder = {TRUE}
    Word = 128
    Scale = 7
    Exact = 32
    Spacings = {1, 2, 4}
    Casts = {"wraps", "saturates"}
    MaxOrders = 3
    MaxBars = 3
    MaxDepth = 2
INVARIANTS
    TypeOK
    BookHoldsLiveOrders
    StateMatchesFill
    WalkStands
PROPERTIES
    OneWayLife
    EndsAnnounced
    DayOrderKeepsItsDay
    NoLookAhead
