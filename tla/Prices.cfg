SPECIFICATION Spec
CONSTANTS
    Symbols = {"A", "B"}
    OrderSpecs <- PriceSpecs
    ValueMaps <- PriceValues
    InitialCash = 2
    Gaps = {0, 1}
    TickFeed = TRUE
    KeepsOrder = {FALSE}
    Word = 128
    Scale = 7
    Exact = 32
    Spacings = {1, 2, 4}
    Casts = {"wraps"}
    MaxOrders = 1
    MaxBars = 2
    MaxDepth = 1
PROPERTIES
    PriceTraded
    StopWaits
