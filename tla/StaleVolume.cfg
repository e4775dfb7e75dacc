SPECIFICATION Spec
CONSTANTS
    Symbols = {"A", "B"}
    OrderSpecs <- VolumeSpecs
    ValueMaps <- VolumeValues
    InitialCash = 6
    Gaps = {0, 1}
    TickFeed = FALSE
    KeepsOrder = {TRUE}
    Word = 128
    Scale = 7
    Exact = 32
    Spacings = {1, 2, 4}
    Casts = {"wraps"}
    MaxOrders = 2
    MaxBars = 2
    MaxDepth = 2
PROPERTIES
    VolumeFollowsBars
