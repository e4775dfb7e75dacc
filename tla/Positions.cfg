SPECIFICATION StrategySpec
CONSTANTS
    Symbols = {"A"}
    OrderSpecs <- Requests
    ValueMaps <- MixedValues
    InitialCash = 6
    Gaps = {0, 1}
    TickFeed = FALSE
    KeepsOrder = {TRUE}
    Word = 128
    Scale = 7
    Exact = 32
    Spacings = {1, 2, 4}
    Casts = {"wraps"}
    MaxOrders = 3
    MaxBars = 2
    MaxDepth = 2
    Entries <- MixedEntries
    Exits <- MixedExits
    Calls <- ClosingCalls
    KeepsPosition = {FALSE}
INVARIANTS
    StrategyTypeOK
    SharesFollowFills
    StateFollowsEntry
    OrdersHaveOwners
PROPERTIES
    ImplementsHolding
    AllReturns
