SPECIFICATION Spec
CONSTANTS
    Symbols = {1, 2}
    Values = {"v", "w"}
    Files <- SomeFiles
    Ranges <- SomeRanges
    BusinessDays = {1, 3, 4}
    StartDate = 1
    EndDate = 4
    GeneratorDays = 3
    Maxlen = 4
    MaxLoads = 2
INVARIANTS
    TypeOK
    EveryRowOnce
    SetsInOrder
PROPERTIES
    ImplementsSource
    Drains
