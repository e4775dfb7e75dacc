SPECIFICATION Spec
CONSTANT Feeds <- MergeFeeds
INVARIANTS
    TypeOK
    NothingLeft
    StopsWhatItStarted
    JoinedBeforeGone
PROPERTIES
    DateOrder
    WorkerEnds
