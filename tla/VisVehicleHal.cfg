CONSTANTS
    Threads = {t1, t2}
    Names <- VisNames
    mVPropertyToVisName <- Forward
    mVisNameToVProperty <- Back
    Gets <- Requested
    Sets <- SetRequests
    JsonValues <- SomeJson
    FirstValues <- InitialServer
    AlwaysAnswered <- FakeDataName
    Rounded <- TinyIsZero
    Tiny = Tiny
    Word = Word
    Handler = Handler
    NoThread = NoThread
    MaxChanges = 1
    MaxDrops = 1
    MaxCalls = 2
SPECIFICATION BoundedSpec
CHECK_DEADLOCK FALSE
INVARIANTS
    StoreHoldsServerValues
    GetFindsFetchedValue
    CacheFollowsServer
    DisconnectIsNoticed
PROPERTY CallsReturn
