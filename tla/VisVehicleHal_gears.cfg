CONSTANTS
    Threads = {t1}
    Names <- GearName
    mVPropertyToVisName <- GearsOnly
    mVisNameToVProperty <- GearsBack
    Gets <- GearKeys
    Sets = {}
    JsonValues <- NeutralOnly
    FirstValues <- InNeutral
    AlwaysAnswered <- GearName
    Rounded <- TinyIsZero
    Tiny = Tiny
    Word = Word
    Handler = Handler
    NoThread = NoThread
    MaxChanges = 0
    MaxDrops = 0
SPECIFICATION Spec
CHECK_DEADLOCK FALSE
INVARIANT AllMappedPropertiesAreUpdated
