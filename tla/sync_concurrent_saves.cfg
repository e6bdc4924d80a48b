\* As shipped, no faults: a save is replaced by one it knows nothing of.
SPECIFICATION HistorySpec
CONSTANTS
    A = A
    B = B
    f = f
    Devices = {A, B}
    Ids = {"unknown"}
    DeviceId <- OneId
    Names <- AllNames
    UserNames <- OneFile
    ConflictName <- CopyName
    NoFile = NoFile
    Partial = Partial
    NoHash = NoHash
    NoRecord = NoRecord
    NoName = NoName
    EmptySaves = {}
    Unreadable = {}
    Events = {}
    Slots = 1
    MaxSaves = 2
    MaxFailures = 0
    MaxVersion = 3
PROPERTY
    ConcurrentSavesConflict
CHECK_DEADLOCK FALSE
