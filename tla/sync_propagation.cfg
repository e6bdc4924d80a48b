\* No faults, one save: a file that a known peer indexes does not arrive.
SPECIFICATION FairSpec
CONSTANTS
    A = A
    B = B
    f = f
    Devices = {A, B}
    Ids = {A, B}
    DeviceId <- OwnIds
    Names <- AllNames
    UserNames <- OneFile
    ConflictName <- CopyName
    NoFile = NoFile
    Partial = Partial
    NoHash = NoHash
    NoRecord = NoRecord
    NoName = NoName
    EmptySaves = {}
    Unreadable = {}
    Events = {}
    Slots = 1
    MaxSaves = 1
    MaxFailures = 0
    MaxVersion = 3
PROPERTY
    FilesReachKnownPeers
CHECK_DEADLOCK FALSE
