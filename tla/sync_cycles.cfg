\* Two devices that both count under "unknown", as shipped; every request is
\* answered, the engine is stopped and started, files are deleted.
SPECIFICATION FairSpec
CONSTANTS
    A = A
    B = B
    f = f
    Devices = {A, B}
    Ids = {"unknown"}
    DeviceId <- OneId
    Names <- OneFile
    UserNames <- OneFile
    ConflictName <- NoCopyName
    NoFile = NoFile
    Partial = Partial
    NoHash = NoHash
    NoRecord = NoRecord
    NoName = NoName
    EmptySaves = {}
    Unreadable = {}
    Events = {"stop", "delete"}
    Slots = 1
    MaxSaves = 2
    MaxFailures = 0
    MaxVersion = 6
PROPERTIES
    CyclesEnd
    IndexedFilesArrive
    SyncSettles
CHECK_DEADLOCK FALSE
