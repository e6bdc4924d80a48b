\* Scans that cannot read a file, a save of no bytes and peers that are lost, on
\* two devices that count under ids of their own.
SPECIFICATION Spec
CONSTANTS
    A = A
    B = B
    f = f
    Devices = {A, B}
    Ids = {A, B}
    DeviceId <- OwnIds
    Names <- AllNames
    UserNames <- OneFile
    ConflictName <- CopyName
    NoFile = NoFile
    Partial = Partial
    NoHash = NoHash
    NoRecord = NoRecord
    NoName = NoName
    EmptySaves = {2}
    Unreadable = {f}
    Events = {"lost"}
    Slots = 1
    MaxSaves = 2
    MaxFailures = 0
    MaxVersion = 2
INVARIANT
    SnapshotsLagIndex
PROPERTY
    ReplacedFilesAreKept
SYMMETRY Swap
CHECK_DEADLOCK FALSE
