\* Two devices that count under ids of their own, two cycles per device at a
\* time; requests time out and a process dies between any two steps.
SPECIFICATION Spec
CONSTANTS
    A = A
    B = B
    f = f
    Devices = {A, B}
    Ids = {A, B}
    DeviceId <- OwnIds
    Names <- AllNames
    UserNames <- OneFile
    ConflictName <- CopyName
    NoFile = NoFile
    Partial = Partial
    NoHash = NoHash
    NoRecord = NoRecord
    NoName = NoName
    EmptySaves = {}
    Unreadable = {}
    Events = {"timeout"}
    Slots = 2
    MaxSaves = 2
    MaxFailures = 1
    MaxVersion = 2
INVARIANTS
    TypeOK
    VersionsCountOwnScans
    TransfersCounted
    PartialOnlyWhileWriting
PROPERTY
    ReplacedFilesAreKept
SYMMETRY Swap
CHECK_DEADLOCK FALSE
