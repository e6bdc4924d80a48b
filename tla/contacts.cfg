\* Two processes that run three commands between them, on contacts and on
\* circles; one may die within a command, and one load or save may fail.
SPECIFICATION Spec
CONSTANTS
    Actors = {p, q}
    Friends = {x, y}
    CircleOrder <- MCCircleOrder
    Resources = {"/sync", "/sync/shared"}
    Torn = Torn
    NoFile = NoFile
    MaxCrashes = 1
    i = i
    j = j
    x = x
    Ids = {i, j, k}
    Texts = {"phone"}
    Keys = {"birthday"}
    Customs = {"nickname"}
    NoText = NoText
    Values = {1, 2}
    Devs = {"laptop"}
    Refs = {"message"}
    Text = Text
    Host = "laptop"
    Own = "own"
    NoId = "none"
    Neighbours = {"desktop", "phone"}
    Namesake = "desktop"
    Mixes <- MCMixes
INVARIANTS
    TypeOK
    AddsAreKept
    StandingMembersAreKnown
    GrantsAreEarned
    InventoryKeepsDevices
    RootfsIsWhole
PROPERTIES
    ContactsStay
    ChangesAreCounted
    MergeCombines
    RnsGetsI2P
SYMMETRY Swap
CHECK_DEADLOCK FALSE
