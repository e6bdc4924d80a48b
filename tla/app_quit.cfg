SPECIFICATION MCSpec
CONSTANTS
    Setups <- QuitOnly
    Services = {"sync"}
    Printers = {}
    Texts = {}
    MaxLines = 0
    MaxKeys = 0
INVARIANT QuitStopsServices
CHECK_DEADLOCK FALSE
