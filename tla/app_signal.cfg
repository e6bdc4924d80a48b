\* In the background, with one client that may connect and stay.
SPECIFICATION MCSpec
CONSTANTS
    Setups <- OneClient
    Services = {"sync"}
    Printers = {}
    Texts = {}
    MaxLines = 0
    MaxKeys = 0
PROPERTY StopEndsTheLoop
CHECK_DEADLOCK FALSE
