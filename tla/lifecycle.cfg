\* The process and its services; and the screen of the prompt, with two threads
\* that print.
SPECIFICATION MCSpec
CONSTANTS
    Setups <- MCSetups
    Services = {"sync", "container", "all"}
    Printers = {"api", "rns"}
    Texts = {"help", "quit"}
    MaxLines = 4
    MaxKeys = 6
INVARIANTS
    TypeOK
    OrderlyExit
    OneScanLoop
    ShellMatchesState
    ScreenTypeOK
    NoLineForgotten
PROPERTY SignalsEndTheProcess
CHECK_DEADLOCK FALSE
