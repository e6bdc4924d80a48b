---------------------------- MODULE MCAppLifecycle ----------------------------
(***************************************************************************)
(* For TLC: either AppLifecycle, or the screen of the prompt by itself.    *)
(***************************************************************************)
EXTENDS AppLifecycle, CLIInterface

MCSetup(how, i2p, r, s, g, f) ==
    [mode |-> how, i2pd |-> i2p, requests |-> r, starts |-> s, signals |-> g, faults |-> f]

\* In the background with an i2pd, a request and a signal may meet, and without
\* one two requests; with an i2pd and the tray icon two uses of Quit or signals
\* may meet, and one service may fail to start; at the prompt a start command may run at
\* the same time as a request, or as the stop that follows a signal.
MCSetups == {
    MCSetup("background", TRUE, 1, 0, 1, 0),
    MCSetup("background", FALSE, 2, 0, 0, 0),
    MCSetup("tray", TRUE, 0, 0, 2, 1),
    MCSetup("cli", FALSE, 1, 1, 0, 0),
    MCSetup("cli", FALSE, 0, 1, 1, 0)}

\* A request and a signal, in the background.
OneClient == {MCSetup("background", TRUE, 1, 0, 1, 0)}

\* For the quit and exit commands: nothing else happens.
Quiet == MCSetup("cli", FALSE, 0, 0, 0, 0)
QuitOnly == {Quiet}

VARIABLE part   \* which of the two is looked at

partVars == <<part, vars, screenVars>>

MCInit ==
    /\ Init
    /\ ScreenInit
    /\ part \in {"process"} \cup (IF mode = Quiet.mode /\ left.signals = 1 THEN {"screen"} ELSE {})

MCNext ==
    \/ part = "process" /\ Next /\ UNCHANGED <<part, screenVars>>
    \/ part = "screen" /\ ScreenNext /\ UNCHANGED <<part, vars>>

\* The fairness of AppLifecycle's Spec.
MCSpec == MCInit /\ [][MCNext]_partVars /\ Fairness
=============================================================================
