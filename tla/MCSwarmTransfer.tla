---------------------------- MODULE MCSwarmTransfer ----------------------------
(***************************************************************************)
(* The parts of src/transport for TLC: either a seeder and a node that asks*)
(* for the file twice, or the bandwidth governor by itself.                *)
(***************************************************************************)
EXTENDS SwarmTransfer, BandwidthGovernor, TLC

CONSTANTS s, t, c1, c2, u, v

TwoNodes == {s, t}
TwoChunks == {c1, c2}
SeederOnly == {s}

\* s has the file; t may ask for it twice.
Wants == s :> 0 @@ t :> 2

\* A link of a kilobit a second, one of which nothing is known.
SomeRates == {0, 1000}

TwoCallers == {u, v}
Calls == u :> 2 @@ v :> 2

\* Nothing known; so slow that a second byte in the window is too much; fast
\* (which the governor treats as it does a medium link).
SomeSpeeds == {0, 6, 1000000}

VARIABLE part   \* which of the two is looked at

partVars == <<part, swarmVars, governorVars>>

MCInit == part \in {"swarm", "governor"} /\ Init /\ GovernorInit

MCNext ==
    \/ part = "swarm" /\ Next /\ UNCHANGED <<part, governorVars>>
    \/ part = "governor" /\ GovernorNext /\ UNCHANGED <<part, swarmVars>>

\* The fairness of SwarmTransfer's FairSpec.
MCSpec ==
    /\ MCInit
    /\ [][MCNext]_partVars
    /\ Fairness
=============================================================================
