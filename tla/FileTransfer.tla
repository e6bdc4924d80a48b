----------------------------- MODULE FileTransfer -----------------------------
(***************************************************************************)
(* What the swarm of src/transport/swarm.py promises to those who want a   *)
(* file, with no network, no peers and no threads: every request is        *)
(* answered at most once, and only with the whole file.                    *)
(***************************************************************************)
EXTENDS Naturals

CONSTANTS
    Nodes,
    Genuine     \* the contents the file's hash stands for

VARIABLES
    wants,      \* how many times each node has asked for the file
    pending,    \* its requests that may still be answered, by number
    delivered   \* its answers: the request's number and the contents

Init ==
    /\ wants = [n \in Nodes |-> 0]
    /\ pending = [n \in Nodes |-> {}]
    /\ delivered = [n \in Nodes |-> {}]

Want(n) ==
    /\ wants' = [wants EXCEPT ![n] = @ + 1]
    /\ pending' = [pending EXCEPT ![n] = @ \union {wants[n] + 1}]
    /\ UNCHANGED delivered

Deliver(n, t) ==
    /\ t \in pending[n]
    /\ pending' = [pending EXCEPT ![n] = @ \ {t}]
    /\ delivered' = [delivered EXCEPT ![n] =
                        @ \union {[ticket |-> t, chunks |-> Genuine]}]
    /\ UNCHANGED wants

\* A request may be given up: nobody is told.
Abandon(n, t) ==
    /\ t \in pending[n]
    /\ pending' = [pending EXCEPT ![n] = @ \ {t}]
    /\ UNCHANGED <<wants, delivered>>

Next == \E n \in Nodes :
    \/ Want(n)
    \/ \E t \in pending[n] : Deliver(n, t) \/ Abandon(n, t)

Spec == Init /\ [][Next]_<<wants, pending, delivered>>
=============================================================================
