------------------------------ MODULE MCPeerLinks ------------------------------
(***************************************************************************)
(* PeerLinks with two peers, for TLC.                                      *)
(***************************************************************************)
EXTENDS PeerLinks, TLC

CONSTANTS p1, p2

TwoPeers == {p1, p2}

\* Two announces of p1 may be handled at a time.
TwoOfFirst == p1 :> 2 @@ p2 :> 1

MCSetup(h, r, c, v, s, f) ==
    [alone |-> FALSE, heard |-> p1 :> h @@ p2 :> 0, rescans |-> r, commands |-> c,
     checks |-> v, stops |-> s, refusals |-> f]

\* The service alone; and with the links to one peer, which is discovered again
\* after it was lost, or to which a scan, a command or a check wants a link as
\* well, or where the engine is stopped at any point of a cycle.
MCSetups == {
    [MCSetup(0, 0, 0, 0, 0, 0) EXCEPT !.alone = TRUE],
    MCSetup(2, 0, 0, 0, 0, 0),
    MCSetup(1, 1, 0, 0, 0, 0),
    MCSetup(1, 0, 0, 0, 1, 0),
    MCSetup(1, 0, 1, 0, 0, 1),
    MCSetup(1, 0, 0, 1, 0, 1)}
=============================================================================
