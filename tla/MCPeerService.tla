---------------------------- MODULE MCPeerService ----------------------------
(***************************************************************************)
(* PeerService with two peers, for TLC.                                    *)
(***************************************************************************)
EXTENDS PeerService, TLC

CONSTANTS p, q

TwoPeers == {p, q}

\* Two announces of p may be handled at a time.
TwoOfP == p :> 2 @@ q :> 1
=============================================================================
