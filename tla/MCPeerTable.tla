----------------------------- MODULE MCPeerTable ----------------------------
(***************************************************************************)
(* Instances of PeerTable for TLC.                                         *)
(***************************************************************************)
EXTENDS PeerTableProperties

CONSTANTS h1, a1, a2   \* a handler, addresses

OneHandler   == {h1}
TwoAddresses == {a1, a2}
=============================================================================
