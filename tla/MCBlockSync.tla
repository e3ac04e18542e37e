----------------------------- MODULE MCBlockSync -----------------------------
(***************************************************************************)
(* Instances of BlockSync for TLC: two blocks and a third that competes    *)
(* with the second, for two peers; a trunk of five blocks, with a branch   *)
(* of two at the genesis block and one at the block above it, for one      *)
(* peer, whose chain is replaced at will while the node's own grows.       *)
(***************************************************************************)
EXTENDS BlockSyncProperties

CONSTANTS p1, p2   \* peers

OnePeer == {p1}

TwoPeers == {p1, p2}

Fork == {<<>>, <<1>>, <<1, 1>>, <<1, 2>>}

Trunk(n) == {[i \in 1..k |-> 1] : k \in 0..n}

TwoBranches == Trunk(5) \cup {<<1, 2>>, <<1, 2, 1>>, <<2>>, <<2, 1>>}
=============================================================================
