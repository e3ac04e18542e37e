----------------------------- MODULE BlockTree ------------------------------
(***************************************************************************)
(* What a full node promises about the blocks it keeps, without saying how *)
(* it decides on them: a tree that only grows, one block at a time, and a  *)
(* best block that is as high as any and gives way only to a higher one.   *)
(* FullNode implements it, and so does the node of BlockSync.              *)
(***************************************************************************)
EXTENDS Integers

CONSTANT ROOT  \* the genesis block

VARIABLES
  height,  \* the blocks in the tree, each with its distance from ROOT
  parent,  \* the parent of each block but ROOT
  best     \* the block to mine on

vars == <<height, parent, best>>

Blocks == DOMAIN height

Init ==
  /\ height = [b \in {ROOT} |-> 0]
  /\ parent = [b \in {} |-> ROOT]
  /\ best = ROOT

Grow(b, p) ==
  /\ b \notin Blocks
  /\ p \in Blocks
  /\ height' = [x \in Blocks \cup {b} |-> IF x = b THEN height[p] + 1 ELSE height[x]]
  /\ parent' = [x \in DOMAIN parent \cup {b} |-> IF x = b THEN p ELSE parent[x]]
  /\ best' \in Blocks \cup {b}
  /\ \A x \in Blocks \cup {b} : height'[x] <= height'[best']
  /\ best' # best => height'[best'] > height[best]

Next == \E b \in Blocks', p \in Blocks : Grow(b, p)

Spec == Init /\ [][Next]_vars
=============================================================================
