----------------------------- MODULE Blockchain -----------------------------
(***************************************************************************)
(* The block tree one full node keeps (src/model/composite_type.go) and    *)
(* the pure part of what FullNode does with it under its mutex             *)
(* (src/full_node/full_node.go): creating the tree, deciding whether a     *)
(* block is accepted, and adding it.                                       *)
(*                                                                         *)
(* A block is [PrevHash, Txs, Coinbase, Sealed].  Sealed stands for the    *)
(* two tests on the proof of work: the digest meets DIFFICULTY and the     *)
(* block's Hash field is that digest.  Mine tries nonces from 0 upwards,   *)
(* so a block's content determines its nonce and the nonce is left out.    *)
(***************************************************************************)
EXTENDS Ledger

CONSTANTS
  GENESIS_HASH,     \* hash of the genesis block, "00" in the code
  NIL,              \* the nil parent pointer of the genesis wrapper
  COINBASE_REWARD,  \* config: what a block may create
  CONFIRMATION      \* config: how deep a parent may be for a new block

ASSUME ConfigAssumption ==
  /\ COINBASE_REWARD \in Nat
  /\ CONFIRMATION \in Nat
  /\ GENESIS_HASH # NIL

(***************************************************************************)
(* The hash of a block covers its parent's hash, the bytes and hashes of   *)
(* its transactions and of its coinbase (GetBlockBytes).                   *)
(***************************************************************************)
BlockHash(b) ==
  [PrevHash |-> b.PrevHash,
   Txs      |-> [i \in DOMAIN b.Txs |-> TxHash(b.Txs[i])],
   Coinbase |-> TxHash(b.Coinbase)]

TxHashes(txs) == {TxHash(txs[i]) : i \in DOMAIN txs}

GenesisBlock == [PrevHash |-> NIL, Txs |-> <<>>, Coinbase |-> NIL, Sealed |-> FALSE]

NewBlockChain ==
  [Tail  |-> GENESIS_HASH,
   Chain |-> [h \in {GENESIS_HASH} |->
                [B |-> GenesisBlock, Parent |-> NIL, Children |-> {},
                 Height |-> 0, L |-> NewLedger]]]

TailHeight(bc) == bc.Chain[bc.Tail].Height

-----------------------------------------------------------------------------
(***************************************************************************)
(* The tests of HandleNewBlock, in the order the code makes them.          *)
(***************************************************************************)
Known(bc, b) == BlockHash(b) \in DOMAIN bc.Chain

ParentKnown(bc, b) == b.PrevHash \in DOMAIN bc.Chain

BuriedTooDeep(bc, b) == TailHeight(bc) - bc.Chain[b.PrevHash].Height > CONFIRMATION

BodyValid(b, l) ==
  /\ FeeIsDefined(b.Txs, l)
  /\ IsValidCoinbase(b.Coinbase, Plus(CalcTxFee(b.Txs, l), COINBASE_REWARD))
  /\ HandleTransactions(b.Txs, l).errTxs = <<>>

Acceptable(bc, b) ==
  /\ ~Known(bc, b)
  /\ b.Sealed
  /\ ParentKnown(bc, b)
  /\ ~BuriedTooDeep(bc, b)
  /\ BodyValid(b, bc.Chain[b.PrevHash].L)

(***************************************************************************)
(* The ledger a block leaves behind, computed on a copy of its parent's.   *)
(***************************************************************************)
LedgerAfter(b, l) ==
  ProcessInputsAndOutputs(b.Coinbase, HandleTransactions(b.Txs, l).L)

(***************************************************************************)
(* An accepted block gets a wrapper, becomes a child of its parent, and    *)
(* becomes the tail only if it is strictly higher than the present one.    *)
(* (Faulty versions: the ledger is taken from the tail; it is the parent's *)
(* own and no copy; the last block wins; a block of the same height wins;  *)
(* the block is never put into the map.)                                   *)
(***************************************************************************)
NewWrapperOnTailLedger(bc, b) ==
  [B |-> b, Parent |-> b.PrevHash, Children |-> {},
   Height |-> bc.Chain[b.PrevHash].Height + 1,
   L |-> LedgerAfter(b, bc.Chain[bc.Tail].L)]

NewWrapper(bc, b) ==
  LET parent == bc.Chain[b.PrevHash]
  IN  [B |-> b, Parent |-> b.PrevHash, Children |-> {},
       Height |-> parent.Height + 1, L |-> LedgerAfter(b, parent.L)]

LinkedSharingLedger(bc, b, h) ==
  IF h = b.PrevHash
  THEN [bc.Chain[h] EXCEPT !.Children = @ \cup {BlockHash(b)}, !.L = LedgerAfter(b, @)]
  ELSE bc.Chain[h]

Linked(bc, b, h) ==
  IF h = b.PrevHash
  THEN [bc.Chain[h] EXCEPT !.Children = @ \cup {BlockHash(b)}]
  ELSE bc.Chain[h]

NewTailLastWins(bc, b) == BlockHash(b)

NewTailTieWins(bc, b) ==
  IF NewWrapper(bc, b).Height >= TailHeight(bc) THEN BlockHash(b) ELSE bc.Tail

NewTail(bc, b) ==
  IF NewWrapper(bc, b).Height > TailHeight(bc) THEN BlockHash(b) ELSE bc.Tail

AddBlockUnmapped(bc, b) ==
  [Tail  |-> NewTail(bc, b),
   Chain |-> [h \in DOMAIN bc.Chain |-> Linked(bc, b, h)]]

AddBlock(bc, b) ==
  [Tail  |-> NewTail(bc, b),
   Chain |-> [h \in DOMAIN bc.Chain \cup {BlockHash(b)} |->
                IF h = BlockHash(b) THEN NewWrapper(bc, b) ELSE Linked(bc, b, h)]]

-----------------------------------------------------------------------------
(***************************************************************************)
(* Following Parent pointers n times, stopping at the genesis block, and   *)
(* the ledger snapshot GetLedgerSnapshotAtDepth takes that far back.       *)
(***************************************************************************)
Ancestor(bc, h, n) ==
  LET anc[k \in 0..n] ==
        IF k = 0 THEN h
        ELSE IF bc.Chain[anc[k-1]].Parent = NIL THEN anc[k-1]
             ELSE bc.Chain[anc[k-1]].Parent
  IN  anc[n]

LedgerSnapshotAtDepth(bc, depth) == bc.Chain[Ancestor(bc, bc.Tail, depth)].L
=============================================================================
