------------------------- MODULE FullNodeProperties -------------------------
(***************************************************************************)
(* What one full node promises, stated over the state of FullNode.         *)
(***************************************************************************)
EXTENDS FullNode

Chain == blockchain.Chain

Hashes == DOMAIN Chain

(***************************************************************************)
(* Types.  Every Parent and every Children entry is a hash of the tree     *)
(* (the code keeps pointers to wrappers that never leave f.blockchain      *)
(* .Chain), and the miner's phase is one of its five program points.       *)
(***************************************************************************)
WrapperOK(w, hashes) ==
  /\ DOMAIN w = {"B", "Parent", "Children", "Height", "L"}
  /\ w.Parent \in hashes \cup {NIL}
  /\ w.Children \subseteq hashes
  /\ w.Height \in Nat

MinerOK(m) ==
  /\ DOMAIN m = {"pc", "height", "block", "errTxs"}
  /\ m.pc \in {"rest", "start", "clean", "mining", "exited"}
  /\ m.height \in Nat

TypeOK ==
  /\ GENESIS_HASH \in Hashes
  /\ blockchain.Tail \in Hashes
  /\ \A h \in Hashes : WrapperOK(Chain[h], Hashes)
  /\ MinerOK(miner)

-----------------------------------------------------------------------------
(***************************************************************************)
(* The tree.  Each block but the genesis block sits under the hash of its  *)
(* own content, one level above a parent that is in the tree and that      *)
(* lists it as a child; nothing else is listed; nothing passes unsealed.   *)
(***************************************************************************)
Rooted(h) ==
  LET w == Chain[h]
  IN  /\ h = BlockHash(w.B)
      /\ w.B.Sealed
      /\ w.Parent = w.B.PrevHash
      /\ w.Parent \in Hashes
      /\ w.Height = Chain[w.Parent].Height + 1

GenesisIsRoot ==
  /\ Chain[GENESIS_HASH].Parent = NIL
  /\ Chain[GENESIS_HASH].Height = 0
  /\ Chain[GENESIS_HASH].L = NewLedger

ChildrenAreExact ==
  \A h \in Hashes :
    Chain[h].Children = {c \in Hashes \ {GENESIS_HASH} : Chain[c].Parent = h}

TailIsHighest == \A h \in Hashes : Chain[h].Height <= TailHeight(blockchain)

\* Each block passed its tests against its parent's ledger, and carries the
\* ledger it makes of that one: the steps of HandleNewBlock, still true of
\* every block after any number of others were added around it.
LedgerCarried(h) ==
  LET w == Chain[h]
  IN  /\ BodyValid(w.B, Chain[w.Parent].L)
      /\ w.L = LedgerAfter(w.B, Chain[w.Parent].L)

(***************************************************************************)
(* The block tree is sound: what HandleNewBlock relies on at every call.   *)
(* GetBlocks, GetLedgerSnapshotAtDepth and the drawing walk Parent         *)
(* pointers, and the longest-chain rule compares with the tail only.       *)
(***************************************************************************)
TreeSound ==
  /\ GenesisIsRoot
  /\ \A h \in Hashes \ {GENESIS_HASH} : Rooted(h) /\ LedgerCarried(h)
  /\ ChildrenAreExact
  /\ TailIsHighest

-----------------------------------------------------------------------------
(***************************************************************************)
(* Branches: the blocks from the genesis block (left out) to a block.      *)
(***************************************************************************)
Branch(h) ==
  [k \in 1..Chain[h].Height |->
     Chain[Ancestor(blockchain, h, Chain[h].Height - k)].B]

MainChain == {Ancestor(blockchain, blockchain.Tail, n) : n \in 0..TailHeight(blockchain)}

BlockTxs(b) == Append(b.Txs, b.Coinbase)

BranchTxs(h) == FlattenSeq([k \in DOMAIN Branch(h) |-> BlockTxs(Branch(h)[k])])

Created(txs) ==
  UNION {{UtxoLite(TxHash(txs[k]), i - 1) : i \in DOMAIN txs[k].Outputs} : k \in DOMAIN txs}

Claimed(txs) == UNION {ClaimedUtxos(txs[k]) : k \in DOMAIN txs}

OutputOf(txs, u) ==
  LET k == CHOOSE k \in DOMAIN txs : TxHash(txs[k]) = u.PrevTxHash
  IN  txs[k].Outputs[u.Index + 1]

\* No transaction identifier is on the branch twice.
DistinctIds(txs) == IsInjective([k \in DOMAIN txs |-> TxHash(txs[k])])

(***************************************************************************)
(* The ledger kept with each block, copied and edited block by block over  *)
(* all the branches, is the set of outputs its own branch creates and does *)
(* not claim.  (Where a branch repeats an identifier the code's map cannot *)
(* tell the two apart, and nothing is claimed.)                            *)
(***************************************************************************)
LedgerIsUnspentSet ==
  \A h \in Hashes :
    LET txs == BranchTxs(h)
    IN  DistinctIds(txs) =>
          Chain[h].L = [u \in Created(txs) \ Claimed(txs) |-> OutputOf(txs, u)]

(***************************************************************************)
(* No output is claimed twice on one branch, by any two inputs of any two  *)
(* transactions, however blocks of several branches interleave (rules 1    *)
(* and 5 of IsValidTransaction).                                           *)
(***************************************************************************)
BranchesSpendOnce ==
  \A h \in Hashes :
    LET txs    == BranchTxs(h)
        claims == {<<k, i>> : k \in DOMAIN txs, i \in UNION {DOMAIN txs[j].Inputs : j \in DOMAIN txs}}
        real   == {c \in claims : c[2] \in DOMAIN txs[c[1]].Inputs}
    IN  DistinctIds(txs) =>
          \A c, d \in real :
            c # d => CreateUtxoFromInput(txs[c[1]].Inputs[c[2]])
                       # CreateUtxoFromInput(txs[d[1]].Inputs[d[2]])

(***************************************************************************)
(* A branch of n blocks never holds more money than n rewards: fees,       *)
(* coinbases and transactions together create nothing more (HandleNewBlock *)
(* rule e, IsValidTransaction rule 2), forks and duplicates included.      *)
(* That is so where every amount on the branch is a number: a NAN passes   *)
(* all four comparisons, of the outputs with zero, of the outputs with the *)
(* inputs (twice) and of the coinbase with the fee, and what is made of it *)
(* is not bounded.  A NAN on another branch does no harm.                  *)
(***************************************************************************)
NoInflation ==
  \A h \in Hashes :
    OnlyNumbers(BranchTxs(h)) =>
      LET money == SumOf([u \in DOMAIN Chain[h].L |-> Chain[h].L[u].Value])
      IN  money \in Int /\ money <= COINBASE_REWARD * Chain[h].Height

-----------------------------------------------------------------------------
(***************************************************************************)
(* The block a miner works on passes the tests HandleNewBlock will make on *)
(* its body, though one side (CreateNewBlock) computes fee and ledger from *)
(* the pool and the other from the block: a found block can be refused     *)
(* only because the node already has it or the tree has moved on.          *)
(***************************************************************************)
MinedBlockValid ==
  miner.pc = "mining" =>
    /\ miner.block.PrevHash \in Hashes
    /\ BodyValid(miner.block, Chain[miner.block.PrevHash].L)

(***************************************************************************)
(* The height in a coinbase keeps the identifiers of a node's coinbases    *)
(* apart (GetTransactionBytes: "needed for Coinbase transaction to avoid   *)
(* block with only CB tx has same txid"), although the height is read      *)
(* before the tail the block goes on, and tails move in between.  For a    *)
(* key no other node mines with.                                           *)
(***************************************************************************)
Pays(tx, pk) == \E i \in DOMAIN tx.Outputs : tx.Outputs[i].PublicKey = pk

KeyIsOwn == \A c \in WireCoinbase : ~Pays(c, SELF)

OwnBlocks == {h \in Hashes \ {GENESIS_HASH} : Pays(Chain[h].B.Coinbase, SELF)}

OwnCoinbasesDistinct ==
  KeyIsOwn =>
    \A g, h \in OwnBlocks :
      g # h => TxHash(Chain[g].B.Coinbase) # TxHash(Chain[h].B.Coinbase)

(***************************************************************************)
(* Why: heights read from the tail only grow.  A label in use is never     *)
(* above the tail, the label the miner holds is above every label in use,  *)
(* and the block it makes will not be lower than its label.                *)
(***************************************************************************)
Label(h) == Chain[h].B.Coinbase.Height

LabelsBelowTail == \A h \in OwnBlocks : Label(h) \in Nat /\ Label(h) <= TailHeight(blockchain)

LabelsApart == \A g, h \in OwnBlocks : g # h => Label(g) # Label(h)

MinerLabelFresh ==
  miner.pc \in {"start", "mining"} =>
    /\ \A h \in OwnBlocks : Label(h) < miner.height
    /\ miner.height <= TailHeight(blockchain) + 1

MinedBlockAboveLabel ==
  miner.pc = "mining" =>
    /\ miner.block.Coinbase.Height = miner.height
    /\ miner.block.PrevHash \in Hashes
    /\ miner.height <= Chain[miner.block.PrevHash].Height + 1

OwnLabelsFresh ==
  KeyIsOwn => /\ LabelsBelowTail
              /\ LabelsApart
              /\ MinerLabelFresh
              /\ MinedBlockAboveLabel

-----------------------------------------------------------------------------
(***************************************************************************)
(* The tail moves only to a block one level above the highest one seen: a  *)
(* block of the same height never displaces the first (HandleNewBlock,     *)
(* "blockWrapper.Height > f.blockchain.Tail.Height").                      *)
(***************************************************************************)
TailAdvances ==
  [][blockchain'.Tail # blockchain.Tail =>
       TailHeight(blockchain') = TailHeight(blockchain) + 1]_vars

(***************************************************************************)
(* An accepted block is never dropped or altered; its ledger in particular *)
(* stays what it was when blocks are added on top (each handler works on a *)
(* deep copy).  Only its list of children grows.                           *)
(***************************************************************************)
HistoryStable ==
  [][\A h \in Hashes :
       /\ h \in DOMAIN blockchain'.Chain
       /\ Chain[h].Children \subseteq blockchain'.Chain[h].Children
       /\ \A part \in {"B", "Parent", "Height", "L"} :
            blockchain'.Chain[h][part] = Chain[h][part]]_vars

(***************************************************************************)
(* What the rest of the system, and the peers, need of a node's blocks:    *)
(* the node implements BlockTree, for which a tail is a best block.        *)
(***************************************************************************)
Tree ==
  INSTANCE BlockTree WITH
    ROOT   <- GENESIS_HASH,
    height <- [h \in Hashes |-> Chain[h].Height],
    parent <- [h \in Hashes \ {GENESIS_HASH} |-> Chain[h].Parent],
    best   <- blockchain.Tail

ImplementsBlockTree == Tree!Spec

-----------------------------------------------------------------------------
(***************************************************************************)
(* What comments in the source say and the code does not do.               *)
(*                                                                         *)
(* "there should never be a case where handle transaction success but fail *)
(* calcFee": the process never ends in log.Fatalln.                        *)
(***************************************************************************)
NeverFatal == Running

(***************************************************************************)
(* HandleNewBlock refuses a block whose parent "already has a confirmed    *)
(* child" because "no matter what it will not win": a block with           *)
(* CONFIRMATION blocks after it stays on the main chain.                   *)
(***************************************************************************)
Confirmed == {h \in MainChain : TailHeight(blockchain) - Chain[h].Height >= CONFIRMATION}

ConfirmedNeverReverted == [][Confirmed \subseteq MainChain']_vars
=============================================================================
