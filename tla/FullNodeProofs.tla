--------------------------- MODULE FullNodeProofs ---------------------------
(***************************************************************************)
(* Theorems about FullNode, for every choice of keys, transactions, wire   *)
(* blocks, reward and number of confirmations.                             *)
(*                                                                         *)
(* Only HandleNewBlock changes the tree, so all of them rest on one lemma, *)
(* AcceptedBlock, that says what an accepted block changes in it.          *)
(***************************************************************************)
EXTENDS FullNodeProperties, TLAPS

(***************************************************************************)
(* What adding an acceptable block does: the new hash is fresh and maps to *)
(* the new wrapper, its parent gains a child and nothing else, every other *)
(* wrapper stays, and the tail moves exactly when the block is higher.     *)
(***************************************************************************)
LEMMA AcceptedBlock ==
  ASSUME TypeOK, NEW b, Acceptable(blockchain, b),
         blockchain' = AddBlock(blockchain, b)
  PROVE  /\ b.PrevHash \in Hashes
         /\ BlockHash(b) \notin Hashes
         /\ Hashes' = Hashes \cup {BlockHash(b)}
         /\ Chain'[BlockHash(b)] = NewWrapper(blockchain, b)
         /\ \A h \in Hashes : Chain'[h] = Linked(blockchain, b, h)
         /\ blockchain'.Tail = NewTail(blockchain, b)
<1>1. blockchain' = [Tail  |-> NewTail(blockchain, b),
                     Chain |-> [h \in DOMAIN blockchain.Chain \cup {BlockHash(b)} |->
                                  IF h = BlockHash(b) THEN NewWrapper(blockchain, b)
                                  ELSE Linked(blockchain, b, h)]]
  BY DEF AddBlock
<1>2. /\ BlockHash(b) \notin Hashes
      /\ b.PrevHash \in Hashes
  BY DEF Acceptable, Known, ParentKnown, Hashes, Chain
<1> QED
  BY <1>1, <1>2 DEF Hashes, Chain

(***************************************************************************)
(* The same, field by field: a wrapper keeps its block, parent, height and *)
(* ledger, and only the parent of the new block has its children changed.  *)
(***************************************************************************)
LEMMA AcceptedFields ==
  ASSUME TypeOK, NEW b, Acceptable(blockchain, b),
         blockchain' = AddBlock(blockchain, b)
  PROVE  /\ \A h \in Hashes :
              /\ DOMAIN Chain'[h] = {"B", "Parent", "Children", "Height", "L"}
              /\ Chain'[h].B = Chain[h].B
              /\ Chain'[h].Parent = Chain[h].Parent
              /\ Chain'[h].Height = Chain[h].Height
              /\ Chain'[h].L = Chain[h].L
              /\ Chain'[h].Children = IF h = b.PrevHash
                                      THEN Chain[h].Children \cup {BlockHash(b)}
                                      ELSE Chain[h].Children
         /\ DOMAIN Chain'[BlockHash(b)] = {"B", "Parent", "Children", "Height", "L"}
         /\ Chain'[BlockHash(b)].B = b
         /\ Chain'[BlockHash(b)].Parent = b.PrevHash
         /\ Chain'[BlockHash(b)].Children = {}
         /\ Chain'[BlockHash(b)].Height = Chain[b.PrevHash].Height + 1
         /\ Chain'[BlockHash(b)].L = LedgerAfter(b, Chain[b.PrevHash].L)
<1>1. ASSUME NEW h \in Hashes
      PROVE  /\ DOMAIN Chain'[h] = {"B", "Parent", "Children", "Height", "L"}
             /\ Chain'[h].B = Chain[h].B
             /\ Chain'[h].Parent = Chain[h].Parent
             /\ Chain'[h].Height = Chain[h].Height
             /\ Chain'[h].L = Chain[h].L
             /\ Chain'[h].Children = IF h = b.PrevHash
                                     THEN Chain[h].Children \cup {BlockHash(b)}
                                     ELSE Chain[h].Children
  <2>1. Chain'[h] = Linked(blockchain, b, h)
    BY AcceptedBlock
  <2>2. DOMAIN Chain[h] = {"B", "Parent", "Children", "Height", "L"}
    BY DEF TypeOK, WrapperOK
  <2> QED
    BY <2>1, <2>2 DEF Linked, Chain
<1>2. Chain'[BlockHash(b)] =
        [B |-> b, Parent |-> b.PrevHash, Children |-> {},
         Height |-> Chain[b.PrevHash].Height + 1,
         L |-> LedgerAfter(b, Chain[b.PrevHash].L)]
  BY AcceptedBlock DEF NewWrapper, Chain
<1> QED
  BY <1>1, <1>2

LEMMA AcceptedChildren ==
  ASSUME TypeOK, NEW b, Acceptable(blockchain, b),
         blockchain' = AddBlock(blockchain, b), NEW h \in Hashes
  PROVE  /\ Chain[h].Children \subseteq Chain'[h].Children
         /\ Chain'[h].Children \subseteq Chain[h].Children \cup {BlockHash(b)}
<1>1. Chain'[h].Children = IF h = b.PrevHash
                           THEN Chain[h].Children \cup {BlockHash(b)}
                           ELSE Chain[h].Children
  BY AcceptedFields
<1> QED
  BY <1>1

(***************************************************************************)
(* Every step leaves the tree alone or accepts one block.                  *)
(***************************************************************************)
LEMMA TreeStep ==
  ASSUME [Next]_vars
  PROVE  \/ UNCHANGED blockchain
         \/ \E b : Acceptable(blockchain, b) /\ blockchain' = AddBlock(blockchain, b)
<1>1. ASSUME NEW b, HandleNewBlock(b)
      PROVE  \/ UNCHANGED blockchain
             \/ Acceptable(blockchain, b) /\ blockchain' = AddBlock(blockchain, b)
  BY <1>1 DEF HandleNewBlock
<1>2. CASE \E b \in WireBlock : SetBlock(b)
  BY <1>1, <1>2 DEF SetBlock
<1>3. CASE MinerFound
  BY <1>1, <1>3 DEF MinerFound
<1>4. CASE \/ \E tx \in Tx : ValidateTransaction(tx)
           \/ \E tx \in checked : AddTransactionToPool(tx)
           \/ MinerReadHeight
           \/ \E txs \in SetToSeqs(txPool) : CreateNewBlock(txs)
           \/ RemoveErrTx
           \/ MinerInterrupted
  BY <1>4 DEF ValidateTransaction, AddTransactionToPool, MinerReadHeight,
              CreateNewBlock, RemoveErrTx, MinerInterrupted
<1>5. CASE UNCHANGED vars
  BY <1>5 DEF vars
<1> QED
  BY <1>2, <1>3, <1>4, <1>5 DEF Next

-----------------------------------------------------------------------------
(***************************************************************************)
(* Type correctness: Spec => []TypeOK, the tree and the miner apart.       *)
(***************************************************************************)
TreeTypeOK ==
  /\ GENESIS_HASH \in Hashes
  /\ blockchain.Tail \in Hashes
  /\ \A h \in Hashes : WrapperOK(Chain[h], Hashes)

LEMMA TypeInit == Init => TypeOK
<1> SUFFICES ASSUME Init PROVE TypeOK
  OBVIOUS
<1>1. /\ Hashes = {GENESIS_HASH}
      /\ blockchain.Tail = GENESIS_HASH
      /\ Chain[GENESIS_HASH] = [B |-> GenesisBlock, Parent |-> NIL, Children |-> {},
                                Height |-> 0, L |-> NewLedger]
  BY DEF Init, NewBlockChain, Hashes, Chain
<1>2. MinerOK(miner)
  BY DEF Init, Resting, MinerOK
<1> QED
  BY <1>1, <1>2 DEF TypeOK, WrapperOK

\* An accepted block keeps the types of the tree,
LEMMA TypeAccept ==
  ASSUME TypeOK, NEW b, Acceptable(blockchain, b), blockchain' = AddBlock(blockchain, b)
  PROVE  TreeTypeOK'
<1>1. /\ Hashes' = Hashes \cup {BlockHash(b)}
      /\ b.PrevHash \in Hashes
      /\ blockchain'.Tail \in Hashes'
  BY AcceptedBlock DEF NewTail, TypeOK
<1>2. ASSUME NEW h \in Hashes PROVE WrapperOK(Chain'[h], Hashes')
  <2>1. WrapperOK(Chain[h], Hashes)
    BY DEF TypeOK
  <2>2. /\ DOMAIN Chain'[h] = {"B", "Parent", "Children", "Height", "L"}
        /\ Chain'[h].Parent = Chain[h].Parent
        /\ Chain'[h].Height = Chain[h].Height
    BY AcceptedFields
  <2>3. Chain'[h].Children \subseteq Chain[h].Children \cup {BlockHash(b)}
    BY AcceptedChildren
  <2> QED
    BY <1>1, <2>1, <2>2, <2>3 DEF WrapperOK
<1>3. WrapperOK(Chain'[BlockHash(b)], Hashes')
  BY <1>1, AcceptedFields DEF TypeOK, WrapperOK
<1> QED
  BY <1>1, <1>2, <1>3 DEF TypeOK, TreeTypeOK

\* and so does every step.
LEMMA TreeTypeStep == TypeOK /\ [Next]_vars => TreeTypeOK'
<1> SUFFICES ASSUME TypeOK, [Next]_vars PROVE TreeTypeOK'
  OBVIOUS
<1>1. CASE UNCHANGED blockchain
  BY <1>1 DEF TypeOK, TreeTypeOK, Hashes, Chain
<1> QED
  BY <1>1, TreeStep, TypeAccept

LEMMA MinerTypeStep == TypeOK /\ [Next]_vars => MinerOK(miner)'
<1> SUFFICES ASSUME TypeOK, [Next]_vars PROVE MinerOK(miner)'
  OBVIOUS
<1> USE DEF TypeOK, MinerOK
<1>1. TailHeight(blockchain) \in Nat
  BY DEF TailHeight, WrapperOK, Hashes, Chain
<1>2. CASE UNCHANGED miner
  BY <1>2
<1>3. CASE MinerReadHeight
  BY <1>1, <1>3 DEF MinerReadHeight
<1>4. CASE \E txs \in SetToSeqs(txPool) : CreateNewBlock(txs)
  BY <1>4 DEF CreateNewBlock, AssembleFails, AssembleDies, AssembleSucceeds
<1>5. CASE RemoveErrTx
  BY <1>5 DEF RemoveErrTx, Resting
<1>6. CASE MinerInterrupted \/ MinerFound
  BY <1>6 DEF MinerInterrupted, MinerFound, Resting
<1>7. CASE \/ \E tx \in Tx : ValidateTransaction(tx)
           \/ \E tx \in checked : AddTransactionToPool(tx)
           \/ \E b \in WireBlock : SetBlock(b)
           \/ UNCHANGED vars
  BY <1>2, <1>7 DEF ValidateTransaction, AddTransactionToPool, SetBlock, vars
<1> QED
  BY <1>3, <1>4, <1>5, <1>6, <1>7 DEF Next

LEMMA TypeStep == TypeOK /\ [Next]_vars => TypeOK'
  BY TreeTypeStep, MinerTypeStep DEF TypeOK, TreeTypeOK

THEOREM TypeCorrect == Spec => []TypeOK
  BY TypeInit, TypeStep, PTL DEF Spec

-----------------------------------------------------------------------------
(***************************************************************************)
(* The block tree is sound in every reachable state.  TreeSound is         *)
(* inductive together with TypeOK: a new block is a leaf, so all that it   *)
(* could disturb are its parent's children and the height of the tail.     *)
(***************************************************************************)
LEMMA TreeSoundInit == Init => TreeSound
<1> SUFFICES ASSUME Init PROVE TreeSound
  OBVIOUS
<1>1. /\ Hashes = {GENESIS_HASH}
      /\ blockchain.Tail = GENESIS_HASH
      /\ Chain[GENESIS_HASH] = [B |-> GenesisBlock, Parent |-> NIL, Children |-> {},
                                Height |-> 0, L |-> NewLedger]
  BY DEF Init, NewBlockChain, Hashes, Chain
<1>2. TailIsHighest
  BY <1>1 DEF TailIsHighest, TailHeight, Chain
<1> QED
  BY <1>1, <1>2 DEF TreeSound, GenesisIsRoot, ChildrenAreExact

LEMMA TreeSoundAccept ==
  ASSUME TypeOK, TreeSound, NEW b, Acceptable(blockchain, b),
         blockchain' = AddBlock(blockchain, b)
  PROVE  TreeSound'
<1> DEFINE n == BlockHash(b)
           p == b.PrevHash
<1>1. /\ p \in Hashes
      /\ n \notin Hashes
      /\ Hashes' = Hashes \cup {n}
      /\ GENESIS_HASH \in Hashes
      /\ blockchain.Tail \in Hashes
      /\ \A h \in Hashes : Chain[h].Height \in Nat
  BY AcceptedBlock DEF TypeOK, WrapperOK
<1>2. \A h \in Hashes :
        /\ Chain'[h].B = Chain[h].B
        /\ Chain'[h].Parent = Chain[h].Parent
        /\ Chain'[h].Height = Chain[h].Height
        /\ Chain'[h].L = Chain[h].L
  BY AcceptedFields
<1>3. GenesisIsRoot'
  BY <1>1, <1>2 DEF TreeSound, GenesisIsRoot
<1>4. ASSUME NEW h \in Hashes \ {GENESIS_HASH}
      PROVE  Rooted(h)' /\ LedgerCarried(h)'
  <2>1. Rooted(h) /\ LedgerCarried(h)
    BY DEF TreeSound
  <2>2. Chain[h].Parent \in Hashes
    BY <2>1 DEF Rooted
  <2>3. Rooted(h)'
    BY <1>1, <1>2, <2>1, <2>2 DEF Rooted
  <2>4. LedgerCarried(h)'
    BY <1>2, <2>1, <2>2 DEF LedgerCarried
  <2> QED
    BY <2>3, <2>4
<1>5. Rooted(n)' /\ LedgerCarried(n)'
  <2>1. /\ Chain'[n].B = b
        /\ Chain'[n].Parent = p
        /\ Chain'[n].Height = Chain[p].Height + 1
        /\ Chain'[n].L = LedgerAfter(b, Chain[p].L)
    BY AcceptedFields
  <2>2. b.Sealed /\ BodyValid(b, Chain[p].L)
    BY DEF Acceptable, Chain
  <2>3. Rooted(n)'
    BY <1>1, <1>2, <2>1, <2>2 DEF Rooted
  <2>4. LedgerCarried(n)'
    BY <1>1, <1>2, <2>1, <2>2 DEF LedgerCarried
  <2> QED
    BY <2>3, <2>4
<1>6. ChildrenAreExact'
  <2>1. ASSUME NEW h \in Hashes
        PROVE  Chain'[h].Children
                 = {c \in Hashes' \ {GENESIS_HASH} : Chain'[c].Parent = h}
    <3>1. Chain[h].Children = {c \in Hashes \ {GENESIS_HASH} : Chain[c].Parent = h}
      BY DEF TreeSound, ChildrenAreExact
    <3>2. Chain'[n].Parent = p
      BY AcceptedFields
    <3>3. CASE h = p
      <4>1. Chain'[h].Children = Chain[h].Children \cup {n}
        BY <3>3, AcceptedFields
      <4> QED
        BY <1>1, <1>2, <3>1, <3>2, <3>3, <4>1
    <3>4. CASE h # p
      <4>1. Chain'[h].Children = Chain[h].Children
        BY <3>4, AcceptedFields
      <4> QED
        BY <1>1, <1>2, <3>1, <3>2, <3>4, <4>1
    <3> QED
      BY <3>3, <3>4
  <2>2. Chain'[n].Children = {c \in Hashes' \ {GENESIS_HASH} : Chain'[c].Parent = n}
    <3>1. \A c \in Hashes \ {GENESIS_HASH} : Chain[c].Parent \in Hashes
      BY DEF TreeSound, Rooted
    <3>2. Chain'[n].Children = {} /\ Chain'[n].Parent = p
      BY AcceptedFields
    <3> QED
      BY <1>1, <1>2, <3>1, <3>2
  <2> QED
    BY <1>1, <2>1, <2>2 DEF ChildrenAreExact
<1>7. TailIsHighest'
  <2>1. \A h \in Hashes : Chain[h].Height <= Chain[blockchain.Tail].Height
    BY DEF TreeSound, TailIsHighest, TailHeight, Chain
  <2>2. Chain'[n].Height = Chain[p].Height + 1
    BY AcceptedFields
  <2>3. blockchain'.Tail = IF Chain[p].Height + 1 > Chain[blockchain.Tail].Height
                           THEN n ELSE blockchain.Tail
    BY AcceptedBlock DEF NewTail, NewWrapper, TailHeight, Chain
  <2>4. \A h \in Hashes' : Chain'[h].Height <= Chain'[blockchain'.Tail].Height
    BY <1>1, <1>2, <2>1, <2>2, <2>3
  <2> QED
    BY <2>4 DEF TailIsHighest, TailHeight, Chain
<1> QED
  BY <1>1, <1>3, <1>4, <1>5, <1>6, <1>7 DEF TreeSound

LEMMA TreeSoundStep == TypeOK /\ TreeSound /\ [Next]_vars => TreeSound'
<1> SUFFICES ASSUME TypeOK, TreeSound, [Next]_vars PROVE TreeSound'
  OBVIOUS
<1>1. CASE UNCHANGED blockchain
  BY <1>1 DEF TreeSound, GenesisIsRoot, Rooted, LedgerCarried, ChildrenAreExact,
              TailIsHighest, Hashes, Chain
<1> QED
  BY <1>1, TreeStep, TreeSoundAccept

THEOREM TreeIsSound == Spec => []TreeSound
  BY TypeInit, TypeStep, TreeSoundInit, TreeSoundStep, PTL DEF Spec

-----------------------------------------------------------------------------
(***************************************************************************)
(* The tail advances one level at a time: the new tail's parent is in the  *)
(* tree, so by TailIsHighest it is at most as high as the old tail.        *)
(***************************************************************************)
LEMMA TailStep ==
  ASSUME TypeOK, TreeSound, [Next]_vars, blockchain'.Tail # blockchain.Tail
  PROVE  TailHeight(blockchain') = TailHeight(blockchain) + 1
<1>1. PICK b : Acceptable(blockchain, b) /\ blockchain' = AddBlock(blockchain, b)
  BY TreeStep
<1>2. /\ b.PrevHash \in Hashes
      /\ blockchain.Tail \in Hashes
      /\ Chain[b.PrevHash].Height \in Nat
      /\ Chain[blockchain.Tail].Height \in Nat
  BY <1>1, AcceptedBlock DEF TypeOK, WrapperOK
<1>3. /\ blockchain'.Tail = BlockHash(b)
      /\ Chain[b.PrevHash].Height + 1 > Chain[blockchain.Tail].Height
  BY <1>1, AcceptedBlock DEF NewTail, NewWrapper, TailHeight, Chain
<1>4. Chain[b.PrevHash].Height <= Chain[blockchain.Tail].Height
  BY <1>2 DEF TreeSound, TailIsHighest, TailHeight, Chain
<1>5. Chain'[BlockHash(b)].Height = Chain[b.PrevHash].Height + 1
  BY <1>1, AcceptedFields
<1> QED
  BY <1>2, <1>3, <1>4, <1>5 DEF TailHeight, Chain

THEOREM TailOnlyAdvances == Spec => TailAdvances
<1>1. TypeOK /\ TreeSound /\ [Next]_vars =>
        [blockchain'.Tail # blockchain.Tail =>
           TailHeight(blockchain') = TailHeight(blockchain) + 1]_vars
  BY TailStep
<1> QED
  BY <1>1, TypeCorrect, TreeIsSound, PTL DEF Spec, TailAdvances

(***************************************************************************)
(* An accepted block is never dropped or altered.                          *)
(***************************************************************************)
HistoryKept ==
  \A h \in Hashes :
    /\ h \in DOMAIN blockchain'.Chain
    /\ Chain[h].Children \subseteq blockchain'.Chain[h].Children
    /\ \A part \in {"B", "Parent", "Height", "L"} :
         blockchain'.Chain[h][part] = Chain[h][part]

LEMMA HistoryStep == TypeOK /\ [Next]_vars => HistoryKept
<1> SUFFICES ASSUME TypeOK, [Next]_vars PROVE HistoryKept
  OBVIOUS
<1>1. CASE UNCHANGED blockchain
  BY <1>1 DEF HistoryKept, Hashes, Chain
<1>2. ASSUME NEW b, Acceptable(blockchain, b), blockchain' = AddBlock(blockchain, b)
      PROVE  HistoryKept
  <2>1. ASSUME NEW h \in Hashes
        PROVE  /\ h \in Hashes'
               /\ Chain[h].Children \subseteq Chain'[h].Children
               /\ \A part \in {"B", "Parent", "Height", "L"} :
                    Chain'[h][part] = Chain[h][part]
    <3>1. h \in Hashes'
      BY <1>2, AcceptedBlock
    <3>2. Chain[h].Children \subseteq Chain'[h].Children
      BY <1>2, AcceptedChildren
    <3>3. /\ Chain'[h].B = Chain[h].B
          /\ Chain'[h].Parent = Chain[h].Parent
          /\ Chain'[h].Height = Chain[h].Height
          /\ Chain'[h].L = Chain[h].L
      BY <1>2, AcceptedFields
    <3> QED
      BY <3>1, <3>2, <3>3
  <2> QED
    BY <2>1 DEF HistoryKept, Hashes, Chain
<1> QED
  BY <1>1, <1>2, TreeStep

THEOREM HistoryIsStable == Spec => HistoryStable
<1>1. TypeOK /\ [Next]_vars => [HistoryKept]_vars
  BY HistoryStep
<1> QED
  BY <1>1, TypeCorrect, PTL DEF Spec, HistoryStable, HistoryKept

-----------------------------------------------------------------------------
(***************************************************************************)
(* FullNode implements BlockTree: an accepted block is grown on its        *)
(* parent, and the tail that HandleNewBlock chooses, by comparing the new  *)
(* block with the old tail only, is a best block of the whole tree.        *)
(***************************************************************************)
LEMMA TreeInitially == Init => Tree!Init
<1> SUFFICES ASSUME Init PROVE Tree!Init
  OBVIOUS
<1>1. /\ Hashes = {GENESIS_HASH}
      /\ blockchain.Tail = GENESIS_HASH
      /\ Chain[GENESIS_HASH].Height = 0
  BY DEF Init, NewBlockChain, Hashes, Chain
<1> QED
  BY <1>1 DEF Tree!Init

LEMMA TreeGrows ==
  ASSUME TypeOK, TreeSound, NEW b, Acceptable(blockchain, b),
         blockchain' = AddBlock(blockchain, b)
  PROVE  Tree!Next
<1> DEFINE n == BlockHash(b)
           p == b.PrevHash
<1>1. /\ p \in Hashes
      /\ n \notin Hashes
      /\ Hashes' = Hashes \cup {n}
      /\ GENESIS_HASH \in Hashes
      /\ blockchain.Tail \in Hashes
      /\ blockchain'.Tail \in Hashes \cup {n}
      /\ \A h \in Hashes : Chain[h].Height \in Nat
  BY AcceptedBlock DEF TypeOK, WrapperOK, NewTail
<1>2. \A h \in Hashes :
        Chain'[h].Parent = Chain[h].Parent /\ Chain'[h].Height = Chain[h].Height
  BY AcceptedFields
<1>3. Chain'[n].Parent = p /\ Chain'[n].Height = Chain[p].Height + 1
  BY AcceptedFields
<1>4. \A h \in Hashes' : Chain'[h].Height <= Chain'[blockchain'.Tail].Height
  BY TreeSoundAccept DEF TreeSound, TailIsHighest, TailHeight, Chain
<1>5. blockchain'.Tail # blockchain.Tail =>
        Chain'[blockchain'.Tail].Height > Chain[blockchain.Tail].Height
  <2>1. blockchain'.Tail = IF Chain[p].Height + 1 > Chain[blockchain.Tail].Height
                           THEN n ELSE blockchain.Tail
    BY AcceptedBlock DEF NewTail, NewWrapper, TailHeight, Chain
  <2> QED
    BY <1>3, <2>1
<1>6. Tree!Grow(n, p)
  <2> DEFINE H == [h \in Hashes |-> Chain[h].Height]
             P == [h \in Hashes \ {GENESIS_HASH} |-> Chain[h].Parent]
  <2>1. H' = [h \in Hashes \cup {n} |-> IF h = n THEN H[p] + 1 ELSE H[h]]
    BY <1>1, <1>2, <1>3
  <2>2. P' = [h \in (Hashes \ {GENESIS_HASH}) \cup {n} |-> IF h = n THEN p ELSE P[h]]
    BY <1>1, <1>2, <1>3
  <2>3. DOMAIN H = Hashes /\ DOMAIN P = Hashes \ {GENESIS_HASH}
    OBVIOUS
  <2>4. \A h \in Hashes \cup {n} : H'[h] <= H'[blockchain'.Tail]
    BY <1>1, <1>4
  <2>5. blockchain'.Tail # blockchain.Tail =>
          H'[blockchain'.Tail] > H[blockchain.Tail]
    BY <1>1, <1>5
  <2> QED
    BY <1>1, <2>1, <2>2, <2>3, <2>4, <2>5 DEF Tree!Grow, Tree!Blocks
<1> QED
  BY <1>1, <1>6 DEF Tree!Next, Tree!Blocks

THEOREM NodeImplementsBlockTree == Spec => ImplementsBlockTree
<1>1. TypeOK /\ TreeSound /\ [Next]_vars => [Tree!Next]_(Tree!vars)
  <2> SUFFICES ASSUME TypeOK, TreeSound, [Next]_vars, UNCHANGED blockchain
               PROVE  UNCHANGED Tree!vars
    BY TreeStep, TreeGrows
  <2> QED
    BY DEF Tree!vars, Hashes, Chain
<1>2. Spec => []TypeOK /\ []TreeSound
  BY TypeCorrect, TreeIsSound
<1> QED
  BY TreeInitially, <1>1, <1>2, PTL DEF Spec, ImplementsBlockTree, Tree!Spec

-----------------------------------------------------------------------------
(***************************************************************************)
(* A node's own coinbases never share an identifier, if no other node uses *)
(* its key.  OwnLabelsFresh is inductive over TypeOK and TreeSound: a label*)
(* is taken above every label in use, the tail never sinks, and the block  *)
(* that carries the label raises the tail at least to it.                  *)
(***************************************************************************)
LEMMA OwnLabelsInit == Init => OwnLabelsFresh
<1> SUFFICES ASSUME Init PROVE OwnLabelsFresh
  OBVIOUS
<1>1. OwnBlocks = {} /\ miner.pc = "rest"
  BY DEF Init, NewBlockChain, Resting, OwnBlocks, Hashes, Chain
<1> QED
  BY <1>1 DEF OwnLabelsFresh, LabelsBelowTail, LabelsApart, MinerLabelFresh,
              MinedBlockAboveLabel

\* A block that is accepted adds itself, at most, to the node's own blocks,
\* and the tail ends up no lower than it was or than the new block.
LEMMA OwnBlocksAccept ==
  ASSUME TypeOK, TreeSound, NEW b, Acceptable(blockchain, b),
         blockchain' = AddBlock(blockchain, b)
  PROVE  /\ OwnBlocks' = OwnBlocks \cup (IF Pays(b.Coinbase, SELF) THEN {BlockHash(b)} ELSE {})
         /\ BlockHash(b) \notin OwnBlocks
         /\ \A h \in OwnBlocks : Label(h)' = Label(h)
         /\ Label(BlockHash(b))' = b.Coinbase.Height
         /\ TailHeight(blockchain') \in Nat
         /\ TailHeight(blockchain') >= TailHeight(blockchain)
         /\ TailHeight(blockchain') >= Chain[b.PrevHash].Height + 1
<1>1. /\ b.PrevHash \in Hashes
      /\ BlockHash(b) \notin Hashes
      /\ Hashes' = Hashes \cup {BlockHash(b)}
      /\ GENESIS_HASH \in Hashes
      /\ blockchain.Tail \in Hashes
      /\ \A h \in Hashes : Chain[h].Height \in Nat
  BY AcceptedBlock DEF TypeOK, WrapperOK
<1>2. /\ \A h \in Hashes : Chain'[h].B = Chain[h].B
      /\ \A h \in Hashes : Chain'[h].Height = Chain[h].Height
      /\ Chain'[BlockHash(b)].B = b
      /\ Chain'[BlockHash(b)].Height = Chain[b.PrevHash].Height + 1
  BY AcceptedFields
<1>3. OwnBlocks \subseteq Hashes
  BY DEF OwnBlocks
<1>4. OwnBlocks' = OwnBlocks \cup (IF Pays(b.Coinbase, SELF) THEN {BlockHash(b)} ELSE {})
  BY <1>1, <1>2 DEF OwnBlocks
<1>5. /\ \A h \in OwnBlocks : Label(h)' = Label(h)
      /\ Label(BlockHash(b))' = b.Coinbase.Height
  BY <1>2, <1>3 DEF Label
<1>6. blockchain'.Tail = IF Chain[b.PrevHash].Height + 1 > Chain[blockchain.Tail].Height
                         THEN BlockHash(b) ELSE blockchain.Tail
  BY AcceptedBlock DEF NewTail, NewWrapper, TailHeight, Chain
<1>7. /\ Chain'[blockchain'.Tail].Height \in Nat
      /\ Chain'[blockchain'.Tail].Height >= Chain[blockchain.Tail].Height
      /\ Chain'[blockchain'.Tail].Height >= Chain[b.PrevHash].Height + 1
  BY <1>1, <1>2, <1>6
<1> QED
  BY <1>1, <1>3, <1>4, <1>5, <1>7 DEF TailHeight, Chain

LEMMA OwnLabelsStep ==
  TypeOK /\ TreeSound /\ OwnLabelsFresh /\ [Next]_vars => OwnLabelsFresh'
<1> SUFFICES ASSUME TypeOK, TreeSound, OwnLabelsFresh, [Next]_vars, KeyIsOwn
             PROVE  /\ LabelsBelowTail'
                    /\ LabelsApart'
                    /\ MinerLabelFresh'
                    /\ MinedBlockAboveLabel'
  BY DEF OwnLabelsFresh
<1>1. LabelsBelowTail /\ LabelsApart /\ MinerLabelFresh /\ MinedBlockAboveLabel
  BY DEF OwnLabelsFresh
<1>2. /\ TailHeight(blockchain) \in Nat
      /\ miner.height \in Nat
      /\ blockchain.Tail \in Hashes
      /\ \A h \in Hashes : Chain[h].Height \in Nat
      /\ DOMAIN miner = {"pc", "height", "block", "errTxs"}
  BY DEF TypeOK, WrapperOK, MinerOK, TailHeight, Chain, Hashes
\* Steps that leave the tree alone change labels and tail in no way.
<1>3. ASSUME UNCHANGED blockchain
      PROVE  /\ LabelsBelowTail'
             /\ LabelsApart'
             /\ Hashes' = Hashes
             /\ Chain' = Chain
             /\ OwnBlocks' = OwnBlocks
             /\ \A h \in OwnBlocks : Label(h)' = Label(h)
             /\ TailHeight(blockchain)' = TailHeight(blockchain)
  BY <1>1, <1>3 DEF LabelsBelowTail, LabelsApart, OwnBlocks, Label, Hashes, Chain
<1>4. CASE UNCHANGED <<blockchain, miner>>
  BY <1>1, <1>3, <1>4 DEF MinerLabelFresh, MinedBlockAboveLabel
<1>5. ASSUME NEW b \in WireBlock, SetBlock(b)
      PROVE  /\ LabelsBelowTail'
             /\ LabelsApart'
             /\ MinerLabelFresh'
             /\ MinedBlockAboveLabel'
  <2>1. miner' = miner
    BY <1>5 DEF SetBlock
  <2>2. CASE UNCHANGED blockchain
    BY <1>4, <2>1, <2>2
  <2>3. CASE Acceptable(blockchain, b) /\ blockchain' = AddBlock(blockchain, b)
    <3>1. ~Pays(b.Coinbase, SELF)
      BY DEF WireBlock, KeyIsOwn
    <3>2. /\ OwnBlocks' = OwnBlocks
          /\ \A h \in OwnBlocks : Label(h)' = Label(h)
          /\ TailHeight(blockchain)' \in Nat
          /\ TailHeight(blockchain)' >= TailHeight(blockchain)
      BY <2>3, <3>1, OwnBlocksAccept
    <3>3. LabelsBelowTail' /\ LabelsApart'
      BY <1>1, <1>2, <3>2 DEF LabelsBelowTail, LabelsApart
    <3>4. MinerLabelFresh'
      BY <1>1, <1>2, <2>1, <3>2 DEF MinerLabelFresh
    <3>5. /\ Hashes \subseteq Hashes'
          /\ \A h \in Hashes : Chain'[h].Height = Chain[h].Height
      BY <2>3, AcceptedBlock, AcceptedFields
    <3>6. MinedBlockAboveLabel'
      BY <1>1, <2>1, <3>5 DEF MinedBlockAboveLabel
    <3> QED
      BY <3>3, <3>4, <3>6
  <2> QED
    BY <1>5, <2>2, <2>3 DEF SetBlock, HandleNewBlock
<1>6. CASE MinerFound
  <2>1. miner'.pc = "rest"
    BY <1>6 DEF MinerFound, Resting
  <2>2. MinerLabelFresh' /\ MinedBlockAboveLabel'
    BY <2>1 DEF MinerLabelFresh, MinedBlockAboveLabel
  <2>3. CASE UNCHANGED blockchain
    BY <1>3, <2>2, <2>3
  <2>4. ASSUME NEW b, b = miner.block,
               Acceptable(blockchain, b), blockchain' = AddBlock(blockchain, b)
        PROVE  LabelsBelowTail' /\ LabelsApart'
    <3> DEFINE n == BlockHash(b)
    <3>1. /\ b.Coinbase.Height = miner.height
          /\ b.PrevHash \in Hashes
          /\ miner.height <= Chain[b.PrevHash].Height + 1
          /\ \A h \in OwnBlocks : Label(h) < miner.height
      BY <1>1, <1>6, <2>4 DEF MinerFound, MinedBlockAboveLabel, MinerLabelFresh
    <3>2. /\ OwnBlocks' \subseteq OwnBlocks \cup {n}
          /\ n \notin OwnBlocks
          /\ \A h \in OwnBlocks : Label(h)' = Label(h)
          /\ Label(n)' = miner.height
          /\ TailHeight(blockchain)' \in Nat
          /\ TailHeight(blockchain)' >= TailHeight(blockchain)
          /\ TailHeight(blockchain)' >= Chain[b.PrevHash].Height + 1
      BY <2>4, <3>1, OwnBlocksAccept
    <3>3. LabelsBelowTail'
      <4>1. TailHeight(blockchain)' >= miner.height
        BY <1>2, <3>1, <3>2
      <4> QED
        BY <1>1, <1>2, <3>2, <4>1 DEF LabelsBelowTail
    <3>4. LabelsApart'
      BY <1>1, <1>2, <3>1, <3>2 DEF LabelsApart, LabelsBelowTail
    <3> QED
      BY <3>3, <3>4
  <2> QED
    BY <1>6, <2>2, <2>3, <2>4 DEF MinerFound, HandleNewBlock
<1>7. CASE MinerReadHeight
  <2>1. /\ UNCHANGED blockchain
        /\ miner'.pc = "start"
        /\ miner'.height = TailHeight(blockchain) + 1
    BY <1>2, <1>7 DEF MinerReadHeight
  <2>2. \A h \in OwnBlocks : Label(h) < TailHeight(blockchain) + 1
    BY <1>1, <1>2 DEF LabelsBelowTail
  <2>3. MinerLabelFresh'
    BY <1>2, <1>3, <2>1, <2>2 DEF MinerLabelFresh
  <2>4. MinedBlockAboveLabel'
    BY <2>1 DEF MinedBlockAboveLabel
  <2> QED
    BY <1>3, <2>1, <2>3, <2>4
<1>8. ASSUME NEW txs, CreateNewBlock(txs)
      PROVE  /\ LabelsBelowTail'
             /\ LabelsApart'
             /\ MinerLabelFresh'
             /\ MinedBlockAboveLabel'
  <2>1. UNCHANGED blockchain /\ miner.pc = "start"
    BY <1>8 DEF CreateNewBlock
  <2>2. CASE AssembleFails(txs) \/ AssembleDies(txs)
    <3>1. miner'.pc \notin {"start", "mining"}
      BY <1>2, <2>2 DEF AssembleFails, AssembleDies
    <3> QED
      BY <1>3, <2>1, <3>1 DEF MinerLabelFresh, MinedBlockAboveLabel
  <2>3. CASE AssembleSucceeds(txs)
    <3>1. /\ miner'.pc = "mining"
          /\ miner'.height = miner.height
          /\ miner'.block = Candidate(txs)
      BY <1>2, <2>3 DEF AssembleSucceeds
    <3>2. /\ miner'.block.Coinbase.Height = miner.height
          /\ miner'.block.PrevHash = blockchain.Tail
      BY <3>1 DEF Candidate, CreateCoinbaseTx
    <3>3. /\ \A h \in OwnBlocks : Label(h) < miner.height
          /\ miner.height <= Chain[blockchain.Tail].Height + 1
      BY <1>1, <2>1 DEF MinerLabelFresh, TailHeight, Chain
    <3>4. MinerLabelFresh'
      BY <1>3, <2>1, <3>1, <3>3 DEF MinerLabelFresh, TailHeight, Chain
    <3>5. MinedBlockAboveLabel'
      BY <1>2, <1>3, <2>1, <3>1, <3>2, <3>3 DEF MinedBlockAboveLabel
    <3> QED
      BY <1>3, <2>1, <3>4, <3>5
  <2> QED
    BY <1>8, <2>2, <2>3 DEF CreateNewBlock
<1>9. CASE RemoveErrTx \/ MinerInterrupted
  <2>1. UNCHANGED blockchain /\ miner'.pc \in {"rest", "clean"}
    BY <1>2, <1>9 DEF RemoveErrTx, MinerInterrupted, Resting
  <2> QED
    BY <1>3, <2>1 DEF MinerLabelFresh, MinedBlockAboveLabel
<1>10. CASE \/ \E tx \in Tx : ValidateTransaction(tx)
            \/ \E tx \in checked : AddTransactionToPool(tx)
            \/ UNCHANGED vars
  BY <1>4, <1>10 DEF ValidateTransaction, AddTransactionToPool, vars
<1> QED
  BY <1>5, <1>6, <1>7, <1>8, <1>9, <1>10 DEF Next

THEOREM OwnLabelsStayFresh == Spec => []OwnLabelsFresh
  BY TypeInit, TypeStep, TreeSoundInit, TreeSoundStep, OwnLabelsInit, OwnLabelsStep,
     PTL DEF Spec

THEOREM OwnCoinbasesNeverCollide == Spec => []OwnCoinbasesDistinct
<1>1. OwnLabelsFresh => OwnCoinbasesDistinct
  <2> SUFFICES ASSUME OwnLabelsFresh, KeyIsOwn,
                      NEW g \in OwnBlocks, NEW h \in OwnBlocks, g # h
               PROVE  TxHash(Chain[g].B.Coinbase) # TxHash(Chain[h].B.Coinbase)
    BY DEF OwnCoinbasesDistinct
  <2>1. Chain[g].B.Coinbase.Height # Chain[h].B.Coinbase.Height
    BY DEF OwnLabelsFresh, LabelsApart, Label
  <2>2. \A tx : TxHash(tx).Height = tx.Height
    BY DEF TxHash
  <2> QED
    BY <2>1, <2>2
<1> QED
  BY <1>1, OwnLabelsStayFresh, PTL
=============================================================================
