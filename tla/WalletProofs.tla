---------------------------- MODULE WalletProofs -----------------------------
(***************************************************************************)
(* Wallets at work on a full node, for every number of wallets, transfers  *)
(* and confirmations.  The node's invariants (FullNodeProofs, MoneyProofs) *)
(* still hold when its transactions come from wallets and its peers put    *)
(* them into their blocks; on top of them stands what is known of each     *)
(* transfer: it claims all that the wallet had on the branch it asked for, *)
(* and pays out as much where the amounts there are numbers.               *)
(***************************************************************************)
EXTENDS WalletProperties, MoneyProofs

-----------------------------------------------------------------------------
(***************************************************************************)
(* The node.                                                               *)
(***************************************************************************)
NodeInv == TypeOK /\ TreeSound /\ MoneyInv /\ BranchInv /\ BoundInv

\* What a step never changes in a block, and that the tail does not sink.
TreeKept ==
  /\ \A h \in Hashes : /\ h \in Hashes'
                       /\ Chain'[h].B = Chain[h].B
                       /\ Chain'[h].L = Chain[h].L
                       /\ Chain'[h].Parent = Chain[h].Parent
                       /\ Chain'[h].Height = Chain[h].Height
  /\ TailHeight(blockchain) <= TailHeight(blockchain')

\* The part of the invariant that is about the tree.
TreeInv ==
  /\ TreeTypeOK
  /\ TreeSound
  /\ LedgersOK
  /\ BranchInv
  /\ BoundInv
  /\ \A h \in Hashes \ {GENESIS_HASH} : IsBody(Chain[h].B)

LEMMA NodeInvParts ==
  /\ NodeInv <=> /\ TreeInv
                 /\ MinerOK(miner)
                 /\ PoolOK
                 /\ miner.pc = "mining" => IsBody(miner.block)
  /\ NodeInv' <=> /\ TreeInv'
                  /\ MinerOK(miner)'
                  /\ PoolOK'
                  /\ miner'.pc = "mining" => IsBody(miner'.block)
BY DEF NodeInv, TreeInv, TypeOK, TreeTypeOK, MoneyInv, BodiesOK

\* A tree that stays keeps its part,
LEMMA SameTree ==
  ASSUME NodeInv, UNCHANGED blockchain
  PROVE  TreeInv' /\ TreeKept
<1>1. Hashes' = Hashes /\ Chain' = Chain
  BY DEF Hashes, Chain
<1>2. TreeTypeOK'
  BY <1>1 DEF NodeInv, TypeOK, TreeTypeOK
<1>3. TreeSound'
  BY <1>1 DEF NodeInv, TreeSound, GenesisIsRoot, Rooted, LedgerCarried, ChildrenAreExact,
              TailIsHighest
<1>4. LedgersOK' /\ \A h \in Hashes' \ {GENESIS_HASH} : IsBody(Chain'[h].B)
  BY <1>1 DEF NodeInv, MoneyInv, LedgersOK, BodiesOK
<1>5. BranchInv' /\ BoundInv'
  <2>1. \A h : BranchTxs(h)' = BranchTxs(h)
    BY BranchTxsMeans
  <2>2. BranchInv'
    BY <1>1, <2>1 DEF NodeInv, BranchInv, BranchesOK
  <2>3. BoundInv'
    BY <1>1, <2>1 DEF NodeInv, BoundInv, OnlyNumbers, HasNumbers, Funded
  <2> QED
    BY <2>2, <2>3
<1>6. TreeKept
  <2>1. TailHeight(blockchain) \in Nat
    BY DEF NodeInv, TypeOK, WrapperOK, TailHeight, Hashes, Chain
  <2> QED
    BY <1>1, <2>1 DEF TreeKept
<1> QED
  BY <1>2, <1>3, <1>4, <1>5, <1>6 DEF TreeInv

\* and so does one that accepts a block.
LEMMA GrownTree ==
  ASSUME NilIsNoHash, NodeInv, NEW b, IsBody(b), Acceptable(blockchain, b),
         blockchain' = AddBlock(blockchain, b)
  PROVE  TreeInv' /\ TreeKept
<1>1. TypeOK /\ TreeSound /\ LedgersOK /\ BranchInv /\ BoundInv /\ BodiesOK
  BY DEF NodeInv, MoneyInv
<1>2. TreeTypeOK' /\ TreeSound' /\ LedgersOK' /\ BranchInv' /\ BoundInv'
  BY <1>1, TypeAccept, TreeSoundAccept, MoneyAccept, BranchAccept, BoundAccept
<1>3. Hashes' = Hashes \cup {BlockHash(b)}
  BY <1>1, AcceptedBlock
<1>4. /\ \A h \in Hashes : /\ Chain'[h].B = Chain[h].B
                          /\ Chain'[h].L = Chain[h].L
                          /\ Chain'[h].Parent = Chain[h].Parent
                          /\ Chain'[h].Height = Chain[h].Height
      /\ Chain'[BlockHash(b)].B = b
  BY <1>1, AcceptedFields
<1>5. \A h \in Hashes' \ {GENESIS_HASH} : IsBody(Chain'[h].B)
  BY <1>1, <1>3, <1>4 DEF BodiesOK
<1>6. TailHeight(blockchain) <= TailHeight(blockchain')
  <2>1. blockchain.Tail \in Hashes
    BY <1>1 DEF TypeOK
  <2>2. Chain'[blockchain.Tail].Height <= TailHeight(blockchain')
    BY <1>2, <1>3, <2>1 DEF TreeSound, TailIsHighest
  <2> QED
    BY <1>4, <2>1, <2>2 DEF TailHeight, Chain
<1> QED
  BY <1>2, <1>3, <1>4, <1>5, <1>6 DEF TreeInv, TreeKept

\* A step of the node that FullNode has too keeps the invariant,
LEMMA NodeStepKeeps ==
  ASSUME NilIsNoHash, NodeInv, [Next]_vars
  PROVE  NodeInv' /\ TreeKept
<1>1. TypeOK /\ TreeSound /\ MoneyInv /\ BranchInv /\ BoundInv /\ BodiesOK
  BY DEF NodeInv, MoneyInv
<1>2. TypeOK' /\ TreeSound' /\ MoneyInv' /\ BranchInv' /\ BoundInv'
  BY <1>1, TypeStep, TreeSoundStep, MoneyStep, BranchStep, BoundStep
<1>3. TreeKept
  BY <1>1, TreeStepBody, SameTree, GrownTree
<1> QED
  BY <1>2, <1>3 DEF NodeInv

\* so does a block of any transactions,
LEMMA AnyBlockKeeps ==
  ASSUME NilIsNoHash, NodeInv, NEW b, IsBody(b), SetBlock(b)
  PROVE  NodeInv' /\ TreeKept
<1>1. UNCHANGED <<checked, miner>>
  BY DEF SetBlock
<1>2. TreeInv' /\ TreeKept
  <2>1. CASE UNCHANGED blockchain
    BY <2>1, SameTree
  <2>2. CASE Acceptable(blockchain, b) /\ blockchain' = AddBlock(blockchain, b)
    BY <2>2, GrownTree
  <2> QED
    BY <2>1, <2>2 DEF SetBlock, HandleNewBlock
<1>3. PoolOK'
  <2>1. txPool' \subseteq txPool
    BY DEF SetBlock, HandleNewBlock, WithoutHashes
  <2>2. IsFiniteSet(txPool) /\ \A tx \in txPool \cup checked : IsTransaction(tx)
    BY DEF NodeInv, MoneyInv, PoolOK
  <2>3. IsFiniteSet(txPool')
    BY <2>1, <2>2, FS_Subset
  <2> QED
    BY <1>1, <2>1, <2>2, <2>3 DEF PoolOK
<1>4. MinerOK(miner)' /\ (miner'.pc = "mining" => IsBody(miner'.block))
  BY <1>1, NodeInvParts
<1> QED
  BY <1>2, <1>3, <1>4, NodeInvParts

\* and so does a transaction that a wallet submits.
LEMMA ArrivalKeeps ==
  ASSUME NodeInv, NEW tx, IsTransaction(tx), checked' \subseteq checked \cup {tx},
         UNCHANGED <<blockchain, txPool, miner>>
  PROVE  NodeInv' /\ TreeKept
<1>1. TreeInv' /\ TreeKept
  BY SameTree
<1>2. PoolOK'
  BY DEF NodeInv, MoneyInv, PoolOK
<1>3. MinerOK(miner)' /\ (miner'.pc = "mining" => IsBody(miner'.block))
  BY NodeInvParts
<1> QED
  BY <1>1, <1>2, <1>3, NodeInvParts

-----------------------------------------------------------------------------
(***************************************************************************)
(* Ancestors: in the tree, and as far below as one has counted, or at the  *)
(* root.                                                                   *)
(***************************************************************************)
Height(h) == Chain[h].Height

LEMMA UpFacts ==
  ASSUME NodeInv, NEW h \in Hashes
  PROVE  /\ Height(h) \in Nat
         /\ Up(blockchain, h) \in Hashes
         /\ Height(h) = 0 => Up(blockchain, h) = h
         /\ Height(h) # 0 => /\ h # GENESIS_HASH
                            /\ Up(blockchain, h) = Chain[h].Parent
                            /\ Height(h) = Height(Up(blockchain, h)) + 1
<1>1. /\ \A g \in Hashes : Height(g) \in Nat
      /\ GENESIS_HASH \in Hashes
  BY DEF NodeInv, TypeOK, WrapperOK, Height
<1>2. NIL \notin Hashes
  BY DEF NodeInv, BranchInv
<1>3. CASE h = GENESIS_HASH
  <2>1. Chain[h].Parent = NIL /\ Height(h) = 0
    BY <1>3 DEF NodeInv, TreeSound, GenesisIsRoot, Height
  <2>2. Up(blockchain, h) = h
    BY <2>1 DEF Up, Chain
  <2> QED
    BY <1>1, <2>1, <2>2
<1>4. CASE h # GENESIS_HASH
  <2>1. Chain[h].Parent \in Hashes /\ Height(h) = Height(Chain[h].Parent) + 1
    BY <1>4 DEF NodeInv, TreeSound, Rooted, Height
  <2>2. Up(blockchain, h) = Chain[h].Parent
    BY <1>2, <2>1 DEF Up, Chain
  <2>3. Height(h) # 0
    BY <1>1, <2>1
  <2> QED
    BY <1>1, <1>4, <2>1, <2>2, <2>3
<1> QED
  BY <1>3, <1>4

LEMMA AncestorInTree ==
  ASSUME NodeInv, NEW h \in Hashes, NEW n \in Nat
  PROVE  /\ Ancestor(blockchain, h, n) \in Hashes
         /\ Height(Ancestor(blockchain, h, n)) \in Nat
         /\ \/ Height(Ancestor(blockchain, h, n)) + n = Height(h)
            \/ Height(Ancestor(blockchain, h, n)) = 0 /\ n >= Height(h)
<1> DEFINE a(k) == Ancestor(blockchain, h, k)
           T == {k \in 0..n : /\ a(k) \in Hashes
                              /\ \/ Height(a(k)) + k = Height(h)
                                 \/ Height(a(k)) = 0 /\ k >= Height(h)}
<1>1. 0 \in T
  <2>1. a(0) = h
    BY AncestorSteps
  <2>2. Height(h) \in Nat
    BY UpFacts
  <2> QED
    BY <2>1, <2>2
<1>2. ASSUME NEW k \in 1..n, k - 1 \in T PROVE k \in T
  <2>1. k - 1 \in Nat /\ (k - 1) + 1 = k
    OBVIOUS
  <2>2. a(k) = Up(blockchain, a(k - 1))
    BY <2>1, AncestorSteps
  <2>3. /\ a(k - 1) \in Hashes
        /\ \/ Height(a(k - 1)) + (k - 1) = Height(h)
           \/ Height(a(k - 1)) = 0 /\ k - 1 >= Height(h)
    BY <1>2
  <2> HIDE DEF a
  <2>4. /\ Height(a(k - 1)) \in Nat
        /\ a(k) \in Hashes
        /\ Height(a(k - 1)) = 0 => a(k) = a(k - 1)
        /\ Height(a(k - 1)) # 0 => Height(a(k - 1)) = Height(a(k)) + 1
    BY <2>2, <2>3, UpFacts
  <2>5. Height(a(k)) \in Nat /\ Height(h) \in Nat
    BY <2>4, UpFacts
  <2>6. \/ Height(a(k)) + k = Height(h)
        \/ Height(a(k)) = 0 /\ k >= Height(h)
    <3>1. CASE Height(a(k - 1)) = 0
      <4>1. Height(a(k)) = 0
        BY <2>4, <3>1
      <4> HIDE DEF T
      <4> QED
        BY <2>1, <2>3, <2>5, <3>1, <4>1
    <3>2. CASE Height(a(k - 1)) # 0
      <4>1. Height(a(k - 1)) = Height(a(k)) + 1
        BY <2>4, <3>2
      <4>2. Height(a(k - 1)) + (k - 1) = Height(h)
        BY <2>3, <3>2
      <4> HIDE DEF T
      <4> QED
        BY <2>1, <2>5, <4>1, <4>2
    <3> QED
      BY <3>1, <3>2
  <2> QED
    BY <2>4, <2>6
<1>3. n \in T
  <2> HIDE DEF T
  <2> QED
    BY <1>1, <1>2, CountUp
<1>4. a(n) \in Hashes
  BY <1>3
<1> QED
  BY <1>3, <1>4, UpFacts

(***************************************************************************)
(* Branches begin alike: the branch of an ancestor is the beginning of the *)
(* branch.                                                                 *)
(***************************************************************************)
Begins(a, b) == \A k \in DOMAIN a : k \in DOMAIN b /\ a[k] = b[k]

LEMMA BeginsJoined ==
  ASSUME NEW a, IsTransactionList(a), NEW b, IsTransactionList(b)
  PROVE  Begins(a, a \o b)
<1>1. /\ Len(a) \in Nat /\ DOMAIN a = 1..Len(a)
      /\ Len(b) \in Nat /\ DOMAIN b = 1..Len(b)
  BY ListDomain
<1>2. /\ Len(a \o b) = Len(a) + Len(b)
      /\ DOMAIN (a \o b) = 1..Len(a \o b)
  BY ListJoins, ListDomain
<1>3. a \in Seq(Range(a)) /\ b \in Seq(Range(b))
  BY DEF IsTransactionList
<1>4. \A k \in DOMAIN a : (a \o b)[k] = a[k]
  BY <1>1, <1>3
<1> QED
  BY <1>1, <1>2, <1>4 DEF Begins

\* A block's branch is its parent's with the block at the end.
LEMMA BranchUnfolds ==
  ASSUME NodeInv, NEW h \in Hashes, NEW p, p = Chain[h].Parent, NEW b, b = Chain[h].B,
         Height(h) # 0
  PROVE  /\ p \in Hashes
         /\ IsBody(b) /\ BodyValid(b, Chain[p].L)
         /\ Chain[h].L = LedgerAfter(b, Chain[p].L)
         /\ IsTransactionList(BranchTxs(p))
         /\ IsTransactionList(BlockTxs(b))
         /\ Tally(BranchTxs(p), DOMAIN Chain[p].L)
         /\ LedgerOK(Chain[p].L)
         /\ BranchTxs(h) = BranchTxs(p) \o BlockTxs(b)
         /\ BranchTxs(h) = Append(BranchTxs(p) \o b.Txs, b.Coinbase)
<1>1. h # GENESIS_HASH
  BY UpFacts
<1>2. /\ p \in Hashes
      /\ Chain[h].Height = Chain[p].Height + 1
      /\ BodyValid(b, Chain[p].L)
      /\ Chain[h].L = LedgerAfter(b, Chain[p].L)
  BY <1>1 DEF NodeInv, TreeSound, Rooted, LedgerCarried
<1>3. IsBody(b)
  BY <1>1 DEF NodeInv, MoneyInv, BodiesOK
<1>4. /\ IsTransactionList(BranchTxs(p))
      /\ Tally(BranchTxs(p), DOMAIN Chain[p].L)
      /\ LedgerOK(Chain[p].L)
      /\ p # NIL
  BY <1>2 DEF NodeInv, BranchInv, BranchesOK, MoneyInv, LedgersOK
<1>5. /\ IsTransactionList(BlockTxs(b))
      /\ BranchTxs(p) \o BlockTxs(b) = Append(BranchTxs(p) \o b.Txs, b.Coinbase)
  BY <1>2, <1>3, <1>4, TallyOfBody
<1>6. Extends(blockchain, blockchain, Hashes)
  BY DEF NodeInv, TypeOK, WrapperOK, Extends, Hashes, Chain
<1>7. BranchTxs(h) = BranchTxs(p) \o BlockTxs(b)
  <2>1. FlattenSeq(ListsIn(blockchain, h))
          = FlattenSeq(ListsIn(blockchain, p)) \o BlockTxs(blockchain.Chain[h].B)
    <3>1. /\ blockchain.Chain[h].Parent = p
          /\ blockchain.Chain[h].Height = blockchain.Chain[p].Height + 1
          /\ IsTransactionList(BlockTxs(blockchain.Chain[h].B))
      BY <1>2, <1>5 DEF Chain
    <3> QED
      BY <1>2, <1>4, <1>6, <3>1, ListsFlatten
  <2> QED
    BY <2>1, BranchTxsMeans DEF Chain
<1> QED
  BY <1>2, <1>3, <1>4, <1>5, <1>7

LEMMA ParentBegins ==
  ASSUME NodeInv, NEW h \in Hashes
  PROVE  Begins(BranchTxs(Up(blockchain, h)), BranchTxs(h))
<1>1. CASE Height(h) = 0
  BY <1>1, UpFacts DEF Begins
<1>2. CASE Height(h) # 0
  <2>1. Up(blockchain, h) = Chain[h].Parent
    BY <1>2, UpFacts
  <2>2. /\ IsTransactionList(BranchTxs(Chain[h].Parent))
        /\ IsTransactionList(BlockTxs(Chain[h].B))
        /\ BranchTxs(h) = BranchTxs(Chain[h].Parent) \o BlockTxs(Chain[h].B)
    BY <1>2, BranchUnfolds
  <2> QED
    BY <2>1, <2>2, BeginsJoined
<1> QED
  BY <1>1, <1>2

LEMMA LowerBegins ==
  ASSUME NodeInv, NEW h \in Hashes, NEW n \in Nat, NEW m \in Nat, n <= m
  PROVE  Begins(BranchTxs(Ancestor(blockchain, h, m)), BranchTxs(Ancestor(blockchain, h, n)))
<1> DEFINE a(k) == BranchTxs(Ancestor(blockchain, h, n + k))
           T == {k \in 0..(m - n) : Begins(a(k), a(0))}
<1>1. m - n \in Nat /\ n + 0 = n /\ n + (m - n) = m
  OBVIOUS
<1>2. 0 \in T
  BY <1>1 DEF Begins
<1>3. ASSUME NEW k \in 1..(m - n), k - 1 \in T PROVE k \in T
  <2>1. n + (k - 1) \in Nat /\ n + k = (n + (k - 1)) + 1
    BY <1>1
  <2>2. Ancestor(blockchain, h, n + k)
          = Up(blockchain, Ancestor(blockchain, h, n + (k - 1)))
    BY <2>1, AncestorSteps
  <2>3. Ancestor(blockchain, h, n + (k - 1)) \in Hashes
    BY <2>1, AncestorInTree
  <2>4. Begins(a(k), a(k - 1))
    BY <2>2, <2>3, ParentBegins
  <2>5. Begins(a(k - 1), a(0))
    BY <1>3
  <2> HIDE DEF a
  <2>6. Begins(a(k), a(0))
    BY <2>4, <2>5 DEF Begins
  <2> QED
    BY <2>6
<1>4. m - n \in T
  <2> HIDE DEF T
  <2> QED
    BY <1>1, <1>2, <1>3, CountUp
<1> QED
  BY <1>1, <1>4

\* What holds of a list holds of how it begins.
LEMMA BeginsDistinct ==
  ASSUME NEW a, NEW b, Begins(a, b), DistinctIds(b)
  PROVE  DistinctIds(a)
<1>1. \A k, j \in DOMAIN b : TxHash(b[k]) = TxHash(b[j]) => k = j
  BY DistinctMeans
<1>2. \A k, j \in DOMAIN a : TxHash(a[k]) = TxHash(a[j]) => k = j
  BY <1>1 DEF Begins
<1> QED
  BY <1>2, DistinctMeans

(***************************************************************************)
(* What holds at the root and goes from parent to child holds of every     *)
(* block.                                                                  *)
(***************************************************************************)
LEMMA AllBlocks ==
  ASSUME NodeInv, NEW S, \A g \in Hashes : Height(g) = 0 => g \in S,
         \A g \in Hashes : Height(g) # 0 /\ Chain[g].Parent \in S => g \in S
  PROVE  Hashes \subseteq S
<1> SUFFICES ASSUME NEW h \in Hashes PROVE h \in S
  OBVIOUS
<1> DEFINE N == Height(h)
           T == {n \in 0..N : \A g \in Hashes : Height(g) = n => g \in S}
<1>1. N \in Nat
  BY UpFacts
<1> HIDE DEF N
<1>2. 0 \in T
  BY <1>1
<1>3. ASSUME NEW n \in 1..N, n - 1 \in T PROVE n \in T
  <2>1. ASSUME NEW g \in Hashes, Height(g) = n PROVE g \in S
    <3>1. Height(g) # 0
      BY <2>1
    <3>2. /\ Chain[g].Parent \in Hashes
          /\ Height(Chain[g].Parent) \in Nat
          /\ Height(g) = Height(Chain[g].Parent) + 1
      BY <3>1, UpFacts
    <3>3. Height(Chain[g].Parent) = n - 1
      BY <2>1, <3>2
    <3>4. Chain[g].Parent \in S
      BY <1>3, <3>2, <3>3
    <3> QED
      BY <3>1, <3>4
  <2> QED
    BY <2>1
<1>4. N \in T
  <2> HIDE DEF T
  <2> QED
    BY <1>1, <1>2, <1>3, CountUp
<1> QED
  BY <1>4 DEF N

LEMMA RootBranch ==
  ASSUME NodeInv, NEW h \in Hashes, Height(h) = 0
  PROVE  DOMAIN BranchTxs(h) = {} /\ Chain[h].L = NewLedger
<1>1. h = GENESIS_HASH
  BY DEF NodeInv, TypeOK, WrapperOK, TreeSound, Rooted, Height
<1>2. Chain[h].L = NewLedger
  BY <1>1 DEF NodeInv, TreeSound, GenesisIsRoot
<1>3. Len(ListsIn(blockchain, h)) = 0
  BY LengthOfLists DEF Height, Chain
<1>4. DOMAIN ListsIn(blockchain, h) = {}
  BY DEF ListsIn, Height, Chain
<1> DEFINE t == <<ListsIn(blockchain, h)>>
<1>5. FlattenSeq(ListsIn(blockchain, h)) = ListsIn(blockchain, h)
  <2>1. Len(t) = 0 + 1 /\ AgreeUpTo(ListsIn(blockchain, h), t, 0)
    BY DEF AgreeUpTo
  <2> HIDE DEF t
  <2> QED
    BY <1>3, <2>1, FlattenGrows
<1> QED
  BY <1>2, <1>4, <1>5, BranchTxsMeans

(***************************************************************************)
(* Nobody owes: a transaction on a branch has no negative output, unless   *)
(* it is a coinbase, which has one output.                                 *)
(***************************************************************************)
NoDebt(tx) == \A i \in DOMAIN tx.Outputs : ~Less(tx.Outputs[i].Value, 0)

Coinbases == {Chain[h].B.Coinbase : h \in Hashes \ {GENESIS_HASH}}

NoDebts(txs) == \A k \in DOMAIN txs : txs[k] \in Coinbases \/ NoDebt(txs[k])

LEMMA CoinbasesAreSingle ==
  ASSUME NodeInv, NEW c \in Coinbases
  PROVE  IsTransaction(c) /\ Len(c.Outputs) = 1
<1>1. PICK h \in Hashes \ {GENESIS_HASH} : c = Chain[h].B.Coinbase
  BY DEF Coinbases
<1>2. IsBody(Chain[h].B) /\ LedgerCarried(h)
  BY DEF NodeInv, MoneyInv, BodiesOK, TreeSound
<1> QED
  BY <1>1, <1>2 DEF IsBody, LedgerCarried, BodyValid, IsValidCoinbase

LEMMA BranchesOweNothing ==
  ASSUME NodeInv
  PROVE  \A h \in Hashes : NoDebts(BranchTxs(h))
<1> DEFINE S == {h \in Hashes : NoDebts(BranchTxs(h))}
<1>1. ASSUME NEW g \in Hashes, Height(g) = 0 PROVE g \in S
  BY <1>1, RootBranch DEF NoDebts
<1>2. ASSUME NEW g \in Hashes, Height(g) # 0, Chain[g].Parent \in S PROVE g \in S
  <2> DEFINE p == Chain[g].Parent
             b == Chain[g].B
             base == BranchTxs(p)
  <2>1. /\ IsBody(b) /\ BodyValid(b, Chain[p].L)
        /\ IsTransactionList(base)
        /\ BranchTxs(g) = Append(base \o b.Txs, b.Coinbase)
        /\ b.Coinbase \in Coinbases
    <3>1. Height(g) # 0
      BY <1>2
    <3> HIDE DEF S
    <3>2. b.Coinbase \in Coinbases
      BY <3>1, UpFacts DEF Coinbases
    <3>3. p = Chain[g].Parent /\ b = Chain[g].B
      OBVIOUS
    <3> HIDE DEF p, b
    <3>4. IsBody(b) /\ BodyValid(b, Chain[p].L)
      BY <3>1, <3>3, BranchUnfolds
    <3>5. IsTransactionList(BranchTxs(p))
      BY <3>1, <3>3, BranchUnfolds
    <3>6. BranchTxs(g) = Append(BranchTxs(p) \o b.Txs, b.Coinbase)
      BY <3>1, <3>3, BranchUnfolds
    <3> QED
      BY <3>2, <3>4, <3>5, <3>6
  <2>2. NoDebts(base)
    BY <1>2
  <2> HIDE DEF base, b, p
  <2>3. /\ IsTransactionList(b.Txs) /\ IsTransaction(b.Coinbase)
        /\ HandleTransactions(b.Txs, Chain[p].L).errTxs = <<>>
    BY <2>1 DEF IsBody, BodyValid
  <2>4. \A k \in DOMAIN b.Txs : NoDebt(b.Txs[k])
    <3>1. \A k \in 1..Len(b.Txs) : IsValidTransaction(b.Txs[k], Run(b.Txs, Chain[p].L, k - 1).L)
      BY <2>3, AllWereValid
    <3>2. \A k \in 1..Len(b.Txs) : NoDebt(b.Txs[k])
      BY <3>1 DEF IsValidTransaction, NoDebt
    <3> QED
      BY <2>3, <3>2, ListDomain
  <2>5. NoDebts(base \o b.Txs)
    <3>1. /\ DOMAIN base = 1..Len(base) /\ Len(base) \in Nat
          /\ DOMAIN b.Txs = 1..Len(b.Txs) /\ Len(b.Txs) \in Nat
          /\ base \in Seq(Range(base)) /\ b.Txs \in Seq(Range(b.Txs))
      BY <2>1, <2>3, ListDomain DEF IsTransactionList
    <3>2. ASSUME NEW k \in DOMAIN (base \o b.Txs)
          PROVE  \/ k \in DOMAIN base /\ (base \o b.Txs)[k] = base[k]
                 \/ k - Len(base) \in DOMAIN b.Txs /\ (base \o b.Txs)[k] = b.Txs[k - Len(base)]
      BY <3>1
    <3> QED
      BY <2>2, <2>4, <3>2 DEF NoDebts
  <2>6. NoDebts(BranchTxs(g))
    <3> DEFINE a == base \o b.Txs
    <3>1. IsTransactionList(a)
      BY <2>1, <2>3, ListJoins
    <3> HIDE DEF a
    <3>2. /\ DOMAIN a = 1..Len(a) /\ Len(a) \in Nat
          /\ DOMAIN Append(a, b.Coinbase) = 1..(Len(a) + 1)
          /\ Append(a, b.Coinbase)[Len(a) + 1] = b.Coinbase
          /\ \A k \in 1..Len(a) : Append(a, b.Coinbase)[k] = a[k]
      BY <2>3, <3>1, ListDomain, ListGrows
    <3>3. NoDebts(a)
      BY <2>5 DEF a
    <3>4. NoDebts(Append(a, b.Coinbase))
      BY <2>1, <3>2, <3>3 DEF NoDebts
    <3> QED
      BY <2>1, <3>4 DEF a
  <2> QED
    BY <2>6
<1> HIDE DEF S
<1>3. Hashes \subseteq S
  BY <1>1, <1>2, AllBlocks
<1> QED
  BY <1>3 DEF S

-----------------------------------------------------------------------------
(***************************************************************************)
(* Transfers: a transaction made for w on a ledger claims all that pays w  *)
(* there, each output once, and pays out what it claims, where the ledger  *)
(* holds only numbers.                                                     *)
(***************************************************************************)
Owned(l, w) == {u \in DOMAIN l : l[u].PublicKey = w}

Transfer(tx, w, l) ==
  /\ IsTransaction(tx)
  /\ InputsDiffer(tx)
  /\ ClaimedUtxos(tx) = Owned(l, w)
  /\ HoldsNumbers(l) => HasNumbers(tx) /\ TotalInput(tx, l) = TotalOutput(tx)
  /\ Len(tx.Outputs) = 2
  /\ ClaimedUtxos(tx) = {} => ~NoDebt(tx)

\* An order of a set is a list with everything of the set in it, once.
LEMMA OrdersCover ==
  ASSUME NEW S, IsFiniteSet(S), NEW s \in SetToSeqs(S)
  PROVE  /\ s \in Seq(S)
         /\ IsFiniteSet(DOMAIN s)
         /\ \A i, j \in DOMAIN s : s[i] = s[j] => i = j
         /\ S = {s[i] : i \in DOMAIN s}
<1> DEFINE n == Cardinality(S)
<1>1. n \in Nat
  BY FS_CardinalityType
<1>2. s \in [1..n -> S] /\ \A i, j \in 1..n : i # j => s[i] # s[j]
  BY DEF SetToSeqs
<1>3. IsFiniteSet(1..n) /\ Cardinality(1..n) = n
  BY <1>1, FS_Interval
<1>4. s \in Injection(1..n, S)
  BY <1>2 DEF Injection, IsInjective
<1>5. s \in Surjection(1..n, S)
  <2> DEFINE D == 1..n
  <2>1. s \in Injection(D, S) /\ Cardinality(D) = Cardinality(S)
    BY <1>3, <1>4
  <2> HIDE DEF D
  <2>2. s \in Surjection(D, S)
    BY <2>1, FS_Injection
  <2> QED
    BY <2>2 DEF D
<1>6. S = {s[i] : i \in DOMAIN s}
  BY <1>2, <1>5 DEF Surjection
<1>7. DOMAIN s = 1..n
  BY <1>2
<1>8. s \in Seq(S)
  BY <1>1, <1>2
<1>9. \A i, j \in DOMAIN s : s[i] = s[j] => i = j
  BY <1>2, <1>7
<1> HIDE DEF n
<1> QED
  BY <1>3, <1>6, <1>7, <1>8, <1>9

\* The two outputs of a transfer.
LEMMA TotalOfTwo ==
  ASSUME NEW tx, NEW x, NEW y, x.Value \in Int, y.Value \in Int,
         DOMAIN tx.Outputs = 1..2, tx.Outputs[1] = x, tx.Outputs[2] = y
  PROVE  TotalOutput(tx) = x.Value + y.Value
<1> DEFINE f == [i \in DOMAIN tx.Outputs |-> tx.Outputs[i].Value]
<1>1. 1..2 = {1, 2}
  OBVIOUS
<1>2. DOMAIN f = {1, 2} /\ f[1] = x.Value /\ f[2] = y.Value
  BY <1>1
<1>3. TotalOutput(tx) = SumFunctionOnSet(f, {1, 2})
  <2>1. TotalOutput(tx) = SumOf(f)
    BY DEF TotalOutput
  <2> HIDE DEF f
  <2>2. \A i \in DOMAIN f : f[i] \in Int
    BY <1>2
  <2> QED
    BY <1>2, <2>1, <2>2, SumOfNumbers
<1> HIDE DEF f
<1>4. SumFunctionOnSet(f, {1, 2}) = f[2] + SumFunctionOnSet(f, {1, 2} \ {2})
  <2>1. IsFiniteSet({1, 2})
    <3>1. \A S, i : IsFiniteSet(S) => IsFiniteSet(S \cup {i})
      BY FS_AddElement
    <3>2. IsFiniteSet({} \cup {1})
      BY <3>1, FS_EmptySet
    <3>3. IsFiniteSet(({} \cup {1}) \cup {2})
      BY <3>1, <3>2
    <3>4. ({} \cup {1}) \cup {2} = {1, 2}
      OBVIOUS
    <3> QED
      BY <3>3, <3>4
  <2>2. \A i \in {1, 2} : f[i] \in Int
    BY <1>2
  <2> QED
    BY <1>1, <2>1, <2>2, SumTakesOut
<1>5. {1, 2} \ {2} = {1}
  OBVIOUS
<1>6. SumFunctionOnSet(f, {1}) = f[1]
  BY <1>2, SumOfOne
<1>7. TotalOutput(tx) = f[2] + f[1]
  BY <1>3, <1>4, <1>5, <1>6
<1>8. f[2] + f[1] = f[1] + f[2]
  BY <1>2
<1> QED
  BY <1>2, <1>7, <1>8

LEMMA TotalOfSingle ==
  ASSUME NEW tx, NEW x, x.Value \in Amount, DOMAIN tx.Outputs = {1}, tx.Outputs[1] = x
  PROVE  TotalOutput(tx) = x.Value
<1> DEFINE f == [i \in DOMAIN tx.Outputs |-> tx.Outputs[i].Value]
<1>1. DOMAIN f = {1} /\ f[1] = x.Value
  OBVIOUS
<1>2. TotalOutput(tx) = SumOf(f)
  BY DEF TotalOutput
<1> HIDE DEF f
<1>3. CASE x.Value = NAN
  BY <1>1, <1>2, <1>3 DEF SumOf
<1>4. CASE x.Value \in Int
  <2>1. SumOf(f) = SumFunctionOnSet(f, {1})
    BY <1>1, <1>4, SumOfNumbers
  <2>2. SumFunctionOnSet(f, {1}) = f[1]
    BY <1>1, <1>4, SumOfOne
  <2> QED
    BY <1>1, <1>2, <2>1, <2>2
<1> QED
  BY <1>3, <1>4 DEF Amount

\* A coinbase of one output that pays a number in all pays that number.
LEMMA TotalOfCoinbase ==
  ASSUME NEW tx, IsTransaction(tx), Len(tx.Outputs) = 1, TotalOutput(tx) \in Int
  PROVE  /\ DOMAIN tx.Outputs = {1}
         /\ tx.Outputs[1].Value = TotalOutput(tx)
         /\ HasNumbers(tx)
<1>1. DOMAIN tx.Outputs = 1..1
  BY TransactionLists
<1>2. DOMAIN tx.Outputs = {1}
  BY <1>1
<1>3. PICK x : x = tx.Outputs[1]
  OBVIOUS
<1>4. x.Value \in Amount
  BY <1>2, <1>3 DEF IsTransaction
<1>5. TotalOutput(tx) = x.Value
  BY <1>2, <1>3, <1>4, TotalOfSingle
<1> QED
  BY <1>2, <1>3, <1>5 DEF HasNumbers

(***************************************************************************)
(* CreatePendingTransaction makes transfers.                               *)
(***************************************************************************)
LEMMA PendingIsTransfer ==
  ASSUME NEW w, NEW l, LedgerOK(l), NEW utxos, utxos = Restrict(l, Owned(l, w)),
         NEW output, output.Value \in Nat \ {0},
         NEW tx \in CreatePendingTransaction(w, utxos, <<output>>)
  PROVE  Transfer(tx, w, l)
<1> DEFINE O == Owned(l, w)
           d == Deposit(utxos)
           change == [Value |-> Minus(d, TotalOutput([Outputs |-> <<output>>])), PublicKey |-> w]
<1>1. /\ DOMAIN utxos = O /\ O \subseteq DOMAIN l
      /\ \A u \in O : utxos[u].Value = l[u].Value /\ l[u].Value \in Amount
      /\ HoldsNumbers(l) \/ O = {} => \A u \in O : l[u].Value \in Int
  BY DEF Restrict, Owned, LedgerOK, HoldsNumbers
<1>2. IsFiniteSet(O)
  BY <1>1, FS_Subset DEF LedgerOK
<1>3. PICK claims \in SetToSeqs(O) :
        tx = PendingTransaction(claims, Append(<<output>>, change), w)
  BY <1>1 DEF CreatePendingTransaction
<1>4. /\ claims \in Seq(O)
      /\ IsFiniteSet(DOMAIN claims)
      /\ \A i, j \in DOMAIN claims : claims[i] = claims[j] => i = j
      /\ O = {claims[i] : i \in DOMAIN claims}
  BY <1>2, OrdersCover
<1> HIDE DEF O, d, change
<1>5. /\ tx.Inputs = [i \in DOMAIN claims |-> Signed(claims[i], w)]
      /\ DOMAIN tx.Outputs = 1..2 /\ Len(tx.Outputs) = 2
      /\ tx.Outputs[1] = output /\ tx.Outputs[2] = change
      /\ tx.Outputs \in Seq(Range(tx.Outputs))
  <2> DEFINE a == <<output>>
             s == Append(a, change)
  <2>1. tx.Outputs = s /\ tx.Inputs = [i \in DOMAIN claims |-> Signed(claims[i], w)]
    BY <1>3 DEF PendingTransaction
  <2> DEFINE S == {output, change}
  <2>2. a \in Seq(S) /\ Len(a) = 1 /\ a[1] = output /\ change \in S
    OBVIOUS
  <2> HIDE DEF a, S
  <2>3. /\ s \in Seq(S) /\ Len(s) = Len(a) + 1
        /\ s[Len(a) + 1] = change
        /\ \A k \in 1..Len(a) : s[k] = a[k]
    <3>1. a \in Seq(S) /\ change \in S
      BY <2>2
    <3> QED
      BY <3>1
  <2> HIDE DEF s
  <2>4. DOMAIN s = 1..2 /\ Len(s) = 2 /\ s[1] = output /\ s[2] = change
    BY <2>2, <2>3
  <2>5. s \in Seq(Range(s))
    <3>1. s \in Seq(S)
      BY <2>3
    <3> QED
      BY <3>1 DEF Range
  <2> QED
    BY <2>1, <2>3, <2>4, <2>5
<1>6. DOMAIN tx.Inputs = DOMAIN claims
  BY <1>5
<1>7. \A i \in DOMAIN claims : CreateUtxoFromInput(tx.Inputs[i]) = claims[i]
  <2> SUFFICES ASSUME NEW i \in DOMAIN claims
               PROVE  CreateUtxoFromInput(tx.Inputs[i]) = claims[i]
    OBVIOUS
  <2>1. claims[i] \in O
    BY <1>4
  <2>2. claims[i] = UtxoLite(claims[i].PrevTxHash, claims[i].Index)
    BY <1>1, <2>1 DEF LedgerOK
  <2>3. CreateUtxoFromInput(tx.Inputs[i])
          = UtxoLite(claims[i].PrevTxHash, claims[i].Index)
    BY <1>5 DEF CreateUtxoFromInput, Signed
  <2> QED
    BY <2>2, <2>3
<1>8. ClaimedUtxos(tx) = O
  BY <1>4, <1>6, <1>7 DEF ClaimedUtxos
<1>9. InputsDiffer(tx)
  BY <1>4, <1>6, <1>7 DEF InputsDiffer
<1>10. d \in Amount
  <2> DEFINE v == [u \in O |-> utxos[u].Value]
  <2>1. d = SumOf(v)
    BY <1>1 DEF d, Deposit
  <2>2. DOMAIN v = O /\ \A u \in O : v[u] \in Amount
    BY <1>1
  <2> HIDE DEF v
  <2> QED
    BY <1>2, <2>1, <2>2, SumIsAmount
<1>11. ASSUME HoldsNumbers(l) \/ O = {}
       PROVE  /\ d = SumFunctionOnSet(Values(l), O)
              /\ d \in Int
              /\ O = {} => d = 0
  <2> DEFINE v == [u \in O |-> utxos[u].Value]
  <2>1. d = SumOf(v)
    BY <1>1 DEF d, Deposit
  <2>2. DOMAIN v = O /\ \A u \in O : v[u] \in Int /\ v[u] = Values(l)[u]
    BY <1>1, <1>11 DEF Values
  <2> HIDE DEF v
  <2>3. d = SumFunctionOnSet(v, O)
    BY <2>1, <2>2, SumOfNumbers
  <2>4. SumFunctionOnSet(v, O) = SumFunctionOnSet(Values(l), O)
    BY <1>2, <2>2, SumAgrees
  <2>5. SumFunctionOnSet(v, O) \in Int
    BY <1>2, <2>2, SumTakesOut
  <2>6. O = {} => SumFunctionOnSet(v, O) = 0
    BY SumOfNothing
  <2> QED
    BY <2>3, <2>4, <2>5, <2>6
<1>12. ASSUME HoldsNumbers(l) PROVE TotalInput(tx, l) = d
  <2> DEFINE g == [i \in DOMAIN tx.Inputs |-> l[CreateUtxoFromInput(tx.Inputs[i])].Value]
             I == DOMAIN claims
  <2>1. TotalInput(tx, l) = SumOf(g) /\ DOMAIN g = I
    BY <1>6 DEF TotalInput
  <2>2. \A i \in I : g[i] \in Int /\ g[i] = Values(l)[claims[i]]
    <3> SUFFICES ASSUME NEW i \in I PROVE g[i] \in Int /\ g[i] = Values(l)[claims[i]]
      OBVIOUS
    <3>1. claims[i] \in O
      BY <1>4
    <3>2. g[i] = l[claims[i]].Value
      BY <1>6, <1>7
    <3> QED
      BY <1>1, <1>12, <3>1, <3>2 DEF Values
  <2>3. IsFiniteSet(I) /\ \A i, j \in I : claims[i] = claims[j] => i = j
    BY <1>4
  <2> HIDE DEF g
  <2>4. SumOf(g) = SumFunctionOnSet(g, I)
    BY <2>1, <2>2, SumOfNumbers
  <2>5. SumFunctionOnSet(g, I) = SumFunctionOnSet(Values(l), {claims[i] : i \in I})
    BY <2>2, <2>3, SumOfImage
  <2> QED
    BY <1>4, <1>11, <1>12, <2>1, <2>4, <2>5
<1>13. /\ change.Value \in Amount
       /\ d \in Int => change.Value \in Int /\ change.Value = d - output.Value
  <2> DEFINE one == [Outputs |-> <<output>>]
  <2>1. DOMAIN one.Outputs = {1} /\ one.Outputs[1] = output
    OBVIOUS
  <2>2. output.Value \in Int /\ output.Value \in Amount
    BY NumbersAreAmounts
  <2>3. change.Value = Minus(d, TotalOutput(one))
    BY DEF change
  <2> HIDE DEF one
  <2>4. TotalOutput(one) = output.Value
    BY <2>1, <2>2, TotalOfSingle
  <2>5. change.Value \in Amount
    BY <1>10, <2>2, <2>3, <2>4, PlusMinus
  <2>6. d \in Int => change.Value = d - output.Value
    BY <2>2, <2>3, <2>4, NumberArithmetic
  <2> QED
    BY <2>2, <2>5, <2>6
<1>14. HoldsNumbers(l) => HasNumbers(tx) /\ TotalInput(tx, l) = TotalOutput(tx)
  <2> SUFFICES ASSUME HoldsNumbers(l)
               PROVE  HasNumbers(tx) /\ TotalInput(tx, l) = TotalOutput(tx)
    OBVIOUS
  <2>1. d \in Int /\ TotalInput(tx, l) = d
    BY <1>11, <1>12
  <2>2. change.Value \in Int /\ change.Value = d - output.Value /\ output.Value \in Int
    BY <1>13, <2>1
  <2>3. TotalOutput(tx) = output.Value + change.Value
    BY <1>5, <2>2, TotalOfTwo
  <2>4. \A i \in 1..2 : i = 1 \/ i = 2
    OBVIOUS
  <2>5. HasNumbers(tx)
    BY <1>5, <2>2, <2>4 DEF HasNumbers
  <2> QED
    BY <2>1, <2>2, <2>3, <2>5
<1>15. IsTransaction(tx)
  <2>1. tx.Inputs \in Seq(Range(tx.Inputs))
    <3>1. DOMAIN claims = 1..Len(claims) /\ Len(claims) \in Nat
      BY <1>4
    <3>2. tx.Inputs \in [1..Len(claims) -> Range(tx.Inputs)]
      BY <1>5, <3>1 DEF Range
    <3> QED
      BY <3>1, <3>2
  <2>2. \A i \in 1..2 : i = 1 \/ i = 2
    OBVIOUS
  <2>3. output.Value \in Amount
    BY NumbersAreAmounts
  <2>4. \A i \in DOMAIN tx.Outputs : tx.Outputs[i].Value \in Amount
    BY <1>5, <1>13, <2>2, <2>3
  <2> QED
    BY <1>5, <2>1, <2>4 DEF IsTransaction
<1>16. ClaimedUtxos(tx) = {} => ~NoDebt(tx)
  <2> SUFFICES ASSUME O = {} PROVE ~NoDebt(tx)
    BY <1>8
  <2>1. DOMAIN tx.Outputs = 1..2 /\ tx.Outputs[2] = change
    BY <1>5
  <2>2. d = 0 /\ d \in Int
    BY <1>11
  <2>3. change.Value \in Int /\ change.Value < 0
    BY <1>13, <2>2
  <2>4. Less(change.Value, 0)
    BY <2>3, NumbersAreAmounts DEF Less
  <2>5. 2 \in DOMAIN tx.Outputs
    BY <2>1
  <2> QED
    BY <2>1, <2>4, <2>5 DEF NoDebt
<1> QED
  BY <1>5, <1>8, <1>9, <1>14, <1>15, <1>16 DEF Transfer, O

(***************************************************************************)
(* The transfers made so far: each a transfer on the ledger of its basis,  *)
(* CONFIRMATION blocks below what the tail was then, on bases that do not  *)
(* sink.                                                                   *)
(***************************************************************************)
TransferOK(t) ==
  /\ t.from \in Wallets
  /\ t.basis \in Hashes
  /\ Transfer(t.tx, t.from, Chain[t.basis].L)
  /\ Height(t.basis) = 0 \/ Height(t.basis) + CONFIRMATION <= TailHeight(blockchain)

SentOK ==
  /\ sent \in Seq(Range(sent))
  /\ \A k \in DOMAIN sent : TransferOK(sent[k])
  /\ \A j, k \in DOMAIN sent : j < k => Height(sent[j].basis) <= Height(sent[k].basis)

SentTxs == {sent[k].tx : k \in DOMAIN sent}

(***************************************************************************)
(* The wallets: records with a balance that pays them, names for keys, and *)
(* under way nothing but what was sent.                                    *)
(***************************************************************************)
WalletOK(w, txs) ==
  /\ DOMAIN wallet[w] = {"conn", "UTXOs", "alias", "pc", "tx"}
  /\ wallet[w].conn \in {"none", "down", "ready"}
  /\ wallet[w].pc \in {"idle", "send", "wait"}
  /\ \A u \in DOMAIN wallet[w].UTXOs : wallet[w].UTXOs[u].PublicKey = w
  /\ \A n \in DOMAIN wallet[w].alias : wallet[w].alias[n] \in Hex
  /\ wallet[w].pc = "send" => wallet[w].tx \in txs

WalletsOK ==
  /\ DOMAIN wallet = Wallets
  /\ \A w \in Wallets : WalletOK(w, SentTxs)

WalletInv == NodeInv /\ SentOK /\ WalletsOK

\* The tail's height, and a transfer that was all right stays so.
LEMMA TransferKept ==
  ASSUME NodeInv, TreeKept, NodeInv', NEW t, TransferOK(t)
  PROVE  TransferOK(t)' /\ Height(t.basis)' = Height(t.basis)
<1>1. /\ t.basis \in Hashes'
      /\ Chain'[t.basis].L = Chain[t.basis].L
      /\ Chain'[t.basis].Height = Chain[t.basis].Height
  BY DEF TransferOK, TreeKept
<1>2. Height(t.basis)' = Height(t.basis)
  BY <1>1 DEF Height
<1>3. /\ TailHeight(blockchain) <= TailHeight(blockchain')
      /\ TailHeight(blockchain) \in Nat /\ TailHeight(blockchain') \in Nat
      /\ Height(t.basis) \in Nat
  BY DEF TreeKept, NodeInv, TypeOK, WrapperOK, TailHeight, Hashes, Chain, Height, TransferOK
<1>4. Height(t.basis) = 0 \/ Height(t.basis) + CONFIRMATION <= TailHeight(blockchain')
  BY <1>3, ConfigAssumption DEF TransferOK
<1> QED
  BY <1>1, <1>2, <1>4 DEF TransferOK

LEMMA SentKept ==
  ASSUME NodeInv, TreeKept, NodeInv', SentOK, UNCHANGED sent
  PROVE  SentOK'
<1>1. \A k \in DOMAIN sent : TransferOK(sent[k])' /\ Height(sent[k].basis)' = Height(sent[k].basis)
  <2> SUFFICES ASSUME NEW k \in DOMAIN sent
               PROVE  TransferOK(sent[k])' /\ Height(sent[k].basis)' = Height(sent[k].basis)
    OBVIOUS
  <2>1. PICK t : t = sent[k] /\ t = sent'[k]
    OBVIOUS
  <2>2. TransferOK(t)
    BY <2>1 DEF SentOK
  <2>3. TransferOK(t)' /\ Height(t.basis)' = Height(t.basis)
    BY <2>2, TransferKept
  <2> QED
    BY <2>1, <2>3 DEF TransferOK, Height
<1> QED
  BY <1>1 DEF SentOK

\* A block of one transaction is a list.
LEMMA SingleList ==
  ASSUME NEW tx, IsTransaction(tx)
  PROVE  IsTransactionList(<<tx>>)
<1> DEFINE s == <<tx>>
<1>1. DOMAIN s = {1} /\ s[1] = tx
  OBVIOUS
<1>2. s \in Seq({tx})
  OBVIOUS
<1> HIDE DEF s
<1>3. s \in Seq(Range(s))
  BY <1>1, <1>2 DEF Range
<1>4. \A k \in DOMAIN s : IsTransaction(s[k])
  BY <1>1
<1>5. IsTransactionList(s)
  BY <1>3, <1>4 DEF IsTransactionList
<1> QED
  BY <1>5 DEF s

LEMMA PeerBodies ==
  ASSUME SentOK, NEW b \in PeerBlock
  PROVE  IsBody(b)
<1>1. /\ b.Coinbase \in WireCoinbase
      /\ \/ b.Txs \in WireTxs
         \/ \E k \in DOMAIN sent : b.Txs = <<sent[k].tx>>
  BY DEF PeerBlock
<1>2. IsTransactionList(b.Txs)
  <2>1. CASE b.Txs \in WireTxs
    BY <2>1, WireAssumption DEF IsTransactionList
  <2>2. CASE \E k \in DOMAIN sent : b.Txs = <<sent[k].tx>>
    <3>1. PICK k \in DOMAIN sent : b.Txs = <<sent[k].tx>>
      BY <2>2
    <3>2. IsTransaction(sent[k].tx)
      BY DEF SentOK, TransferOK, Transfer
    <3> QED
      BY <3>1, <3>2, SingleList
  <2> QED
    BY <1>1, <2>1, <2>2
<1>3. IsTransaction(b.Coinbase)
  BY <1>1, WireAssumption
<1> QED
  BY <1>2, <1>3 DEF IsBody

(***************************************************************************)
(* What one step does: the node goes on as FullNode says, or handles a     *)
(* block of its peers, or a submission arrives; and what the wallets do.   *)
(***************************************************************************)
LEMMA NodeMoves ==
  ASSUME [WalletNext]_walletVars
  PROVE  \/ UNCHANGED nodeVars
         \/ \E w \in Wallets : SubmissionArrives(w)
         \/ \E b \in PeerBlock : SetBlock(b)
         \/ Next
<1>1. ASSUME NEW w \in Wallets, WalletStep(w)
      PROVE  UNCHANGED nodeVars \/ SubmissionArrives(w)
  BY <1>1 DEF WalletStep, Connect, ConnectionChanges, SetAlias, GetBalance, TransferFails,
              TransferMoney, SubmissionReturns
<1>2. NodeStep => Next \/ \E b \in PeerBlock : SetBlock(b)
  BY DEF NodeStep, Next
<1>3. UNCHANGED walletVars => UNCHANGED nodeVars
  BY DEF walletVars, nodeVars
<1> QED
  BY <1>1, <1>2, <1>3 DEF WalletNext

\* The node's invariants hold after it, and no block is touched.
LEMMA NodeKept ==
  ASSUME NilIsNoHash, WalletInv, [WalletNext]_walletVars
  PROVE  NodeInv' /\ TreeKept
<1>1. NodeInv /\ SentOK
  BY DEF WalletInv
<1>2. CASE UNCHANGED nodeVars
  <2>1. [Next]_vars
    BY <1>2 DEF nodeVars, vars
  <2> QED
    BY <1>1, <2>1, NodeStepKeeps
<1>3. ASSUME NEW w \in Wallets, SubmissionArrives(w) PROVE NodeInv' /\ TreeKept
  <2>1. /\ wallet[w].pc = "send"
        /\ checked' \subseteq checked \cup {wallet[w].tx}
        /\ UNCHANGED <<blockchain, txPool, miner>>
    BY <1>3 DEF SubmissionArrives
  <2>2. PICK k \in DOMAIN sent : wallet[w].tx = sent[k].tx
    BY <2>1 DEF WalletInv, WalletsOK, WalletOK, SentTxs
  <2>3. IsTransaction(wallet[w].tx)
    BY <1>1, <2>2 DEF SentOK, TransferOK, Transfer
  <2>4. PICK tx : tx = wallet[w].tx
    OBVIOUS
  <2>5. IsTransaction(tx) /\ checked' \subseteq checked \cup {tx}
    BY <2>1, <2>3, <2>4
  <2> QED
    BY <1>1, <2>1, <2>5, ArrivalKeeps
<1>4. ASSUME NEW b \in PeerBlock, SetBlock(b) PROVE NodeInv' /\ TreeKept
  <2>1. PICK c : c = b
    OBVIOUS
  <2>2. IsBody(c) /\ SetBlock(c)
    BY <1>1, <1>4, <2>1, PeerBodies
  <2> QED
    BY <1>1, <2>2, AnyBlockKeeps
<1>5. CASE Next
  BY <1>1, <1>5, NodeStepKeeps
<1> QED
  BY <1>2, <1>3, <1>4, <1>5, NodeMoves

\* A new transfer is one on the ledger CONFIRMATION blocks below the tail, and
\* its basis is at least as high as those before.
LEMMA TransferMade ==
  ASSUME WalletInv, NEW w \in Wallets, NEW r \in Receivers, NEW value \in Amounts,
         TransferMoney(w, r, value)
  PROVE  \E t : /\ sent' = Append(sent, t)
                /\ TransferOK(t)
                /\ \A k \in DOMAIN sent : Height(sent[k].basis) <= Height(t.basis)
                /\ wallet' = [wallet EXCEPT ![w].UTXOs = GetUtxoForPublicKey(w),
                                            ![w].pc = "send", ![w].tx = t.tx]
<1> DEFINE output == [Value |-> value, PublicKey |-> GetPKFromAlias(w, r)]
           utxos  == GetUtxoForPublicKey(w)
           g == Ancestor(blockchain, blockchain.Tail, CONFIRMATION)
           l == Chain[g].L
<1>1. PICK tx \in CreatePendingTransaction(w, utxos, <<output>>) :
        /\ wallet' = [wallet EXCEPT ![w].UTXOs = utxos, ![w].pc = "send", ![w].tx = tx]
        /\ sent' = Append(sent, [from |-> w, tx |-> tx, basis |-> g])
  BY DEF TransferMoney
<1>2. utxos = Restrict(l, Owned(l, w))
  BY DEF GetUtxoForPublicKey, LedgerSnapshotAtDepth, Chain, Owned
<1>3. output.Value \in Nat \ {0}
  BY WalletAssumption
<1>4. NodeInv /\ SentOK /\ blockchain.Tail \in Hashes /\ CONFIRMATION \in Nat
  BY ConfigAssumption DEF WalletInv, NodeInv, TypeOK
<1>5. TailHeight(blockchain) = Height(blockchain.Tail)
  BY DEF TailHeight, Height, Chain
<1>6. /\ g \in Hashes
      /\ Height(g) \in Nat
      /\ \/ Height(g) + CONFIRMATION = TailHeight(blockchain)
         \/ Height(g) = 0 /\ CONFIRMATION >= TailHeight(blockchain)
  BY <1>4, <1>5, AncestorInTree
<1>7. LedgerOK(l)
  BY <1>4, <1>6 DEF NodeInv, MoneyInv, LedgersOK
<1>8. Transfer(tx, w, l)
  <2> HIDE DEF output, utxos, l
  <2> QED
    BY <1>1, <1>2, <1>3, <1>7, PendingIsTransfer
<1> DEFINE t == [from |-> w, tx |-> tx, basis |-> g]
<1>9. t.from = w /\ t.tx = tx /\ t.basis = g
  OBVIOUS
<1> HIDE DEF g, utxos, output, t
<1>10. TailHeight(blockchain) \in Nat
  BY <1>4, <1>5, UpFacts
<1>11. TransferOK(t)
  <2>1. Height(g) = 0 \/ Height(g) + CONFIRMATION <= TailHeight(blockchain)
    BY <1>4, <1>6, <1>10
  <2> QED
    BY <1>6, <1>8, <1>9, <2>1 DEF TransferOK
<1>12. \A k \in DOMAIN sent : Height(sent[k].basis) <= Height(t.basis)
  <2> SUFFICES ASSUME NEW k \in DOMAIN sent PROVE Height(sent[k].basis) <= Height(g)
    BY <1>9
  <2>1. /\ sent[k].basis \in Hashes
        /\ \/ Height(sent[k].basis) = 0
           \/ Height(sent[k].basis) + CONFIRMATION <= TailHeight(blockchain)
    BY <1>4 DEF SentOK, TransferOK
  <2>2. Height(sent[k].basis) \in Nat
    BY <1>4, <2>1, UpFacts
  <2>3. \A a, c, n, m \in Nat :
          (a + n = m \/ (a = 0 /\ n >= m)) /\ (c = 0 \/ c + n <= m) => c <= a
    OBVIOUS
  <2> QED
    BY <1>4, <1>6, <1>10, <2>1, <2>2, <2>3
<1>13. sent' = Append(sent, t)
  BY <1>1 DEF t
<1>14. wallet' = [wallet EXCEPT ![w].UTXOs = GetUtxoForPublicKey(w),
                                ![w].pc = "send", ![w].tx = t.tx]
  BY <1>1, <1>9 DEF utxos
<1> QED
  BY <1>11, <1>12, <1>13, <1>14

\* How a list of transfers grows.
LEMMA SentGrows ==
  ASSUME NEW s, s \in Seq(Range(s)), NEW t, NEW q, q = Append(s, t)
  PROVE  /\ q \in Seq(Range(q))
         /\ Len(s) \in Nat /\ DOMAIN s = 1..Len(s)
         /\ DOMAIN q = DOMAIN s \cup {Len(s) + 1}
         /\ \A k \in DOMAIN s : q[k] = s[k] /\ k < Len(s) + 1
         /\ q[Len(s) + 1] = t
<1> DEFINE S == Range(s) \cup {t}
<1>1. s \in Seq(S) /\ t \in S
  BY SeqMonotonic
<1> HIDE DEF S
<1>2. Len(s) \in Nat /\ DOMAIN s = 1..Len(s)
  BY <1>1
<1>3. /\ q \in Seq(S) /\ Len(q) = Len(s) + 1
      /\ q[Len(s) + 1] = t
      /\ \A k \in 1..Len(s) : q[k] = s[k]
  BY <1>1
<1>4. DOMAIN q = 1..(Len(s) + 1)
  BY <1>2, <1>3
<1>5. DOMAIN q = DOMAIN s \cup {Len(s) + 1}
  BY <1>2, <1>4
<1>6. q \in Seq(Range(q))
  <2>1. q \in Seq(S)
    BY <1>3
  <2> QED
    BY <2>1 DEF Range
<1>7. \A k \in DOMAIN s : q[k] = s[k] /\ k < Len(s) + 1
  BY <1>2, <1>3
<1> QED
  BY <1>2, <1>3, <1>5, <1>6, <1>7

LEMMA SentAdded ==
  ASSUME NodeInv, TreeKept, NodeInv', SentOK, NEW t, sent' = Append(sent, t), TransferOK(t),
         \A k \in DOMAIN sent : Height(sent[k].basis) <= Height(t.basis)
  PROVE  SentOK' /\ SentTxs \subseteq SentTxs' /\ t.tx \in SentTxs'
<1>n. PICK n : n = Len(sent) + 1
  OBVIOUS
<1>1. /\ sent' \in Seq(Range(sent'))
      /\ DOMAIN sent' = DOMAIN sent \cup {n}
      /\ \A k \in DOMAIN sent : sent'[k] = sent[k] /\ k < n
      /\ sent'[n] = t
      /\ Len(sent) \in Nat /\ DOMAIN sent = 1..Len(sent)
  <2>1. PICK s : s = sent
    OBVIOUS
  <2>2. PICK q : q = sent'
    OBVIOUS
  <2>3. s \in Seq(Range(s)) /\ q = Append(s, t)
    BY <2>1, <2>2 DEF SentOK
  <2>4. q \in Seq(Range(q))
    BY <2>3, SentGrows
  <2>5. Len(s) \in Nat /\ DOMAIN s = 1..Len(s)
    BY <2>3, SentGrows
  <2>6. DOMAIN q = DOMAIN s \cup {Len(s) + 1}
    BY <2>3, SentGrows
  <2>7. \A k \in DOMAIN s : q[k] = s[k] /\ k < Len(s) + 1
    BY <2>3, SentGrows
  <2>8. q[Len(s) + 1] = t
    BY <2>3, SentGrows
  <2> QED
    BY <1>n, <2>1, <2>2, <2>4, <2>5, <2>6, <2>7, <2>8
<1>2. Len(sent) \in Nat /\ DOMAIN sent = 1..Len(sent)
  BY <1>1
<1>3. /\ TransferOK(t)' /\ Height(t.basis)' = Height(t.basis)
  BY TransferKept
<1>4. ASSUME NEW k \in DOMAIN sent
      PROVE  TransferOK(sent[k])' /\ Height(sent[k].basis)' = Height(sent[k].basis)
  <2>1. PICK u : u = sent[k] /\ u = sent'[k]
    BY <1>1
  <2>2. TransferOK(u)
    BY <2>1 DEF SentOK
  <2>3. TransferOK(u)' /\ Height(u.basis)' = Height(u.basis)
    BY <2>2, TransferKept
  <2> QED
    BY <2>1, <2>3 DEF TransferOK, Height
<1>5. TransferOK(sent[n])' /\ Height(sent[n].basis)' = Height(t.basis)
  BY <1>1, <1>3 DEF TransferOK, Height
<1>6. \A j, k \in DOMAIN sent' : j < k => Height(sent[j].basis)' <= Height(sent[k].basis)'
  <2> SUFFICES ASSUME NEW j \in DOMAIN sent', NEW k \in DOMAIN sent', j < k
               PROVE  Height(sent[j].basis)' <= Height(sent[k].basis)'
    OBVIOUS
  <2>1. j \in DOMAIN sent
    BY <1>n, <1>1, <1>2
  <2>2. CASE k \in DOMAIN sent
    <3>1. Height(sent[j].basis) <= Height(sent[k].basis)
      BY <2>1, <2>2 DEF SentOK
    <3>2. /\ Height(sent[j].basis)' = Height(sent[j].basis)
          /\ Height(sent[k].basis)' = Height(sent[k].basis)
      BY <1>1, <1>4, <2>1, <2>2 DEF Height
    <3> QED
      BY <3>1, <3>2
  <2>3. CASE k = n
    <3>1. Height(sent[j].basis) <= Height(t.basis)
      BY <2>1
    <3>2. /\ Height(sent[j].basis)' = Height(sent[j].basis)
          /\ Height(sent[k].basis)' = Height(t.basis)
      BY <1>1, <1>3, <1>4, <2>1, <2>3 DEF Height
    <3> QED
      BY <3>1, <3>2
  <2> QED
    BY <1>1, <2>2, <2>3
<1>7. SentTxs \subseteq SentTxs' /\ t.tx \in SentTxs'
  BY <1>1 DEF SentTxs
<1>8. \A k \in DOMAIN sent' : TransferOK(sent[k])'
  BY <1>1, <1>4, <1>5
<1> QED
  BY <1>1, <1>6, <1>7, <1>8 DEF SentOK

LEMMA SentStep ==
  ASSUME NilIsNoHash, WalletInv, [WalletNext]_walletVars
  PROVE  SentOK' /\ SentTxs \subseteq SentTxs'
<1>1. NodeInv /\ SentOK /\ NodeInv' /\ TreeKept
  BY NodeKept DEF WalletInv
<1>2. CASE UNCHANGED sent
  BY <1>1, <1>2, SentKept DEF SentTxs
<1>3. ASSUME NEW w \in Wallets, NEW r \in Receivers, NEW value \in Amounts,
             TransferMoney(w, r, value)
      PROVE  SentOK' /\ SentTxs \subseteq SentTxs'
  <2>1. PICK t : /\ sent' = Append(sent, t)
                 /\ TransferOK(t)
                 /\ \A k \in DOMAIN sent : Height(sent[k].basis) <= Height(t.basis)
    BY <1>3, TransferMade
  <2> QED
    BY <1>1, <2>1, SentAdded
<1>4. \/ UNCHANGED sent
      \/ \E w \in Wallets, r \in Receivers, value \in Amounts : TransferMoney(w, r, value)
  BY DEF WalletNext, walletVars, WalletStep, Connect, ConnectionChanges, SetAlias, GetBalance,
         TransferFails, SubmissionArrives, SubmissionReturns
<1> QED
  BY <1>2, <1>3, <1>4

\* The others stay as they are, so only the wallet that acts needs a look.
LEMMA OneWalletActs ==
  ASSUME WalletsOK, SentTxs \subseteq SentTxs', NEW w \in Wallets,
         DOMAIN wallet' = Wallets, \A v \in Wallets \ {w} : wallet'[v] = wallet[v],
         WalletOK(w, SentTxs)'
  PROVE  WalletsOK'
<1>1. ASSUME NEW v \in Wallets PROVE WalletOK(v, SentTxs)'
  <2>1. CASE v = w
    BY <2>1
  <2>2. CASE v # w
    <3>1. wallet'[v] = wallet[v]
      BY <2>2
    <3>2. WalletOK(v, SentTxs)
      BY DEF WalletsOK
    <3> QED
      BY <3>1, <3>2 DEF WalletOK
  <2> QED
    BY <2>1, <2>2
<1> QED
  BY <1>1 DEF WalletsOK

\* What a wallet reads as its balance pays it.
LEMMA BalanceIsOwn ==
  ASSUME NEW w
  PROVE  \A u \in DOMAIN GetUtxoForPublicKey(w) : GetUtxoForPublicKey(w)[u].PublicKey = w
BY DEF GetUtxoForPublicKey, Restrict

LEMMA WalletsStep ==
  ASSUME NilIsNoHash, WalletInv, [WalletNext]_walletVars
  PROVE  WalletsOK'
<1>1. WalletsOK /\ SentTxs \subseteq SentTxs'
  BY SentStep DEF WalletInv
<1>2. CASE UNCHANGED wallet
  BY <1>1, <1>2 DEF WalletsOK, WalletOK
<1>3. ASSUME NEW w \in Wallets, WalletStep(w) PROVE WalletsOK'
  <2>0. DOMAIN wallet = Wallets /\ WalletOK(w, SentTxs)
    BY <1>1 DEF WalletsOK
  <2>1. CASE Connect(w)
    <3>1. wallet' = [wallet EXCEPT ![w].conn = "down"]
      BY <2>1 DEF Connect
    <3>2. WalletOK(w, SentTxs)'
      BY <1>1, <2>0, <3>1 DEF WalletOK
    <3> QED
      BY <1>1, <2>0, <3>1, <3>2, OneWalletActs
  <2>2. CASE ConnectionChanges(w)
    <3>1. PICK c \in {"down", "ready"} : wallet' = [wallet EXCEPT ![w].conn = c]
      BY <2>2 DEF ConnectionChanges
    <3>2. WalletOK(w, SentTxs)'
      BY <1>1, <2>0, <3>1 DEF WalletOK
    <3> QED
      BY <1>1, <2>0, <3>1, <3>2, OneWalletActs
  <2>3. ASSUME NEW pair \in Named, SetAlias(w, pair[1], pair[2]) PROVE WalletsOK'
    <3> DEFINE a == [n \in DOMAIN wallet[w].alias \cup {pair[2]} |->
                       IF n = pair[2] THEN pair[1] ELSE wallet[w].alias[n]]
    <3>1. wallet' = [wallet EXCEPT ![w].alias = a]
      BY <2>3 DEF SetAlias
    <3>2. \A n \in DOMAIN a : a[n] \in Hex
      BY <2>0, WalletAssumption DEF WalletOK
    <3> HIDE DEF a
    <3>3. WalletOK(w, SentTxs)'
      BY <1>1, <2>0, <3>1, <3>2 DEF WalletOK
    <3> QED
      BY <1>1, <2>0, <3>1, <3>3, OneWalletActs
  <2>4. CASE wallet' = [wallet EXCEPT ![w].UTXOs = GetUtxoForPublicKey(w)]
    <3>1. WalletOK(w, SentTxs)'
      BY <1>1, <2>0, <2>4, BalanceIsOwn DEF WalletOK
    <3> QED
      BY <1>1, <2>0, <2>4, <3>1, OneWalletActs
  <2>5. ASSUME NEW r \in Receivers, NEW value \in Amounts, TransferMoney(w, r, value)
        PROVE  WalletsOK'
    <3>1. PICK t : /\ sent' = Append(sent, t)
                   /\ TransferOK(t)
                   /\ \A k \in DOMAIN sent : Height(sent[k].basis) <= Height(t.basis)
                   /\ wallet' = [wallet EXCEPT ![w].UTXOs = GetUtxoForPublicKey(w),
                                               ![w].pc = "send", ![w].tx = t.tx]
      BY <2>5, TransferMade
    <3>2. t.tx \in SentTxs'
      BY <3>1, NodeKept, SentAdded DEF WalletInv
    <3>3. WalletOK(w, SentTxs)'
      BY <2>0, <3>1, <3>2, BalanceIsOwn DEF WalletOK
    <3> QED
      BY <1>1, <2>0, <3>1, <3>3, OneWalletActs
  <2>6. CASE SubmissionArrives(w)
    <3>1. wallet' = [wallet EXCEPT ![w].pc = "wait"]
      BY <2>6 DEF SubmissionArrives
    <3>2. WalletOK(w, SentTxs)'
      BY <1>1, <2>0, <3>1 DEF WalletOK
    <3> QED
      BY <1>1, <2>0, <3>1, <3>2, OneWalletActs
  <2>7. CASE SubmissionReturns(w)
    <3>1. wallet' = [wallet EXCEPT ![w].pc = "idle", ![w].tx = NIL]
      BY <2>7 DEF SubmissionReturns
    <3>2. WalletOK(w, SentTxs)'
      BY <1>1, <2>0, <3>1 DEF WalletOK
    <3> QED
      BY <1>1, <2>0, <3>1, <3>2, OneWalletActs
  <2>8. GetBalance(w) \/ (\E r \in Receivers : TransferFails(w, r)) =>
          wallet' = [wallet EXCEPT ![w].UTXOs = GetUtxoForPublicKey(w)]
    BY DEF GetBalance, TransferFails
  <2> QED
    BY <1>3, <2>1, <2>2, <2>3, <2>4, <2>5, <2>6, <2>7, <2>8 DEF WalletStep
<1> QED
  BY <1>2, <1>3 DEF WalletNext, walletVars

LEMMA WalletInvInit == WalletInit => WalletInv
<1> SUFFICES ASSUME WalletInit PROVE WalletInv
  OBVIOUS
<1>1. NodeInv
  BY TypeInit, TreeSoundInit, MoneyInit, BranchInit, BoundInit DEF WalletInit, NodeInv
<1>2. sent = <<>> /\ wallet = [w \in Wallets |-> NewWallet]
  BY DEF WalletInit
<1>3. SentOK
  BY <1>2, EmptySeq DEF SentOK
<1>4. WalletsOK
  <2>1. \A w \in Wallets : WalletOK(w, SentTxs)
    BY <1>2 DEF WalletOK, NewWallet, NewLedger
  <2> QED
    BY <1>2, <2>1 DEF WalletsOK
<1> QED
  BY <1>1, <1>3, <1>4 DEF WalletInv

LEMMA WalletInvStep ==
  ASSUME NilIsNoHash
  PROVE  WalletInv /\ [WalletNext]_walletVars => WalletInv'
BY NodeKept, SentStep, WalletsStep DEF WalletInv

(***************************************************************************)
(* What a wallet holds as its balance pays it, and each transaction it has *)
(* sent claims only outputs that paid it on the branch it asked for        *)
(* (TransferMoney, CreatePendingTransaction), whatever the tail has done   *)
(* since.                                                                  *)
(***************************************************************************)
THEOREM WalletTypesAreCorrect ==
  ASSUME NilIsNoHash
  PROVE  WalletSpec => []WalletTypeOK
<1>1. WalletInv => WalletTypeOK
  <2> SUFFICES ASSUME WalletInv PROVE WalletTypeOK
    OBVIOUS
  <2>1. \A w \in Wallets : WalletOK(w, SentTxs)
    BY DEF WalletInv, WalletsOK
  <2>2. \A k \in DOMAIN sent : TransferOK(sent[k])
    BY DEF WalletInv, SentOK
  <2>3. ASSUME NEW k \in DOMAIN sent
        PROVE  /\ sent[k].from \in Wallets
               /\ sent[k].basis \in Hashes
               /\ \A u \in ClaimedUtxos(sent[k].tx) :
                    /\ u \in DOMAIN Chain[sent[k].basis].L
                    /\ Chain[sent[k].basis].L[u].PublicKey = sent[k].from
    BY <2>2 DEF TransferOK, Transfer, Owned
  <2> QED
    BY <2>1, <2>3 DEF WalletTypeOK, WalletOK
<1> QED
  BY <1>1, WalletInvInit, WalletInvStep, PTL DEF WalletSpec

(***************************************************************************)
(* The node keeps its promises to wallets: while they transfer, read their *)
(* balances, lose connections and try again, and while peers put their     *)
(* transactions into blocks (SetTransaction, GetBalance, SetBlock), the    *)
(* tree stays sound, no branch whose amounts are all numbers makes money,  *)
(* none without repeated names claims an output twice, and every ledger a  *)
(* balance is read from is what such a branch left unspent.  (A branch     *)
(* with NAN on it may hold any amount.)                                    *)
(***************************************************************************)
THEOREM NodeServesWallets ==
  ASSUME NilIsNoHash
  PROVE  WalletSpec => [](TreeSound /\ NoInflation /\ LedgerIsUnspentSet /\ BranchesSpendOnce)
<1>1. WalletInv => TreeSound /\ MoneyInv /\ BranchInv /\ BoundInv
  BY DEF WalletInv, NodeInv
<1>2. WalletInv => TreeSound /\ NoInflation /\ LedgerIsUnspentSet /\ BranchesSpendOnce
  BY <1>1, MoneyIsTotal, LedgersFromTallies, SpendOnceFromTallies
<1> QED
  BY <1>2, WalletInvInit, WalletInvStep, PTL DEF WalletSpec

\* A step leaves the tree alone, or adds a block that HandleNewBlock accepts.
LEMMA ServingTreeStep ==
  ASSUME [WalletNext]_walletVars
  PROVE  \/ UNCHANGED blockchain
         \/ \E b : Acceptable(blockchain, b) /\ blockchain' = AddBlock(blockchain, b)
<1>1. CASE UNCHANGED nodeVars
  BY <1>1 DEF nodeVars
<1>2. CASE \E w \in Wallets : SubmissionArrives(w)
  BY <1>2 DEF SubmissionArrives
<1>3. ASSUME NEW b, SetBlock(b)
      PROVE  \/ UNCHANGED blockchain
             \/ Acceptable(blockchain, b) /\ blockchain' = AddBlock(blockchain, b)
  BY <1>3 DEF SetBlock, HandleNewBlock
<1>4. CASE Next
  BY <1>4, TreeStep
<1> QED
  BY <1>1, <1>2, <1>3, <1>4, NodeMoves

(***************************************************************************)
(* And it still implements BlockTree: blocks are added one at a time, and  *)
(* the tail is a best block, whatever wallets and peers do.                *)
(***************************************************************************)
THEOREM ServingNodeKeepsTree ==
  ASSUME NilIsNoHash
  PROVE  WalletSpec => ImplementsBlockTree
<1>1. WalletInit => Tree!Init
  BY TreeInitially DEF WalletInit
<1>2. WalletInv /\ [WalletNext]_walletVars => [Tree!Next]_(Tree!vars)
  <2>1. SUFFICES ASSUME WalletInv, [WalletNext]_walletVars, UNCHANGED blockchain
                 PROVE  UNCHANGED Tree!vars
    BY ServingTreeStep, TreeGrows DEF WalletInv, NodeInv
  <2> QED
    BY <2>1 DEF Tree!vars, Hashes, Chain
<1> QED
  BY <1>1, <1>2, WalletInvInit, WalletInvStep, PTL
     DEF WalletSpec, ImplementsBlockTree, Tree!Spec

-----------------------------------------------------------------------------
(***************************************************************************)
(* Trying again does not pay twice.                                        *)
(***************************************************************************)
\* Of two blocks of one branch, the lower one's branch begins the other's.
LEMMA BasesBegin ==
  ASSUME NodeInv, NEW h \in Hashes, NEW f, NEW g, Above(h, f), Above(h, g),
         Height(f) <= Height(g)
  PROVE  /\ Begins(BranchTxs(f), BranchTxs(g))
         /\ Begins(BranchTxs(g), BranchTxs(h))
<1> DEFINE a(n) == Ancestor(blockchain, h, n)
<1>1. Height(h) \in Nat
  BY UpFacts
<1>2. PICK m \in 0..Height(h) : a(m) = f
  BY <1>1 DEF Above, Height
<1>3. PICK n \in 0..Height(h) : a(n) = g
  BY <1>1 DEF Above, Height
<1>4. m \in Nat /\ n \in Nat
  BY <1>1
<1>5. Height(a(m)) + m = Height(h) /\ Height(a(m)) \in Nat
  <2>1. /\ Height(a(m)) \in Nat
        /\ \/ Height(a(m)) + m = Height(h)
           \/ Height(a(m)) = 0 /\ m >= Height(h)
    BY <1>4, AncestorInTree
  <2> HIDE DEF a
  <2> QED
    BY <1>1, <2>1
<1>6. Height(a(n)) + n = Height(h) /\ Height(a(n)) \in Nat
  <2>1. /\ Height(a(n)) \in Nat
        /\ \/ Height(a(n)) + n = Height(h)
           \/ Height(a(n)) = 0 /\ n >= Height(h)
    BY <1>4, AncestorInTree
  <2> HIDE DEF a
  <2> QED
    BY <1>1, <2>1
<1>7. n <= m
  <2> HIDE DEF a
  <2> QED
    BY <1>1, <1>2, <1>3, <1>4, <1>5, <1>6
<1>8. Begins(BranchTxs(a(m)), BranchTxs(a(n)))
  BY <1>4, <1>7, LowerBegins
<1>9. Begins(BranchTxs(a(n)), BranchTxs(a(0)))
  BY <1>4, LowerBegins
<1>10. a(0) = h
  BY AncestorSteps
<1> QED
  BY <1>2, <1>3, <1>8, <1>9, <1>10

\* Transactions with one hash claim the same outputs and pay the same.
LEMMA HashTells ==
  ASSUME NEW s, NEW t, TxHash(s) = TxHash(t)
  PROVE  /\ ClaimedUtxos(s) = ClaimedUtxos(t)
         /\ s.Outputs = t.Outputs
<1>1. /\ TxHash(s).Outputs = s.Outputs /\ TxHash(t).Outputs = t.Outputs
      /\ TxHash(s).Inputs = [i \in DOMAIN s.Inputs |-> CreateUtxoFromInput(s.Inputs[i])]
      /\ TxHash(t).Inputs = [i \in DOMAIN t.Inputs |-> CreateUtxoFromInput(t.Inputs[i])]
  BY DEF TxHash
<1> DEFINE f == [i \in DOMAIN s.Inputs |-> CreateUtxoFromInput(s.Inputs[i])]
           g == [i \in DOMAIN t.Inputs |-> CreateUtxoFromInput(t.Inputs[i])]
<1>2. f = g
  BY <1>1
<1>3. ClaimedUtxos(s) = {f[i] : i \in DOMAIN f} /\ ClaimedUtxos(t) = {g[i] : i \in DOMAIN g}
  BY DEF ClaimedUtxos
<1> HIDE DEF f, g
<1> QED
  BY <1>1, <1>2, <1>3

\* What a branch spends once no two of its transactions claim.
LEMMA ClaimsApart ==
  ASSUME NEW txs, SpendsOnce(txs), NEW k \in DOMAIN txs, NEW j \in DOMAIN txs, k # j,
         NEW u \in ClaimedUtxos(txs[k])
  PROVE  u \notin ClaimedUtxos(txs[j])
<1> SUFFICES ASSUME u \in ClaimedUtxos(txs[j]) PROVE FALSE
  OBVIOUS
<1>1. PICK i \in DOMAIN txs[k].Inputs : u = CreateUtxoFromInput(txs[k].Inputs[i])
  BY DEF ClaimedUtxos
<1>2. PICK m \in DOMAIN txs[j].Inputs : u = CreateUtxoFromInput(txs[j].Inputs[m])
  BY DEF ClaimedUtxos
<1>3. <<k, i>> # <<j, m>>
  OBVIOUS
<1> QED
  BY <1>1, <1>2, <1>3 DEF SpendsOnce

(***************************************************************************)
(* An output that paid w on a lower block, and is not claimed above it, is *)
(* there on a higher one, and pays w.                                      *)
(***************************************************************************)
LEMMA StillOwned ==
  ASSUME NodeInv, NEW f \in Hashes, NEW g \in Hashes, Begins(BranchTxs(f), BranchTxs(g)),
         DistinctIds(BranchTxs(g)), NEW w, NEW u \in Owned(Chain[f].L, w),
         u \notin Claimed(BranchTxs(g))
  PROVE  u \in Owned(Chain[g].L, w)
<1>1. DistinctIds(BranchTxs(f))
  BY BeginsDistinct
<1>2. /\ DOMAIN Chain[f].L = Created(BranchTxs(f)) \ Claimed(BranchTxs(f))
      /\ DOMAIN Chain[g].L = Created(BranchTxs(g)) \ Claimed(BranchTxs(g))
  BY <1>1 DEF NodeInv, BranchInv, BranchesOK, Tally
<1>3. u \in DOMAIN Chain[f].L /\ Chain[f].L[u].PublicKey = w
  BY DEF Owned
<1>4. u \in Created(BranchTxs(g))
  <2>1. u \in Created(BranchTxs(f))
    BY <1>2, <1>3
  <2>2. PICK k \in DOMAIN BranchTxs(f) :
          u \in {UtxoLite(TxHash(BranchTxs(f)[k]), i - 1) : i \in DOMAIN BranchTxs(f)[k].Outputs}
    BY <2>1 DEF Created
  <2>3. k \in DOMAIN BranchTxs(g) /\ BranchTxs(g)[k] = BranchTxs(f)[k]
    BY DEF Begins
  <2> QED
    BY <2>2, <2>3 DEF Created
<1>5. u \in DOMAIN Chain[g].L
  BY <1>2, <1>4
<1>6. Chain[g].L[u] = Chain[f].L[u]
  <2>1. LedgerOK(Chain[f].L) /\ LedgerOK(Chain[g].L)
    BY DEF NodeInv, MoneyInv, LedgersOK
  <2> QED
    BY <1>3, <1>5, <2>1 DEF LedgerOK
<1> QED
  BY <1>3, <1>5, <1>6 DEF Owned

LEMMA PaysOnceHolds == WalletInv => PaysOnce
<1> SUFFICES ASSUME WalletInv,
                    NEW h \in Hashes, NEW i \in DOMAIN sent, NEW j \in DOMAIN sent, i < j,
                    sent[i].from = sent[j].from,
                    TxHash(sent[i].tx) # TxHash(sent[j].tx),
                    Above(h, sent[i].basis), Above(h, sent[j].basis),
                    DistinctIds(BranchTxs(h)),
                    IsOn(sent[i].tx, h), IsOn(sent[j].tx, h),
                    ~IsOn(sent[i].tx, sent[j].basis)
             PROVE  FALSE
  BY DEF PaysOnce
<1> DEFINE f == sent[i].basis
           g == sent[j].basis
           w == sent[i].from
           B == BranchTxs(h)
<1>1. NodeInv /\ SentOK
  BY DEF WalletInv
<1>2. /\ f \in Hashes /\ Transfer(sent[i].tx, w, Chain[f].L)
      /\ g \in Hashes /\ Transfer(sent[j].tx, w, Chain[g].L)
      /\ Height(f) <= Height(g)
  BY <1>1 DEF SentOK, TransferOK
<1>3. Begins(BranchTxs(f), BranchTxs(g)) /\ Begins(BranchTxs(g), B)
  BY <1>1, <1>2, BasesBegin
<1>4. PICK k \in DOMAIN B : TxHash(B[k]) = TxHash(sent[i].tx)
  BY DEF IsOn
<1>5. PICK m \in DOMAIN B : TxHash(B[m]) = TxHash(sent[j].tx)
  BY DEF IsOn
<1>6. k # m
  BY <1>4, <1>5
<1>7. /\ ClaimedUtxos(B[k]) = ClaimedUtxos(sent[i].tx) /\ B[k].Outputs = sent[i].tx.Outputs
      /\ ClaimedUtxos(B[m]) = ClaimedUtxos(sent[j].tx)
  BY <1>4, <1>5, HashTells
<1>8. SpendsOnce(B) /\ NoDebts(B)
  BY <1>1, BranchesOweNothing DEF NodeInv, BranchInv, BranchesOK, Tally
<1>9. DistinctIds(BranchTxs(g))
  BY <1>3, BeginsDistinct
<1> HIDE DEF f, g, w, B
<1>10. ClaimedUtxos(sent[i].tx) # {}
  <2>1. Len(B[k].Outputs) = 1 \/ NoDebt(B[k])
    BY <1>1, <1>8, CoinbasesAreSingle DEF NoDebts
  <2>2. Len(sent[i].tx.Outputs) = 2 /\ (ClaimedUtxos(sent[i].tx) = {} => ~NoDebt(sent[i].tx))
    BY <1>2 DEF Transfer
  <2> QED
    BY <1>7, <2>1, <2>2 DEF NoDebt
<1>11. PICK u : u \in ClaimedUtxos(sent[i].tx)
  BY <1>10
<1>12. u \in Owned(Chain[f].L, w)
  BY <1>2, <1>11 DEF Transfer
<1>13. u \notin Claimed(BranchTxs(g))
  <2> SUFFICES ASSUME NEW q \in DOMAIN BranchTxs(g), u \in ClaimedUtxos(BranchTxs(g)[q])
               PROVE  FALSE
    BY DEF Claimed
  <2>1. q \in DOMAIN B /\ B[q] = BranchTxs(g)[q]
    BY <1>3 DEF Begins
  <2>2. q # k
    BY <1>4, <2>1 DEF IsOn, g
  <2>3. u \in ClaimedUtxos(B[q]) /\ u \in ClaimedUtxos(B[k])
    BY <1>7, <1>11, <2>1
  <2> QED
    BY <1>8, <2>1, <2>2, <2>3, ClaimsApart
<1>14. u \in Owned(Chain[g].L, w)
  BY <1>1, <1>2, <1>3, <1>9, <1>12, <1>13, StillOwned
<1>15. u \in ClaimedUtxos(B[m]) /\ u \in ClaimedUtxos(B[k])
  BY <1>2, <1>7, <1>11, <1>14 DEF Transfer
<1> QED
  BY <1>6, <1>8, <1>15, ClaimsApart

(***************************************************************************)
(* A wallet that tries again before its first transfer is confirmed does   *)
(* not pay twice: no branch has both, whatever was lost, answered late or  *)
(* reorganised in between (TransferMoney on GetBalance's CONFIRMATION-deep *)
(* ledger; CreatePendingTransaction claims everything; rules 1 and 5 of    *)
(* IsValidTransaction).  For every number of wallets, transfers and peers' *)
(* blocks, and every depth of confirmation.                                *)
(***************************************************************************)
THEOREM TryingAgainPaysOnce ==
  ASSUME NilIsNoHash
  PROVE  WalletSpec => []PaysOnce
BY WalletInvInit, WalletInvStep, PaysOnceHolds, PTL DEF WalletSpec

-----------------------------------------------------------------------------
(***************************************************************************)
(* Transfers lose no money.  A transaction is even when its amounts are    *)
(* numbers and it pays out what it claims, on every ledger that has that.  *)
(***************************************************************************)
Even(tx) ==
  /\ HasNumbers(tx)
  /\ \A l : LedgerOK(l) /\ ClaimedUtxos(tx) \subseteq DOMAIN l
             => TotalInput(tx, l) = TotalOutput(tx)

LEMMA TransfersAreEven ==
  ASSUME NEW tx, NEW w, NEW m, LedgerOK(m), HoldsNumbers(m), Transfer(tx, w, m)
  PROVE  Even(tx)
<1> SUFFICES ASSUME NEW l, LedgerOK(l), ClaimedUtxos(tx) \subseteq DOMAIN l
             PROVE  TotalInput(tx, l) = TotalOutput(tx)
  BY DEF Even, Transfer
<1>1. ClaimedUtxos(tx) \subseteq DOMAIN m /\ TotalInput(tx, m) = TotalOutput(tx)
  BY DEF Transfer, Owned
<1>2. \A i \in DOMAIN tx.Inputs : l[CreateUtxoFromInput(tx.Inputs[i])]
                                  = m[CreateUtxoFromInput(tx.Inputs[i])]
  <2> SUFFICES ASSUME NEW i \in DOMAIN tx.Inputs
               PROVE  l[CreateUtxoFromInput(tx.Inputs[i])] = m[CreateUtxoFromInput(tx.Inputs[i])]
    OBVIOUS
  <2> DEFINE u == CreateUtxoFromInput(tx.Inputs[i])
  <2>1. u \in ClaimedUtxos(tx)
    BY DEF ClaimedUtxos
  <2>2. u \in DOMAIN l /\ u \in DOMAIN m
    BY <1>1, <2>1
  <2> HIDE DEF u
  <2>3. l[u] = m[u]
    BY <2>2 DEF LedgerOK
  <2> QED
    BY <2>3 DEF u
<1>3. TotalInput(tx, l) = TotalInput(tx, m)
  <2>1. [i \in DOMAIN tx.Inputs |-> l[CreateUtxoFromInput(tx.Inputs[i])].Value]
        = [i \in DOMAIN tx.Inputs |-> m[CreateUtxoFromInput(tx.Inputs[i])].Value]
    BY <1>2
  <2> QED
    BY <2>1 DEF TotalInput
<1> QED
  BY <1>1, <1>3

\* Even transactions pay no fee, and no tip.
LEMMA EvenFee ==
  ASSUME NEW txs, IsTransactionList(txs), NEW l, LedgerOK(l), FeeIsDefined(txs, l),
         \A k \in DOMAIN txs : Even(txs[k])
  PROVE  CalcTxFee(txs, l) = 0
<1> DEFINE D == DOMAIN txs
           f == [k \in D |-> Minus(TotalOutput(txs[k]), TotalInput(txs[k], l))]
<1>1. IsFiniteSet(D)
  BY ListDomain
<1>2. \A k \in D : f[k] = 0
  <2> SUFFICES ASSUME NEW k \in D PROVE f[k] = 0
    OBVIOUS
  <2>1. IsTransaction(txs[k]) /\ ClaimedUtxos(txs[k]) \subseteq DOMAIN l
    BY DEF IsTransactionList, FeeIsDefined
  <2>2. TotalInput(txs[k], l) = TotalOutput(txs[k]) /\ TotalOutput(txs[k]) \in Int
    BY <2>1, CreatedSum DEF Even
  <2>3. Minus(TotalOutput(txs[k]), TotalInput(txs[k], l))
          = TotalOutput(txs[k]) - TotalOutput(txs[k])
    BY <2>2, NumberArithmetic
  <2> QED
    BY <2>2, <2>3
<1>3. CalcTxFee(txs, l) = SumFunctionOnSet(f, D)
  <2>1. CalcTxFee(txs, l) = SumOf(f) /\ DOMAIN f = D
    BY DEF CalcTxFee
  <2> HIDE DEF f
  <2>2. \A k \in DOMAIN f : f[k] \in Int
    BY <1>2, <2>1
  <2> QED
    BY <2>1, <2>2, SumOfNumbers
<1> HIDE DEF f, D
<1>4. SumFunctionOnSet(f, D) \in Int /\ SumFunctionOnSet(f, D) >= 0
  BY <1>1, <1>2, SumIsNatural
<1>5. SumFunctionOnSet(f, D) <= 0
  BY <1>1, <1>2, SumIsNotPositive
<1> QED
  BY <1>3, <1>4, <1>5

(***************************************************************************)
(* Where names are fresh, processing is exact: the ledger gets what the    *)
(* transaction pays and loses what it claims.                              *)
(***************************************************************************)
LEMMA ExactTotal ==
  ASSUME NEW tx, IsTransaction(tx), HasNumbers(tx), NEW l, LedgerOK(l), HoldsNumbers(l),
         NEW C, C = ClaimedUtxos(tx),
         IsFiniteSet(C), C \subseteq DOMAIN l, CreatedUtxos(tx) \cap DOMAIN l = {}
  PROVE  /\ Total(ProcessInputsAndOutputs(tx, l))
              = Total(l) - SumFunctionOnSet(Values(l), C) + TotalOutput(tx)
         /\ SumFunctionOnSet(Values(l), C) \in Int
<1> DEFINE A == DOMAIN l \ ClaimedUtxos(tx)
           K == CreatedUtxos(tx) \ A
           N == CreatedUtxos(tx)
           c == SumFunctionOnSet(Values(l), C)
           a == SumFunctionOnSet(Values(l), A)
           k == SumFunctionOnSet(Made(tx), K)
<1>1. /\ IsFiniteSet(A) /\ IsFiniteSet(K)
      /\ Total(ProcessInputsAndOutputs(tx, l)) = a + k
      /\ a \in Int /\ k \in Int
  BY ProcessedTotal
<1>2. Total(l) = a + c /\ c \in Int
  <2>1. \A u \in A \cup C : Values(l)[u] \in Int
    BY DEF HoldsNumbers, Values
  <2>2. A \cup C = DOMAIN l /\ A \cap C = {}
    OBVIOUS
  <2>3. Total(l) = SumFunctionOnSet(Values(l), A \cup C)
    BY <2>2, TotalIsInt
  <2> HIDE DEF A
  <2>4. SumFunctionOnSet(Values(l), A \cup C) = a + c
    BY <1>1, <2>1, <2>2, SumOfUnion
  <2>5. c \in Int
    BY <2>1, SumTakesOut
  <2> QED
    BY <2>3, <2>4, <2>5
<1>3. K = N
  OBVIOUS
<1>4. TotalOutput(tx) = k
  BY <1>3, CreatedSum DEF Made
<1> HIDE DEF A, K, N, a, c, k
<1> QED
  BY <1>1, <1>2, <1>4 DEF c

\* No transaction of a list without repeated names makes an output the others
\* made.
LEMMA FreshNames ==
  ASSUME NEW txs, IsTransactionList(txs), NEW tx, IsTransaction(tx),
         DistinctIds(Append(txs, tx))
  PROVE  CreatedUtxos(tx) \cap Created(txs) = {}
<1> SUFFICES ASSUME NEW u \in CreatedUtxos(tx), u \in Created(txs) PROVE FALSE
  OBVIOUS
<1> DEFINE a == Append(txs, tx)
           n == Len(txs) + 1
<1>1. /\ DOMAIN txs = 1..Len(txs) /\ Len(txs) \in Nat
      /\ DOMAIN a = 1..n
      /\ a[n] = tx
      /\ \A k \in 1..Len(txs) : a[k] = txs[k]
  BY ListDomain, ListGrows
<1>2. u.PrevTxHash = TxHash(tx)
  <2>1. PICK i \in DOMAIN tx.Outputs : u = UtxoLite(TxHash(tx), i - 1)
    BY DEF CreatedUtxos
  <2> QED
    BY <2>1, UtxoFields
<1>3. PICK k \in DOMAIN txs : u.PrevTxHash = TxHash(txs[k])
  <2>1. PICK k \in DOMAIN txs :
          u \in {UtxoLite(TxHash(txs[k]), i - 1) : i \in DOMAIN txs[k].Outputs}
    BY DEF Created
  <2>2. PICK i \in DOMAIN txs[k].Outputs : u = UtxoLite(TxHash(txs[k]), i - 1)
    BY <2>1
  <2>3. u.PrevTxHash = TxHash(txs[k])
    BY <2>2, UtxoFields
  <2> QED
    BY <2>3
<1>4. \A i, j \in DOMAIN a : TxHash(a[i]) = TxHash(a[j]) => i = j
  BY DistinctMeans
<1> HIDE DEF a
<1>5. k \in DOMAIN a /\ n \in DOMAIN a /\ k # n
  BY <1>1
<1>6. TxHash(a[k]) = TxHash(a[n])
  BY <1>1, <1>2, <1>3
<1> QED
  BY <1>4, <1>5, <1>6

LEMMA BeginsAppended ==
  ASSUME NEW a, IsTransactionList(a), NEW tx, IsTransaction(tx)
  PROVE  Begins(a, Append(a, tx))
<1>1. /\ DOMAIN a = 1..Len(a) /\ Len(a) \in Nat
      /\ DOMAIN Append(a, tx) = 1..(Len(a) + 1)
      /\ \A k \in 1..Len(a) : Append(a, tx)[k] = a[k]
  BY ListDomain, ListGrows
<1> HIDE DEF IsTransactionList
<1> QED
  BY <1>1 DEF Begins

(***************************************************************************)
(* A run of even transactions, without repeated names, leaves the money    *)
(* what it was,                                                            *)
(***************************************************************************)
LEMMA RunIsExact ==
  ASSUME NEW base, IsTransactionList(base),
         NEW l, LedgerOK(l), HoldsNumbers(l), Tally(base, DOMAIN l),
         NEW txs, IsTransactionList(txs), HandleTransactions(txs, l).errTxs = <<>>,
         \A k \in DOMAIN txs : Even(txs[k]), DistinctIds(base \o txs)
  PROVE  Total(HandleTransactions(txs, l).L) = Total(l)
<1> DEFINE N == Len(txs)
           m(k) == Run(txs, l, k).L
           done(k) == Done(base, txs, k)
           D == {j \in 0..N : DistinctIds(done(N - j))}
           T == {k \in 0..N : HoldsNumbers(m(k)) /\ Total(m(k)) = Total(l)}
<1>1. N \in Nat /\ DOMAIN txs = 1..N
  BY ListDomain
<1>2. HandleTransactions(txs, l).L = m(N) /\ m(0) = l
  BY <1>1, HandleTransactionsRun DEF Nothing
<1>3. \A k \in 1..N : /\ IsValidTransaction(txs[k], m(k - 1))
                      /\ m(k) = ProcessInputsAndOutputs(txs[k], m(k - 1))
  BY <1>1, AllWereValid
<1>4. \A k \in 0..N : /\ IsTransactionList(done(k))
                      /\ LedgerOK(m(k))
                      /\ Tally(done(k), DOMAIN m(k))
  BY TallyOfRun DEF RunOK
<1>5. \A k \in 1..N : IsTransaction(txs[k]) /\ done(k) = Append(done(k - 1), txs[k])
  BY <1>1, TallyOfRun DEF IsTransactionList
<1>6. done(N) = base \o txs
  BY <1>1, SubSeqFull DEF Done, IsTransactionList
<1> HIDE DEF m, done, N
<1>7. \A k \in 0..N : DistinctIds(done(k))
  <2>1. 0 \in D
    <3>1. N - 0 = N /\ 0 \in 0..N
      BY <1>1
    <3>2. DistinctIds(done(N - 0))
      BY <1>6, <3>1
    <3> QED
      BY <3>1, <3>2
  <2>2. ASSUME NEW j \in 1..N, j - 1 \in D PROVE j \in D
    <3>1. N - (j - 1) \in 1..N /\ (N - (j - 1)) - 1 = N - j /\ N - j \in 0..N
      BY <1>1
    <3>2. /\ IsTransaction(txs[N - (j - 1)])
          /\ done(N - (j - 1)) = Append(done(N - j), txs[N - (j - 1)])
      BY <1>5, <3>1
    <3>3. IsTransactionList(done(N - j))
      BY <1>4, <3>1
    <3>4. Begins(done(N - j), done(N - (j - 1)))
      BY <3>2, <3>3, BeginsAppended
    <3>5. DistinctIds(done(N - (j - 1)))
      BY <2>2
    <3>6. DistinctIds(done(N - j))
      BY <3>4, <3>5, BeginsDistinct
    <3> QED
      BY <3>6
  <2>3. \A j \in 0..N : j \in D
    <3> HIDE DEF D
    <3> QED
      BY <1>1, <2>1, <2>2, CountUp
  <2> SUFFICES ASSUME NEW k \in 0..N PROVE DistinctIds(done(k))
    OBVIOUS
  <2>4. N - k \in 0..N /\ N - (N - k) = k
    BY <1>1
  <2> QED
    BY <2>3, <2>4
<1>8. ASSUME NEW k \in 1..N, k - 1 \in T PROVE k \in T
  <2>1. k - 1 \in 0..N /\ k \in 0..N
    BY <1>1
  <2>2. PICK p : p = m(k - 1)
    OBVIOUS
  <2>3. /\ LedgerOK(p)
        /\ IsTransactionList(done(k - 1))
        /\ Tally(done(k - 1), DOMAIN p)
    BY <1>4, <2>1, <2>2
  <2>4. /\ IsTransaction(txs[k])
        /\ IsValidTransaction(txs[k], p)
        /\ m(k) = ProcessInputsAndOutputs(txs[k], p)
        /\ HoldsNumbers(p)
        /\ HasNumbers(txs[k])
    BY <1>1, <1>3, <1>5, <1>8, <2>2 DEF Even
  <2>5. CreatedUtxos(txs[k]) \cap DOMAIN p = {}
    <3>1. DistinctIds(done(k - 1))
      BY <1>7, <2>1
    <3>2. DOMAIN p \subseteq Created(done(k - 1))
      BY <2>3, <3>1 DEF Tally
    <3>3. DistinctIds(Append(done(k - 1), txs[k]))
      BY <1>5, <1>7, <2>1
    <3>4. CreatedUtxos(txs[k]) \cap Created(done(k - 1)) = {}
      BY <2>3, <2>4, <3>3, FreshNames
    <3> QED
      BY <3>2, <3>4
  <2>6. /\ IsFiniteSet(ClaimedUtxos(txs[k]))
        /\ TotalInput(txs[k], p) = SumFunctionOnSet(Values(p), ClaimedUtxos(txs[k]))
    BY <2>3, <2>4, ClaimedSum DEF Values
  <2>7. ClaimedUtxos(txs[k]) \subseteq DOMAIN p
    BY <2>4 DEF IsValidTransaction
  <2>8. TotalInput(txs[k], p) = TotalOutput(txs[k])
    BY <1>1, <2>3, <2>7 DEF Even
  <2>9. /\ Total(ProcessInputsAndOutputs(txs[k], p))
             = Total(p) - SumFunctionOnSet(Values(p), ClaimedUtxos(txs[k]))
                 + TotalOutput(txs[k])
        /\ SumFunctionOnSet(Values(p), ClaimedUtxos(txs[k])) \in Int
    BY <2>3, <2>4, <2>5, <2>6, <2>7, ExactTotal
  <2>10. Total(p) \in Int
    BY <2>3, <2>4, TotalIsInt
  <2>11. Total(m(k)) = Total(p)
    <3>1. \A a, c : a \in Int /\ c \in Int => a - c + c = a
      OBVIOUS
    <3>2. TotalOutput(txs[k]) = SumFunctionOnSet(Values(p), ClaimedUtxos(txs[k]))
      BY <2>6, <2>8
    <3>3. Total(m(k)) = Total(p) - TotalOutput(txs[k]) + TotalOutput(txs[k])
      BY <2>4, <2>9, <3>2
    <3>4. TotalOutput(txs[k]) \in Int
      BY <2>9, <3>2
    <3> QED
      BY <2>10, <3>1, <3>3, <3>4
  <2>12. Total(p) = Total(l)
    BY <1>8, <2>2
  <2>13. HoldsNumbers(m(k))
    BY <2>3, <2>4, ProcessedNumbers
  <2> QED
    BY <2>1, <2>11, <2>12, <2>13
<1>9. N \in T
  <2>1. 0 \in T
    BY <1>1, <1>2
  <2>2. \A k \in 0..N : k \in T
    <3> HIDE DEF T
    <3> QED
      BY <1>1, <1>8, <2>1, CountUp
  <2> QED
    BY <1>1, <2>2
<1> QED
  BY <1>2, <1>9

\* so a block of them adds what its coinbase pays.
LEMMA BodyIsExact ==
  ASSUME NEW base, IsTransactionList(base),
         NEW l, LedgerOK(l), HoldsNumbers(l), Tally(base, DOMAIN l),
         NEW b, IsBody(b), BodyValid(b, l), HasNumbers(b.Coinbase),
         \A k \in DOMAIN b.Txs : Even(b.Txs[k]),
         DistinctIds(Append(base \o b.Txs, b.Coinbase))
  PROVE  Total(LedgerAfter(b, l)) = Total(l) + TotalOutput(b.Coinbase)
<1> DEFINE txs == b.Txs
           c == b.Coinbase
           N == Len(txs)
           m == HandleTransactions(txs, l).L
<1>1. /\ IsTransactionList(txs) /\ IsTransaction(c)
      /\ HandleTransactions(txs, l).errTxs = <<>>
      /\ Len(c.Inputs) = 0
  BY DEF IsBody, BodyValid, IsValidCoinbase
<1>2. N \in Nat /\ DOMAIN txs = 1..N
  BY <1>1, ListDomain
<1>3. m = Run(txs, l, N).L
  BY <1>2, HandleTransactionsRun
<1>4. Done(base, txs, N) = base \o txs
  BY <1>1, <1>2, SubSeqFull DEF Done, IsTransactionList
<1>5. /\ IsTransactionList(base \o txs)
      /\ LedgerOK(m)
      /\ Tally(base \o txs, DOMAIN m)
  <2>1. RunOK(base, txs, l, N)
    BY <1>1, <1>2, TallyOfRun
  <2> QED
    BY <1>3, <1>4, <2>1 DEF RunOK
<1>6. ClaimedUtxos(c) = {}
  <2>1. DOMAIN c.Inputs = {}
    BY <1>1, TransactionLists
  <2> QED
    BY <2>1 DEF ClaimedUtxos
<1>7. LedgerAfter(b, l) = ProcessInputsAndOutputs(c, m)
  BY DEF LedgerAfter
<1>8. HasNumbers(c) /\ \A k \in DOMAIN txs : Even(txs[k])
  OBVIOUS
<1>9. DistinctIds(Append(base \o txs, c))
  OBVIOUS
<1>n. HoldsNumbers(m)
  <2>1. OnlyNumbers(txs)
    BY <1>8 DEF OnlyNumbers, Even
  <2> HIDE DEF txs
  <2> QED
    BY <1>1, <2>1, TransactionsMakeNothing
<1> HIDE DEF txs, c, m, N
<1>10. DistinctIds(base \o txs)
  <2>1. Begins(base \o txs, Append(base \o txs, c))
    BY <1>1, <1>5, BeginsAppended
  <2> QED
    BY <1>9, <2>1, BeginsDistinct
<1>11. Total(m) = Total(l)
  <2>1. Total(HandleTransactions(txs, l).L) = Total(l)
    BY <1>1, <1>8, <1>10, RunIsExact
  <2> QED
    BY <2>1 DEF m
<1>12. CreatedUtxos(c) \cap DOMAIN m = {}
  <2>1. DOMAIN m \subseteq Created(base \o txs)
    BY <1>5, <1>10 DEF Tally
  <2>2. CreatedUtxos(c) \cap Created(base \o txs) = {}
    BY <1>1, <1>5, <1>9, FreshNames
  <2> QED
    BY <2>1, <2>2
<1>13. Total(ProcessInputsAndOutputs(c, m))
         = Total(m) - SumFunctionOnSet(Values(m), {}) + TotalOutput(c)
  <2>1. IsFiniteSet({}) /\ {} \subseteq DOMAIN m
    BY FS_EmptySet
  <2> QED
    BY <1>1, <1>n, <1>5, <1>6, <1>8, <1>12, <2>1, ExactTotal
<1>14. SumFunctionOnSet(Values(m), {}) = 0
  BY SumOfNothing
<1>15. Total(m) \in Int /\ TotalOutput(c) \in Int
  BY <1>1, <1>n, <1>5, <1>8, TotalIsInt, CreatedSum
<1>16. Total(ProcessInputsAndOutputs(c, m)) = Total(m) + TotalOutput(c)
  <2>1. \A a, o \in Int : a - 0 + o = a + o
    OBVIOUS
  <2> QED
    BY <1>13, <1>14, <1>15, <2>1
<1> QED
  BY <1>7, <1>11, <1>16 DEF c

(***************************************************************************)
(* Where peers put only transfers into their blocks and claim full         *)
(* rewards, nothing else is under way, in a block, or being mined, and     *)
(* every amount is a number.                                               *)
(***************************************************************************)
OnlyTransfers(b, txs) ==
  /\ \A k \in DOMAIN b.Txs : b.Txs[k] \in txs
  /\ TotalOutput(b.Coinbase) = COINBASE_REWARD

RewardInv ==
  /\ txPool \cup checked \subseteq SentTxs
  /\ \A h \in Hashes \ {GENESIS_HASH} : OnlyTransfers(Chain[h].B, SentTxs)
  /\ \A h \in Hashes : HoldsNumbers(Chain[h].L)
  /\ miner.pc = "mining" => OnlyTransfers(miner.block, SentTxs)

LEMMA SentAreEven ==
  ASSUME NodeInv, SentOK, RewardInv, NEW tx \in SentTxs
  PROVE  Even(tx)
<1>1. PICK k \in DOMAIN sent : tx = sent[k].tx
  BY DEF SentTxs
<1> DEFINE w == sent[k].from
           l == Chain[sent[k].basis].L
<1>2. Transfer(tx, w, l) /\ sent[k].basis \in Hashes
  BY <1>1 DEF SentOK, TransferOK
<1>3. LedgerOK(l) /\ HoldsNumbers(l)
  BY <1>2 DEF NodeInv, MoneyInv, LedgersOK, RewardInv
<1> HIDE DEF w, l
<1> QED
  BY <1>2, <1>3, TransfersAreEven

\* The miner's block claims the full reward.
LEMMA CandidatePaysReward ==
  ASSUME NodeInv, SentOK, RewardInv, NEW txs \in SetToSeqs(txPool),
         FeeIsDefined(txs, TailLedger)
  PROVE  OnlyTransfers(Candidate(txs), SentTxs)
<1> DEFINE b == Candidate(txs)
           v == Plus(COINBASE_REWARD, CalcTxFee(txs, TailLedger))
<1>1. /\ PoolOK
      /\ LedgerOK(TailLedger)
  BY DEF NodeInv, MoneyInv, LedgersOK, TypeOK, TailLedger, Chain, Hashes
<1>2. IsTransactionList(txs)
  BY <1>1, PoolOrders
<1>3. \A k \in DOMAIN txs : txs[k] \in SentTxs
  <2>1. IsFiniteSet(txPool)
    BY <1>1 DEF PoolOK
  <2>2. txs \in Seq(txPool)
    BY <2>1, OrdersArePermutations
  <2>3. \A k \in DOMAIN txs : txs[k] \in txPool
    BY <2>2
  <2> QED
    BY <2>3 DEF RewardInv
<1>4. \A k \in DOMAIN txs : Even(txs[k])
  BY <1>3, SentAreEven
<1>5. CalcTxFee(txs, TailLedger) = 0
  <2> HIDE DEF b, v
  <2> QED
    BY <1>1, <1>2, <1>4, EvenFee
<1>6. v = COINBASE_REWARD /\ v \in Int
  BY <1>5, RewardIsNat, NumbersAreAmounts DEF Plus
<1> HIDE DEF v
<1>7. /\ b.Txs = txs
      /\ b.Coinbase.Outputs = <<[Value |-> v, PublicKey |-> SELF]>>
  BY DEF Candidate, CreateCoinbaseTx, v
<1> HIDE DEF b
<1>8. TotalOutput(b.Coinbase) = v
  <2> DEFINE x == [Value |-> v, PublicKey |-> SELF]
  <2>1. x.Value = v
    OBVIOUS
  <2>2. b.Coinbase.Outputs = <<x>>
    BY <1>7
  <2> HIDE DEF x
  <2>3. x.Value \in Amount
    BY <1>6, <2>1, NumbersAreAmounts
  <2>4. DOMAIN b.Coinbase.Outputs = {1} /\ b.Coinbase.Outputs[1] = x
    BY <2>2
  <2> QED
    BY <2>1, <2>3, <2>4, TotalOfSingle
<1> QED
  BY <1>3, <1>6, <1>7, <1>8 DEF OnlyTransfers, b

LEMMA PeersPutTransfers ==
  ASSUME WireTxs \subseteq {<<>>}, FullRewards, NEW b \in PeerBlock
  PROVE  OnlyTransfers(b, SentTxs)
<1>1. /\ b.Coinbase \in WireCoinbase
      /\ \/ b.Txs \in WireTxs
         \/ \E k \in DOMAIN sent : b.Txs = <<sent[k].tx>>
  BY DEF PeerBlock
<1>2. TotalOutput(b.Coinbase) = COINBASE_REWARD
  BY <1>1 DEF FullRewards
<1>3. \A i \in DOMAIN b.Txs : b.Txs[i] \in SentTxs
  <2>1. CASE b.Txs = <<>>
    BY <2>1
  <2>2. ASSUME NEW k \in DOMAIN sent, b.Txs = <<sent[k].tx>>
        PROVE  \A i \in DOMAIN b.Txs : b.Txs[i] \in SentTxs
    <3>1. sent[k].tx \in SentTxs
      BY DEF SentTxs
    <3>2. DOMAIN b.Txs = {1} /\ b.Txs[1] = sent[k].tx
      BY <2>2
    <3> QED
      BY <3>1, <3>2
  <2> QED
    BY <1>1, <2>1, <2>2
<1> QED
  BY <1>2, <1>3 DEF OnlyTransfers

\* The pool and the submissions under way,
LEMMA PoolOfTransfers ==
  ASSUME NilIsNoHash, WalletInv, RewardInv, [WalletNext]_walletVars
  PROVE  (txPool \cup checked)' \subseteq SentTxs'
<1>1. SentTxs \subseteq SentTxs' /\ txPool \cup checked \subseteq SentTxs
  BY SentStep DEF RewardInv
<1>2. ASSUME NEW w \in Wallets, WalletStep(w)
      PROVE  (txPool \cup checked)' \subseteq SentTxs'
  <2>1. CASE UNCHANGED nodeVars
    BY <1>1, <2>1 DEF nodeVars
  <2>2. CASE SubmissionArrives(w)
    <3>1. wallet[w].tx \in SentTxs
      BY <2>2 DEF SubmissionArrives, WalletInv, WalletsOK, WalletOK
    <3>2. txPool' = txPool /\ checked' \subseteq checked \cup {wallet[w].tx}
      BY <2>2 DEF SubmissionArrives
    <3> QED
      BY <1>1, <3>1, <3>2
  <2> QED
    BY <1>2, <2>1, <2>2 DEF WalletStep, Connect, ConnectionChanges, SetAlias, GetBalance,
         TransferFails, TransferMoney, SubmissionReturns
<1>3. CASE NodeStep
  <2>1. (txPool \cup checked)' \subseteq txPool \cup checked
    BY <1>3 DEF NodeStep, AddTransactionToPool, SetBlock, MinerReadHeight, CreateNewBlock,
                RemoveErrTx, MinerInterrupted, MinerFound, HandleNewBlock, WithoutHashes
  <2> QED
    BY <1>1, <2>1
<1>4. CASE UNCHANGED walletVars
  BY <1>1, <1>4 DEF walletVars, nodeVars
<1> QED
  BY <1>2, <1>3, <1>4 DEF WalletNext

\* the ledger such a block makes,
LEMMA TransfersMakeNumbers ==
  ASSUME NodeInv, SentOK, RewardInv, NEW b, IsBody(b), OnlyTransfers(b, SentTxs),
         NEW l, LedgerOK(l), HoldsNumbers(l), BodyValid(b, l)
  PROVE  HoldsNumbers(LedgerAfter(b, l))
<1> DEFINE txs == b.Txs
           c == b.Coinbase
           m == HandleTransactions(txs, l).L
<1>1. /\ IsTransactionList(txs) /\ IsTransaction(c)
      /\ Len(c.Outputs) = 1 /\ TotalOutput(c) = COINBASE_REWARD
      /\ \A k \in DOMAIN txs : txs[k] \in SentTxs
  BY DEF IsBody, BodyValid, IsValidCoinbase, OnlyTransfers
<1>2. LedgerAfter(b, l) = ProcessInputsAndOutputs(c, m)
  BY DEF LedgerAfter
<1> HIDE DEF txs, c
<1>3. OnlyNumbers(txs)
  BY <1>1, SentAreEven DEF OnlyNumbers, Even
<1>4. HasNumbers(c)
  BY <1>1, RewardIsNat, TotalOfCoinbase
<1>5. LedgerOK(m) /\ HoldsNumbers(m)
  BY <1>1, <1>3, TransactionsKeepLedger, TransactionsMakeNothing
<1> HIDE DEF m
<1> QED
  BY <1>1, <1>2, <1>4, <1>5, ProcessedNumbers

\* the blocks and ledgers of the tree,
LEMMA BlocksOfTransfers ==
  ASSUME NilIsNoHash, WireTxs \subseteq {<<>>}, FullRewards, WalletInv, RewardInv,
         [WalletNext]_walletVars
  PROVE  /\ \A h \in Hashes' \ {GENESIS_HASH} : OnlyTransfers(Chain'[h].B, SentTxs')
         /\ \A h \in Hashes' : HoldsNumbers(Chain'[h].L)
<1> DEFINE Good == /\ \A h \in Hashes' \ {GENESIS_HASH} : OnlyTransfers(Chain'[h].B, SentTxs')
                   /\ \A h \in Hashes' : HoldsNumbers(Chain'[h].L)
<1>1. SentTxs \subseteq SentTxs' /\ TypeOK /\ NodeInv /\ SentOK
  BY SentStep DEF WalletInv, NodeInv
<1>2. /\ \A h \in Hashes \ {GENESIS_HASH} : OnlyTransfers(Chain[h].B, SentTxs')
      /\ \A h \in Hashes : HoldsNumbers(Chain[h].L)
  BY <1>1 DEF RewardInv, OnlyTransfers
<1>3. CASE UNCHANGED blockchain
  BY <1>2, <1>3 DEF Hashes, Chain
<1>4. ASSUME NEW b, IsBody(b), HandleNewBlock(b), OnlyTransfers(b, SentTxs)
      PROVE  Good
  <2>1. CASE Acceptable(blockchain, b) /\ blockchain' = AddBlock(blockchain, b)
    <3>1. Hashes' = Hashes \cup {BlockHash(b)}
      BY <1>1, <2>1, AcceptedBlock
    <3>2. /\ Chain'[BlockHash(b)].B = b
          /\ Chain'[BlockHash(b)].L = LedgerAfter(b, Chain[b.PrevHash].L)
          /\ \A h \in Hashes : Chain'[h].B = Chain[h].B /\ Chain'[h].L = Chain[h].L
      BY <1>1, <2>1, AcceptedFields
    <3>3. OnlyTransfers(b, SentTxs')
      BY <1>1, <1>4 DEF OnlyTransfers
    <3>4. PICK l : l = Chain[b.PrevHash].L
      OBVIOUS
    <3>5. LedgerOK(l) /\ HoldsNumbers(l) /\ BodyValid(b, l)
      <4>1. b.PrevHash \in Hashes
        BY <1>1, <2>1, AcceptedBlock
      <4> QED
        BY <1>1, <1>2, <2>1, <3>4, <4>1 DEF NodeInv, MoneyInv, LedgersOK, Acceptable, Chain
    <3>6. HoldsNumbers(LedgerAfter(b, l))
      BY <1>1, <1>4, <3>5, TransfersMakeNumbers
    <3> QED
      BY <1>2, <3>1, <3>2, <3>3, <3>4, <3>6
  <2> QED
    BY <1>3, <1>4, <2>1 DEF HandleNewBlock
<1>5. ASSUME NEW b \in PeerBlock, SetBlock(b)
      PROVE  Good
  <2>1. PICK c : c = b
    OBVIOUS
  <2>2. IsBody(c) /\ HandleNewBlock(c) /\ OnlyTransfers(c, SentTxs)
    BY <1>1, <1>5, <2>1, PeerBodies, PeersPutTransfers DEF SetBlock
  <2> QED
    BY <1>4, <2>2
<1>6. CASE MinerFound
  <2>1. PICK c : c = miner.block
    OBVIOUS
  <2>2. IsBody(c) /\ HandleNewBlock(c) /\ OnlyTransfers(c, SentTxs)
    BY <1>1, <1>6, <2>1, NodeInvParts DEF MinerFound, RewardInv
  <2> QED
    BY <1>4, <2>2
<1>7. \/ UNCHANGED blockchain
      \/ \E b \in PeerBlock : SetBlock(b)
      \/ MinerFound
  <2>1. ASSUME NEW w \in Wallets, WalletStep(w) PROVE UNCHANGED blockchain
    BY <2>1 DEF WalletStep, Connect, ConnectionChanges, SetAlias, GetBalance, TransferFails,
                TransferMoney, SubmissionArrives, SubmissionReturns, nodeVars
  <2>2. NodeStep => \/ UNCHANGED blockchain
                    \/ \E b \in PeerBlock : SetBlock(b)
                    \/ MinerFound
    BY DEF NodeStep, AddTransactionToPool, MinerReadHeight, CreateNewBlock, RemoveErrTx,
           MinerInterrupted
  <2>3. UNCHANGED walletVars => UNCHANGED blockchain
    BY DEF walletVars, nodeVars
  <2> QED
    BY <2>1, <2>2, <2>3 DEF WalletNext
<1> QED
  BY <1>3, <1>5, <1>6, <1>7

\* and the block the miner is at.
LEMMA MinedOfTransfers ==
  ASSUME NilIsNoHash, WalletInv, RewardInv, [WalletNext]_walletVars, miner'.pc = "mining"
  PROVE  OnlyTransfers(miner'.block, SentTxs')
<1>1. SentTxs \subseteq SentTxs' /\ NodeInv /\ SentOK /\ MinerOK(miner)
  BY SentStep DEF WalletInv, NodeInv, TypeOK
<1>2. CASE UNCHANGED miner
  BY <1>1, <1>2 DEF RewardInv, OnlyTransfers
<1>3. ASSUME NEW txs \in SetToSeqs(txPool), CreateNewBlock(txs)
      PROVE  OnlyTransfers(miner'.block, SentTxs')
  <2>1. AssembleSucceeds(txs)
    BY <1>1, <1>3 DEF CreateNewBlock, AssembleFails, AssembleDies, MinerOK
  <2>2. miner'.block = Candidate(txs) /\ FeeIsDefined(txs, TailLedger)
    BY <1>1, <2>1 DEF AssembleSucceeds, MinerOK
  <2>3. OnlyTransfers(Candidate(txs), SentTxs)
    BY <1>1, <2>2, CandidatePaysReward
  <2> QED
    BY <1>1, <2>2, <2>3 DEF OnlyTransfers
<1>4. ~MinerReadHeight
  BY <1>1 DEF MinerReadHeight, MinerOK
<1>5. ~RemoveErrTx
  <2> SUFFICES ASSUME RemoveErrTx PROVE FALSE
    OBVIOUS
  <2>1. miner' = Resting \/ miner' = [miner EXCEPT !.errTxs = Tail(@)]
    BY DEF RemoveErrTx
  <2>2. miner.pc = "clean" /\ DOMAIN miner = {"pc", "height", "block", "errTxs"}
    BY <1>1 DEF RemoveErrTx, MinerOK
  <2> QED
    BY <2>1, <2>2 DEF Resting
<1>6. ~MinerInterrupted /\ ~MinerFound
  BY DEF MinerInterrupted, MinerFound, Resting
<1>7. UNCHANGED miner \/ \E txs \in SetToSeqs(txPool) : CreateNewBlock(txs)
  <2>1. ASSUME NEW w \in Wallets, WalletStep(w) PROVE UNCHANGED miner
    BY <2>1 DEF WalletStep, Connect, ConnectionChanges, SetAlias, GetBalance, TransferFails,
                TransferMoney, SubmissionArrives, SubmissionReturns, nodeVars
  <2>2. NodeStep => UNCHANGED miner \/ \E txs \in SetToSeqs(txPool) : CreateNewBlock(txs)
    BY <1>4, <1>5, <1>6 DEF NodeStep, AddTransactionToPool, SetBlock
  <2>3. UNCHANGED walletVars => UNCHANGED miner
    BY DEF walletVars, nodeVars
  <2> QED
    BY <2>1, <2>2, <2>3 DEF WalletNext
<1> QED
  BY <1>2, <1>3, <1>7

(***************************************************************************)
(* A branch of n blocks then holds n rewards,                              *)
(***************************************************************************)
LEMMA BranchesHoldRewards ==
  ASSUME NodeInv, SentOK, RewardInv
  PROVE  \A h \in Hashes : DistinctIds(BranchTxs(h)) =>
           Total(Chain[h].L) = COINBASE_REWARD * Height(h)
<1> DEFINE R == COINBASE_REWARD
           Holds(h) == DistinctIds(BranchTxs(h)) => Total(Chain[h].L) = R * Height(h)
           S == {h \in Hashes : Holds(h)}
<1>0. R \in Nat
  BY RewardIsNat
<1>1. ASSUME NEW g \in Hashes, Height(g) = 0 PROVE g \in S
  <2>1. Chain[g].L = NewLedger
    BY <1>1, RootBranch
  <2>2. Total(NewLedger) = 0
    <3>1. DOMAIN NewLedger = {} /\ LedgerOK(NewLedger) /\ HoldsNumbers(NewLedger)
      BY <1>1, <2>1, RootBranch DEF NodeInv, MoneyInv, LedgersOK, RewardInv, NewLedger
    <3> QED
      BY <3>1, TotalIsInt, SumOfNothing
  <2>3. R * Height(g) = 0
    BY <1>0, <1>1
  <2> QED
    BY <2>1, <2>2, <2>3
<1>2. ASSUME NEW g \in Hashes, Height(g) # 0, Chain[g].Parent \in S PROVE g \in S
  <2> DEFINE p == Chain[g].Parent
             b == Chain[g].B
             base == BranchTxs(p)
             l == Chain[p].L
  <2>1. /\ p \in Hashes
        /\ IsBody(b) /\ BodyValid(b, l)
        /\ Chain[g].L = LedgerAfter(b, l)
        /\ IsTransactionList(base)
        /\ Tally(base, DOMAIN l)
        /\ LedgerOK(l)
        /\ BranchTxs(g) = Append(base \o b.Txs, b.Coinbase)
    <3>1. Height(g) # 0
      BY <1>2
    <3>2. p = Chain[g].Parent /\ b = Chain[g].B
      OBVIOUS
    <3> HIDE DEF S, p, b
    <3>3. p \in Hashes /\ IsBody(b) /\ BodyValid(b, Chain[p].L)
      BY <3>1, <3>2, BranchUnfolds
    <3>4. Chain[g].L = LedgerAfter(b, Chain[p].L)
      BY <3>1, <3>2, BranchUnfolds
    <3>5. /\ IsTransactionList(BranchTxs(p))
          /\ Tally(BranchTxs(p), DOMAIN Chain[p].L)
          /\ LedgerOK(Chain[p].L)
      BY <3>1, <3>2, BranchUnfolds
    <3>6. BranchTxs(g) = Append(BranchTxs(p) \o b.Txs, b.Coinbase)
      BY <3>1, <3>2, BranchUnfolds
    <3> QED
      BY <3>3, <3>4, <3>5, <3>6
  <2>2. /\ Up(blockchain, g) = p
        /\ Height(g) = Height(p) + 1
        /\ g # GENESIS_HASH
    BY <1>2, UpFacts
  <2>3. \A k \in DOMAIN b.Txs : Even(b.Txs[k])
    <3>1. \A k \in DOMAIN b.Txs : b.Txs[k] \in SentTxs
      BY <2>2 DEF RewardInv, OnlyTransfers
    <3> QED
      BY <3>1, SentAreEven
  <2>4. TotalOutput(b.Coinbase) = R
    BY <2>2 DEF RewardInv, OnlyTransfers
  <2>n. HoldsNumbers(l) /\ HasNumbers(b.Coinbase)
    <3>1. HoldsNumbers(l)
      BY <2>1 DEF RewardInv
    <3>2. IsTransaction(b.Coinbase) /\ Len(b.Coinbase.Outputs) = 1
      BY <2>1 DEF IsBody, BodyValid, IsValidCoinbase
    <3> HIDE DEF b
    <3> QED
      BY <1>0, <2>4, <3>1, <3>2, TotalOfCoinbase
  <2>5. DistinctIds(BranchTxs(g)) => DistinctIds(base)
    <3>1. Begins(base, BranchTxs(g))
      BY <2>2, ParentBegins
    <3> QED
      BY <3>1, BeginsDistinct
  <2>6. DistinctIds(base) => Total(l) = R * Height(p)
    BY <1>2
  <2>7. Height(p) \in Nat
    BY <2>1, UpFacts
  <2> HIDE DEF p, b, base, l, R
  <2>8. ASSUME DistinctIds(BranchTxs(g)) PROVE Total(Chain[g].L) = R * Height(g)
    <3>1. DistinctIds(Append(base \o b.Txs, b.Coinbase))
      BY <2>1, <2>8
    <3>2. Total(LedgerAfter(b, l)) = Total(l) + TotalOutput(b.Coinbase)
      BY <2>1, <2>n, <2>3, <3>1, BodyIsExact
    <3>3. Total(l) = R * Height(p)
      BY <2>5, <2>6, <2>8
    <3>4. \A r, n \in Nat : r * n + r = r * (n + 1)
      OBVIOUS
    <3>5. R * Height(p) + R = R * (Height(p) + 1)
      BY <1>0, <2>7, <3>4
    <3> QED
      BY <2>1, <2>2, <2>4, <3>2, <3>3, <3>5
  <2> QED
    BY <2>8 DEF R
<1> HIDE DEF S
<1>3. Hashes \subseteq S
  BY <1>1, <1>2, AllBlocks
<1> QED
  BY <1>3 DEF S

\* and no output is negative.
LEMMA BranchesHoldNoDebt ==
  ASSUME NodeInv, RewardInv, NEW h \in Hashes, DistinctIds(BranchTxs(h))
  PROVE  \A u \in DOMAIN Chain[h].L : Chain[h].L[u].Value \in Nat
<1> DEFINE txs == BranchTxs(h)
           l == Chain[h].L
<1>1. /\ DOMAIN l = Created(txs) \ Claimed(txs)
      /\ LedgerOK(l) /\ HoldsNumbers(l)
      /\ NoDebts(txs)
  BY BranchesOweNothing DEF NodeInv, BranchInv, BranchesOK, Tally, MoneyInv, LedgersOK,
     RewardInv
<1> HIDE DEF txs, l
<1> SUFFICES ASSUME NEW u \in DOMAIN l PROVE l[u].Value \in Nat
  BY DEF l
<1>2. PICK k \in DOMAIN txs :
        u \in {UtxoLite(TxHash(txs[k]), i - 1) : i \in DOMAIN txs[k].Outputs}
  BY <1>1 DEF Created
<1>3. PICK i \in DOMAIN txs[k].Outputs : u = UtxoLite(TxHash(txs[k]), i - 1)
  BY <1>2
<1>4. NoDebt(txs[k]) /\ i \in Int
  <2>1. CASE NoDebt(txs[k])
    <3>1. IsTransaction(txs[k])
      BY DEF NodeInv, BranchInv, BranchesOK, IsTransactionList, txs
    <3> QED
      BY <1>3, <2>1, <3>1, TransactionLists
  <2>2. CASE txs[k] \in Coinbases
    <3>1. PICK c : c = txs[k]
      OBVIOUS
    <3>2. c \in Coinbases /\ NodeInv
      BY <2>2, <3>1
    <3>3. IsTransaction(c) /\ Len(c.Outputs) = 1
      BY <3>2, CoinbasesAreSingle
    <3>4. TotalOutput(c) = COINBASE_REWARD
      BY <3>2 DEF Coinbases, RewardInv, OnlyTransfers
    <3>5. DOMAIN c.Outputs = {1} /\ c.Outputs[1].Value = COINBASE_REWARD
      BY <3>3, <3>4, RewardIsNat, TotalOfCoinbase
    <3>6. NoDebt(c)
      BY <3>5, RewardIsNat DEF NoDebt, Less
    <3> QED
      BY <1>3, <3>1, <3>5, <3>6
  <2> QED
    BY <1>1, <2>1, <2>2 DEF NoDebts
<1>5. u.PrevTxHash.Outputs = txs[k].Outputs /\ u.Index = i - 1
  BY <1>3, UtxoFields
<1>6. l[u] = u.PrevTxHash.Outputs[u.Index + 1]
  BY <1>1 DEF LedgerOK
<1>7. l[u] = txs[k].Outputs[i]
  <2>1. (i - 1) + 1 = i
    BY <1>4
  <2> QED
    BY <1>5, <1>6, <2>1
<1>8. l[u].Value \in Int /\ ~Less(l[u].Value, 0)
  BY <1>1, <1>3, <1>4, <1>7 DEF NoDebt, HoldsNumbers
<1>9. l[u].Value >= 0
  <2>1. PICK v : v = l[u].Value
    OBVIOUS
  <2>2. v # NAN /\ 0 # NAN /\ v \in Int
    BY <1>8, <2>1, NumbersAreAmounts
  <2> QED
    BY <1>8, <2>1, <2>2 DEF Less
<1> QED
  BY <1>8, <1>9

(***************************************************************************)
(* Transfers lose no money: where peers put only transfers into their      *)
(* blocks and claim full rewards, a branch of n blocks holds exactly n     *)
(* rewards and nobody owes (CreatePendingTransaction pays the rest back;   *)
(* CalcTxFee, which counts a tip negatively, never takes from the miner;   *)
(* rule 4 of IsValidTransaction keeps a negative change out).              *)
(***************************************************************************)
THEOREM TransfersKeepMoney ==
  ASSUME NilIsNoHash, WireTxs \subseteq {<<>>}
  PROVE  WalletSpec => []MoneyKept
<1> DEFINE Inv == WalletInv /\ (FullRewards => RewardInv)
<1>1. WalletInit => Inv
  <2> SUFFICES ASSUME WalletInit PROVE RewardInv
    BY WalletInvInit
  <2>1. /\ txPool = {} /\ checked = {} /\ miner.pc # "mining"
        /\ Hashes = {GENESIS_HASH}
        /\ Chain[GENESIS_HASH].L = NewLedger
    BY DEF WalletInit, Init, Resting, Hashes, Chain, NewBlockChain
  <2>2. HoldsNumbers(NewLedger)
    BY DEF HoldsNumbers, NewLedger
  <2> QED
    BY <2>1, <2>2 DEF RewardInv
<1>2. Inv /\ [WalletNext]_walletVars => Inv'
  <2> SUFFICES ASSUME Inv, [WalletNext]_walletVars PROVE Inv'
    OBVIOUS
  <2>1. WalletInv'
    BY WalletInvStep
  <2>2. ASSUME FullRewards PROVE RewardInv'
    <3>1. RewardInv
      BY <2>2
    <3>2. (txPool \cup checked)' \subseteq SentTxs'
      BY <3>1, PoolOfTransfers
    <3>3. /\ \A h \in Hashes' \ {GENESIS_HASH} : OnlyTransfers(Chain'[h].B, SentTxs')
          /\ \A h \in Hashes' : HoldsNumbers(Chain'[h].L)
      BY <2>2, <3>1, BlocksOfTransfers
    <3>4. miner'.pc = "mining" => OnlyTransfers(miner'.block, SentTxs')
      BY <3>1, MinedOfTransfers
    <3> QED
      BY <3>2, <3>3, <3>4 DEF RewardInv, HoldsNumbers
  <2>3. FullRewards' = FullRewards
    BY DEF FullRewards
  <2> QED
    BY <2>1, <2>2, <2>3
<1>3. Inv => MoneyKept
  <2> SUFFICES ASSUME WalletInv, RewardInv, NEW h \in Hashes, DistinctIds(BranchTxs(h))
               PROVE  /\ Deposit(Chain[h].L) = COINBASE_REWARD * Chain[h].Height
                      /\ \A u \in DOMAIN Chain[h].L : Chain[h].L[u].Value \in Nat
    BY DEF MoneyKept
  <2>1. NodeInv /\ SentOK
    BY DEF WalletInv
  <2>2. Total(Chain[h].L) = COINBASE_REWARD * Chain[h].Height
    BY <2>1, BranchesHoldRewards DEF Height
  <2>3. Deposit(Chain[h].L) = Total(Chain[h].L)
    <3>1. PICK l : l = Chain[h].L
      OBVIOUS
    <3>2. LedgerOK(l) /\ HoldsNumbers(l)
      BY <2>1, <3>1 DEF NodeInv, MoneyInv, LedgersOK, RewardInv
    <3>3. Deposit(l) = SumOf(Values(l)) /\ DOMAIN Values(l) = DOMAIN l
      BY DEF Deposit, Values
    <3>4. \A u \in DOMAIN Values(l) : Values(l)[u] \in Int
      BY <3>2 DEF Values, HoldsNumbers
    <3>5. SumOf(Values(l)) = SumFunctionOnSet(Values(l), DOMAIN l)
      BY <3>3, <3>4, SumOfNumbers
    <3> QED
      BY <3>1, <3>2, <3>3, <3>5, TotalIsInt
  <2> QED
    BY <2>1, <2>2, <2>3, BranchesHoldNoDebt
<1> QED
  BY <1>1, <1>2, <1>3, PTL DEF WalletSpec
=============================================================================
