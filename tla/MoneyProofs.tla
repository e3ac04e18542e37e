---------------------------- MODULE MoneyProofs -----------------------------
(***************************************************************************)
(* The money of a full node, for every choice of keys, transactions, wire  *)
(* blocks, reward and number of confirmations: how much of it a branch of  *)
(* the block tree can hold, that the miner only mines blocks its own node  *)
(* would take, and that no output of a branch is spent twice on it.        *)
(* FullNodeProofs says how the tree grows, LedgerProofs what a block does  *)
(* to a ledger; here the two meet.                                         *)
(***************************************************************************)
EXTENDS FullNodeProofs, LedgerProofs

-----------------------------------------------------------------------------
(***************************************************************************)
(* The invariant.  The pool, the tree and the miner hold transactions, and *)
(* the ledger of every block is sound.                                     *)
(***************************************************************************)

IsBody(b) == IsTransactionList(b.Txs) /\ IsTransaction(b.Coinbase)

PoolOK ==
  /\ IsFiniteSet(txPool)
  /\ \A tx \in txPool \cup checked : IsTransaction(tx)

BodiesOK ==
  /\ \A h \in Hashes \ {GENESIS_HASH} : IsBody(Chain[h].B)
  /\ miner.pc = "mining" => IsBody(miner.block)

LedgersOK == \A h \in Hashes : LedgerOK(Chain[h].L)

MoneyInv == PoolOK /\ BodiesOK /\ LedgersOK

\* The reward is a natural number (ConfigAssumption).
LEMMA RewardIsNat == COINBASE_REWARD \in Nat
  BY ConfigAssumption

LEMMA RewardIsAmount == COINBASE_REWARD \in Amount
  BY RewardIsNat, NumbersAreAmounts

\* A block that passes its tests makes a sound ledger of its parent's.
LEMMA BodyKeepsLedger ==
  ASSUME NEW b, IsBody(b), NEW l, LedgerOK(l), BodyValid(b, l)
  PROVE  LedgerOK(LedgerAfter(b, l))
<1> DEFINE m == HandleTransactions(b.Txs, l).L
           q == ProcessInputsAndOutputs(b.Coinbase, m)
<1>1. LedgerOK(m)
  BY TransactionsKeepLedger DEF IsBody
<1> HIDE DEF m
<1>2. LedgerOK(q)
  BY <1>1, Processed DEF IsBody
<1>3. LedgerAfter(b, l) = q
  BY DEF LedgerAfter, m
<1> HIDE DEF q
<1> QED
  BY <1>2, <1>3

\* It holds initially,
LEMMA MoneyInit == Init => MoneyInv
<1> SUFFICES ASSUME Init PROVE MoneyInv
  OBVIOUS
<1>1. /\ Hashes = {GENESIS_HASH}
      /\ Chain[GENESIS_HASH].L = NewLedger
      /\ Chain[GENESIS_HASH].Height = 0
      /\ miner.pc = "rest" /\ txPool = {} /\ checked = {}
  BY DEF Init, NewBlockChain, Resting, Hashes, Chain
<1>2. DOMAIN NewLedger = {} /\ NewLedger = [u \in DOMAIN NewLedger |-> NewLedger[u]]
  BY DEF NewLedger
<1>3. LedgerOK(NewLedger)
  BY <1>2, FS_EmptySet DEF LedgerOK
<1>5. PoolOK /\ BodiesOK
  BY <1>1, FS_EmptySet DEF PoolOK, BodiesOK
<1>7. LedgersOK
  BY <1>1, <1>3 DEF LedgersOK
<1> QED
  BY <1>5, <1>7 DEF MoneyInv

\* an accepted block keeps the ledgers,
LEMMA MoneyAccept ==
  ASSUME TypeOK, LedgersOK, NEW b, IsBody(b), Acceptable(blockchain, b),
         blockchain' = AddBlock(blockchain, b)
  PROVE  LedgersOK'
<1> DEFINE n == BlockHash(b)
           l == Chain[b.PrevHash].L
<1>1. Hashes' = Hashes \cup {n} /\ b.PrevHash \in Hashes
  BY AcceptedBlock
<1>2. /\ \A h \in Hashes : Chain'[h].L = Chain[h].L
      /\ Chain'[n].L = LedgerAfter(b, l)
  BY AcceptedFields
<1>3. LedgerOK(l) /\ BodyValid(b, l)
  BY <1>1 DEF LedgersOK, Acceptable, Chain
<1> HIDE DEF l
<1>4. LedgerOK(LedgerAfter(b, l))
  BY <1>3, BodyKeepsLedger
<1> QED
  BY <1>1, <1>2, <1>4 DEF LedgersOK

\* a block from the wire is made of transactions (WireAssumption),
LEMMA WireBodies ==
  ASSUME NEW b \in WireBlock
  PROVE  IsBody(b)
<1>1. b.Txs \in WireTxs /\ b.Coinbase \in WireCoinbase
  BY DEF WireBlock
<1> QED
  BY <1>1, WireAssumption DEF IsBody, IsTransactionList

\* and so is any block a step puts into the tree.
LEMMA TreeStepBody ==
  ASSUME [Next]_vars, BodiesOK
  PROVE  \/ UNCHANGED blockchain
         \/ \E b : IsBody(b) /\ Acceptable(blockchain, b) /\ blockchain' = AddBlock(blockchain, b)
<1>1. ASSUME NEW b, HandleNewBlock(b), IsBody(b)
      PROVE  \/ UNCHANGED blockchain
             \/ \E c : IsBody(c) /\ Acceptable(blockchain, c) /\ blockchain' = AddBlock(blockchain, c)
  BY <1>1 DEF HandleNewBlock
<1>2. CASE \E b \in WireBlock : SetBlock(b)
  BY <1>1, <1>2, WireBodies DEF SetBlock
<1>3. CASE MinerFound
  BY <1>1, <1>3 DEF MinerFound, BodiesOK
<1>4. CASE \/ \E tx \in Tx : ValidateTransaction(tx)
           \/ \E tx \in checked : AddTransactionToPool(tx)
           \/ MinerReadHeight
           \/ \E txs \in SetToSeqs(txPool) : CreateNewBlock(txs)
           \/ RemoveErrTx
           \/ MinerInterrupted
  BY <1>4 DEF ValidateTransaction, AddTransactionToPool, MinerReadHeight,
              CreateNewBlock, RemoveErrTx, MinerInterrupted
<1>5. CASE UNCHANGED vars
  BY <1>5 DEF vars
<1> QED
  BY <1>2, <1>3, <1>4, <1>5 DEF Next

\* An order of a finite set is a list of its members,
LEMMA OrdersArePermutations ==
  ASSUME NEW S, IsFiniteSet(S), NEW txs \in SetToSeqs(S)
  PROVE  txs \in Seq(S)
<1>1. Cardinality(S) \in Nat
  BY FS_CardinalityType
<1>2. txs \in [1..Cardinality(S) -> S]
  BY DEF SetToSeqs
<1> QED
  BY <1>1, <1>2

\* so an order of the pool is a list of transactions.
LEMMA PoolOrders ==
  ASSUME PoolOK, NEW txs \in SetToSeqs(txPool)
  PROVE  IsTransactionList(txs)
<1>1. txs \in Seq(txPool)
  BY OrdersArePermutations DEF PoolOK
<1>2. \A k \in DOMAIN txs : txs[k] \in txPool
  BY <1>1
<1>3. txs \in Seq(Range(txs))
  BY <1>1 DEF Range
<1> QED
  BY <1>2, <1>3 DEF PoolOK, IsTransactionList

\* Only wire transactions and checked ones get into the pool.
LEMMA PoolStep ==
  ASSUME PoolOK, [Next]_vars
  PROVE  PoolOK'
<1>1. ASSUME NEW hashes
      PROVE  /\ IsFiniteSet(WithoutHashes(txPool, hashes))
             /\ WithoutHashes(txPool, hashes) \subseteq txPool
  BY FS_Subset DEF WithoutHashes, PoolOK
<1>2. ASSUME NEW b, HandleNewBlock(b), UNCHANGED checked PROVE PoolOK'
  BY <1>1, <1>2 DEF HandleNewBlock, PoolOK
<1>3. ASSUME NEW tx \in Tx, ValidateTransaction(tx) PROVE PoolOK'
  BY <1>3, WireAssumption DEF ValidateTransaction, PoolOK
<1>4. ASSUME NEW tx \in checked, AddTransactionToPool(tx) PROVE PoolOK'
  <2>1. IsFiniteSet(txPool \cup {tx})
    BY FS_AddElement DEF PoolOK
  <2> QED
    BY <1>4, <2>1 DEF AddTransactionToPool, PoolOK
<1>5. ASSUME NEW b \in WireBlock, SetBlock(b) PROVE PoolOK'
  BY <1>2, <1>5 DEF SetBlock
<1>6. CASE RemoveErrTx
  BY <1>1, <1>6 DEF RemoveErrTx, PoolOK
<1>7. CASE MinerFound
  BY <1>2, <1>7 DEF MinerFound
<1>8. CASE \/ MinerReadHeight
           \/ \E txs \in SetToSeqs(txPool) : CreateNewBlock(txs)
           \/ MinerInterrupted
           \/ UNCHANGED vars
  BY <1>8 DEF MinerReadHeight, CreateNewBlock, MinerInterrupted, vars, PoolOK
<1> QED
  BY <1>3, <1>4, <1>5, <1>6, <1>7, <1>8 DEF Next

\* The block a miner makes of the pool is made of transactions.
LEMMA CandidateIsBody ==
  ASSUME TypeOK, PoolOK, LedgersOK, NEW txs \in SetToSeqs(txPool), FeeIsDefined(txs, TailLedger)
  PROVE  /\ IsBody(Candidate(txs))
         /\ CalcTxFee(txs, TailLedger) \in Amount
<1>1. IsTransactionList(txs)
  BY PoolOrders
<1>2. LedgerOK(TailLedger)
  BY DEF TypeOK, LedgersOK, TailLedger, Chain
<1>3. CalcTxFee(txs, TailLedger) \in Amount
  BY <1>1, <1>2, FeeIsAmount
<1> DEFINE v == Plus(COINBASE_REWARD, CalcTxFee(txs, TailLedger))
           c == CreateCoinbaseTx(v, SELF, miner.height)
<1>4. v \in Amount
  BY <1>3, RewardIsAmount, PlusMinus
<1> HIDE DEF v
<1>5. IsTransaction(c)
  <2>1. c.Inputs = <<>> /\ c.Outputs = <<[Value |-> v, PublicKey |-> SELF]>>
    BY DEF CreateCoinbaseTx
  <2>2. <<>> \in Seq(Range(<<>>))
    OBVIOUS
  <2>3. \A x : <<x>> \in Seq(Range(<<x>>))
    BY DEF Range
  <2>4. \A i \in DOMAIN c.Outputs : c.Outputs[i].Value = v
    BY <2>1
  <2> QED
    BY <1>4, <2>1, <2>2, <2>3, <2>4 DEF IsTransaction
<1>6. Candidate(txs).Txs = txs /\ Candidate(txs).Coinbase = c
  BY DEF Candidate, v
<1> QED
  BY <1>1, <1>3, <1>5, <1>6 DEF IsBody

\* Every step keeps the bodies,
LEMMA BodiesStep ==
  ASSUME TypeOK, PoolOK, BodiesOK, LedgersOK, [Next]_vars
  PROVE  BodiesOK'
<1>1. ASSUME NEW h \in Hashes' \ {GENESIS_HASH} PROVE IsBody(Chain'[h].B)
  <2>1. CASE UNCHANGED blockchain
    BY <2>1 DEF BodiesOK, Hashes, Chain
  <2>2. ASSUME NEW b, IsBody(b), Acceptable(blockchain, b), blockchain' = AddBlock(blockchain, b)
        PROVE  IsBody(Chain'[h].B)
    <3>1. Hashes' = Hashes \cup {BlockHash(b)}
      BY <2>2, AcceptedBlock
    <3>2. Chain'[BlockHash(b)].B = b
      BY <2>2, AcceptedFields
    <3>3. h \in Hashes => Chain'[h].B = Chain[h].B
      BY <2>2, AcceptedFields
    <3> QED
      BY <2>2, <3>1, <3>2, <3>3 DEF BodiesOK
  <2> QED
    BY <2>1, <2>2, TreeStepBody
<1>2. miner'.pc = "mining" => IsBody(miner'.block)
  <2>1. CASE UNCHANGED miner
    BY <2>1 DEF BodiesOK
  <2>2. CASE miner'.pc # "mining"
    BY <2>2
  <2>3. ASSUME NEW txs \in SetToSeqs(txPool), CreateNewBlock(txs), miner'.pc = "mining"
        PROVE  IsBody(miner'.block)
    <3>1. AssembleSucceeds(txs)
      BY <2>3 DEF CreateNewBlock, AssembleFails, AssembleDies, TypeOK, MinerOK
    <3> QED
      BY <3>1, CandidateIsBody DEF AssembleSucceeds, TypeOK, MinerOK
  <2>4. CASE MinerReadHeight
    BY <2>2, <2>4 DEF MinerReadHeight, TypeOK, MinerOK
  <2>5. CASE RemoveErrTx
    <3>1. miner' = Resting \/ miner' = [miner EXCEPT !.errTxs = Tail(@)]
      BY <2>5 DEF RemoveErrTx
    <3>2. miner.pc = "clean" /\ DOMAIN miner = {"pc", "height", "block", "errTxs"}
      BY <2>5 DEF RemoveErrTx, TypeOK, MinerOK
    <3> QED
      BY <3>1, <3>2 DEF Resting
  <2>6. CASE MinerInterrupted \/ MinerFound
    BY <2>6 DEF MinerInterrupted, MinerFound, Resting
  <2> QED
    BY <2>1, <2>2, <2>3, <2>4, <2>5, <2>6
       DEF Next, ValidateTransaction, AddTransactionToPool, SetBlock, vars
<1> QED
  BY <1>1, <1>2 DEF BodiesOK

\* and the whole invariant.
LEMMA MoneyStep == TypeOK /\ MoneyInv /\ [Next]_vars => MoneyInv'
<1> SUFFICES ASSUME TypeOK, MoneyInv, [Next]_vars PROVE MoneyInv'
  OBVIOUS
<1>1. PoolOK' /\ BodiesOK'
  BY PoolStep, BodiesStep DEF MoneyInv
<1>2. LedgersOK'
  <2>1. CASE UNCHANGED blockchain
    BY <2>1 DEF MoneyInv, LedgersOK, Hashes, Chain
  <2>2. ASSUME NEW b, IsBody(b), Acceptable(blockchain, b), blockchain' = AddBlock(blockchain, b)
        PROVE  LedgersOK'
    BY <2>2, MoneyAccept DEF MoneyInv
  <2> QED
    BY <2>1, <2>2, TreeStepBody DEF MoneyInv
<1> QED
  BY <1>1, <1>2 DEF MoneyInv

-----------------------------------------------------------------------------
(***************************************************************************)
(* What is mined.  CreateNewBlock builds the coinbase from the fee of the  *)
(* pool against the tail's ledger, and HandleNewBlock tests it against the *)
(* same.                                                                   *)
(***************************************************************************)

\* No amount is less than itself, NAN included.
LEMMA NoLessThanItself ==
  ASSUME NEW v \in Amount
  PROVE  ~Less(v, v)
<1>1. CASE v = NAN
  BY <1>1 DEF Less
<1>2. CASE v \in Int
  BY <1>2 DEF Less
<1> QED
  BY <1>1, <1>2 DEF Amount

\* A candidate with no rejects passes every test but the seal.
LEMMA CandidateIsValid ==
  ASSUME TypeOK, PoolOK, LedgersOK, NEW txs \in SetToSeqs(txPool),
         FeeIsDefined(txs, TailLedger), HandleTransactions(txs, TailLedger).errTxs = <<>>
  PROVE  BodyValid(Candidate(txs), TailLedger)
<1> DEFINE v == Plus(COINBASE_REWARD, CalcTxFee(txs, TailLedger))
           c == CreateCoinbaseTx(v, SELF, miner.height)
<1>1. CalcTxFee(txs, TailLedger) \in Amount
  BY CandidateIsBody
<1>2. v \in Amount /\ v = Plus(CalcTxFee(txs, TailLedger), COINBASE_REWARD)
  BY <1>1, RewardIsAmount, PlusMinus
<1>3. Candidate(txs).Txs = txs /\ Candidate(txs).Coinbase = c
  BY DEF Candidate
<1> HIDE DEF v
<1>4. IsValidCoinbase(c, Plus(CalcTxFee(txs, TailLedger), COINBASE_REWARD))
  <2>1. c.Inputs = <<>> /\ c.Outputs = <<[Value |-> v, PublicKey |-> SELF]>>
    BY DEF CreateCoinbaseTx
  <2>2. Len(c.Inputs) = 0 /\ Len(c.Outputs) = 1 /\ c.Outputs[1].Value = v
    BY <2>1
  <2>3. ~Less(v, v)
    BY <1>2, NoLessThanItself
  <2> QED
    BY <1>2, <2>2, <2>3 DEF IsValidCoinbase
<1> QED
  BY <1>3, <1>4 DEF BodyValid

\* A miner starts on a candidate that passes; afterwards neither its block
\* nor its parent's ledger changes.
LEMMA MinedBlockStep ==
  TypeOK /\ MoneyInv /\ MinedBlockValid /\ [Next]_vars => MinedBlockValid'
<1> SUFFICES ASSUME TypeOK, MoneyInv, MinedBlockValid, [Next]_vars, miner'.pc = "mining"
             PROVE  /\ miner'.block.PrevHash \in Hashes'
                    /\ BodyValid(miner'.block, Chain'[miner'.block.PrevHash].L)
  BY DEF MinedBlockValid
<1>1. \A h \in Hashes : h \in Hashes' /\ Chain'[h].L = Chain[h].L
  <2>1. CASE UNCHANGED blockchain
    BY <2>1 DEF Hashes, Chain
  <2>2. ASSUME NEW b, Acceptable(blockchain, b), blockchain' = AddBlock(blockchain, b)
        PROVE  \A h \in Hashes : h \in Hashes' /\ Chain'[h].L = Chain[h].L
    BY <2>2, AcceptedBlock, AcceptedFields
  <2> QED
    BY <2>1, <2>2, TreeStep
<1>2. CASE UNCHANGED miner
  BY <1>1, <1>2 DEF MinedBlockValid
<1>3. ASSUME NEW txs \in SetToSeqs(txPool), CreateNewBlock(txs)
      PROVE  /\ miner'.block.PrevHash \in Hashes'
             /\ BodyValid(miner'.block, Chain'[miner'.block.PrevHash].L)
  <2>1. AssembleSucceeds(txs) /\ UNCHANGED blockchain
    BY <1>3 DEF CreateNewBlock, AssembleFails, AssembleDies, TypeOK, MinerOK
  <2>2. miner'.block = Candidate(txs)
    BY <2>1 DEF AssembleSucceeds, TypeOK, MinerOK
  <2>3. BodyValid(Candidate(txs), TailLedger)
    BY <2>1, CandidateIsValid DEF AssembleSucceeds, MoneyInv
  <2>4. Candidate(txs).PrevHash = blockchain.Tail
    BY DEF Candidate
  <2> QED
    BY <2>1, <2>2, <2>3, <2>4 DEF TypeOK, TailLedger, Hashes, Chain
<1>4. CASE MinerReadHeight
  BY <1>4 DEF MinerReadHeight, TypeOK, MinerOK
<1>5. CASE RemoveErrTx
  <2>1. miner' = Resting \/ miner' = [miner EXCEPT !.errTxs = Tail(@)]
    BY <1>5 DEF RemoveErrTx
  <2>2. miner.pc = "clean" /\ DOMAIN miner = {"pc", "height", "block", "errTxs"}
    BY <1>5 DEF RemoveErrTx, TypeOK, MinerOK
  <2> QED
    BY <2>1, <2>2 DEF Resting
<1>6. CASE MinerInterrupted \/ MinerFound
  BY <1>6 DEF MinerInterrupted, MinerFound, Resting
<1> QED
  BY <1>2, <1>3, <1>4, <1>5, <1>6
     DEF Next, ValidateTransaction, AddTransactionToPool, SetBlock, vars

\* While the miner mines a block on a parent in the tree, that block passes
\* the tests of HandleNewBlock against the parent's ledger: no work is spent
\* on a block that the node itself would refuse.
THEOREM MinedBlockIsValid == Spec => []MinedBlockValid
<1>1. Init => MinedBlockValid
  BY DEF Init, Resting, MinedBlockValid
<1> QED
  BY <1>1, TypeInit, TypeStep, MoneyInit, MoneyStep, MinedBlockStep, PTL DEF Spec

-----------------------------------------------------------------------------
(***************************************************************************)
(* Spending once.  A tally relates the transactions of a branch to the     *)
(* outputs unspent at its end.                                             *)
(***************************************************************************)

\* No two inputs of a list of transactions claim the same output.
SpendsOnce(txs) ==
  \A k, j \in DOMAIN txs : \A i \in DOMAIN txs[k].Inputs : \A m \in DOMAIN txs[j].Inputs :
    <<k, i>> # <<j, m>> => CreateUtxoFromInput(txs[k].Inputs[i])
                             # CreateUtxoFromInput(txs[j].Inputs[m])

\* The unspent outputs are those created and not claimed, all that is claimed
\* was created, and claimed once; provided that the hashes of the
\* transactions differ.
Tally(txs, utxos) ==
  DistinctIds(txs) =>
    /\ utxos = Created(txs) \ Claimed(txs)
    /\ Claimed(txs) \subseteq Created(txs)
    /\ SpendsOnce(txs)

\* No two inputs of ONE transaction claim the same output.
InputsDiffer(tx) ==
  \A i, j \in DOMAIN tx.Inputs :
    i # j => CreateUtxoFromInput(tx.Inputs[i]) # CreateUtxoFromInput(tx.Inputs[j])

\* DistinctIds, index by index.
LEMMA DistinctMeans ==
  ASSUME NEW txs
  PROVE  DistinctIds(txs) <=>
           \A k, j \in DOMAIN txs : TxHash(txs[k]) = TxHash(txs[j]) => k = j
<1> DEFINE f == [k \in DOMAIN txs |-> TxHash(txs[k])]
<1>1. DOMAIN f = DOMAIN txs /\ \A k \in DOMAIN txs : f[k] = TxHash(txs[k])
  OBVIOUS
<1> HIDE DEF f
<1>2. IsInjective(f) <=> \A k, j \in DOMAIN txs : TxHash(txs[k]) = TxHash(txs[j]) => k = j
  BY <1>1 DEF IsInjective
<1> QED
  BY <1>2 DEF DistinctIds, f

\* A transaction that claims unspent outputs only keeps the tally.
LEMMA TallyGrows ==
  ASSUME NEW txs, IsTransactionList(txs), NEW tx, IsTransaction(tx),
         NEW utxos, Tally(txs, utxos), ClaimedUtxos(tx) \subseteq utxos, InputsDiffer(tx)
  PROVE  Tally(Append(txs, tx), (utxos \ ClaimedUtxos(tx)) \cup CreatedUtxos(tx))
<1> DEFINE n == Len(txs)
           more == Append(txs, tx)
           C == ClaimedUtxos(tx)
           K == CreatedUtxos(tx)
<1>1. n \in Nat /\ DOMAIN txs = 1..n
  BY ListDomain
<1>2. /\ DOMAIN more = 1..(n + 1)
      /\ more[n + 1] = tx
      /\ \A k \in 1..n : more[k] = txs[k]
  <2>1. IsTransactionList(more) /\ Len(more) = n + 1
    BY ListGrows
  <2>2. DOMAIN more = 1..Len(more)
    BY <2>1, ListDomain
  <2> QED
    BY <2>1, <2>2, ListGrows
<1> HIDE DEF more, n
<1>3. SUFFICES ASSUME DistinctIds(more)
      PROVE  /\ (utxos \ C) \cup K = Created(more) \ Claimed(more)
             /\ Claimed(more) \subseteq Created(more)
             /\ SpendsOnce(more)
  BY DEF Tally, more
<1>4. \A k, j \in 1..(n + 1) : TxHash(more[k]) = TxHash(more[j]) => k = j
  BY <1>2, <1>3, DistinctMeans
<1>5. /\ utxos = Created(txs) \ Claimed(txs)
      /\ Claimed(txs) \subseteq Created(txs)
      /\ SpendsOnce(txs)
  <2>1. \A k, j \in 1..n : TxHash(txs[k]) = TxHash(txs[j]) => k = j
    <3> SUFFICES ASSUME NEW k \in 1..n, NEW j \in 1..n, TxHash(txs[k]) = TxHash(txs[j])
                 PROVE  k = j
      OBVIOUS
    <3>1. k \in 1..(n + 1) /\ j \in 1..(n + 1) /\ more[k] = txs[k] /\ more[j] = txs[j]
      BY <1>1, <1>2
    <3> QED
      BY <1>4, <3>1
  <2> QED
    BY <1>1, <2>1, DistinctMeans DEF Tally
<1>6. Created(more) = Created(txs) \cup K
  <2> DEFINE made(k) == {UtxoLite(TxHash(more[k]), i - 1) : i \in DOMAIN more[k].Outputs}
             madeBefore(k) == {UtxoLite(TxHash(txs[k]), i - 1) : i \in DOMAIN txs[k].Outputs}
  <2>1. Created(more) = UNION {made(k) : k \in 1..(n + 1)}
    BY <1>2 DEF Created
  <2>2. Created(txs) = UNION {madeBefore(k) : k \in 1..n}
    BY <1>1 DEF Created
  <2>3. made(n + 1) = K
    BY <1>2 DEF CreatedUtxos
  <2>4. \A k \in 1..n : made(k) = madeBefore(k)
    BY <1>2
  <2>5. 1..(n + 1) = (1..n) \cup {n + 1}
    BY <1>1
  <2> HIDE DEF made, madeBefore, K
  <2> QED
    BY <2>1, <2>2, <2>3, <2>4, <2>5
<1>7. Claimed(more) = Claimed(txs) \cup C
  <2>1. Claimed(more) = UNION {ClaimedUtxos(more[k]) : k \in 1..(n + 1)}
    BY <1>2 DEF Claimed
  <2>2. Claimed(txs) = UNION {ClaimedUtxos(txs[k]) : k \in 1..n}
    BY <1>1 DEF Claimed
  <2>3. ClaimedUtxos(more[n + 1]) = C
    BY <1>2
  <2>4. \A k \in 1..n : ClaimedUtxos(more[k]) = ClaimedUtxos(txs[k])
    BY <1>2
  <2>5. 1..(n + 1) = (1..n) \cup {n + 1}
    BY <1>1
  <2> HIDE DEF C
  <2> QED
    BY <2>1, <2>2, <2>3, <2>4, <2>5
<1>8. K \cap Created(txs) = {}
  <2> SUFFICES ASSUME NEW u \in K, u \in Created(txs) PROVE FALSE
    OBVIOUS
  <2>1. u.PrevTxHash = TxHash(tx)
    BY UtxoFields DEF CreatedUtxos
  <2>2. PICK k \in 1..n : u \in {UtxoLite(TxHash(txs[k]), i - 1) : i \in DOMAIN txs[k].Outputs}
    BY <1>1 DEF Created
  <2>3. u.PrevTxHash = TxHash(txs[k])
    BY <2>2, UtxoFields
  <2>4. k \in 1..(n + 1) /\ n + 1 \in 1..(n + 1) /\ k # n + 1
    BY <1>1
  <2> QED
    BY <1>2, <1>4, <2>1, <2>3, <2>4
<1>9. SpendsOnce(more)
  <2>1. \A k \in 1..n : \A i \in DOMAIN txs[k].Inputs :
          CreateUtxoFromInput(txs[k].Inputs[i]) \in Claimed(txs)
    BY <1>1 DEF Claimed, ClaimedUtxos
  <2>2. \A i \in DOMAIN tx.Inputs : CreateUtxoFromInput(tx.Inputs[i]) \notin Claimed(txs)
    BY <1>5 DEF ClaimedUtxos
  <2> SUFFICES ASSUME NEW k \in 1..(n + 1), NEW j \in 1..(n + 1),
                      NEW i \in DOMAIN more[k].Inputs, NEW m \in DOMAIN more[j].Inputs,
                      <<k, i>> # <<j, m>>
               PROVE  CreateUtxoFromInput(more[k].Inputs[i])
                        # CreateUtxoFromInput(more[j].Inputs[m])
    BY <1>2 DEF SpendsOnce
  <2>3. CASE k \in 1..n /\ j \in 1..n
    <3>1. more[k] = txs[k] /\ more[j] = txs[j]
      BY <1>2, <2>3
    <3> QED
      BY <1>1, <1>5, <2>3, <3>1 DEF SpendsOnce
  <2>4. CASE k = n + 1 /\ j \in 1..n
    BY <1>2, <2>1, <2>2, <2>4
  <2>5. CASE k \in 1..n /\ j = n + 1
    BY <1>2, <2>1, <2>2, <2>5
  <2>6. CASE k = n + 1 /\ j = n + 1
    <3>1. i # m
      BY <2>6
    <3> QED
      BY <1>2, <2>6, <3>1 DEF InputsDiffer
  <2> QED
    BY <1>1, <2>3, <2>4, <2>5, <2>6
<1> HIDE DEF K, C
<1> QED
  BY <1>5, <1>6, <1>7, <1>8, <1>9 DEF C

\* A list of transactions of which k have been applied, after a list of others.
Done(base, txs, k) == base \o SubSeq(txs, 1, k)

RunOK(base, txs, l, k) ==
  /\ IsTransactionList(Done(base, txs, k))
  /\ LedgerOK(Run(txs, l, k).L)
  /\ Tally(Done(base, txs, k), DOMAIN Run(txs, l, k).L)

\* It keeps the tally at every k, when all of its transactions are valid.
LEMMA TallyOfRun ==
  ASSUME NEW base, IsTransactionList(base), NEW l, LedgerOK(l), Tally(base, DOMAIN l),
         NEW txs, IsTransactionList(txs), HandleTransactions(txs, l).errTxs = <<>>
  PROVE  /\ \A k \in 0..Len(txs) : RunOK(base, txs, l, k)
         /\ \A k \in 1..Len(txs) :
              Done(base, txs, k) = Append(Done(base, txs, k - 1), txs[k])
<1> DEFINE N == Len(txs)
           st(k) == Run(txs, l, k)
           done(k) == Done(base, txs, k)
           T == {k \in 0..N : RunOK(base, txs, l, k)}
<1>1. N \in Nat /\ DOMAIN txs = 1..N
  BY ListDomain
<1>2. /\ HandleTransactions(txs, l) = st(N)
      /\ st(0) = Nothing(l)
  BY <1>1, HandleTransactionsRun
<1>3. \A k \in 1..N : /\ IsValidTransaction(txs[k], st(k - 1).L)
                      /\ st(k).L = ProcessInputsAndOutputs(txs[k], st(k - 1).L)
  BY <1>1, AllWereValid
<1>4. done(0) = base
  <2>1. SubSeq(txs, 1, 0) = <<>>
    BY SubSeqEmpty
  <2> QED
    BY <2>1, ConcatEmptySeq DEF IsTransactionList, Done
<1>5. ASSUME NEW k \in 1..N
      PROVE  done(k) = Append(done(k - 1), txs[k])
  <2> DEFINE S == Range(base) \cup Range(txs)
             p == SubSeq(txs, 1, k - 1)
  <2>1. base \in Seq(S) /\ txs \in Seq(S)
    BY <1>1, SeqMonotonic DEF IsTransactionList
  <2>2. txs[k] \in S
    BY <1>1 DEF Range
  <2>3. SubSeq(txs, 1, k) = p \o <<txs[k]>>
    BY <1>1, <2>1, SubSeqRecursiveSecond
  <2>4. p \in Seq(S)
    BY <1>1, <2>1, SubSeqProperties
  <2> HIDE DEF S, p
  <2>5. SubSeq(txs, 1, k) = Append(p, txs[k])
    BY <2>2, <2>3, <2>4
  <2> QED
    BY <2>1, <2>2, <2>4, <2>5, AppendAssociates DEF p, Done
<1> HIDE DEF st, done
<1>6. \A k \in 0..N : k \in T
  <2>1. 0 \in T
    BY <1>1, <1>2, <1>4 DEF Nothing, RunOK, st, done
  <2>2. ASSUME NEW k \in 1..N, k - 1 \in T PROVE k \in T
    <3> DEFINE m == st(k - 1).L
    <3>1. /\ IsTransactionList(done(k - 1))
          /\ LedgerOK(m)
          /\ Tally(done(k - 1), DOMAIN m)
      BY <2>2 DEF RunOK, st, done
    <3>2. IsValidTransaction(txs[k], m) /\ st(k).L = ProcessInputsAndOutputs(txs[k], m)
      BY <1>3
    <3>3. IsTransaction(txs[k])
      BY <1>1 DEF IsTransactionList
    <3>4. done(k) = Append(done(k - 1), txs[k])
      BY <1>5
    <3>5. IsTransactionList(done(k))
      <4>1. IsTransactionList(Append(done(k - 1), txs[k]))
        BY <3>1, <3>3, ListGrows
      <4> QED
        BY <3>4, <4>1
    <3> HIDE DEF m
    <3>6. /\ LedgerOK(st(k).L)
          /\ DOMAIN st(k).L = (DOMAIN m \ ClaimedUtxos(txs[k])) \cup CreatedUtxos(txs[k])
      <4> DEFINE q == ProcessInputsAndOutputs(txs[k], m)
      <4>1. q = ProcessInputsAndOutputs(txs[k], m) /\ st(k).L = q
        BY <3>2
      <4> HIDE DEF q
      <4>2. LedgerOK(q) /\ DOMAIN q = (DOMAIN m \ ClaimedUtxos(txs[k])) \cup CreatedUtxos(txs[k])
        <5>1. IsTransaction(txs[k])
          BY <3>3
        <5>2. LedgerOK(m)
          BY <3>1
        <5>3. q = ProcessInputsAndOutputs(txs[k], m)
          BY <4>1
        <5> QED
          BY <5>1, <5>2, <5>3, Processed
      <4> QED
        BY <4>1, <4>2
    <3>7. ClaimedUtxos(txs[k]) \subseteq DOMAIN m /\ InputsDiffer(txs[k])
      BY <3>2 DEF IsValidTransaction, InputsDiffer
    <3>8. Tally(done(k), DOMAIN st(k).L)
      BY <3>1, <3>3, <3>4, <3>6, <3>7, TallyGrows
    <3>9. k \in 0..N
      BY <1>1
    <3> QED
      BY <3>5, <3>6, <3>8, <3>9 DEF RunOK, st, done
  <2> HIDE DEF T
  <2> QED
    BY <1>1, <2>1, <2>2, CountUp
<1> QED
  BY <1>5, <1>6 DEF done

\* So does a block that passes its tests: its transactions, then its
\* coinbase.
LEMMA TallyOfBody ==
  ASSUME NEW base, IsTransactionList(base), NEW l, LedgerOK(l), Tally(base, DOMAIN l),
         NEW b, IsBody(b), BodyValid(b, l)
  PROVE  /\ Tally(base \o BlockTxs(b), DOMAIN LedgerAfter(b, l))
         /\ IsTransactionList(BlockTxs(b))
         /\ base \o BlockTxs(b) = Append(base \o b.Txs, b.Coinbase)
<1> DEFINE txs == b.Txs
           N == Len(txs)
           st(k) == Run(txs, l, k)
<1>1. N \in Nat /\ DOMAIN txs = 1..N /\ IsTransactionList(txs)
  BY ListDomain DEF IsBody
<1>2. HandleTransactions(txs, l) = st(N)
  BY <1>1, HandleTransactionsRun
<1>7. Done(base, txs, N) = base \o txs
  BY <1>1, SubSeqFull DEF Done, IsTransactionList
<1>8. /\ IsTransactionList(base \o txs)
      /\ LedgerOK(st(N).L)
      /\ Tally(base \o txs, DOMAIN st(N).L)
  <2>1. RunOK(base, txs, l, N)
    BY <1>1, TallyOfRun DEF BodyValid
  <2> QED
    BY <1>7, <2>1 DEF RunOK
<1> HIDE DEF st
<1> DEFINE c == b.Coinbase
           m == st(N).L
           q == ProcessInputsAndOutputs(c, m)
<1>9. IsTransaction(c) /\ ClaimedUtxos(c) = {} /\ InputsDiffer(c)
  <2>1. IsTransaction(c) /\ Len(c.Inputs) = 0
    BY DEF IsBody, BodyValid, IsValidCoinbase
  <2>2. DOMAIN c.Inputs = {}
    BY <2>1, TransactionLists
  <2> QED
    BY <2>1, <2>2 DEF ClaimedUtxos, InputsDiffer
<1>10. LedgerAfter(b, l) = q
  BY <1>2 DEF LedgerAfter
<1> HIDE DEF c, m
<1>11. DOMAIN q = (DOMAIN m \ ClaimedUtxos(c)) \cup CreatedUtxos(c)
  BY <1>8, <1>9, Processed DEF m
<1>12. Tally(Append(base \o txs, c), DOMAIN q)
  BY <1>8, <1>9, <1>11, TallyGrows DEF m
<1>13. Append(base \o txs, c) = base \o BlockTxs(b)
  <2> DEFINE S == Range(base) \cup Range(txs) \cup {c}
  <2>1. base \in Seq(S) /\ txs \in Seq(S) /\ c \in S
    BY <1>1, SeqMonotonic DEF IsTransactionList
  <2> HIDE DEF S
  <2>2. BlockTxs(b) = Append(txs, c)
    BY DEF BlockTxs, c
  <2>3. base \o Append(txs, c) = Append(base \o txs, c)
    BY <2>1, AppendAssociates
  <2> QED
    BY <2>2, <2>3
<1>14. IsTransactionList(BlockTxs(b))
  BY <1>1, <1>9, ListGrows DEF BlockTxs, c
<1> QED
  BY <1>10, <1>12, <1>13, <1>14 DEF c

-----------------------------------------------------------------------------
(***************************************************************************)
(* Branches.  The ancestors of a block, then the lists of transactions on  *)
(* the way to it.                                                          *)
(***************************************************************************)

\* The parent, and the ancestors the recursive function in Ancestor builds.
Up(bc, g) == IF bc.Chain[g].Parent = NIL THEN g ELSE bc.Chain[g].Parent

Ancestry(bc, h, n) ==
  CHOOSE anc : anc = [k \in 0..n |->
     IF k = 0 THEN h
     ELSE IF bc.Chain[anc[k-1]].Parent = NIL THEN anc[k-1]
          ELSE bc.Chain[anc[k-1]].Parent]

\* Each of them is the parent of the one before,
LEMMA AncestryUnfolds ==
  ASSUME NEW bc, NEW h, NEW n \in Nat
  PROVE  \A k \in 0..n : Ancestry(bc, h, n)[k] =
           IF k = 0 THEN h ELSE Up(bc, Ancestry(bc, h, n)[k - 1])
<1> DEFINE Step(g, k) == IF k = 0 THEN h
                         ELSE IF bc.Chain[g[k-1]].Parent = NIL THEN g[k-1]
                              ELSE bc.Chain[g[k-1]].Parent
           Upto(m) == \E g : g = [k \in 0..m |-> Step(g, k)]
           T == {m \in 0..n : Upto(m)}
<1>1. Upto(0)
  <2> DEFINE g == [k \in 0..0 |-> h]
  <2>1. g = [k \in 0..0 |-> Step(g, k)]
    OBVIOUS
  <2> QED
    BY <2>1
<1>2. ASSUME NEW m \in 1..n, Upto(m - 1) PROVE Upto(m)
  <2>1. PICK g : g = [k \in 0..(m - 1) |-> Step(g, k)]
    BY <1>2
  <2> DEFINE f == [k \in 0..m |-> Step(g, k)]
  <2> HIDE DEF Step
  <2>2. \A k \in 0..(m - 1) : g[k] = Step(g, k)
    BY <2>1
  <2>3. \A k \in 0..(m - 1) : f[k] = g[k]
    BY <2>2
  <2>4. \A k \in 0..m : k # 0 => k - 1 \in 0..(m - 1)
    OBVIOUS
  <2> HIDE DEF f
  <2>5. \A k \in 0..m : Step(g, k) = Step(f, k)
    BY <2>3, <2>4 DEF Step
  <2>6. f = [k \in 0..m |-> Step(f, k)]
    BY <2>5 DEF f
  <2> QED
    BY <2>6
<1>3. Upto(n)
  <2> HIDE DEF Upto
  <2>1. 0 \in T
    BY <1>1
  <2>2. ASSUME NEW k \in 1..n, k - 1 \in T PROVE k \in T
    BY <1>2, <2>2
  <2> HIDE DEF T
  <2>3. n \in T
    BY <2>1, <2>2, CountUp
  <2> QED
    BY <2>3 DEF T
<1> DEFINE a == Ancestry(bc, h, n)
<1>4. a = [k \in 0..n |-> Step(a, k)]
  BY <1>3 DEF Ancestry
<1> HIDE DEF a
<1>5. \A k \in 0..n : a[k] = Step(a, k)
  BY <1>4
<1> QED
  BY <1>5 DEF a, Up

\* however many are asked for.
LEMMA AncestorSteps ==
  ASSUME NEW bc, NEW h, NEW n \in Nat
  PROVE  /\ Ancestor(bc, h, 0) = h
         /\ Ancestor(bc, h, n + 1) = Up(bc, Ancestor(bc, h, n))
<1>1. \A m : Ancestor(bc, h, m) = Ancestry(bc, h, m)[m]
  BY DEF Ancestor, Ancestry
<1>2. Ancestor(bc, h, 0) = h
  BY <1>1, AncestryUnfolds
<1> DEFINE a == Ancestry(bc, h, n)
           c == Ancestry(bc, h, n + 1)
           T == {k \in 0..n : a[k] = c[k]}
<1>3. /\ \A k \in 0..n : a[k] = IF k = 0 THEN h ELSE Up(bc, a[k - 1])
      /\ \A k \in 0..(n + 1) : c[k] = IF k = 0 THEN h ELSE Up(bc, c[k - 1])
  BY AncestryUnfolds
<1> HIDE DEF a, c
<1>4. n \in T
  <2>1. 0 \in T
    BY <1>3
  <2>2. ASSUME NEW k \in 1..n, k - 1 \in T PROVE k \in T
    <3>1. a[k] = Up(bc, a[k - 1]) /\ c[k] = Up(bc, c[k - 1])
      BY <1>3
    <3> QED
      BY <2>2, <3>1
  <2> HIDE DEF T
  <2> QED
    BY <2>1, <2>2, CountUp
<1>5. c[n + 1] = Up(bc, c[n])
  <2>1. n + 1 \in 0..(n + 1) /\ n + 1 # 0 /\ (n + 1) - 1 = n
    OBVIOUS
  <2> QED
    BY <1>3, <2>1
<1> QED
  BY <1>1, <1>2, <1>4, <1>5 DEF a, c

\* One ancestor further up is the parent's ancestor.
LEMMA AncestorOfChild ==
  ASSUME NEW bc, NEW h, NEW n \in Nat
  PROVE  Ancestor(bc, h, n + 1) = Ancestor(bc, Up(bc, h), n)
<1> DEFINE T == {k \in 0..n : Ancestor(bc, h, k + 1) = Ancestor(bc, Up(bc, h), k)}
<1>1. 0 \in T
  <2>1. Ancestor(bc, h, 0 + 1) = Up(bc, h)
    BY AncestorSteps
  <2>2. Ancestor(bc, Up(bc, h), 0) = Up(bc, h)
    BY AncestorSteps
  <2> QED
    BY <2>1, <2>2
<1>2. ASSUME NEW k \in 1..n, k - 1 \in T PROVE k \in T
  <2>1. Ancestor(bc, h, (k - 1) + 1) = Ancestor(bc, Up(bc, h), k - 1)
    BY <1>2
  <2>2. k - 1 \in Nat /\ (k - 1) + 1 = k /\ k \in Nat
    OBVIOUS
  <2>3. Ancestor(bc, h, k + 1) = Up(bc, Ancestor(bc, h, k))
    BY <2>2, AncestorSteps
  <2>4. Ancestor(bc, Up(bc, h), (k - 1) + 1) = Up(bc, Ancestor(bc, Up(bc, h), k - 1))
    BY <2>2, AncestorSteps
  <2> QED
    BY <2>1, <2>2, <2>3, <2>4
<1>3. n \in T
  <2> HIDE DEF T
  <2> QED
    BY <1>1, <1>2, CountUp
<1> QED
  BY <1>3

\* Ancestors stay when no parent changes.
LEMMA AncestorKept ==
  ASSUME NEW bc, NEW bd, NEW S,
         \A g \in S : /\ bc.Chain[g].Parent \in S \cup {NIL}
                      /\ bd.Chain[g].Parent = bc.Chain[g].Parent,
         NEW h \in S, NEW n \in Nat
  PROVE  Ancestor(bd, h, n) = Ancestor(bc, h, n) /\ Ancestor(bc, h, n) \in S
<1> DEFINE T == {k \in 0..n : /\ Ancestor(bd, h, k) = Ancestor(bc, h, k)
                              /\ Ancestor(bc, h, k) \in S}
<1>1. 0 \in T
  BY AncestorSteps
<1>2. ASSUME NEW k \in 1..n, k - 1 \in T PROVE k \in T
  <2>1. k - 1 \in Nat /\ (k - 1) + 1 = k
    OBVIOUS
  <2>2. /\ Ancestor(bd, h, k) = Up(bd, Ancestor(bd, h, k - 1))
        /\ Ancestor(bc, h, k) = Up(bc, Ancestor(bc, h, k - 1))
    <3>1. Ancestor(bd, h, (k - 1) + 1) = Up(bd, Ancestor(bd, h, k - 1))
      BY <2>1, AncestorSteps
    <3>2. Ancestor(bc, h, (k - 1) + 1) = Up(bc, Ancestor(bc, h, k - 1))
      BY <2>1, AncestorSteps
    <3> QED
      BY <2>1, <3>1, <3>2
  <2>3. /\ Ancestor(bd, h, k - 1) = Ancestor(bc, h, k - 1)
        /\ Ancestor(bc, h, k - 1) \in S
    BY <1>2
  <2>4. \A g \in S : Up(bd, g) = Up(bc, g) /\ Up(bc, g) \in S
    BY DEF Up
  <2> QED
    BY <2>2, <2>3, <2>4
<1>3. n \in T
  <2> HIDE DEF T
  <2> QED
    BY <1>1, <1>2, CountUp
<1> QED
  BY <1>3

\* The blocks from the genesis block to h, and their transactions.
BranchIn(bc, h) ==
  [k \in 1..bc.Chain[h].Height |->
     bc.Chain[Ancestor(bc, h, bc.Chain[h].Height - k)].B]

ListsIn(bc, h) == [k \in 1..bc.Chain[h].Height |-> BlockTxs(BranchIn(bc, h)[k])]

\* BranchTxs is the concatenation, in this state and in the next.
LEMMA BranchTxsMeans ==
  /\ \A h : BranchTxs(h) = FlattenSeq(ListsIn(blockchain, h))
  /\ \A h : BranchTxs(h)' = FlattenSeq(ListsIn(blockchain', h))
BY DEF BranchTxs, Branch, BranchIn, ListsIn, Chain

\* A tree that extends another leaves the wrappers of S alone but for their
\* children.
Extends(bd, bc, S) ==
  \A g \in S : /\ bc.Chain[g].Parent \in S \cup {NIL}
              /\ bc.Chain[g].Height \in Nat
              /\ bd.Chain[g].Parent = bc.Chain[g].Parent
              /\ bd.Chain[g].Height = bc.Chain[g].Height
              /\ bd.Chain[g].B = bc.Chain[g].B

\* A block keeps its branch when the tree is extended,
LEMMA ListsKept ==
  ASSUME NEW bc, NEW bd, NEW S, Extends(bd, bc, S), NEW h \in S
  PROVE  /\ ListsIn(bd, h) = ListsIn(bc, h)
         /\ \A k \in 1..bc.Chain[h].Height : BranchIn(bd, h)[k] = BranchIn(bc, h)[k]
<1> DEFINE H == bc.Chain[h].Height
<1>1. H \in Nat /\ bd.Chain[h].Height = H
  BY DEF Extends
<1>2. ASSUME NEW k \in 1..H
      PROVE  bd.Chain[Ancestor(bd, h, H - k)].B = bc.Chain[Ancestor(bc, h, H - k)].B
  <2>1. H - k \in Nat
    BY <1>1
  <2>2. /\ Ancestor(bd, h, H - k) = Ancestor(bc, h, H - k)
        /\ Ancestor(bc, h, H - k) \in S
    BY <2>1, AncestorKept DEF Extends
  <2> QED
    BY <2>2 DEF Extends
<1> HIDE DEF H
<1>3. BranchIn(bd, h) = BranchIn(bc, h)
  BY <1>1, <1>2 DEF BranchIn, H
<1>4. ListsIn(bd, h) = ListsIn(bc, h)
  BY <1>1, <1>3 DEF ListsIn, H
<1> QED
  BY <1>3, <1>4

\* and a new block has its parent's branch and its own transactions.
LEMMA ListsGrow ==
  ASSUME NEW bc, NEW bd, NEW S, Extends(bd, bc, S), NEW p \in S, p # NIL,
         NEW n, bd.Chain[n].Parent = p, bd.Chain[n].Height = bc.Chain[p].Height + 1
  PROVE  /\ \A k \in 1..bc.Chain[p].Height : ListsIn(bd, n)[k] = ListsIn(bc, p)[k]
         /\ ListsIn(bd, n)[bc.Chain[p].Height + 1] = BlockTxs(bd.Chain[n].B)
<1> DEFINE H == bc.Chain[p].Height
<1>1. H \in Nat /\ bd.Chain[p].Height = H /\ bd.Chain[n].Height = H + 1
  BY DEF Extends
<1>2. Up(bd, n) = p
  BY DEF Up
<1> HIDE DEF H
<1>3. ASSUME NEW k \in 1..(H + 1)
      PROVE  ListsIn(bd, n)[k] = BlockTxs(bd.Chain[Ancestor(bd, n, (H + 1) - k)].B)
  BY <1>1 DEF ListsIn, BranchIn
<1>4. ASSUME NEW k \in 1..H
      PROVE  ListsIn(bd, n)[k] = ListsIn(bc, p)[k]
  <2>1. H - k \in Nat /\ (H + 1) - k = (H - k) + 1 /\ k \in 1..(H + 1)
    BY <1>1
  <2>2. Ancestor(bd, n, (H + 1) - k) = Ancestor(bd, p, H - k)
    BY <1>2, <2>1, AncestorOfChild
  <2>3. ListsIn(bd, n)[k] = BlockTxs(bd.Chain[Ancestor(bd, p, H - k)].B)
    BY <1>3, <2>1, <2>2
  <2>4. ListsIn(bd, p)[k] = BlockTxs(bd.Chain[Ancestor(bd, p, H - k)].B)
    BY <1>1 DEF ListsIn, BranchIn
  <2>5. ListsIn(bd, p) = ListsIn(bc, p)
    BY ListsKept
  <2> QED
    BY <2>3, <2>4, <2>5
<1>5. ListsIn(bd, n)[H + 1] = BlockTxs(bd.Chain[n].B)
  <2>1. H + 1 \in 1..(H + 1) /\ (H + 1) - (H + 1) = 0
    BY <1>1
  <2>2. Ancestor(bd, n, 0) = n
    BY AncestorSteps
  <2> QED
    BY <1>3, <2>1, <2>2
<1> QED
  BY <1>4, <1>5 DEF H

\* A branch is as long as its end is high.
LEMMA LengthOfLists ==
  ASSUME NEW bc, NEW h, bc.Chain[h].Height \in Nat
  PROVE  Len(ListsIn(bc, h)) = bc.Chain[h].Height
<1>1. DOMAIN ListsIn(bc, h) = 1..bc.Chain[h].Height
  BY DEF ListsIn
<1>2. ListsIn(bc, h) \in [1..bc.Chain[h].Height -> Range(ListsIn(bc, h))]
  BY DEF ListsIn, Range
<1> DEFINE s == ListsIn(bc, h)
           S == Range(s)
           n == bc.Chain[h].Height
<1> HIDE DEF s, S, n
<1>3. s \in [1..n -> S] /\ n \in Nat
  BY <1>2 DEF s, S, n
<1>4. s \in Seq(S)
  BY <1>3
<1>5. Len(s) = n
  BY <1>3, <1>4
<1> QED
  BY <1>5 DEF s, n

\* The transactions of a new block come after those of its parent's branch.
LEMMA ListsFlatten ==
  ASSUME NEW bc, NEW bd, NEW S, Extends(bd, bc, S), NEW p \in S, p # NIL,
         NEW n, bd.Chain[n].Parent = p, bd.Chain[n].Height = bc.Chain[p].Height + 1,
         IsTransactionList(BlockTxs(bd.Chain[n].B))
  PROVE  FlattenSeq(ListsIn(bd, n))
           = FlattenSeq(ListsIn(bc, p)) \o BlockTxs(bd.Chain[n].B)
<1> DEFINE H == bc.Chain[p].Height
           s == ListsIn(bc, p)
           t == ListsIn(bd, n)
           x == BlockTxs(bd.Chain[n].B)
<1>1. H \in Nat
  BY DEF Extends
<1>2. Len(s) = H /\ Len(t) = H + 1
  BY <1>1, LengthOfLists
<1>3. AgreeUpTo(s, t, H) /\ t[H + 1] = x
  BY ListsGrow DEF AgreeUpTo
<1>4. H = 0 => s = <<>>
  BY DEF ListsIn
<1>5. <<>> \o x = x
  BY ConcatEmptySeq DEF IsTransactionList
<1> HIDE DEF H, s, t, x
<1>6. /\ H = 0 => FlattenSeq(s) = s /\ FlattenSeq(t) = t[1]
      /\ H # 0 => FlattenSeq(t) = FlattenSeq(s) \o t[H + 1]
  BY <1>1, <1>2, <1>3, FlattenGrows
<1>7. FlattenSeq(t) = FlattenSeq(s) \o x
  <2>1. CASE H = 0
    <3>1. t[1] = x
      BY <1>3, <2>1
    <3> QED
      BY <1>4, <1>5, <1>6, <2>1, <3>1
  <2>2. CASE H # 0
    BY <1>3, <1>6, <2>2
  <2> QED
    BY <2>1, <2>2
<1> QED
  BY <1>7 DEF s, t, x

-----------------------------------------------------------------------------
(***************************************************************************)
(* The invariant, and what follows.  BranchInv needs the hash of a block   *)
(* to differ from NIL, the model's nil pointer: the parent of a block      *)
(* would otherwise pass for none.                                          *)
(***************************************************************************)

\* A hash is a string of the program and NIL is no string.
NilIsNoHash == \A b : BlockHash(b) # NIL

\* Every branch keeps its tally.
BranchesOK ==
  \A h \in Hashes : /\ IsTransactionList(BranchTxs(h))
                   /\ Tally(BranchTxs(h), DOMAIN Chain[h].L)

BranchInv == NIL \notin Hashes /\ BranchesOK

\* It holds initially,
LEMMA BranchInit == Init => BranchInv
<1> SUFFICES ASSUME Init PROVE BranchInv
  OBVIOUS
<1>1. /\ Hashes = {GENESIS_HASH}
      /\ Chain[GENESIS_HASH].L = NewLedger
      /\ Chain[GENESIS_HASH].Height = 0
  BY DEF Init, NewBlockChain, Hashes, Chain
<1> DEFINE g == GENESIS_HASH
           s == ListsIn(blockchain, g)
<1>2. Len(s) = 0
  BY <1>1, LengthOfLists DEF Chain
<1>3. s = <<>>
  BY <1>1 DEF ListsIn, Chain
<1>4. BranchTxs(g) = <<>>
  BY <1>2, <1>3, BranchTxsMeans DEF FlattenSeq
<1>5. IsTransactionList(<<>>)
  BY EmptySeq DEF IsTransactionList
<1>6. Tally(<<>>, {})
  <2>1. Created(<<>>) = {} /\ Claimed(<<>>) = {} /\ SpendsOnce(<<>>)
    BY DEF Created, Claimed, SpendsOnce
  <2> QED
    BY <2>1 DEF Tally
<1>7. DOMAIN NewLedger = {}
  BY DEF NewLedger
<1> QED
  BY <1>1, <1>4, <1>5, <1>6, <1>7, ConfigAssumption DEF BranchInv, BranchesOK

\* an accepted block leaves the branches that are there alone, and ends one
\* that is its parent's and its own transactions,
LEMMA BranchesAfter ==
  ASSUME NilIsNoHash, TypeOK, LedgersOK, BranchInv,
         NEW b, IsBody(b), Acceptable(blockchain, b), blockchain' = AddBlock(blockchain, b)
  PROVE  /\ \A h \in Hashes : BranchTxs(h)' = BranchTxs(h)
         /\ BranchTxs(BlockHash(b))' = BranchTxs(b.PrevHash) \o BlockTxs(b)
         /\ IsTransactionList(BranchTxs(b.PrevHash)) /\ IsTransactionList(BlockTxs(b))
         /\ Tally(BranchTxs(b.PrevHash) \o BlockTxs(b),
                  DOMAIN LedgerAfter(b, Chain[b.PrevHash].L))
         /\ BlockHash(b) # NIL
<1> DEFINE n == BlockHash(b)
           p == b.PrevHash
           l == Chain[p].L
           H == Chain[p].Height
           base == BranchTxs(p)
<1>1. /\ Hashes' = Hashes \cup {n}
      /\ p \in Hashes
      /\ p # NIL /\ n # NIL
      /\ H \in Nat
  BY AcceptedBlock DEF TypeOK, WrapperOK, BranchInv, NilIsNoHash
<1>2. /\ \A h \in Hashes : /\ Chain'[h].L = Chain[h].L
                          /\ Chain'[h].Height = Chain[h].Height
                          /\ Chain'[h].B = Chain[h].B
                          /\ Chain'[h].Parent = Chain[h].Parent
      /\ Chain'[n].L = LedgerAfter(b, l)
      /\ Chain'[n].Height = H + 1
      /\ Chain'[n].Parent = p
      /\ Chain'[n].B = b
  BY AcceptedFields
<1>3. Extends(blockchain', blockchain, Hashes)
  BY <1>2 DEF Extends, Chain, TypeOK, WrapperOK
<1>4. ASSUME NEW h \in Hashes
      PROVE  BranchTxs(h)' = BranchTxs(h)
  BY <1>3, ListsKept, BranchTxsMeans
<1>5. /\ IsTransactionList(base)
      /\ LedgerOK(l)
      /\ Tally(base, DOMAIN l)
      /\ BodyValid(b, l)
  BY <1>1 DEF BranchInv, BranchesOK, LedgersOK, Acceptable, Chain
<1>6. /\ Tally(base \o BlockTxs(b), DOMAIN LedgerAfter(b, l))
      /\ IsTransactionList(BlockTxs(b))
      /\ IsTransactionList(base \o BlockTxs(b))
  BY <1>5, TallyOfBody, ListJoins
<1>7. BranchTxs(n)' = base \o BlockTxs(b)
  <2>1. /\ blockchain'.Chain[n].Parent = p
        /\ blockchain'.Chain[n].Height = blockchain.Chain[p].Height + 1
        /\ blockchain'.Chain[n].B = b
    BY <1>2 DEF Chain
  <2>2. IsTransactionList(BlockTxs(blockchain'.Chain[n].B))
    BY <1>6, <2>1
  <2>a. p \in Hashes /\ p # NIL
    BY <1>1
  <2> HIDE DEF n, p, base, l, H
  <2>b. PICK bc : bc = blockchain
    OBVIOUS
  <2>c. PICK bd : bd = blockchain'
    OBVIOUS
  <2>d. /\ Extends(bd, bc, Hashes)
        /\ bd.Chain[n].Parent = p
        /\ bd.Chain[n].Height = bc.Chain[p].Height + 1
        /\ IsTransactionList(BlockTxs(bd.Chain[n].B))
    BY <1>3, <2>1, <2>2, <2>b, <2>c
  <2>3. FlattenSeq(ListsIn(bd, n)) = FlattenSeq(ListsIn(bc, p)) \o BlockTxs(bd.Chain[n].B)
    BY <2>a, <2>d, ListsFlatten
  <2>4. BranchTxs(n)' = FlattenSeq(ListsIn(bd, n))
    BY <2>c, BranchTxsMeans
  <2>5. base = FlattenSeq(ListsIn(bc, p))
    BY <2>b, BranchTxsMeans DEF base
  <2> QED
    BY <2>1, <2>3, <2>4, <2>5, <2>c
<1> QED
  BY <1>1, <1>4, <1>5, <1>6, <1>7

\* so it keeps the invariant,
LEMMA BranchAccept ==
  ASSUME NilIsNoHash, TypeOK, LedgersOK, BranchInv,
         NEW b, IsBody(b), Acceptable(blockchain, b), blockchain' = AddBlock(blockchain, b)
  PROVE  BranchInv'
<1> DEFINE n == BlockHash(b)
           l == Chain[b.PrevHash].L
           base == BranchTxs(b.PrevHash)
<1>1. Hashes' = Hashes \cup {n} /\ n # NIL
  BY AcceptedBlock, BranchesAfter
<1>2. /\ \A h \in Hashes : Chain'[h].L = Chain[h].L
      /\ Chain'[n].L = LedgerAfter(b, l)
  BY AcceptedFields
<1>3. /\ \A h \in Hashes : BranchTxs(h)' = BranchTxs(h)
      /\ BranchTxs(n)' = base \o BlockTxs(b)
      /\ Tally(base \o BlockTxs(b), DOMAIN LedgerAfter(b, l))
      /\ IsTransactionList(base \o BlockTxs(b))
  BY BranchesAfter, ListJoins
<1> HIDE DEF n, base, l
<1>4. BranchesOK'
  BY <1>1, <1>2, <1>3 DEF BranchInv, BranchesOK
<1>5. NIL \notin Hashes'
  BY <1>1 DEF BranchInv
<1> QED
  BY <1>4, <1>5 DEF BranchInv

\* and so does every step.
LEMMA BranchStep ==
  ASSUME NilIsNoHash
  PROVE  TypeOK /\ MoneyInv /\ BranchInv /\ [Next]_vars => BranchInv'
<1> SUFFICES ASSUME TypeOK, MoneyInv, BranchInv, [Next]_vars PROVE BranchInv'
  OBVIOUS
<1>1. CASE UNCHANGED blockchain
  <2>1. \A h : BranchTxs(h)' = BranchTxs(h)
    BY <1>1, BranchTxsMeans
  <2> QED
    BY <1>1, <2>1 DEF BranchInv, BranchesOK, Hashes, Chain
<1>2. ASSUME NEW b, IsBody(b), Acceptable(blockchain, b), blockchain' = AddBlock(blockchain, b)
      PROVE  BranchInv'
  BY <1>2, BranchAccept DEF MoneyInv
<1> QED
  BY <1>1, <1>2, TreeStepBody DEF MoneyInv

\* A branch's tally gives its ledger: each unspent output is the one its
\* identifier names.
LEMMA LedgersFromTallies == MoneyInv /\ BranchInv => LedgerIsUnspentSet
<1> SUFFICES ASSUME MoneyInv, BranchInv, NEW h \in Hashes, DistinctIds(BranchTxs(h))
             PROVE  Chain[h].L = [u \in Created(BranchTxs(h)) \ Claimed(BranchTxs(h)) |->
                                    OutputOf(BranchTxs(h), u)]
  BY DEF LedgerIsUnspentSet
<1> DEFINE txs == BranchTxs(h)
           l == Chain[h].L
           D == Created(txs) \ Claimed(txs)
<1>1. DOMAIN l = D
  BY DEF BranchInv, BranchesOK, Tally
<1>2. LedgerOK(l)
  BY DEF MoneyInv, LedgersOK
<1>3. ASSUME NEW u \in D PROVE OutputOf(txs, u) = u.PrevTxHash.Outputs[u.Index + 1]
  <2>1. PICK k \in DOMAIN txs : u \in {UtxoLite(TxHash(txs[k]), i - 1) : i \in DOMAIN txs[k].Outputs}
    BY DEF Created
  <2>2. TxHash(txs[k]) = u.PrevTxHash
    BY <2>1, UtxoFields
  <2> DEFINE m == CHOOSE j \in DOMAIN txs : TxHash(txs[j]) = u.PrevTxHash
  <2>3. TxHash(txs[m]) = u.PrevTxHash
    BY <2>2
  <2>4. TxHash(txs[m]).Outputs = txs[m].Outputs
    BY DEF TxHash
  <2> QED
    BY <2>3, <2>4 DEF OutputOf
<1> HIDE DEF D, txs, l
<1>4. l = [u \in D |-> OutputOf(txs, u)]
  BY <1>1, <1>2, <1>3 DEF LedgerOK
<1> QED
  BY <1>4 DEF D, txs, l

\* And it says that no output is claimed twice.
LEMMA SpendOnceFromTallies == BranchInv => BranchesSpendOnce
<1> SUFFICES ASSUME BranchInv, NEW h \in Hashes, DistinctIds(BranchTxs(h)),
                    NEW c, NEW d, c # d,
                    \E k \in DOMAIN BranchTxs(h) :
                      \E i \in DOMAIN BranchTxs(h)[k].Inputs : c = <<k, i>>,
                    \E k \in DOMAIN BranchTxs(h) :
                      \E i \in DOMAIN BranchTxs(h)[k].Inputs : d = <<k, i>>
             PROVE  CreateUtxoFromInput(BranchTxs(h)[c[1]].Inputs[c[2]])
                      # CreateUtxoFromInput(BranchTxs(h)[d[1]].Inputs[d[2]])
  BY DEF BranchesSpendOnce
<1>1. SpendsOnce(BranchTxs(h))
  BY DEF BranchInv, BranchesOK, Tally
<1> QED
  BY <1>1 DEF SpendsOnce

\* The ledger of every block holds exactly the outputs created and not yet
\* claimed on the way to it, whatever forks and orphans came in between
\* (HandleNewBlock copies the parent's ledger and processes the block into
\* the copy), unless two transactions of the branch have one hash.
THEOREM LedgersAreUnspentSets ==
  ASSUME NilIsNoHash
  PROVE  Spec => []LedgerIsUnspentSet
<1>1. TypeOK /\ MoneyInv /\ BranchInv /\ [Next]_vars => BranchInv'
  BY BranchStep
<1> QED
  BY <1>1, LedgersFromTallies, TypeInit, TypeStep, MoneyInit, MoneyStep, BranchInit, PTL DEF Spec

\* No two inputs on a branch of the tree claim the same output, with the same
\* proviso: the blocks of a branch spend each output once.
THEOREM NoDoubleSpending ==
  ASSUME NilIsNoHash
  PROVE  Spec => []BranchesSpendOnce
<1>1. TypeOK /\ MoneyInv /\ BranchInv /\ [Next]_vars => BranchInv'
  BY BranchStep
<1> QED
  BY <1>1, SpendOnceFromTallies, TypeInit, TypeStep, MoneyInit, MoneyStep, BranchInit, PTL DEF Spec

-----------------------------------------------------------------------------
(***************************************************************************)
(* How much money there is.  Where all the amounts on the way to a block   *)
(* are numbers, its ledger holds numbers, no more than one reward per      *)
(* level; a NAN on one branch does not reach another.                      *)
(***************************************************************************)

Funded(l, height) == HoldsNumbers(l) /\ Total(l) <= COINBASE_REWARD * height

BoundInv ==
  \A h \in Hashes : OnlyNumbers(BranchTxs(h)) => Funded(Chain[h].L, Chain[h].Height)

\* The transactions of a list of numbers are of numbers, in both its parts,
LEMMA NumbersOfParts ==
  ASSUME NEW a, IsTransactionList(a), NEW e, IsTransactionList(e), OnlyNumbers(a \o e)
  PROVE  OnlyNumbers(a) /\ OnlyNumbers(e)
<1> DEFINE n == Len(a)
           m == Len(e)
           c == a \o e
<1>1. n \in Nat /\ m \in Nat /\ DOMAIN a = 1..n /\ DOMAIN e = 1..m
  BY ListDomain
<1>2. /\ DOMAIN c = 1..(n + m)
      /\ \A k \in 1..n : c[k] = a[k]
      /\ \A k \in 1..m : c[n + k] = e[k]
  BY <1>1 DEF IsTransactionList
<1> HIDE DEF c, n, m
<1>3. \A k \in 1..(n + m) : HasNumbers(c[k])
  BY <1>2 DEF OnlyNumbers, c
<1>4. \A k \in 1..n : k \in 1..(n + m)
  BY <1>1
<1>5. \A k \in 1..m : n + k \in 1..(n + m)
  BY <1>1
<1>6. \A k \in 1..n : HasNumbers(a[k])
  BY <1>2, <1>3, <1>4
<1>7. \A k \in 1..m : HasNumbers(e[k])
  BY <1>2, <1>3, <1>5
<1> QED
  BY <1>1, <1>6, <1>7 DEF OnlyNumbers

\* and so are those of a block and its coinbase.
LEMMA NumbersOfBlock ==
  ASSUME NEW b, IsBody(b), OnlyNumbers(BlockTxs(b))
  PROVE  OnlyNumbers(b.Txs) /\ HasNumbers(b.Coinbase)
<1> DEFINE txs == b.Txs
           tx == b.Coinbase
           n == Len(txs)
           c == Append(txs, tx)
<1>0. IsTransactionList(txs) /\ IsTransaction(tx)
  BY DEF IsBody
<1> HIDE DEF txs, tx
<1>1. n \in Nat /\ DOMAIN txs = 1..n
  BY <1>0, ListDomain
<1>2. /\ IsTransactionList(c) /\ Len(c) = n + 1
      /\ c[n + 1] = tx
      /\ \A k \in 1..n : c[k] = txs[k]
  BY <1>0, ListGrows
<1>3. DOMAIN c = 1..(n + 1)
  BY <1>2, ListDomain
<1>4. OnlyNumbers(c)
  BY DEF BlockTxs, txs, tx
<1> HIDE DEF c
<1>5. \A k \in 1..(n + 1) : HasNumbers(c[k])
  BY <1>3, <1>4 DEF OnlyNumbers
<1>6. OnlyNumbers(txs) /\ HasNumbers(tx)
  BY <1>1, <1>2, <1>5 DEF OnlyNumbers
<1> QED
  BY <1>6 DEF txs, tx

\* A block of numbers that passes its tests makes at most one reward: its
\* transactions make nothing, and its coinbase no more than the reward,
\* because the fee is never positive.
LEMMA BodyMakesItsReward ==
  ASSUME NEW b, IsBody(b), OnlyNumbers(b.Txs), HasNumbers(b.Coinbase),
         NEW l, LedgerOK(l), HoldsNumbers(l), BodyValid(b, l)
  PROVE  /\ HoldsNumbers(LedgerAfter(b, l))
         /\ Total(LedgerAfter(b, l)) <= Total(l) + COINBASE_REWARD
<1> DEFINE m == HandleTransactions(b.Txs, l).L
           q == ProcessInputsAndOutputs(b.Coinbase, m)
           v == b.Coinbase.Outputs[1].Value
           fee == CalcTxFee(b.Txs, l)
<1>1. LedgerOK(m) /\ HoldsNumbers(m) /\ Total(m) <= Total(l)
  BY TransactionsKeepLedger, TransactionsMakeNothing DEF IsBody
<1>2. /\ Len(b.Coinbase.Inputs) = 0
      /\ Len(b.Coinbase.Outputs) = 1
      /\ ~Less(Plus(fee, COINBASE_REWARD), v)
  BY DEF BodyValid, IsValidCoinbase
<1>3. fee \in Int /\ fee <= 0
  BY FeeIsNeverPositive DEF IsBody, BodyValid
<1>4. v \in Int
  <2>1. 1 \in DOMAIN b.Coinbase.Outputs
    BY <1>2, TransactionLists DEF IsBody
  <2> QED
    BY <2>1 DEF HasNumbers
<1> HIDE DEF fee, v
<1>5. v <= COINBASE_REWARD
  <2>1. Plus(fee, COINBASE_REWARD) = fee + COINBASE_REWARD
    BY <1>3, RewardIsNat, NumberArithmetic
  <2>2. fee + COINBASE_REWARD \in Int
    BY <1>3, RewardIsNat
  <2>3. ~(fee + COINBASE_REWARD < v)
    BY <1>2, <1>4, <2>1, <2>2, NumberArithmetic
  <2> QED
    BY <1>3, <1>4, <2>3, RewardIsNat
<1> HIDE DEF m
<1>6. LedgerOK(q) /\ HoldsNumbers(q)
  BY <1>1, Processed, ProcessedNumbers DEF IsBody
<1>7. Total(q) <= Total(m) + COINBASE_REWARD
  BY <1>1, <1>2, <1>5, RewardIsNat, CoinbaseMakesItsValue DEF IsBody, v
<1>8. Total(q) \in Int /\ Total(m) \in Int /\ Total(l) \in Int
  BY <1>1, <1>6, TotalIsInt
<1>9. LedgerAfter(b, l) = q
  BY DEF LedgerAfter, m
<1> HIDE DEF q
<1> QED
  BY <1>1, <1>6, <1>7, <1>8, <1>9, RewardIsNat

\* The bound holds initially,
LEMMA BoundInit == Init => BoundInv
<1> SUFFICES ASSUME Init PROVE BoundInv
  OBVIOUS
<1>1. /\ Hashes = {GENESIS_HASH}
      /\ Chain[GENESIS_HASH].L = NewLedger
      /\ Chain[GENESIS_HASH].Height = 0
  BY DEF Init, NewBlockChain, Hashes, Chain
<1>2. DOMAIN NewLedger = {} /\ NewLedger = [u \in DOMAIN NewLedger |-> NewLedger[u]]
  BY DEF NewLedger
<1>3. LedgerOK(NewLedger) /\ HoldsNumbers(NewLedger)
  BY <1>2, FS_EmptySet DEF LedgerOK, HoldsNumbers
<1>4. Total(NewLedger) = 0
  BY <1>2, <1>3, TotalIsInt, SumOfNothing
<1>5. COINBASE_REWARD * 0 = 0
  BY RewardIsNat
<1> QED
  BY <1>1, <1>3, <1>4, <1>5 DEF BoundInv, Funded

\* an accepted block keeps it,
LEMMA BoundAccept ==
  ASSUME NilIsNoHash, TypeOK, LedgersOK, BranchInv, BoundInv,
         NEW b, IsBody(b), Acceptable(blockchain, b), blockchain' = AddBlock(blockchain, b)
  PROVE  BoundInv'
<1> DEFINE n == BlockHash(b)
           p == b.PrevHash
           l == Chain[p].L
           H == Chain[p].Height
<1>1. Hashes' = Hashes \cup {n} /\ p \in Hashes /\ H \in Nat
  BY AcceptedBlock DEF TypeOK, WrapperOK
<1>2. /\ \A h \in Hashes : Chain'[h].L = Chain[h].L /\ Chain'[h].Height = Chain[h].Height
      /\ Chain'[n].L = LedgerAfter(b, l)
      /\ Chain'[n].Height = H + 1
  BY AcceptedFields
<1>3. /\ \A h \in Hashes : BranchTxs(h)' = BranchTxs(h)
      /\ BranchTxs(n)' = BranchTxs(p) \o BlockTxs(b)
      /\ IsTransactionList(BranchTxs(p)) /\ IsTransactionList(BlockTxs(b))
  BY BranchesAfter
<1>4. LedgerOK(l) /\ BodyValid(b, l)
  BY <1>1 DEF LedgersOK, Acceptable, Chain
<1>5. OnlyNumbers(BranchTxs(p)) => Funded(l, H)
  BY <1>1 DEF BoundInv
<1> HIDE DEF n, l, H, p
<1>6. ASSUME OnlyNumbers(BranchTxs(p) \o BlockTxs(b))
      PROVE  Funded(LedgerAfter(b, l), H + 1)
  <2>1. OnlyNumbers(BranchTxs(p)) /\ OnlyNumbers(BlockTxs(b))
    BY <1>3, <1>6, NumbersOfParts
  <2>2. OnlyNumbers(b.Txs) /\ HasNumbers(b.Coinbase)
    BY <2>1, NumbersOfBlock
  <2>3. HoldsNumbers(l) /\ Total(l) <= COINBASE_REWARD * H
    BY <1>5, <2>1 DEF Funded
  <2>4. /\ HoldsNumbers(LedgerAfter(b, l))
        /\ Total(LedgerAfter(b, l)) <= Total(l) + COINBASE_REWARD
    BY <1>4, <2>2, <2>3, BodyMakesItsReward
  <2>5. Total(l) \in Int /\ Total(LedgerAfter(b, l)) \in Int
    BY <1>4, <2>3, <2>4, BodyKeepsLedger, TotalIsInt
  <2>6. COINBASE_REWARD * (H + 1) = COINBASE_REWARD * H + COINBASE_REWARD
    BY <1>1, RewardIsNat
  <2>7. COINBASE_REWARD * H \in Int
    BY <1>1, RewardIsNat
  <2>8. Total(LedgerAfter(b, l)) <= COINBASE_REWARD * (H + 1)
    BY <2>3, <2>4, <2>5, <2>6, <2>7, RewardIsNat
  <2> QED
    BY <2>4, <2>8 DEF Funded
<1>7. OnlyNumbers(BranchTxs(n)') => Funded(Chain'[n].L, Chain'[n].Height)
  BY <1>2, <1>3, <1>6
<1>8. ASSUME NEW h \in Hashes
      PROVE  OnlyNumbers(BranchTxs(h)') => Funded(Chain'[h].L, Chain'[h].Height)
  BY <1>2, <1>3 DEF BoundInv
<1> QED
  BY <1>1, <1>7, <1>8 DEF BoundInv, OnlyNumbers, HasNumbers, Funded

\* and so does every step.
LEMMA BoundStep ==
  ASSUME NilIsNoHash
  PROVE  TypeOK /\ MoneyInv /\ BranchInv /\ BoundInv /\ [Next]_vars => BoundInv'
<1> SUFFICES ASSUME TypeOK, MoneyInv, BranchInv, BoundInv, [Next]_vars PROVE BoundInv'
  OBVIOUS
<1>1. CASE UNCHANGED blockchain
  <2>1. \A h : BranchTxs(h)' = BranchTxs(h)
    BY <1>1, BranchTxsMeans
  <2> QED
    BY <1>1, <2>1 DEF BoundInv, Hashes, Chain, OnlyNumbers, HasNumbers, Funded
<1>2. ASSUME NEW b, IsBody(b), Acceptable(blockchain, b), blockchain' = AddBlock(blockchain, b)
      PROVE  BoundInv'
  BY <1>2, BoundAccept DEF MoneyInv
<1> QED
  BY <1>1, <1>2, TreeStepBody DEF MoneyInv

\* The sum NoInflation speaks of is the total of the ledger.
LEMMA MoneyIsTotal == MoneyInv /\ BoundInv => NoInflation
<1> SUFFICES ASSUME MoneyInv, BoundInv, NEW h \in Hashes, OnlyNumbers(BranchTxs(h))
             PROVE  LET money == SumOf([u \in DOMAIN Chain[h].L |-> Chain[h].L[u].Value])
                    IN  money \in Int /\ money <= COINBASE_REWARD * Chain[h].Height
  BY DEF NoInflation
<1> DEFINE l == Chain[h].L
<1>1. LedgerOK(l) /\ HoldsNumbers(l) /\ Total(l) <= COINBASE_REWARD * Chain[h].Height
  BY DEF MoneyInv, LedgersOK, BoundInv, Funded
<1> HIDE DEF l
<1>2. DOMAIN Values(l) = DOMAIN l /\ \A u \in DOMAIN Values(l) : Values(l)[u] \in Int
  BY <1>1 DEF Values, HoldsNumbers
<1>3. SumOf(Values(l)) = SumFunctionOnSet(Values(l), DOMAIN l)
  BY <1>2, SumOfNumbers
<1>4. SumOf(Values(l)) = Total(l) /\ Total(l) \in Int
  BY <1>1, <1>3, TotalIsInt
<1> QED
  BY <1>1, <1>4 DEF Values, l

\* On a branch all of whose amounts are numbers, the unspent outputs of a
\* block never add up to more than one COINBASE_REWARD per level above the
\* genesis block: IsValidTransaction, CalcTxFee and IsValidCoinbase
\* (src/utils) let no transaction and no block of it make money, whatever
\* other branches hold, those with NAN amounts among them.
THEOREM MoneyIsBounded ==
  ASSUME NilIsNoHash
  PROVE  Spec => []NoInflation
<1>1. TypeOK /\ MoneyInv /\ BranchInv /\ [Next]_vars => BranchInv'
  BY BranchStep
<1>2. TypeOK /\ MoneyInv /\ BranchInv /\ BoundInv /\ [Next]_vars => BoundInv'
  BY BoundStep
<1> QED
  BY <1>1, <1>2, MoneyIsTotal, TypeInit, TypeStep, MoneyInit, MoneyStep,
     BranchInit, BoundInit, PTL DEF Spec

=============================================================================
