------------------------------ MODULE FullNode ------------------------------
(***************************************************************************)
(* One full node (src/full_node/full_node.go) between its restarts: the    *)
(* block tree and the transaction pool behind one RWMutex, and the         *)
(* goroutines that use them -                                              *)
(*   - SetTransaction handlers, which validate against a snapshot of the   *)
(*     tail's ledger, let go of the mutex, and add to the pool later;      *)
(*   - SetBlock handlers, one critical section each;                       *)
(*   - the miner's loop, which reads the tail's height, later takes a      *)
(*     snapshot of the tail and the pool, mines without the mutex, and     *)
(*     handles what it found; or drops bad transactions one at a time.     *)
(* A step is one critical section; what a goroutine computes on its own    *)
(* copies is folded into the step that took the copies.                    *)
(*                                                                         *)
(* The node's peers are the environment: any block of WireTxs and          *)
(* WireCoinbase on any parent, any transaction of Tx, in any order.        *)
(***************************************************************************)
EXTENDS Blockchain

CONSTANTS
  SELF,          \* the node's public key
  Tx,            \* transactions that wallets and peers may submit
  WireTxs,       \* transaction lists of the blocks peers send
  WireCoinbase,  \* coinbase transactions of the blocks peers send
  UNKNOWN,       \* parent hash of a block whose parent the node has not got
  MaxBlocks      \* bound: blocks in the tree, the genesis block included

ASSUME WireAssumption ==
  /\ \A tx \in Tx \cup WireCoinbase : IsTransaction(tx)
  /\ \A txs \in WireTxs :
       txs \in Seq(Range(txs)) /\ \A k \in DOMAIN txs : IsTransaction(txs[k])

ASSUME BoundAssumption == MaxBlocks \in Nat \ {0}

VARIABLES
  blockchain,  \* [Tail, Chain]
  txPool,      \* set of pending transactions, at most one for each hash
  checked,     \* transactions a handler has validated and not yet added
  miner        \* [pc, height, block, errTxs]: local state of the miner

vars == <<blockchain, txPool, checked, miner>>

TailLedger == blockchain.Chain[blockchain.Tail].L

InPool(tx) == \E p \in txPool : TxHash(p) = TxHash(tx)

WithoutHashes(pool, hashes) == {p \in pool : TxHash(p) \notin hashes}

\* log.Fatalln ends the process, with all its goroutines.
Running == miner.pc # "exited"

\* The miner between two calls of Mine.
Resting == [pc |-> "rest", height |-> 0, block |-> GenesisBlock, errTxs |-> <<>>]

Init ==
  /\ blockchain = NewBlockChain
  /\ txPool = {}
  /\ checked = {}
  /\ miner = Resting

-----------------------------------------------------------------------------
(***************************************************************************)
(* SetTransaction: first the validation, against a copy of the tail's      *)
(* ledger (an invalid transaction is dropped and nothing is reported) ...  *)
(***************************************************************************)
ValidateTransaction(tx) ==
  /\ Running
  /\ IsValidTransaction(tx, LedgerSnapshotAtDepth(blockchain, 0))
  /\ checked' = checked \cup {tx}
  /\ UNCHANGED <<blockchain, txPool, miner>>

(***************************************************************************)
(* ... then AddTransactionToPool, in a critical section of its own that    *)
(* looks at nothing but the hash.                                          *)
(***************************************************************************)
AddTransactionToPool(tx) ==
  /\ Running
  /\ tx \in checked
  /\ checked' = checked \ {tx}
  /\ txPool' = IF InPool(tx) THEN txPool ELSE txPool \cup {tx}
  /\ UNCHANGED <<blockchain, miner>>

-----------------------------------------------------------------------------
(***************************************************************************)
(* HandleNewBlock, for a peer's block and for the miner's own.             *)
(***************************************************************************)
HandleNewBlock(b) ==
  \/ /\ Acceptable(blockchain, b)
     /\ Cardinality(DOMAIN blockchain.Chain) < MaxBlocks
     /\ blockchain' = AddBlock(blockchain, b)
     /\ txPool' = WithoutHashes(txPool, TxHashes(b.Txs))
  \/ /\ ~Acceptable(blockchain, b)
     /\ UNCHANGED <<blockchain, txPool>>

WireBlock ==
  [PrevHash : DOMAIN blockchain.Chain \cup {UNKNOWN},
   Txs : WireTxs, Coinbase : WireCoinbase, Sealed : BOOLEAN]

SetBlock(b) ==
  /\ Running
  /\ HandleNewBlock(b)
  /\ UNCHANGED <<checked, miner>>

-----------------------------------------------------------------------------
(***************************************************************************)
(* The miner.  Mine reads the height of the next block ...                 *)
(***************************************************************************)
MinerReadHeight ==
  /\ miner.pc = "rest"
  /\ miner' = [miner EXCEPT !.pc = "start", !.height = TailHeight(blockchain) + 1]
  /\ UNCHANGED <<blockchain, txPool, checked>>

(***************************************************************************)
(* ... and CreateNewBlock takes the tail, its ledger and the pool under    *)
(* the read lock.  The pool is a Go map, so the transactions come in any   *)
(* order.  If some of them fail in that order, the miner goes on to drop   *)
(* them; if all succeed but the fee cannot be computed on the tail's own   *)
(* ledger, log.Fatalln ends the process; otherwise the block is mined.     *)
(* (Faulty version: the miner pays itself the tips, which HandleNewBlock   *)
(* does not grant.)                                                        *)
(***************************************************************************)
CandidateWithTips(txs) ==
  [PrevHash |-> blockchain.Tail,
   Txs      |-> txs,
   Coinbase |-> CreateCoinbaseTx(Minus(COINBASE_REWARD, CalcTxFee(txs, TailLedger)),
                                 SELF, miner.height),
   Sealed   |-> TRUE]

Candidate(txs) ==
  [PrevHash |-> blockchain.Tail,
   Txs      |-> txs,
   Coinbase |-> CreateCoinbaseTx(Plus(COINBASE_REWARD, CalcTxFee(txs, TailLedger)),
                                 SELF, miner.height),
   Sealed   |-> TRUE]

AssembleFails(txs) ==
  /\ HandleTransactions(txs, TailLedger).errTxs # <<>>
  /\ miner' = [miner EXCEPT !.pc = "clean",
                            !.errTxs = HandleTransactions(txs, TailLedger).errTxs]

AssembleDies(txs) ==
  /\ HandleTransactions(txs, TailLedger).errTxs = <<>>
  /\ ~FeeIsDefined(txs, TailLedger)
  /\ miner' = [miner EXCEPT !.pc = "exited"]

AssembleSucceeds(txs) ==
  /\ HandleTransactions(txs, TailLedger).errTxs = <<>>
  /\ FeeIsDefined(txs, TailLedger)
  /\ miner' = [miner EXCEPT !.pc = "mining", !.block = Candidate(txs)]

CreateNewBlock(txs) ==
  /\ miner.pc = "start"
  /\ AssembleFails(txs) \/ AssembleDies(txs) \/ AssembleSucceeds(txs)
  /\ UNCHANGED <<blockchain, txPool, checked>>

\* RemoveTransactionFromPool for the next failed transaction.  (Faulty
\* version: the failed transactions stay.)
RemoveNoErrTx ==
  /\ miner.pc = "clean"
  /\ miner' = Resting
  /\ UNCHANGED <<blockchain, txPool, checked>>

RemoveErrTx ==
  /\ miner.pc = "clean"
  /\ txPool' = WithoutHashes(txPool, {TxHash(Head(miner.errTxs))})
  /\ miner' = IF Len(miner.errTxs) = 1 THEN Resting
              ELSE [miner EXCEPT !.errTxs = Tail(@)]
  /\ UNCHANGED <<blockchain, checked>>

\* A command (restart, stop) takes the miner out of the nonce loop.
MinerInterrupted ==
  /\ miner.pc = "mining"
  /\ miner' = Resting
  /\ UNCHANGED <<blockchain, txPool, checked>>

\* A nonce is found and the block is handled like any other.
MinerFound ==
  /\ miner.pc = "mining"
  /\ HandleNewBlock(miner.block)
  /\ miner' = Resting
  /\ UNCHANGED checked

-----------------------------------------------------------------------------
Next ==
  \/ \E tx \in Tx : ValidateTransaction(tx)
  \/ \E tx \in checked : AddTransactionToPool(tx)
  \/ \E b \in WireBlock : SetBlock(b)
  \/ MinerReadHeight
  \/ \E txs \in SetToSeqs(txPool) : CreateNewBlock(txs)
  \/ RemoveErrTx
  \/ MinerInterrupted
  \/ MinerFound

Spec == Init /\ [][Next]_vars

(***************************************************************************)
(* The miner's loop calls Mine again whenever it returns, its critical     *)
(* sections wait only for sections that end, and its nonce loop ends with  *)
(* a nonce or a command.  Nothing is assumed of handlers and peers.        *)
(***************************************************************************)
MinerFairness ==
  /\ WF_vars(MinerReadHeight)
  /\ WF_vars(\E txs \in SetToSeqs(txPool) : CreateNewBlock(txs))
  /\ WF_vars(RemoveErrTx)
  /\ WF_vars(MinerFound \/ MinerInterrupted)
=============================================================================
