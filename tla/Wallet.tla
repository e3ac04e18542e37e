-------------------------------- MODULE Wallet --------------------------------
(***************************************************************************)
(* Wallets at work on a full node: src/wallet/wallet.go with the loop of   *)
(* src/wallet/cmd/main.go that carries out one command after the other,    *)
(* CreatePendingTransaction of src/utils/transaction_utils.go, and the RPC *)
(* handlers GetBalance and SetTransaction on the side of the node, whose   *)
(* other handlers and miner are those of FullNode.                         *)
(*                                                                         *)
(* A transfer is two calls: one for the balance, CONFIRMATION blocks below *)
(* the tail, and one that submits a transaction made of it.  The second    *)
(* may fail before or after the node has acted, or end in a timeout while  *)
(* the node acts; an invalid transaction is dropped and reported as sent;  *)
(* the user may try again.                                                 *)
(***************************************************************************)
EXTENDS FullNode

CONSTANTS
  Wallets,      \* public keys of the wallets
  Receivers,    \* what users type as receivers: keys, names, anything
  Hex,          \* strings that are hexadecimal; the public keys are
  Named,        \* pairs <<key, name>> that users introduce
  Amounts,      \* amounts users type
  MaxTransfers  \* bound: transactions all wallets make

\* ClientCommand.IsValid lets only positive amounts through, and so no NAN.
ASSUME WalletAssumption ==
  /\ Wallets \subseteq Hex
  /\ \A pair \in Named : pair[1] \in Hex
  /\ Amounts \subseteq Nat \ {0}
  /\ MaxTransfers \in Nat

VARIABLES
  wallet,  \* [conn, UTXOs, alias, pc, tx] of each wallet
  sent     \* history: [from, tx, basis] of each transfer, in order

nodeVars   == <<blockchain, txPool, checked, miner>>
walletVars == <<nodeVars, wallet, sent>>

NewWallet == [conn |-> "none", UTXOs |-> NewLedger, alias |-> [n \in {} |-> n],
              pc |-> "idle", tx |-> NIL]

WalletInit ==
  /\ Init
  /\ wallet = [w \in Wallets |-> NewWallet]
  /\ sent = <<>>

Idle(w) == wallet[w].pc = "idle"

Connected(w) == wallet[w].conn = "ready"

-----------------------------------------------------------------------------
\* SetFullNodeConnection: the old connection is closed, and a connection just
\* dialled is not Ready yet.  (The goroutine that watches it changes nothing.)
Connect(w) ==
  /\ Idle(w)
  /\ wallet' = [wallet EXCEPT ![w].conn = "down"]
  /\ UNCHANGED <<nodeVars, sent>>

\* gRPC finds the node, or loses it.
ConnectionChanges(w) ==
  /\ wallet[w].conn # "none"
  /\ wallet' = [wallet EXCEPT ![w].conn = IF @ = "down" THEN "ready" ELSE "down"]
  /\ UNCHANGED <<nodeVars, sent>>

\* The command is "alias <key> <name>".
SetAlias(w, pk, name) ==
  /\ Idle(w)
  /\ wallet' = [wallet EXCEPT ![w].alias =
                  [n \in DOMAIN @ \cup {name} |-> IF n = name THEN pk ELSE @[n]]]
  /\ UNCHANGED <<nodeVars, sent>>

GetPKFromAlias(w, r) == IF r \in DOMAIN wallet[w].alias THEN wallet[w].alias[r] ELSE r

-----------------------------------------------------------------------------
(***************************************************************************)
(* The balance: what pays the key in the ledger CONFIRMATION blocks below  *)
(* the tail.  It replaces the one the wallet had.  (Without a connection,  *)
(* and when the call fails, nothing changes.  Faulty version: everybody's  *)
(* outputs.)                                                               *)
(***************************************************************************)
GetUtxoForAnybody(pk) ==
  LedgerSnapshotAtDepth(blockchain, CONFIRMATION)

GetUtxoForPublicKey(pk) ==
  LET l == LedgerSnapshotAtDepth(blockchain, CONFIRMATION)
  IN  Restrict(l, {u \in DOMAIN l : l[u].PublicKey = pk})

GetBalance(w) ==
  /\ Idle(w)
  /\ Connected(w)
  /\ Running
  /\ wallet' = [wallet EXCEPT ![w].UTXOs = GetUtxoForPublicKey(w)]
  /\ UNCHANGED <<nodeVars, sent>>

(***************************************************************************)
(* CreatePendingTransaction claims ALL outputs of the wallet, in any order *)
(* (UTXOs is a Go map), and pays the rest, even a negative one, back to    *)
(* the wallet.  (Faulty version: no change.)                               *)
(***************************************************************************)
Deposit(utxos) == SumOf([u \in DOMAIN utxos |-> utxos[u].Value])

Signed(u, sk) == [PrevTxHash |-> u.PrevTxHash, Index |-> u.Index, Signature |-> sk]

PendingTransaction(claims, outputs, sk) ==
  [Inputs  |-> [i \in DOMAIN claims |-> Signed(claims[i], sk)],
   Outputs |-> outputs,
   Height  |-> 0]

CreatePendingWithoutChange(sk, utxos, outputs) ==
  {PendingTransaction(claims, outputs, sk) : claims \in SetToSeqs(DOMAIN utxos)}

CreatePendingTransaction(sk, utxos, outputs) ==
  LET change == [Value     |-> Minus(Deposit(utxos), TotalOutput([Outputs |-> outputs])),
                 PublicKey |-> sk]
  IN  {PendingTransaction(claims, Append(outputs, change), sk) :
         claims \in SetToSeqs(DOMAIN utxos)}

(***************************************************************************)
(* TransferMoney: the balance, then the receiver, then the transaction.    *)
(***************************************************************************)
TransferFails(w, r) ==
  /\ Idle(w)
  /\ Connected(w)
  /\ Running
  /\ GetPKFromAlias(w, r) \notin Hex
  /\ wallet' = [wallet EXCEPT ![w].UTXOs = GetUtxoForPublicKey(w)]
  /\ UNCHANGED <<nodeVars, sent>>

TransferMoney(w, r, value) ==
  LET output == [Value |-> value, PublicKey |-> GetPKFromAlias(w, r)]
      utxos  == GetUtxoForPublicKey(w)
  IN  /\ Idle(w)
      /\ Connected(w)
      /\ Running
      /\ Len(sent) < MaxTransfers
      /\ GetPKFromAlias(w, r) \in Hex
      /\ \E tx \in CreatePendingTransaction(w, utxos, <<output>>) :
           /\ wallet' = [wallet EXCEPT ![w].UTXOs = utxos, ![w].pc = "send", ![w].tx = tx]
           /\ sent' = Append(sent,
                [from  |-> w, tx |-> tx,
                 basis |-> Ancestor(blockchain, blockchain.Tail, CONFIRMATION)])
      /\ UNCHANGED nodeVars

\* The submission reaches the node, whose handler validates it.
SubmissionArrives(w) ==
  /\ wallet[w].pc = "send"
  /\ Connected(w)
  /\ Running
  /\ checked' = IF IsValidTransaction(wallet[w].tx, TailLedger)
                THEN checked \cup {wallet[w].tx} ELSE checked
  /\ wallet' = [wallet EXCEPT ![w].pc = "wait"]
  /\ UNCHANGED <<blockchain, txPool, miner, sent>>

\* The wallet has an answer, or an error or a timeout before or after the node
\* acted; it has no state for which, and takes the next command.
SubmissionReturns(w) ==
  /\ wallet[w].pc \in {"send", "wait"}
  /\ wallet' = [wallet EXCEPT ![w].pc = "idle", ![w].tx = NIL]
  /\ UNCHANGED <<nodeVars, sent>>

WalletStep(w) ==
  \/ Connect(w)
  \/ ConnectionChanges(w)
  \/ \E pair \in Named : SetAlias(w, pair[1], pair[2])
  \/ GetBalance(w)
  \/ \E r \in Receivers : TransferFails(w, r)
  \/ \E r \in Receivers, value \in Amounts : TransferMoney(w, r, value)
  \/ SubmissionArrives(w)
  \/ SubmissionReturns(w)

-----------------------------------------------------------------------------
(***************************************************************************)
(* The node.  Its peers hear of the transactions too, and may put them     *)
(* into their blocks.                                                      *)
(***************************************************************************)
PeerBlock ==
  LET txLists == WireTxs \cup {<<sent[k].tx>> : k \in DOMAIN sent}
  IN  [PrevHash : DOMAIN blockchain.Chain, Txs : txLists,
       Coinbase : WireCoinbase, Sealed : {TRUE}]

NodeStep ==
  \/ \E tx \in checked : AddTransactionToPool(tx)
  \/ \E b \in PeerBlock : SetBlock(b)
  \/ MinerReadHeight
  \/ \E txs \in SetToSeqs(txPool) : CreateNewBlock(txs)
  \/ RemoveErrTx
  \/ MinerInterrupted
  \/ MinerFound

WalletNext ==
  \/ \E w \in Wallets : WalletStep(w)
  \/ NodeStep /\ UNCHANGED <<wallet, sent>>

WalletSpec == WalletInit /\ [][WalletNext]_walletVars

WalletFairSpec == WalletSpec /\ MinerFairness
=============================================================================
