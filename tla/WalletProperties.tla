--------------------------- MODULE WalletProperties ---------------------------
(***************************************************************************)
(* What wallets and a node promise together.                               *)
(***************************************************************************)
EXTENDS Wallet, FullNodeProperties

(***************************************************************************)
(* Types; what a wallet holds as its balance pays the wallet, and what it  *)
(* has sent claims no more than that.                                      *)
(***************************************************************************)
WalletTypeOK ==
  /\ \A w \in Wallets :
       /\ wallet[w].conn \in {"none", "down", "ready"}
       /\ wallet[w].pc \in {"idle", "send", "wait"}
       /\ \A u \in DOMAIN wallet[w].UTXOs : wallet[w].UTXOs[u].PublicKey = w
       /\ \A n \in DOMAIN wallet[w].alias : wallet[w].alias[n] \in Hex
  /\ \A k \in DOMAIN sent :
       /\ sent[k].from \in Wallets
       /\ sent[k].basis \in Hashes
       /\ LET l == Chain[sent[k].basis].L
          IN  \A u \in ClaimedUtxos(sent[k].tx) :
                u \in DOMAIN l /\ l[u].PublicKey = sent[k].from

(***************************************************************************)
(* Trying again does not pay twice.  Of two transfers of a wallet, both    *)
(* made on balances of one branch, and different, that branch has both     *)
(* only if the first was confirmed when the second was made: until then,   *)
(* each claims all the wallet has, and they exclude each other.  (On a     *)
(* branch where no coinbase repeats: an output that comes back can be      *)
(* spent again.)                                                           *)
(***************************************************************************)
IsOn(tx, h) == \E k \in DOMAIN BranchTxs(h) : TxHash(BranchTxs(h)[k]) = TxHash(tx)

Above(h, g) ==
  \E n \in 0..Chain[h].Height : Ancestor(blockchain, h, n) = g

PaysOnce ==
  \A h \in Hashes, i, j \in DOMAIN sent :
    /\ i < j
    /\ sent[i].from = sent[j].from
    /\ TxHash(sent[i].tx) # TxHash(sent[j].tx)
    /\ Above(h, sent[i].basis) /\ Above(h, sent[j].basis)
    /\ DistinctIds(BranchTxs(h))
    /\ IsOn(sent[i].tx, h) /\ IsOn(sent[j].tx, h)
    => IsOn(sent[i].tx, sent[j].basis)

(***************************************************************************)
(* Transfers lose no money: they leave no tip (which would be lost, and    *)
(* taken from the reward as well), so if peers claim full rewards, the     *)
(* miner does too, and a branch of n blocks holds n rewards; and nobody    *)
(* owes, though a wallet makes transactions whose change is negative.      *)
(***************************************************************************)
FullRewards == \A c \in WireCoinbase : TotalOutput(c) = COINBASE_REWARD

MoneyKept ==
  FullRewards =>
    \A h \in Hashes :
      DistinctIds(BranchTxs(h)) =>
        LET l == Chain[h].L
        IN  /\ Deposit(l) = COINBASE_REWARD * Chain[h].Height
            /\ \A u \in DOMAIN l : l[u].Value \in Nat

(***************************************************************************)
(* While the miner runs, and once the wallets are done, the transactions   *)
(* that the tail refuses leave the pool: those a later transfer of the     *)
(* same wallet excludes, those that came into the pool after a block had   *)
(* them, those a reorganisation took the inputs from ("We need to clean up *)
(* all failure transactions from the mining pool", CreateNewBlock).        *)
(***************************************************************************)
PoolSelfCleans ==
  []<>(~Running \/ \A tx \in txPool : IsValidTransaction(tx, TailLedger))
=============================================================================
