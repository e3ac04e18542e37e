------------------------------- MODULE Ledger -------------------------------
(***************************************************************************)
(* Transactions and the unspent-output ledger: the pure functions of       *)
(* src/utils/transaction_utils.go and src/utils/ledger_utils.go.           *)
(*                                                                         *)
(* A transaction is a record [Inputs, Outputs, Height]; an input names an  *)
(* output by [PrevTxHash, Index] and carries a Signature, an output is     *)
(* [Value, PublicKey].  A signature is represented by the key whose        *)
(* private half produced it, so verifying it is comparing keys.  SHA256 is *)
(* taken to be injective, and the bytes it is given to be unambiguous: a   *)
(* hash is the tuple of the fields those bytes are made of.                *)
(***************************************************************************)
EXTENDS Integers, Sequences, FiniteSets, SequencesExt

CONSTANT NAN   \* the float64 that is not a number

ASSUME NanAssumption == NAN \notin Int

(***************************************************************************)
(* Amounts are float64, and a peer may send any.  Here they are integers   *)
(* and NAN; fractions, rounding and infinities are not modelled.  NAN goes *)
(* through every sum and difference, and compares as neither less than     *)
(* anything nor greater.                                                   *)
(***************************************************************************)
Amount == Int \cup {NAN}

Less(a, b) == a # NAN /\ b # NAN /\ a < b

Plus(a, b) == IF NAN \in {a, b} THEN NAN ELSE a + b

Minus(a, b) == IF NAN \in {a, b} THEN NAN ELSE a - b

SumOf(f) == IF \E x \in DOMAIN f : f[x] = NAN THEN NAN ELSE SumFunction(f)

(***************************************************************************)
(* The hash of a transaction covers its inputs without their signatures,   *)
(* its outputs and its height (GetTransactionBytes with withHash = false). *)
(***************************************************************************)
UtxoLite(txHash, index) == [PrevTxHash |-> txHash, Index |-> index]

CreateUtxoFromInput(input) == UtxoLite(input.PrevTxHash, input.Index)

TxHash(tx) ==
  [Inputs  |-> [i \in DOMAIN tx.Inputs |-> CreateUtxoFromInput(tx.Inputs[i])],
   Outputs |-> tx.Outputs,
   Height  |-> tx.Height]

(***************************************************************************)
(* What any transaction is: two lists, and outputs of some amount.         *)
(***************************************************************************)
IsTransaction(tx) ==
  /\ tx.Inputs \in Seq(Range(tx.Inputs))
  /\ tx.Outputs \in Seq(Range(tx.Outputs))
  /\ \A i \in DOMAIN tx.Outputs : tx.Outputs[i].Value \in Amount

NewLedger == [u \in {} |-> u]

(***************************************************************************)
(* The transactions and ledgers in which every amount is a number.  (No    *)
(* code makes this distinction; the properties about money do.)            *)
(***************************************************************************)
HasNumbers(tx) == \A i \in DOMAIN tx.Outputs : tx.Outputs[i].Value \in Int

OnlyNumbers(txs) == \A k \in DOMAIN txs : HasNumbers(txs[k])

HoldsNumbers(l) == \A u \in DOMAIN l : l[u].Value \in Int

-----------------------------------------------------------------------------
(***************************************************************************)
(* Validation of one transaction against a ledger.                         *)
(***************************************************************************)
ClaimedUtxos(tx) == {CreateUtxoFromInput(tx.Inputs[i]) : i \in DOMAIN tx.Inputs}

TotalInput(tx, l) ==
  SumOf([i \in DOMAIN tx.Inputs |-> l[CreateUtxoFromInput(tx.Inputs[i])].Value])

TotalOutput(tx) == SumOf([i \in DOMAIN tx.Outputs |-> tx.Outputs[i].Value])

IsValidTransaction(tx, l) ==
  /\ ClaimedUtxos(tx) \subseteq DOMAIN l
  /\ \A i \in DOMAIN tx.Inputs :
       tx.Inputs[i].Signature = l[CreateUtxoFromInput(tx.Inputs[i])].PublicKey
  /\ \A i, j \in DOMAIN tx.Inputs :
       i # j => CreateUtxoFromInput(tx.Inputs[i]) # CreateUtxoFromInput(tx.Inputs[j])
  /\ \A i \in DOMAIN tx.Outputs : ~Less(tx.Outputs[i].Value, 0)
  /\ ~Less(TotalInput(tx, l), TotalOutput(tx))

-----------------------------------------------------------------------------
(***************************************************************************)
(* The "fee" of a list of transactions, computed against ONE ledger that   *)
(* none of them has been applied to.  CalcTxFee fails when an input is not *)
(* in that ledger or a transaction creates more than it claims; otherwise  *)
(* the code sums outputs minus inputs, so a tip counts NEGATIVELY.         *)
(***************************************************************************)
FeeIsDefined(txs, l) ==
  \A k \in DOMAIN txs :
    /\ ClaimedUtxos(txs[k]) \subseteq DOMAIN l
    /\ ~Less(TotalInput(txs[k], l), TotalOutput(txs[k]))

CalcTxFee(txs, l) ==
  SumOf([k \in DOMAIN txs |-> Minus(TotalOutput(txs[k]), TotalInput(txs[k], l))])

(***************************************************************************)
(* Coinbase transactions.  (WithoutHeight and AnyReward are faulty         *)
(* versions the properties are tried on; no module uses them.)             *)
(***************************************************************************)
CreateCoinbaseTxWithoutHeight(totalReward, pk, height) ==
  [Inputs  |-> <<>>,
   Outputs |-> <<[Value |-> totalReward, PublicKey |-> pk]>>,
   Height  |-> 0]

CreateCoinbaseTx(totalReward, pk, height) ==
  [Inputs  |-> <<>>,
   Outputs |-> <<[Value |-> totalReward, PublicKey |-> pk]>>,
   Height  |-> height]

IsValidCoinbaseAnyReward(tx, maxFee) == Len(tx.Inputs) = 0 /\ Len(tx.Outputs) = 1

IsValidCoinbase(tx, maxFee) ==
  /\ Len(tx.Inputs) = 0
  /\ Len(tx.Outputs) = 1
  /\ ~Less(maxFee, tx.Outputs[1].Value)

-----------------------------------------------------------------------------
(***************************************************************************)
(* Applying transactions: claim every input, then store every output.  An  *)
(* output stored under an identifier the ledger already has replaces it.   *)
(* (Faulty version: the inputs are never deleted.)                         *)
(***************************************************************************)
ProcessOutputsOnly(tx, l) ==
  LET created == {UtxoLite(TxHash(tx), i - 1) : i \in DOMAIN tx.Outputs}
  IN  [u \in DOMAIN l \cup created |->
         IF u \in created THEN tx.Outputs[u.Index + 1] ELSE l[u]]

ProcessInputsAndOutputs(tx, l) ==
  LET created == {UtxoLite(TxHash(tx), i - 1) : i \in DOMAIN tx.Outputs}
  IN  [u \in (DOMAIN l \ ClaimedUtxos(tx)) \cup created |->
         IF u \in created THEN tx.Outputs[u.Index + 1] ELSE l[u]]

HandleTransaction(tx, st) ==
  IF IsValidTransaction(tx, st.L)
  THEN [st EXCEPT !.L = ProcessInputsAndOutputs(tx, @)]
  ELSE [st EXCEPT !.errTxs = Append(@, tx)]

(***************************************************************************)
(* HandleTransactions goes on after a failure: valid transactions change   *)
(* the ledger, the others are collected.                                   *)
(***************************************************************************)
HandleTransactions(txs, l) ==
  FoldLeft(LAMBDA st, tx : HandleTransaction(tx, st), [L |-> l, errTxs |-> <<>>], txs)
=============================================================================
