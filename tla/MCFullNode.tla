----------------------------- MODULE MCFullNode -----------------------------
(***************************************************************************)
(* Instances of FullNode for TLC: a few real transactions over the         *)
(* coinbases that peers send, and the sets the runs give to the constants. *)
(***************************************************************************)
EXTENDS FullNodeProperties

CONSTANTS self, peer, user   \* public keys

Reward == 2

Coinbase(value, pk, label) == CreateCoinbaseTx(value, pk, label)

Spend(prev, index, signer, outputs) ==
  [Inputs  |-> <<[PrevTxHash |-> TxHash(prev), Index |-> index, Signature |-> signer]>>,
   Outputs |-> outputs,
   Height  |-> 0]

Pay(value, pk) == [Value |-> value, PublicKey |-> pk]

\* Rewards for the peer; what is left of one when a tip is deducted from it;
\* one that claims too much; and one that claims no number.
cb1  == Coinbase(Reward, peer, 1)
cb2  == Coinbase(Reward, peer, 2)
cb3  == Coinbase(Reward, peer, 3)
less == Coinbase(Reward - 1, peer, 2)
over == Coinbase(Reward + 1, peer, 1)
odd  == Coinbase(NAN, peer, 1)

\* The peer pays the user and itself; pays the user and leaves a tip out of
\* the SAME output; the user leaves all that pay1 gave as a tip.
pay1 == Spend(cb1, 0, peer, <<Pay(1, user), Pay(1, peer)>>)
pay2 == Spend(cb1, 0, peer, <<Pay(1, user)>>)
pay3 == Spend(pay1, 0, user, <<Pay(0, user)>>)

\* A payment that names its input twice, and one out of no number.
twice  == [pay1 EXCEPT !.Inputs = @ \o @, !.Outputs = <<Pay(4, user)>>]
pay4   == Spend(odd, 0, peer, <<Pay(4, user)>>)

NoTx        == {}
TxChain     == {pay1, pay3}
WireEmpty   == {<<>>}
WireOne     == {<<>>, <<pay1>>}
WireAll     == {<<>>, <<pay1>>, <<pay1, pay2>>, <<pay2>>, <<pay3>>, <<twice>>, <<pay4>>}
Coinbase1   == {cb1}
Coinbase12  == {cb1, cb2}
Coinbase123 == {cb1, cb2, cb3}
CoinbaseAny == {cb1, cb2, less, over, odd}
=============================================================================
