------------------------------- MODULE MCWallet -------------------------------
(***************************************************************************)
(* Instances of Wallet for TLC: the user has mined at a peer, and pays a   *)
(* shop under its key or under a name.                                     *)
(***************************************************************************)
EXTENDS WalletProperties

CONSTANTS self, user, shop,  \* public keys
          friend             \* a name that is no key

Reward == 2

Coinbase1 == {CreateCoinbaseTx(Reward, user, 1)}

NoTx      == {}
WireEmpty == {<<>>}
TheUser   == {user}
Keys      == {user, shop}
AName     == {friend}
ShopNamed == {<<shop, friend>>}
OneOrTwo  == {1, 2}
===============================================================================
