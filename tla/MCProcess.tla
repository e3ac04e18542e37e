------------------------------- MODULE MCProcess ------------------------------
(***************************************************************************)
(* Instances of Process for TLC: a node or a wallet, with another program  *)
(* that has the same key file, among nodes that list each other.           *)
(***************************************************************************)
EXTENDS ProcessProperties

CONSTANTS me, other,   \* programs
          k1, k2,      \* keys
          a1, a2, a3,  \* endpoints
          g1           \* a probe

TwoPrograms == {me, other}
TwoKeys     == {k1, k2}

Endpoints == {a1, a2, a3}
OneProbe == {g1}

\* A ring with a chord; a1 without peers.
Ring   == a1 :> <<a2, a3>> @@ a2 :> <<a1, a3>> @@ a3 :> <<a2>>
Parted == a1 :> <<>> @@ a2 :> <<a1, a3>> @@ a3 :> <<a2>>
Networks == {Ring, Parted}

Bare(word) == [word |-> word, args |-> <<>>]

\* Two lines each program takes, and one it does not.
Typed ==
  "node" :> {Bare("network"), Bare("key"), Bare("show")} @@
  "wallet" :> {Bare("get_balance"), Bare("my_pk"), Bare("transfer")}
=============================================================================
