------------------------------- MODULE Commands -------------------------------
(***************************************************************************)
(* What a user may type: CreateCommand and CreateClientCommand with their  *)
(* IsValid (src/commands), for the node's and the wallet's terminal.       *)
(*                                                                         *)
(* A line is a word and the tokens after it.  A token is the set of tests  *)
(* that it passes: "ip" (an IPv4 address), "port" (four digits somewhere   *)
(* in it), "int" (Atoi), "hex", "positive" (ParseFloat, above zero).       *)
(***************************************************************************)
EXTENDS Integers, Sequences, FiniteSets

Tests == {"ip", "port", "int", "hex", "positive"}

Line(words, tokens) == [word : words, args : UNION {[1..n -> tokens] : n \in 0..3}]

\* Argument k is there and passes a test.
Passes(args, k, test) == k \in DOMAIN args /\ test \in args[k]

Endpoint(args) == Len(args) = 2 /\ Passes(args, 1, "ip") /\ Passes(args, 2, "port")

-----------------------------------------------------------------------------
(***************************************************************************)
(* The node's commands.  The word "sync" is not among them, though the     *)
(* operation SYNC is; a word that is not known leaves DEFAULT, which is    *)
(* never valid.  (Faulty version: show without a number.)                  *)
(***************************************************************************)
NodeWords ==
  {"start", "restart", "stop", "add_peer", "remove_peer", "list_peer", "show", "key",
   "introduce", "network"}

NodeCommandValidBareShow(line) ==
  \/ line.word \in {"start", "restart", "stop", "list_peer", "key", "network", "show"}
       /\ line.args = <<>>
  \/ line.word \in {"add_peer", "remove_peer", "introduce"} /\ Endpoint(line.args)

NodeCommandValid(line) ==
  \/ line.word \in {"start", "restart", "stop", "list_peer", "key", "network"}
       /\ line.args = <<>>
  \/ line.word \in {"add_peer", "remove_peer", "introduce"} /\ Endpoint(line.args)
  \/ line.word = "show" /\ Len(line.args) = 1 /\ Passes(line.args, 1, "int")

(***************************************************************************)
(* The wallet's.  The receiver of a transfer may be anything, since it may *)
(* be a name; the name of an alias, too.                                   *)
(***************************************************************************)
WalletWords == {"transfer", "my_pk", "connect", "get_balance", "alias", "show_alias"}

WalletCommandValid(line) ==
  \/ line.word = "transfer" /\ Len(line.args) = 2 /\ Passes(line.args, 2, "positive")
  \/ line.word \in {"my_pk", "get_balance", "show_alias"} /\ line.args = <<>>
  \/ line.word = "connect" /\ Endpoint(line.args)
  \/ line.word = "alias" /\ Len(line.args) = 2 /\ Passes(line.args, 1, "hex")

CommandValid(kind, line) ==
  IF kind = "node" THEN NodeCommandValid(line) ELSE WalletCommandValid(line)

-----------------------------------------------------------------------------
(***************************************************************************)
(* What HandleCommand of each program does with a command that got         *)
(* through: the words it has a case for, the arguments it takes out of     *)
(* Args without looking whether they are there, and the tests it relies    *)
(* on.  "remove_peer" has no case.                                         *)
(***************************************************************************)
Handled(kind) ==
  IF kind = "node" THEN NodeWords \ {"remove_peer"} ELSE WalletWords

Takes(word) ==
  CASE word \in {"add_peer", "introduce", "connect", "transfer", "alias"} -> {1, 2}
    [] word = "show" -> {1}
    [] OTHER -> {}

ReliesOn(word) ==
  CASE word \in {"add_peer", "introduce", "connect"} -> {<<1, "ip">>}
    [] word = "show" -> {<<1, "int">>}
    [] word = "transfer" -> {<<2, "positive">>}
    [] word = "alias" -> {<<1, "hex">>}
    [] OTHER -> {}

(***************************************************************************)
(* What gets through has a case in HandleCommand, or is "remove_peer"; the  *)
(* arguments it takes are there; and they pass the tests it relies on.     *)
(***************************************************************************)
ArgumentsSuffice(kind) ==
  \A line \in Line(NodeWords \cup WalletWords \cup {"sync", ""}, {{}} \cup {{t} : t \in Tests}) :
    CommandValid(kind, line) =>
      /\ line.word \in Handled(kind) \cup {"remove_peer"}
      /\ Takes(line.word) \subseteq DOMAIN line.args
      /\ \A r \in ReliesOn(line.word) : r[2] \in line.args[r[1]]
=============================================================================
