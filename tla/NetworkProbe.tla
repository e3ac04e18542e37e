----------------------------- MODULE NetworkProbe -----------------------------
(***************************************************************************)
(* The command "network": ProbNetwork of src/full_node/cmd/main.go asks    *)
(* the node itself for its peers, then these for theirs, and so on, over   *)
(* the RPC GetPeers (Introduce), and draws the graph it hears of (Graph of *)
(* src/visualize/visualize.go).  Nodes come, go and change their peers     *)
(* while it asks.  The flag is_probing is tested and set in the goroutine  *)
(* of each probe, without a lock.                                          *)
(***************************************************************************)
EXTENDS Integers, Sequences, FiniteSets, SequencesExt

CONSTANTS
  Addresses,   \* endpoints of nodes
  SELF_ADDR,   \* the node's own
  Probers,     \* goroutines that may probe at a time
  PeerLists,   \* what the nodes may have as lists of peers
  MaxChanges   \* bound: changes of the lists

ASSUME ProbeAssumption ==
  /\ SELF_ADDR \in Addresses
  /\ PeerLists \subseteq [Addresses -> Seq(Addresses)]
  /\ MaxChanges \in Nat

VARIABLES
  peersOf,     \* the list of peers of each node
  changes,     \* how often the lists have changed
  is_probing,  \* the flag
  probe        \* [pc, todo, seen, graph] of each probe: graph maps a node that
               \* answered to its answer

probeVars == <<peersOf, changes, is_probing, probe>>

NoProbe == [pc |-> "off", todo |-> <<>>, seen |-> {}, graph |-> [a \in {} |-> a]]

ProbeInit ==
  /\ peersOf \in PeerLists
  /\ changes = 0
  /\ is_probing = FALSE
  /\ probe = [g \in Probers |-> NoProbe]

ProbeStarts(g) ==
  /\ probe[g].pc = "off"
  /\ probe' = [probe EXCEPT ![g].pc = "test"]
  /\ UNCHANGED <<peersOf, changes, is_probing>>

TestFlag(g) ==
  /\ probe[g].pc = "test"
  /\ probe' = [probe EXCEPT ![g].pc = IF is_probing THEN "off" ELSE "set"]
  /\ UNCHANGED <<peersOf, changes, is_probing>>

SetFlag(g) ==
  /\ probe[g].pc = "set"
  /\ is_probing' = TRUE
  /\ probe' = [probe EXCEPT ![g] = [NoProbe EXCEPT !.pc = "ask", !.todo = <<SELF_ADDR>>]]
  /\ UNCHANGED <<peersOf, changes>>

(***************************************************************************)
(* The next address: skipped if it was asked before; asked otherwise.  It  *)
(* may give no answer, and its answer makes a node of the graph.           *)
(* (Faulty versions: no answer ends the probe; an address without an       *)
(* answer is put at the end again.)                                        *)
(***************************************************************************)
Next1(g) == Head(probe[g].todo)

Asking(g) == probe[g].pc = "ask" /\ probe[g].todo # <<>>

SkipSeen(g) ==
  /\ Asking(g)
  /\ Next1(g) \in probe[g].seen
  /\ probe' = [probe EXCEPT ![g].todo = Tail(@)]
  /\ UNCHANGED <<peersOf, changes, is_probing>>

NoAnswerEndsProbe(g) ==
  /\ Asking(g)
  /\ Next1(g) \notin probe[g].seen
  /\ probe' = [probe EXCEPT ![g].todo = <<>>, ![g].seen = @ \cup {Next1(g)}]
  /\ UNCHANGED <<peersOf, changes, is_probing>>

NoAnswerAsksAgain(g) ==
  /\ Asking(g)
  /\ Next1(g) \notin probe[g].seen
  /\ probe' = [probe EXCEPT ![g].todo = Append(Tail(@), Next1(g))]
  /\ UNCHANGED <<peersOf, changes, is_probing>>

NoAnswer(g) ==
  /\ Asking(g)
  /\ Next1(g) \notin probe[g].seen
  /\ probe' = [probe EXCEPT ![g].todo = Tail(@), ![g].seen = @ \cup {Next1(g)}]
  /\ UNCHANGED <<peersOf, changes, is_probing>>

\* ProbNetwork's graph[addr] = the peers the answer lists.
WithAnswer(graph, a, list) ==
  [b \in DOMAIN graph \cup {a} |-> IF b = a THEN list ELSE graph[b]]

Answer(g) ==
  LET a == Next1(g)
  IN  /\ Asking(g)
      /\ a \notin probe[g].seen
      /\ probe' = [probe EXCEPT
           ![g].todo  = Tail(@) \o peersOf[a],
           ![g].seen  = @ \cup {a},
           ![g].graph = WithAnswer(@, a, peersOf[a])]
      /\ UNCHANGED <<peersOf, changes, is_probing>>

ProbeDraws(g) ==
  /\ probe[g].pc = "ask"
  /\ probe[g].todo = <<>>
  /\ probe' = [probe EXCEPT ![g].pc = "draw"]
  /\ UNCHANGED <<peersOf, changes, is_probing>>

ProbeEnds(g) ==
  /\ probe[g].pc = "draw"
  /\ is_probing' = FALSE
  /\ probe' = [probe EXCEPT ![g] = NoProbe]
  /\ UNCHANGED <<peersOf, changes>>

ProbeStep(g) ==
  \/ TestFlag(g) \/ SetFlag(g)
  \/ SkipSeen(g) \/ NoAnswer(g) \/ Answer(g)
  \/ ProbeDraws(g) \/ ProbeEnds(g)

NetworkChanges ==
  /\ changes < MaxChanges
  /\ changes' = changes + 1
  /\ peersOf' \in PeerLists
  /\ UNCHANGED <<is_probing, probe>>
=============================================================================
