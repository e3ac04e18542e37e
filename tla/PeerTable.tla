------------------------------ MODULE PeerTable -----------------------------
(***************************************************************************)
(* The peer list of a full node (src/full_node/full_node_server.go) and    *)
(* everybody who changes it:                                               *)
(*   - AddPeer handlers and the command loop's AddMutualConnection, which  *)
(*     look for the address under the read lock and append under the       *)
(*     lock, two critical sections apart;                                  *)
(*   - for each connection a goroutine that looks at it now and then,      *)
(*     gives it up after the third look in a row that finds it down,       *)
(*     and removes the address from the list.                              *)
(*                                                                         *)
(* A section under the server's RWMutex that ends by itself is one step,   *)
(* and those that only read the list (broadcasts, GetPeers) are none: they *)
(* delay the others, no more.  One section does not end by itself: an add  *)
(* that finds its address keeps the read lock.  From then on readers pass, *)
(* and once a goroutine asks for the lock, nobody does.                    *)
(***************************************************************************)
EXTENDS Integers, Sequences, FiniteSets, SequencesExt

CONSTANTS
  Handlers,  \* goroutines that may serve AddPeer at a time
  LOOP,      \* the HandleCommand goroutine
  Addr,      \* addresses of other nodes
  NOBODY,    \* no address
  MaxAdds    \* bound: attempts to add a peer

ASSUME PeersAssumption == MaxAdds \in Nat /\ LOOP \notin Handlers

VARIABLES
  asked,    \* attempts so far
  adders,   \* where each handler and the loop is, for which address
  conns,    \* connections in the order they were dialled
  peers,    \* the list: address and connection (an index in conns)
  mutex,    \* "free", "read" (a read lock was kept) or "jammed"
  crashed   \* a panic has ended the process

vars == <<asked, adders, conns, peers, mutex, crashed>>

Adders == Handlers \cup {LOOP}

\* How often a connection may be found down.
Retry == 3

NewConn(a) == [addr |-> a, state |-> "down", reaper |-> "none", try |-> 0]

Listed(a) == \E i \in DOMAIN peers : peers[i].addr = a

MayRLock == mutex # "jammed"
MayLock  == mutex = "free"

Init ==
  /\ asked = 0
  /\ adders = [p \in Adders |-> [pc |-> "idle", addr |-> NOBODY, conn |-> 0]]
  /\ conns = <<>>
  /\ peers = <<>>
  /\ mutex = "free"
  /\ crashed = FALSE

AdderGoes(p, from, to) ==
  /\ adders[p].pc = from
  /\ adders' = [adders EXCEPT ![p].pc = to]

-----------------------------------------------------------------------------
(***************************************************************************)
(* AddPeerInternal.  It looks for the address under the read lock, and     *)
(* keeps the read lock if it is there.                                     *)
(***************************************************************************)
AdderAsks(p, a) ==
  /\ asked < MaxAdds
  /\ asked' = asked + 1
  /\ adders[p].pc = "idle"
  /\ adders' = [adders EXCEPT ![p] = [pc |-> "scan", addr |-> a, conn |-> 0]]
  /\ UNCHANGED <<conns, peers, mutex, crashed>>

AdderFinds(p) ==
  /\ MayRLock
  /\ Listed(adders[p].addr)
  /\ AdderGoes(p, "scan", "idle")
  /\ mutex' = "read"
  /\ UNCHANGED <<asked, conns, peers, crashed>>

\* Dial does not wait for the other side.  (Faulty version: the entry gets
\* the connection dialled before.)
AdderDialsPrevious(p) ==
  /\ MayRLock
  /\ ~Listed(adders[p].addr)
  /\ adders[p].pc = "scan"
  /\ adders' = [adders EXCEPT ![p].pc = "append", ![p].conn = Len(conns)]
  /\ conns' = Append(conns, NewConn(adders[p].addr))
  /\ UNCHANGED <<asked, peers, mutex, crashed>>

AdderDials(p) ==
  /\ MayRLock
  /\ ~Listed(adders[p].addr)
  /\ adders[p].pc = "scan"
  /\ adders' = [adders EXCEPT ![p].pc = "append", ![p].conn = Len(conns) + 1]
  /\ conns' = Append(conns, NewConn(adders[p].addr))
  /\ UNCHANGED <<asked, peers, mutex, crashed>>

\* Faulty version: an address that is watched already gets no second reaper.
AdderAppendsUnwatched(p) ==
  LET a == adders[p].addr
      watched == \E c \in DOMAIN conns : conns[c].addr = a /\ conns[c].reaper = "watch"
  IN
  /\ MayLock
  /\ AdderGoes(p, "append", IF p = LOOP THEN "call" ELSE "idle")
  /\ peers' = Append(peers, [addr |-> a, conn |-> adders[p].conn])
  /\ conns' = IF watched THEN conns ELSE [conns EXCEPT ![adders[p].conn].reaper = "watch"]
  /\ UNCHANGED <<asked, mutex, crashed>>

AdderAppends(p) ==
  /\ MayLock
  /\ AdderGoes(p, "append", IF p = LOOP THEN "call" ELSE "idle")
  /\ peers' = Append(peers, [addr |-> adders[p].addr, conn |-> adders[p].conn])
  /\ conns' = [conns EXCEPT ![adders[p].conn].reaper = "watch"]
  /\ UNCHANGED <<asked, mutex, crashed>>

-----------------------------------------------------------------------------
(***************************************************************************)
(* AddMutualConnection goes on to call AddPeer at the other side.  If that *)
(* fails it cuts the last entry off the list, whosever it is; on an empty  *)
(* list the slice expression panics.                                       *)
(***************************************************************************)
LoopCalls(answer) ==
  /\ AdderGoes(LOOP, "call", answer)
  /\ UNCHANGED <<asked, conns, peers, mutex, crashed>>

LoopKeeps ==
  /\ MayLock
  /\ AdderGoes(LOOP, "answered", "idle")
  /\ UNCHANGED <<asked, conns, peers, mutex, crashed>>

LoopPrunes ==
  /\ MayLock
  /\ AdderGoes(LOOP, "failed", "idle")
  /\ peers # <<>>
  /\ peers' = Front(peers)
  /\ UNCHANGED <<asked, conns, mutex, crashed>>

LoopPanics ==
  /\ MayLock
  /\ AdderGoes(LOOP, "failed", "idle")
  /\ peers = <<>>
  /\ crashed' = TRUE
  /\ UNCHANGED <<asked, conns, peers, mutex>>

-----------------------------------------------------------------------------
\* A connection comes up and goes down until it is closed.
ConnChanges(c) ==
  /\ c \in DOMAIN conns
  /\ \/ conns[c].state = "down" /\ conns' = [conns EXCEPT ![c].state = "ready"]
     \/ conns[c].state = "ready" /\ conns' = [conns EXCEPT ![c].state = "down"]
  /\ UNCHANGED <<asked, adders, peers, mutex, crashed>>

(***************************************************************************)
(* The goroutine that watches a connection.  The third look is 21 seconds  *)
(* after the connection was listed, the loop's call on it ends within 10.  *)
(***************************************************************************)
BeingCalled(c) == adders[LOOP].pc = "call" /\ adders[LOOP].conn = c

ReaperLooks(c) ==
  /\ c \in DOMAIN conns
  /\ conns[c].reaper = "watch"
  /\ \/ /\ conns[c].state = "ready"
        /\ conns' = [conns EXCEPT ![c].try = 0]
     \/ /\ conns[c].state = "down"
        /\ conns[c].try + 1 < Retry
        /\ conns' = [conns EXCEPT ![c].try = @ + 1]
     \/ /\ conns[c].state = "down"
        /\ conns[c].try + 1 = Retry
        /\ ~BeingCalled(c)
        /\ conns' = [conns EXCEPT ![c].state = "closed", ![c].reaper = "remove"]
  /\ UNCHANGED <<asked, adders, peers, mutex, crashed>>

\* RemovePeer takes the first entry with the address out of the list.
\* (Faulty version: it looks at all entries but the last.)
RemovePeerButLast(a) ==
  LET at == {i \in DOMAIN peers : peers[i].addr = a /\ i < Len(peers)}
  IN peers' = IF at = {} THEN peers
              ELSE RemoveAt(peers, CHOOSE i \in at : \A j \in at : i <= j)

RemovePeer(a) ==
  LET at == {i \in DOMAIN peers : peers[i].addr = a}
  IN peers' = IF at = {} THEN peers
              ELSE RemoveAt(peers, CHOOSE i \in at : \A j \in at : i <= j)

ReaperRemoves(c) ==
  /\ MayLock
  /\ c \in DOMAIN conns
  /\ conns[c].reaper = "remove"
  /\ RemovePeer(conns[c].addr)
  /\ conns' = [conns EXCEPT ![c].reaper = "done"]
  /\ UNCHANGED <<asked, adders, mutex, crashed>>

-----------------------------------------------------------------------------
\* A goroutine that asks for the lock while a read lock is kept waits for
\* ever, and everybody after it, readers too.
WriterJams ==
  /\ mutex = "read"
  /\ \/ \E p \in Adders : adders[p].pc \in {"append", "answered", "failed"}
     \/ \E c \in DOMAIN conns : conns[c].reaper = "remove"
  /\ mutex' = "jammed"
  /\ UNCHANGED <<asked, adders, conns, peers, crashed>>

AdderStep(p) == AdderFinds(p) \/ AdderDials(p) \/ AdderAppends(p)

LoopStep ==
  \/ AdderStep(LOOP)
  \/ LoopCalls("answered") \/ LoopCalls("failed")
  \/ LoopKeeps \/ LoopPrunes \/ LoopPanics

ReaperStep(c) == ReaperLooks(c) \/ ReaperRemoves(c)

Next ==
  /\ ~crashed
  /\ \/ \E p \in Adders, a \in Addr : AdderAsks(p, a)
     \/ \E p \in Handlers : AdderStep(p)
     \/ LoopStep
     \/ \E c \in 1..MaxAdds : ConnChanges(c) \/ ReaperStep(c)
     \/ WriterJams

Spec == Init /\ [][Next]_vars

(***************************************************************************)
(* Go runs every goroutine that can run, calls end by their timeouts, and  *)
(* a look at a connection comes after a sleep.  Nobody needs ask anything, *)
(* and a connection need never come up.                                    *)
(***************************************************************************)
Fairness ==
  /\ \A p \in Handlers : WF_vars(~crashed /\ AdderStep(p))
  /\ WF_vars(~crashed /\ LoopStep)
  /\ \A c \in 1..MaxAdds : WF_vars(~crashed /\ ReaperStep(c))
  /\ WF_vars(~crashed /\ WriterJams)

FairSpec == Spec /\ Fairness
=============================================================================
