----------------------------- MODULE CommandLoop ----------------------------
(***************************************************************************)
(* How mining and syncing are controlled: HandleCommand and the goroutines *)
(* it starts (src/full_node/cmd/main.go), and the SetBlock handlers and    *)
(* SyncToLatest that talk to it (src/full_node/full_node_server.go).       *)
(*                                                                         *)
(* Commands reach the loop over an unbuffered channel: a send and the      *)
(* receive are one step.  STOP and RESTART go on to the miner over ctl, a  *)
(* channel with one place, each carried by a goroutine of its own.         *)
(* is_mining and syncing are shared without a lock: a step reads the last  *)
(* value written.                                                          *)
(*                                                                         *)
(* A section under the server's RWMutex that ends by itself is one step -  *)
(* broadcasts too, whose calls have timeouts - and only delays others.     *)
(* One does not end by itself: a handler sends SYNC with the lock held.    *)
(*                                                                         *)
(* The tail is a version number that grows when a block becomes the tail.  *)
(* Peers come and go, so whether there is one is open whenever it is       *)
(* asked.  A block that does not become the tail and is not an orphan      *)
(* changes nothing here.                                                   *)
(***************************************************************************)
EXTENDS Integers, Sequences, FiniteSets, SequencesExt

CONSTANTS
  Handlers,               \* goroutines that may serve SetBlock at a time
  Syncers,                \* goroutines that may run SyncToLatest at a time
  UserCommands,           \* commands the user types
  CONFIRMATION,           \* config: block failures that call for a sync
  REMINE_ON_TAIL_CHANGE,  \* config
  MaxCommands,            \* bound: commands the user types
  MaxTail                 \* bound: changes of the tail

ASSUME LoopAssumption ==
  /\ CONFIRMATION \in Nat
  /\ REMINE_ON_TAIL_CHANGE \in BOOLEAN
  /\ {MaxCommands, MaxTail} \subseteq Nat
  /\ UserCommands \subseteq {"START", "STOP", "RESTART", "LIST_PEER"}

VARIABLES
  typed,      \* how many commands the user has typed
  input,      \* the command the input goroutine is sending, or "none"
  loop,       \* "recv", or "list" while GetAllPeers waits for the mutex
  is_mining,  \* shared flag
  miners,     \* the miners in the order they were started: [pc, base], where
              \* base is the tail a miner works on
  relays,     \* signals whose goroutines wait to put them into ctl
  ctl,        \* the channel to the miner
  handlers,   \* where each SetBlock handler is
  syncers,    \* where each SyncToLatest is
  failures,   \* blockFailure, counted up to CONFIRMATION
  syncing,    \* shared flag
  tail        \* version of the tail

loopVars  == <<typed, input, loop>>
minerVars == <<is_mining, miners, relays, ctl>>
syncVars  == <<syncers, failures, syncing>>
vars == <<loopVars, minerVars, handlers, syncVars, tail>>

\* Each START starts at most one miner.
Miners == 1..MaxCommands

\* A signal for the miner, with the last miner started when the loop took
\* the command (kept for the properties; the code's value is op alone).
Signal == [op : {"STOP", "RESTART"}, since : 0..MaxCommands]

MinerAlive(g) == miners[g].pc # "done"

\* No handler holds the server's lock.
LockFree == \A h \in Handlers : handlers[h] # "send sync"

Init ==
  /\ typed = 0 /\ input = "none" /\ loop = "recv"
  /\ is_mining = FALSE /\ miners = <<>>
  /\ relays = [s \in Signal |-> 0] /\ ctl = <<>>
  /\ handlers = [h \in Handlers |-> "idle"]
  /\ syncers = [s \in Syncers |-> "idle"]
  /\ failures = 0 /\ syncing = FALSE
  /\ tail = 0

-----------------------------------------------------------------------------
(***************************************************************************)
(* HandleCommand takes a command.  START starts a miner unless one mines;  *)
(* STOP and RESTART are handed to a goroutine if one mines, and dropped if *)
(* none does; SYNC starts SyncToLatest; LIST_PEER asks for the read lock.  *)
(***************************************************************************)
UserTypes(c) ==
  /\ input = "none"
  /\ typed < MaxCommands
  /\ typed' = typed + 1
  /\ input' = c
  /\ UNCHANGED <<loop, minerVars, handlers, syncVars, tail>>

StartMining ==
  /\ is_mining' = TRUE
  /\ miners' = Append(miners, [pc |-> "top", base |-> 0])
  /\ UNCHANGED <<relays, ctl>>

Relay(op) ==
  /\ relays' = [relays EXCEPT ![[op |-> op, since |-> Len(miners)]] = @ + 1]
  /\ UNCHANGED <<is_mining, miners, ctl>>

\* Faulty version: STOP is taken for done when it is handed on.
HandleMiningFlagFirst(c) ==
  \/ c = "START" /\ ~is_mining /\ StartMining
  \/ c = "RESTART" /\ is_mining /\ Relay(c)
  \/ /\ c = "STOP" /\ is_mining /\ is_mining' = FALSE
     /\ relays' = [relays EXCEPT ![[op |-> c, since |-> Len(miners)]] = @ + 1]
     /\ UNCHANGED <<miners, ctl>>
  \/ (c = "START") = is_mining /\ UNCHANGED minerVars

HandleMining(c) ==
  \/ c = "START" /\ ~is_mining /\ StartMining
  \/ c # "START" /\ is_mining /\ Relay(c)
  \/ (c = "START") = is_mining /\ UNCHANGED minerVars

LoopTakesInput ==
  /\ loop = "recv"
  /\ input # "none"
  /\ input' = "none"
  /\ \/ input # "LIST_PEER" /\ HandleMining(input) /\ UNCHANGED loop
     \/ input = "LIST_PEER" /\ loop' = "list" /\ UNCHANGED minerVars
  /\ UNCHANGED <<typed, handlers, syncVars, tail>>

LoopListsPeers ==
  /\ loop = "list"
  /\ LockFree
  /\ loop' = "recv"
  /\ UNCHANGED <<typed, input, minerVars, handlers, syncVars, tail>>

LoopTakesRestart(h) ==
  /\ loop = "recv"
  /\ handlers[h] = "send restart"
  /\ handlers' = [handlers EXCEPT ![h] = "idle"]
  /\ HandleMining("RESTART")
  /\ UNCHANGED <<loopVars, syncVars, tail>>

\* The handler releases the lock, SyncToLatest has a goroutine of its own.
LoopTakesSync(h) ==
  /\ loop = "recv"
  /\ handlers[h] = "send sync"
  /\ handlers' = [handlers EXCEPT ![h] = "idle"]
  /\ \E s \in Syncers : syncers[s] = "idle" /\ syncers' = [syncers EXCEPT ![s] = "start"]
  /\ UNCHANGED <<loopVars, minerVars, failures, syncing, tail>>

\* Faulty version: ctl has room for two.
DeliverAhead(s) ==
  /\ relays[s] > 0
  /\ Len(ctl) < 2
  /\ relays' = [relays EXCEPT ![s] = @ - 1]
  /\ ctl' = Append(ctl, s)
  /\ UNCHANGED <<loopVars, is_mining, miners, handlers, syncVars, tail>>

\* Faulty version: a signal that finds ctl full is dropped.
DeliverOrDrop(s) ==
  /\ relays[s] > 0
  /\ relays' = [relays EXCEPT ![s] = @ - 1]
  /\ ctl' = IF ctl = <<>> THEN <<s>> ELSE ctl
  /\ UNCHANGED <<loopVars, is_mining, miners, handlers, syncVars, tail>>

Deliver(s) ==
  /\ relays[s] > 0
  /\ Len(ctl) < 1
  /\ relays' = [relays EXCEPT ![s] = @ - 1]
  /\ ctl' = Append(ctl, s)
  /\ UNCHANGED <<loopVars, is_mining, miners, handlers, syncVars, tail>>

-----------------------------------------------------------------------------
(***************************************************************************)
(* A miner: without peers it ends; otherwise it takes the tail - unless    *)
(* CreateNewBlock fails over the pool - and tries nonces until a signal    *)
(* comes or a block is found.  (Its broadcast waits for the lock like the  *)
(* question for peers that follows, and is no step of its own.)            *)
(***************************************************************************)
MinerGoes(g, from, to) ==
  /\ g \in DOMAIN miners
  /\ miners[g].pc = from
  /\ miners' = [miners EXCEPT ![g].pc = to]

MinerCountsPeers(g) ==
  /\ LockFree
  /\ \/ MinerGoes(g, "top", "assemble") /\ UNCHANGED is_mining
     \/ MinerGoes(g, "top", "done") /\ is_mining' = FALSE
  /\ UNCHANGED <<loopVars, relays, ctl, handlers, syncVars, tail>>

MinerAssembleFails(g) ==
  /\ MinerGoes(g, "assemble", "top")
  /\ UNCHANGED <<loopVars, is_mining, relays, ctl, handlers, syncVars, tail>>

MinerTakesTail(g) ==
  /\ g \in DOMAIN miners
  /\ miners[g].pc = "assemble"
  /\ miners' = [miners EXCEPT ![g] = [pc |-> "mine", base |-> tail]]
  /\ UNCHANGED <<loopVars, is_mining, relays, ctl, handlers, syncVars, tail>>

MinerSignalled(g) ==
  /\ ctl # <<>>
  /\ ctl' = Tail(ctl)
  /\ \/ Head(ctl).op = "STOP" /\ MinerGoes(g, "mine", "done") /\ is_mining' = FALSE
     \/ Head(ctl).op = "RESTART" /\ MinerGoes(g, "mine", "top") /\ UNCHANGED is_mining
  /\ UNCHANGED <<loopVars, relays, handlers, syncVars, tail>>

\* The found block becomes the tail if the tail is still the one it is on.
MinerFinds(g) ==
  /\ MinerGoes(g, "mine", "top")
  /\ \/ miners[g].base = tail /\ tail < MaxTail /\ tail' = tail + 1
     \/ miners[g].base # tail /\ UNCHANGED tail
  /\ UNCHANGED <<loopVars, is_mining, relays, ctl, handlers, syncVars>>

-----------------------------------------------------------------------------
(***************************************************************************)
(* SetBlock.  A block that becomes the tail is broadcast, and RESTART sent *)
(* to the loop.  A block out of nowhere is counted under the lock, if      *)
(* syncing was clear before - and the lock is still held when SYNC is      *)
(* sent.                                                                   *)
(***************************************************************************)
HandlerGoes(h, from, to) == handlers[h] = from /\ handlers' = [handlers EXCEPT ![h] = to]

TailChanges(h) ==
  /\ tail < MaxTail
  /\ tail' = tail + 1
  /\ HandlerGoes(h, "idle", "new tail")
  /\ UNCHANGED <<loopVars, minerVars, syncVars>>

\* Faulty version: the new tail leaves mining alone.
HandlerBroadcastsOnly(h) ==
  /\ LockFree
  /\ HandlerGoes(h, "new tail", "idle")
  /\ UNCHANGED <<loopVars, minerVars, syncVars, tail>>

HandlerBroadcasts(h) ==
  /\ LockFree
  /\ HandlerGoes(h, "new tail", IF REMINE_ON_TAIL_CHANGE THEN "send restart" ELSE "idle")
  /\ UNCHANGED <<loopVars, minerVars, syncVars, tail>>

\* Bound: every orphan block under way finds a goroutine for its SYNC.
OrphanAllowed ==
  Cardinality({h \in Handlers : handlers[h] \in {"orphan", "send sync"}})
    + Cardinality({s \in Syncers : syncers[s] # "idle"}) < Cardinality(Syncers)

OutOfSync(h) ==
  /\ OrphanAllowed
  /\ ~syncing
  /\ HandlerGoes(h, "idle", "orphan")
  /\ UNCHANGED <<loopVars, minerVars, syncVars, tail>>

CountFailure(h) ==
  /\ LockFree
  /\ failures' = IF failures < CONFIRMATION THEN failures + 1 ELSE failures
  /\ HandlerGoes(h, "orphan", IF failures + 1 >= CONFIRMATION THEN "send sync" ELSE "idle")
  /\ UNCHANGED <<loopVars, minerVars, syncers, syncing, tail>>

-----------------------------------------------------------------------------
(***************************************************************************)
(* SyncToLatest.  It gives up without peers and on a failed RPC, and only  *)
(* a complete sync takes the lock to clear the flag and the count.  The    *)
(* blocks it adds send no RESTART.                                         *)
(***************************************************************************)
SyncerGoes(s, from, to) == syncers[s] = from /\ syncers' = [syncers EXCEPT ![s] = to]

SyncStarts(s) ==
  /\ SyncerGoes(s, "start", "run")
  /\ syncing' = TRUE
  /\ UNCHANGED <<loopVars, minerVars, handlers, failures, tail>>

SyncGivesUp(s) ==
  /\ SyncerGoes(s, "run", "idle")
  /\ UNCHANGED <<loopVars, minerVars, handlers, failures, syncing, tail>>

SyncAddsTail(s) ==
  /\ syncers[s] = "run"
  /\ tail < MaxTail
  /\ tail' = tail + 1
  /\ UNCHANGED <<loopVars, minerVars, handlers, syncVars>>

\* Faulty version: the failures that led to the sync are not forgotten.
SyncEndsKeepingCount(s) ==
  /\ LockFree
  /\ SyncerGoes(s, "run", "idle")
  /\ syncing' = FALSE
  /\ UNCHANGED <<loopVars, minerVars, handlers, failures, tail>>

SyncEnds(s) ==
  /\ LockFree
  /\ SyncerGoes(s, "run", "idle")
  /\ syncing' = FALSE
  /\ failures' = 0
  /\ UNCHANGED <<loopVars, minerVars, handlers, tail>>

-----------------------------------------------------------------------------
MinerStep(g) ==
  \/ MinerCountsPeers(g) \/ MinerAssembleFails(g) \/ MinerTakesTail(g)
  \/ MinerSignalled(g) \/ MinerFinds(g)

HandlerStep(h) ==
  \/ TailChanges(h) \/ HandlerBroadcasts(h) \/ LoopTakesRestart(h)
  \/ OutOfSync(h) \/ CountFailure(h) \/ LoopTakesSync(h)

SyncerStep(s) == SyncStarts(s) \/ SyncGivesUp(s) \/ SyncAddsTail(s) \/ SyncEnds(s)

Next ==
  \/ \E c \in UserCommands : UserTypes(c)
  \/ LoopTakesInput
  \/ LoopListsPeers
  \/ \E s \in Signal : Deliver(s)
  \/ \E g \in Miners : MinerStep(g)
  \/ \E h \in Handlers : HandlerStep(h)
  \/ \E s \in Syncers : SyncerStep(s)

Spec == Init /\ [][Next]_vars

(***************************************************************************)
(* Go runs every goroutine that can run, and serves those that wait for a  *)
(* channel or a mutex in turn (strong fairness where they may have to wait *)
(* again and again).  Strong, too: a miner looks at ctl before each nonce, *)
(* and does not fail over the pool for ever, since each failure drops      *)
(* transactions from it (PoolSelfCleans of Wallet).  A nonce need never    *)
(* be found, a download need never end, users need do nothing.             *)
(***************************************************************************)
LoopFairness ==
  /\ WF_vars(LoopTakesInput)
  /\ WF_vars(LoopListsPeers)
  /\ WF_vars(\E s \in Signal : Deliver(s))
  /\ \A h \in Handlers : WF_vars(LoopTakesRestart(h) \/ LoopTakesSync(h))

MinerFairness ==
  /\ SF_vars(\E g \in Miners : MinerCountsPeers(g))
  /\ SF_vars(\E g \in Miners : MinerTakesTail(g))
  /\ SF_vars(\E g \in Miners : MinerSignalled(g))

ServerFairness ==
  /\ \A h \in Handlers : SF_vars(HandlerBroadcasts(h) \/ CountFailure(h))
  /\ \A s \in Syncers : WF_vars(SyncStarts(s))

FairSpec == Spec /\ LoopFairness /\ MinerFairness /\ ServerFairness

=============================================================================
