------------------------ MODULE CommandLoopProperties -----------------------
(***************************************************************************)
(* What HandleCommand, the miner it controls and the handlers that talk to *)
(* it promise each other, and what the documentation says of them.         *)
(***************************************************************************)
EXTENDS CommandLoop

MinerState == [pc : {"top", "assemble", "mine", "done"}, base : Nat]

HandlerState == {"idle", "new tail", "send restart", "orphan", "send sync"}

SyncerState == {"idle", "start", "run"}

(***************************************************************************)
(* Types; of the signals, that none names a miner that was never started.  *)
(***************************************************************************)
TypeOK ==
  /\ typed \in 0..MaxCommands
  /\ input \in UserCommands \cup {"none"}
  /\ loop \in {"recv", "list"}
  /\ is_mining \in BOOLEAN
  /\ miners \in Seq(MinerState)
  /\ relays \in [Signal -> Nat]
  /\ ctl \in Seq(Signal)
  /\ Len(ctl) <= 1
  /\ handlers \in [Handlers -> HandlerState]
  /\ syncers \in [Syncers -> SyncerState]
  /\ tail \in Nat
  /\ failures \in 0..CONFIRMATION
  /\ syncing \in BOOLEAN
  /\ \A s \in Signal : s.since > Len(miners) => relays[s] = 0

(***************************************************************************)
(* The flag that HandleCommand looks at, and that the miner's goroutine    *)
(* clears without a lock, tells the truth: it is set exactly while a miner *)
(* runs, and two miners never run at a time - or they would steal each     *)
(* other's signals from ctl.                                               *)
(***************************************************************************)
FlagTellsMining == is_mining <=> \E g \in DOMAIN miners : MinerAlive(g)

AtMostOneMiner ==
  \A g, h \in DOMAIN miners : MinerAlive(g) /\ MinerAlive(h) => g = h

OneMiner == FlagTellsMining /\ AtMostOneMiner

(***************************************************************************)
(* The failure count and the syncing flag change together or the node      *)
(* would forget to sync (the comment at the end of SyncToLatest): while    *)
(* the count stands at its threshold a handler is about to send SYNC, or   *)
(* at least one of the syncs that were asked for is under way - until one  *)
(* of them ends the count as well, or the last gives up.  Giving up is the *)
(* one step that leaves a node at its threshold without a sync; and since  *)
(* it leaves the flag set, the node then counts no failure and asks for no *)
(* sync, though README.md says that the blockchain "will sync itself if it *)
(* keeps hearing blocks whose parent hash is not in the chain".            *)
(***************************************************************************)
SyncUnderWay ==
  \/ \E h \in Handlers : handlers[h] = "send sync"
  \/ \E s \in Syncers : syncers[s] # "idle"

Unanswered == failures = CONFIRMATION /\ failures > 0 /\ ~SyncUnderWay

ThresholdAnswered ==
  [][Unanswered' => Unanswered \/ \E s \in Syncers : SyncGivesUp(s)]_vars

(***************************************************************************)
(* A STOP that HandleCommand took while miner g ran does stop g, though a  *)
(* goroutine of its own relays it, other signals may overtake it, and a    *)
(* handler may hold the lock the miner needs in between, until the loop    *)
(* takes its SYNC.  Unless the loop waits for that lock itself: then       *)
(* neither goes on any more, and the miner may wait behind them for ever   *)
(* (LoopComesBack).                                                        *)
(***************************************************************************)
Jammed == loop = "list" /\ ~LockFree

StopPending(g) ==
  LET stop == [op |-> "STOP", since |-> g]
  IN relays[stop] > 0 \/ Contains(ctl, stop)

Ended(g) == g \in DOMAIN miners /\ ~MinerAlive(g)

StopStops == \A g \in Miners : StopPending(g) ~> Ended(g) \/ Jammed

(***************************************************************************)
(* Why it does: on its way the STOP is never lost, nor used up on another  *)
(* miner, before g has ended.                                              *)
(***************************************************************************)
StopNotLost ==
  [][\A g \in Miners : StopPending(g) => StopPending(g)' \/ Ended(g)']_vars

(***************************************************************************)
(* With REMINE_ON_TAIL_CHANGE a block from a peer that becomes the tail    *)
(* takes the miner off the old one, whatever the miner is doing (README.md:*)
(* "Whether to interrupt mining and redo on new tail if a new valid block  *)
(* is received"): only a step of a sync, which interrupts nobody, leaves a *)
(* stale miner that no handler will send RESTART to and no signal is on    *)
(* its way to.                                                             *)
(***************************************************************************)
Stale(g) == g \in DOMAIN miners /\ miners[g].pc = "mine" /\ miners[g].base # tail

SignalOnItsWay ==
  \/ \E h \in Handlers : handlers[h] \in {"new tail", "send restart"}
  \/ \E s \in Signal : relays[s] > 0
  \/ ctl # <<>>

Untold(g) == Stale(g) /\ ~SignalOnItsWay

StaleIsTold ==
  [][REMINE_ON_TAIL_CHANGE =>
       \A g \in Miners :
         Untold(g)' => Untold(g) \/ \E s \in Syncers : SyncAddsTail(s)]_vars

(***************************************************************************)
(* And a stale miner that was told, by whatever signal, leaves its tail.   *)
(***************************************************************************)
SomeStale == \E g \in Miners : Stale(g)

StaleTailAbandoned ==
  REMINE_ON_TAIL_CHANGE => (SomeStale /\ SignalOnItsWay ~> ~SomeStale \/ Jammed)

-----------------------------------------------------------------------------
(***************************************************************************)
(* What the code does not keep.  full_node/cmd/main.go: "we don't want to  *)
(* block HandleCommand in any situation": the loop always comes back to    *)
(* its channel.                                                            *)
(***************************************************************************)
LoopComesBack == []<>(loop = "recv")
=============================================================================
