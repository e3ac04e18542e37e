-------------------------- MODULE CommandLoopProofs -------------------------
(***************************************************************************)
(* Theorems about CommandLoop, for any number of handlers, syncs, commands *)
(* and tail changes.                                                       *)
(***************************************************************************)
EXTENDS CommandLoopProperties, SequenceTheorems, TLAPS

(***************************************************************************)
(* The inductive form of OneMiner: with the types that make miners a       *)
(* sequence one can append to.                                             *)
(***************************************************************************)
MinersTyped == miners \in Seq(MinerState) /\ is_mining \in BOOLEAN /\ tail \in Nat

MinersInv == MinersTyped /\ OneMiner

\* A step that leaves flag and miners alone.
LEMMA MinersUntouched ==
  ASSUME MinersInv, UNCHANGED <<is_mining, miners>>, tail' \in Nat
  PROVE  MinersInv'
BY DEF MinersInv, MinersTyped, OneMiner, FlagTellsMining, AtMostOneMiner, MinerAlive

\* A miner that goes on.
LEMMA MinerGoesOn ==
  ASSUME MinersInv, UNCHANGED is_mining, tail' \in Nat,
         NEW g \in DOMAIN miners, MinerAlive(g),
         NEW s \in MinerState, s.pc # "done",
         miners' = [miners EXCEPT ![g] = s]
  PROVE  MinersInv'
<1>1. /\ miners' \in Seq(MinerState)
      /\ DOMAIN miners' = DOMAIN miners
      /\ miners'[g] = s
      /\ \A h \in DOMAIN miners : h # g => miners'[h] = miners[h]
  BY DEF MinersInv, MinersTyped
<1>2. \A h \in DOMAIN miners : MinerAlive(h)' <=> MinerAlive(h)
  BY <1>1 DEF MinerAlive
<1> QED
  BY <1>1, <1>2 DEF MinersInv, MinersTyped, OneMiner, FlagTellsMining, AtMostOneMiner

\* A miner that ends, and clears the flag.
LEMMA MinerEnds ==
  ASSUME MinersInv, is_mining' = FALSE, tail' \in Nat,
         NEW g \in DOMAIN miners, MinerAlive(g),
         miners' = [miners EXCEPT ![g].pc = "done"]
  PROVE  MinersInv'
<1>1. miners[g] \in MinerState
  BY DEF MinersInv, MinersTyped
<1>2. /\ miners' \in Seq(MinerState)
      /\ DOMAIN miners' = DOMAIN miners
      /\ miners'[g].pc = "done"
      /\ \A h \in DOMAIN miners : h # g => miners'[h] = miners[h]
  BY <1>1 DEF MinersInv, MinersTyped, MinerState
<1>3. \A h \in DOMAIN miners : ~MinerAlive(h)'
  BY <1>2 DEF MinerAlive, MinersInv, OneMiner, AtMostOneMiner
<1> QED
  BY <1>2, <1>3 DEF MinersInv, MinersTyped, OneMiner, FlagTellsMining, AtMostOneMiner

\* A miner's step from one of its control points to another.
LEMMA MinerMoves ==
  ASSUME MinersInv, UNCHANGED is_mining, tail' \in Nat,
         NEW g, NEW from, NEW to, MinerGoes(g, from, to), from # "done",
         to \in {"top", "assemble", "mine"}
  PROVE  MinersInv'
<1>1. g \in DOMAIN miners /\ miners[g] \in MinerState
  BY DEF MinersInv, MinersTyped, MinerGoes
<1>2. [miners[g] EXCEPT !.pc = to] \in MinerState /\ [miners[g] EXCEPT !.pc = to].pc # "done"
  BY <1>1 DEF MinerState
<1>3. miners' = [miners EXCEPT ![g] = [miners[g] EXCEPT !.pc = to]]
  BY DEF MinerGoes
<1> QED
  BY <1>1, <1>2, <1>3, MinerGoesOn DEF MinerGoes, MinerAlive

\* What HandleCommand does with a command about mining.
LEMMA HandledCommand ==
  ASSUME MinersInv, NEW c, HandleMining(c), tail' \in Nat
  PROVE  MinersInv'
<1>1. CASE UNCHANGED minerVars \/ Relay(c)
  BY <1>1, MinersUntouched DEF minerVars, Relay
<1>2. CASE ~is_mining /\ StartMining
  <2> DEFINE new == [pc |-> "top", base |-> 0]
  <2>1. /\ new \in MinerState
        /\ miners' = Append(miners, new)
        /\ \A h \in DOMAIN miners : ~MinerAlive(h)
    BY <1>2 DEF StartMining, MinerState, MinersInv, OneMiner, FlagTellsMining
  <2>2. /\ miners' \in Seq(MinerState)
        /\ DOMAIN miners' = DOMAIN miners \cup {Len(miners) + 1}
        /\ miners'[Len(miners) + 1] = new
        /\ \A h \in DOMAIN miners : miners'[h] = miners[h]
    BY <2>1 DEF MinersInv, MinersTyped
  <2>3. \A h \in DOMAIN miners' : MinerAlive(h)' <=> h = Len(miners) + 1
    BY <2>1, <2>2 DEF MinerAlive
  <2> QED
    BY <1>2, <2>2, <2>3
    DEF StartMining, MinersInv, MinersTyped, OneMiner, FlagTellsMining, AtMostOneMiner
<1> QED
  BY <1>1, <1>2 DEF HandleMining

LEMMA MinersInit == Init => MinersInv
<1> SUFFICES ASSUME Init PROVE MinersInv
  OBVIOUS
<1>1. is_mining = FALSE /\ miners = <<>> /\ tail = 0
  BY DEF Init
<1>2. DOMAIN miners = {} /\ miners \in Seq(MinerState)
  BY <1>1
<1> QED
  BY <1>1, <1>2 DEF MinersInv, MinersTyped, OneMiner, FlagTellsMining, AtMostOneMiner

LEMMA MinersInductive == MinersInv /\ [Next]_vars => MinersInv'
<1> SUFFICES ASSUME MinersInv, [Next]_vars PROVE MinersInv'
  OBVIOUS
<1> USE DEF loopVars, minerVars, syncVars
<1>0. tail \in Nat
  BY DEF MinersInv, MinersTyped
<1>1. CASE \E c \in UserCommands : UserTypes(c)
  BY <1>0, <1>1, MinersUntouched DEF UserTypes
<1>2. CASE LoopTakesInput
  BY <1>0, <1>2, MinersUntouched, HandledCommand DEF LoopTakesInput
<1>3. CASE LoopListsPeers
  BY <1>0, <1>3, MinersUntouched DEF LoopListsPeers
<1>4. CASE \E s \in Signal : Deliver(s)
  BY <1>0, <1>4, MinersUntouched DEF Deliver
<1>5. ASSUME NEW g \in Miners, MinerStep(g) PROVE MinersInv'
  <2>1. CASE MinerCountsPeers(g)
    <3>1. CASE UNCHANGED is_mining
      BY <1>0, <2>1, <3>1, MinerMoves, MinerEnds DEF MinerCountsPeers, MinerGoes, MinerAlive
    <3>2. CASE is_mining' = FALSE
      BY <1>0, <2>1, <3>2, MinerMoves, MinerEnds DEF MinerCountsPeers, MinerGoes, MinerAlive
    <3> QED
      BY <2>1, <3>1, <3>2 DEF MinerCountsPeers
  <2>2. CASE MinerAssembleFails(g)
    BY <1>0, <2>2, MinerMoves DEF MinerAssembleFails
  <2>3. CASE MinerTakesTail(g)
    <3>1. [pc |-> "mine", base |-> tail] \in MinerState
      BY <1>0 DEF MinerState
    <3> QED
      BY <1>0, <2>3, <3>1, MinerGoesOn DEF MinerTakesTail, MinerAlive
  <2>4. CASE MinerSignalled(g)
    <3>1. CASE Head(ctl).op = "STOP"
      BY <1>0, <2>4, <3>1, MinerEnds DEF MinerSignalled, MinerGoes, MinerAlive
    <3>2. CASE Head(ctl).op = "RESTART"
      BY <1>0, <2>4, <3>2, MinerMoves DEF MinerSignalled
    <3> QED
      BY <2>4, <3>1, <3>2 DEF MinerSignalled
  <2>5. CASE MinerFinds(g)
    <3>1. tail' \in Nat
      BY <1>0, <2>5 DEF MinerFinds
    <3> QED
      BY <2>5, <3>1, MinerMoves DEF MinerFinds
  <2> QED
    BY <1>5, <2>1, <2>2, <2>3, <2>4, <2>5 DEF MinerStep
<1>6. ASSUME NEW h \in Handlers, HandlerStep(h) PROVE MinersInv'
  <2>1. CASE TailChanges(h)
    <3>1. tail' = tail + 1
      BY <2>1 DEF TailChanges
    <3>2. tail' \in Nat
      BY <1>0, <3>1
    <3> QED
      BY <2>1, <3>2, MinersUntouched DEF TailChanges
  <2>2. CASE LoopTakesRestart(h)
    BY <1>0, <2>2, HandledCommand DEF LoopTakesRestart
  <2>3. CASE \/ HandlerBroadcasts(h) \/ OutOfSync(h) \/ CountFailure(h) \/ LoopTakesSync(h)
    BY <1>0, <2>3, MinersUntouched
    DEF HandlerBroadcasts, OutOfSync, CountFailure, LoopTakesSync
  <2> QED
    BY <1>6, <2>1, <2>2, <2>3 DEF HandlerStep
<1>7. ASSUME NEW s \in Syncers, SyncerStep(s) PROVE MinersInv'
  <2>1. tail' \in Nat /\ UNCHANGED <<is_mining, miners>>
    BY <1>0, <1>7
    DEF SyncerStep, SyncStarts, SyncGivesUp, SyncAddsTail, SyncEnds
  <2> QED
    BY <2>1, MinersUntouched
<1>8. CASE UNCHANGED vars
  BY <1>0, <1>8, MinersUntouched DEF vars
<1> QED
  BY <1>1, <1>2, <1>3, <1>4, <1>5, <1>6, <1>7, <1>8 DEF Next

(***************************************************************************)
(* The flag is set exactly while a miner runs, and only one runs: each     *)
(* miner clears the flag in its last step, and HandleCommand starts one    *)
(* only where the flag is clear.                                           *)
(***************************************************************************)
THEOREM OneMinerAtATime == Spec => []OneMiner
<1>1. MinersInv => OneMiner
  BY DEF MinersInv
<1> QED
  BY MinersInit, <1>1, MinersInductive, PTL DEF Spec

-----------------------------------------------------------------------------
(***************************************************************************)
(* The types of the handlers, the syncs and what they count.               *)
(***************************************************************************)
CountTyped ==
  /\ handlers \in [Handlers -> HandlerState]
  /\ syncers \in [Syncers -> SyncerState]
  /\ failures \in Nat
  /\ syncing \in BOOLEAN

LEMMA ThresholdTyped == CONFIRMATION \in Nat
BY LoopAssumption DEF LoopAssumption

LEMMA CountUntouched ==
  ASSUME CountTyped, UNCHANGED <<handlers, syncers, failures, syncing>>
  PROVE  CountTyped'
BY DEF CountTyped

LEMMA HandlerKeepsTypes ==
  ASSUME CountTyped, NEW h \in Handlers, HandlerStep(h)
  PROVE  CountTyped'
<1> USE DEF loopVars, minerVars, syncVars, HandlerState, SyncerState
<1>1. CASE TailChanges(h) \/ HandlerBroadcasts(h) \/ OutOfSync(h) \/ LoopTakesRestart(h)
  BY <1>1 DEF TailChanges, HandlerBroadcasts, OutOfSync, LoopTakesRestart, HandlerGoes, CountTyped
<1>2. CASE CountFailure(h)
  <2>1. failures' \in Nat
    <3>1. failures' = IF failures < CONFIRMATION THEN failures + 1 ELSE failures
      BY <1>2 DEF CountFailure
    <3>2. failures \in Nat
      BY DEF CountTyped
    <3> QED
      BY <3>1, <3>2
  <2> QED
    BY <1>2, <2>1 DEF CountFailure, HandlerGoes, CountTyped
<1>3. CASE LoopTakesSync(h)
  BY <1>3 DEF LoopTakesSync, CountTyped
<1> QED
  BY <1>1, <1>2, <1>3 DEF HandlerStep

LEMMA SyncKeepsTypes ==
  ASSUME CountTyped, NEW s \in Syncers, SyncerStep(s)
  PROVE  CountTyped'
<1>1. /\ handlers' = handlers
      /\ failures' = failures \/ failures' = 0
      /\ syncing' \in {syncing, TRUE, FALSE}
  BY DEF SyncerStep, SyncStarts, SyncGivesUp, SyncAddsTail, SyncEnds, syncVars
<1>2. syncers' = syncers \/ \E to \in SyncerState : syncers' = [syncers EXCEPT ![s] = to]
  BY DEF SyncerStep, SyncStarts, SyncGivesUp, SyncAddsTail, SyncEnds, SyncerGoes, syncVars,
         SyncerState
<1>3. syncers' \in [Syncers -> SyncerState]
  BY <1>2 DEF CountTyped
<1>4. failures' \in Nat
  BY <1>1 DEF CountTyped
<1> QED
  BY <1>1, <1>3, <1>4 DEF CountTyped

LEMMA CountInit == Init => CountTyped /\ failures <= CONFIRMATION
<1> SUFFICES ASSUME Init PROVE CountTyped /\ failures <= CONFIRMATION
  OBVIOUS
<1>1. /\ handlers = [h \in Handlers |-> "idle"]
      /\ syncers = [s \in Syncers |-> "idle"]
      /\ failures = 0
      /\ syncing = FALSE
  BY DEF Init
<1>2. CountTyped
  BY <1>1 DEF CountTyped, HandlerState, SyncerState
<1>3. failures <= CONFIRMATION
  BY <1>1, ThresholdTyped
<1> QED
  BY <1>2, <1>3

\* The steps of the user, the loop on its own, the relays and the miners
\* leave handlers, syncs, count and flag alone.
LEMMA OthersLeaveCount ==
  ASSUME [Next]_vars,
         ~\E h \in Handlers : HandlerStep(h), ~\E s \in Syncers : SyncerStep(s)
  PROVE  UNCHANGED <<handlers, syncers, failures, syncing>>
<1> USE DEF loopVars, minerVars, syncVars
<1>1. CASE \/ \E c \in UserCommands : UserTypes(c)
           \/ LoopTakesInput \/ LoopListsPeers
           \/ \E s \in Signal : Deliver(s)
           \/ UNCHANGED vars
  BY <1>1 DEF UserTypes, LoopTakesInput, LoopListsPeers, Deliver, vars
<1>2. CASE \E g \in Miners : MinerStep(g)
  BY <1>2
  DEF MinerStep, MinerCountsPeers, MinerAssembleFails, MinerTakesTail, MinerSignalled, MinerFinds
<1> QED
  BY <1>1, <1>2 DEF Next

LEMMA CountInductive == CountTyped /\ [Next]_vars => CountTyped'
BY HandlerKeepsTypes, SyncKeepsTypes, OthersLeaveCount, CountUntouched

-----------------------------------------------------------------------------
(***************************************************************************)
(* The inductive form of the types of commands and signals.  That a signal *)
(* is one of Signal, however long the program runs, takes an argument:     *)
(* only a START the user typed starts a miner, so there are never more     *)
(* miners than commands, and one more can be started for a START on its    *)
(* way to the loop.                                                        *)
(***************************************************************************)
StartOnItsWay == IF input = "START" THEN 1 ELSE 0

CommandsTyped ==
  /\ typed \in 0..MaxCommands
  /\ input \in UserCommands \cup {"none"}
  /\ loop \in {"recv", "list"}
  /\ Len(miners) + StartOnItsWay <= typed

SignalsTyped ==
  /\ relays \in [Signal -> Nat]
  /\ ctl \in Seq(Signal)
  /\ Len(ctl) <= 1
  /\ \A s \in Signal : s.since > Len(miners) => relays[s] = 0

SignalsInv == CommandsTyped /\ SignalsTyped

\* A step of a goroutine that neither types, takes nor relays a command.
LEMMA SignalsUntouched ==
  ASSUME SignalsInv, UNCHANGED <<loopVars, relays, ctl>>, Len(miners') = Len(miners)
  PROVE  SignalsInv'
BY DEF SignalsInv, CommandsTyped, SignalsTyped, StartOnItsWay, loopVars

\* A miner's step starts no miner.
LEMMA MinersStay ==
  ASSUME MinersInv, NEW g, NEW from, NEW to, MinerGoes(g, from, to)
  PROVE  Len(miners') = Len(miners)
BY DEF MinersInv, MinersTyped, MinerGoes

\* A signal handed on names a miner that was started.
LEMMA SignalRelayed ==
  ASSUME SignalsInv, MinersInv, NEW c \in {"STOP", "RESTART"}, Relay(c)
  PROVE  SignalsTyped'
<1> DEFINE s == [op |-> c, since |-> Len(miners)]
<1>1. Len(miners) \in Nat /\ Len(miners) <= MaxCommands /\ MaxCommands \in Nat
  BY LoopAssumption
  DEF SignalsInv, CommandsTyped, StartOnItsWay, MinersInv, MinersTyped, LoopAssumption
<1>2. s \in Signal /\ ~(s.since > Len(miners))
  BY <1>1 DEF Signal
<1>3. relays \in [Signal -> Nat] /\ relays[s] \in Nat
  BY <1>2 DEF SignalsInv, SignalsTyped
<1>4. relays' = [relays EXCEPT ![s] = relays[s] + 1]
  BY DEF Relay
<1> HIDE DEF s
<1>5. relays' \in [Signal -> Nat] /\ \A z \in Signal : z # s => relays'[z] = relays[z]
  BY <1>2, <1>3, <1>4
<1> QED
  BY <1>2, <1>5 DEF Relay, SignalsInv, SignalsTyped

\* A new miner takes nothing away from the signals.
LEMMA SignalsOutliveAStart ==
  ASSUME SignalsInv, MinersInv, StartMining
  PROVE  SignalsTyped' /\ Len(miners') = Len(miners) + 1
<1>1. Len(miners') = Len(miners) + 1 /\ Len(miners) \in Nat
  BY DEF StartMining, MinersInv, MinersTyped
<1>2. \A s \in Signal : s.since > Len(miners') => s.since > Len(miners)
  BY <1>1, LoopAssumption DEF Signal, LoopAssumption
<1> QED
  BY <1>1, <1>2 DEF StartMining, SignalsInv, SignalsTyped

\* What HandleCommand does with a command about mining, for the signals.
LEMMA CommandRelayed ==
  ASSUME SignalsInv, MinersInv, NEW c \in {"START", "STOP", "RESTART"}, HandleMining(c)
  PROVE  /\ SignalsTyped'
         /\ Len(miners') = Len(miners) \/ (c = "START" /\ Len(miners') = Len(miners) + 1)
<1>1. CASE c = "START" /\ StartMining
  BY <1>1, SignalsOutliveAStart
<1>2. CASE c # "START" /\ Relay(c)
  <2>1. SignalsTyped'
    BY <1>2, SignalRelayed
  <2> QED
    BY <1>2, <2>1 DEF Relay
<1>3. CASE UNCHANGED minerVars
  BY <1>3 DEF minerVars, SignalsInv, SignalsTyped
<1> QED
  BY <1>1, <1>2, <1>3 DEF HandleMining

LEMMA SignalDelivered ==
  ASSUME SignalsInv, NEW s \in Signal, Deliver(s)
  PROVE  SignalsInv'
<1>1. relays \in [Signal -> Nat] /\ relays[s] > 0 /\ ctl \in Seq(Signal) /\ Len(ctl) < 1
  BY DEF Deliver, SignalsInv, SignalsTyped
<1>2. relays' = [relays EXCEPT ![s] = relays[s] - 1] /\ ctl' = Append(ctl, s)
  BY DEF Deliver
<1>3. /\ relays' \in [Signal -> Nat]
      /\ \A z \in Signal : relays[z] = 0 => relays'[z] = 0
  BY <1>1, <1>2
<1>4. ctl' \in Seq(Signal) /\ Len(ctl') <= 1
  BY <1>1, <1>2
<1>5. SignalsTyped'
  BY <1>3, <1>4 DEF SignalsTyped, Deliver, SignalsInv
<1> QED
  BY <1>5 DEF SignalsInv, CommandsTyped, StartOnItsWay, Deliver, loopVars

LEMMA CommandTaken ==
  ASSUME SignalsInv, MinersInv, LoopTakesInput
  PROVE  SignalsInv'
<1>1. input' = "none" /\ UNCHANGED typed /\ Len(miners) \in Nat /\ typed \in 0..MaxCommands
  BY DEF LoopTakesInput, SignalsInv, CommandsTyped, MinersInv, MinersTyped
<1>2. CASE input # "LIST_PEER" /\ HandleMining(input) /\ UNCHANGED loop
  <2>1. input \in {"START", "STOP", "RESTART"}
    BY <1>2, LoopAssumption DEF LoopTakesInput, SignalsInv, CommandsTyped, LoopAssumption
  <2>2. /\ SignalsTyped'
        /\ Len(miners') = Len(miners) \/ (input = "START" /\ Len(miners') = Len(miners) + 1)
    BY <1>2, <2>1, CommandRelayed
  <2>3. Len(miners') + StartOnItsWay' <= typed'
    BY <1>1, <2>1, <2>2 DEF StartOnItsWay, SignalsInv, CommandsTyped
  <2> QED
    BY <1>1, <1>2, <2>2, <2>3 DEF SignalsInv, CommandsTyped
<1>3. CASE loop' = "list" /\ UNCHANGED minerVars
  BY <1>1, <1>3 DEF SignalsInv, CommandsTyped, SignalsTyped, StartOnItsWay, minerVars
<1> QED
  BY <1>2, <1>3 DEF LoopTakesInput

LEMMA MinerKeepsSignals ==
  ASSUME SignalsInv, MinersInv, NEW g \in Miners, MinerStep(g)
  PROVE  SignalsInv'
<1>1. CASE MinerSignalled(g)
  <2>1. ctl' = Tail(ctl) /\ ctl # <<>> /\ ctl \in Seq(Signal) /\ Len(ctl) <= 1
    BY <1>1 DEF MinerSignalled, SignalsInv, SignalsTyped
  <2>2. ctl' \in Seq(Signal) /\ Len(ctl') <= 1
    BY <2>1
  <2>3. Len(miners') = Len(miners)
    BY <1>1, MinersStay DEF MinerSignalled
  <2> QED
    BY <1>1, <2>2, <2>3
    DEF MinerSignalled, SignalsInv, CommandsTyped, SignalsTyped, StartOnItsWay, loopVars
<1>2. CASE MinerTakesTail(g)
  <2>1. Len(miners') = Len(miners)
    BY <1>2 DEF MinerTakesTail, MinersInv, MinersTyped
  <2> QED
    BY <1>2, <2>1, SignalsUntouched DEF MinerTakesTail
<1>3. CASE MinerCountsPeers(g)
  <2>1. Len(miners') = Len(miners)
    BY <1>3, MinersStay DEF MinerCountsPeers
  <2> QED
    BY <1>3, <2>1, SignalsUntouched DEF MinerCountsPeers
<1>4. CASE MinerAssembleFails(g)
  BY <1>4, MinersStay, SignalsUntouched DEF MinerAssembleFails
<1>5. CASE MinerFinds(g)
  BY <1>5, MinersStay, SignalsUntouched DEF MinerFinds
<1> QED
  BY <1>1, <1>2, <1>3, <1>4, <1>5 DEF MinerStep

LEMMA SignalsInductive == SignalsInv /\ MinersInv /\ [Next]_vars => SignalsInv'
<1> SUFFICES ASSUME SignalsInv, MinersInv, [Next]_vars PROVE SignalsInv'
  OBVIOUS
<1>1. ASSUME NEW c \in UserCommands, UserTypes(c) PROVE SignalsInv'
  <2>1. /\ input = "none" /\ input' = c /\ typed < MaxCommands /\ typed' = typed + 1
        /\ UNCHANGED <<loop, relays, ctl, miners>>
    BY <1>1 DEF UserTypes, minerVars
  <2>2. typed' \in 0..MaxCommands /\ Len(miners) + StartOnItsWay' <= typed'
    BY <2>1, LoopAssumption
    DEF SignalsInv, CommandsTyped, StartOnItsWay, MinersInv, MinersTyped, LoopAssumption
  <2> QED
    BY <2>1, <2>2 DEF SignalsInv, CommandsTyped, SignalsTyped
<1>2. CASE LoopTakesInput
  BY <1>2, CommandTaken
<1>3. CASE LoopListsPeers
  BY <1>3 DEF LoopListsPeers, SignalsInv, CommandsTyped, SignalsTyped, StartOnItsWay, minerVars
<1>4. CASE \E s \in Signal : Deliver(s)
  BY <1>4, SignalDelivered
<1>5. CASE \E g \in Miners : MinerStep(g)
  BY <1>5, MinerKeepsSignals
<1>6. ASSUME NEW h \in Handlers, HandlerStep(h) PROVE SignalsInv'
  <2>1. CASE LoopTakesRestart(h)
    <3>1. SignalsTyped' /\ Len(miners') = Len(miners)
      BY <2>1, CommandRelayed DEF LoopTakesRestart
    <3> QED
      BY <2>1, <3>1 DEF LoopTakesRestart, SignalsInv, CommandsTyped, StartOnItsWay, loopVars
  <2>2. CASE ~LoopTakesRestart(h)
    BY <1>6, <2>2, SignalsUntouched
    DEF HandlerStep, TailChanges, HandlerBroadcasts, OutOfSync, CountFailure, LoopTakesSync, minerVars
  <2> QED
    BY <2>1, <2>2
<1>7. CASE \E s \in Syncers : SyncerStep(s)
  BY <1>7, SignalsUntouched
  DEF SyncerStep, SyncStarts, SyncGivesUp, SyncAddsTail, SyncEnds, minerVars
<1>8. CASE UNCHANGED vars
  BY <1>8, SignalsUntouched DEF vars, minerVars
<1> QED
  BY <1>1, <1>2, <1>3, <1>4, <1>5, <1>6, <1>7, <1>8 DEF Next

\* The failures are counted up to the threshold and no further.
LEMMA CountBounded == CountTyped /\ failures <= CONFIRMATION /\ [Next]_vars => failures' <= CONFIRMATION
<1> SUFFICES ASSUME CountTyped, failures <= CONFIRMATION, [Next]_vars PROVE failures' <= CONFIRMATION
  OBVIOUS
<1> USE DEF loopVars, minerVars, syncVars
<1>0. failures \in Nat /\ CONFIRMATION \in Nat
  BY ThresholdTyped DEF CountTyped
<1>1. ASSUME NEW h \in Handlers, HandlerStep(h) PROVE failures' <= CONFIRMATION
  <2>1. CASE CountFailure(h)
    <3>1. failures' = IF failures < CONFIRMATION THEN failures + 1 ELSE failures
      BY <2>1 DEF CountFailure
    <3> QED
      BY <1>0, <3>1
  <2>2. CASE ~CountFailure(h)
    BY <1>1, <2>2
    DEF HandlerStep, TailChanges, HandlerBroadcasts, OutOfSync, LoopTakesRestart, LoopTakesSync
  <2> QED
    BY <2>1, <2>2
<1>2. ASSUME NEW s \in Syncers, SyncerStep(s) PROVE failures' <= CONFIRMATION
  BY <1>0, <1>2 DEF SyncerStep, SyncStarts, SyncGivesUp, SyncAddsTail, SyncEnds
<1>3. ASSUME NEW g \in Miners, MinerStep(g) PROVE failures' <= CONFIRMATION
  BY <1>3
  DEF MinerStep, MinerCountsPeers, MinerAssembleFails, MinerTakesTail, MinerSignalled, MinerFinds
<1> QED
  BY <1>1, <1>2, <1>3 DEF Next, UserTypes, LoopTakesInput, LoopListsPeers, Deliver, vars

\* Everything together.
TypesInv == MinersInv /\ CountTyped /\ failures <= CONFIRMATION /\ SignalsInv

LEMMA SignalsInit == Init => SignalsInv
<1> SUFFICES ASSUME Init PROVE SignalsInv
  OBVIOUS
<1>1. /\ typed = 0 /\ input = "none" /\ loop = "recv" /\ Len(miners) = 0
      /\ relays = [s \in Signal |-> 0] /\ ctl = <<>>
  BY DEF Init
<1>2. MaxCommands \in Nat
  BY LoopAssumption DEF LoopAssumption
<1> QED
  BY <1>1, <1>2 DEF SignalsInv, CommandsTyped, SignalsTyped, StartOnItsWay

\* All of it at every time.
LEMMA TypesAlways == Spec => []TypesInv
<1>1. Init => TypesInv
  BY MinersInit, CountInit, SignalsInit DEF TypesInv
<1>2. TypesInv /\ [Next]_vars => TypesInv'
  BY MinersInductive, CountInductive, CountBounded, SignalsInductive DEF TypesInv
<1> QED
  BY <1>1, <1>2, PTL DEF Spec

(***************************************************************************)
(* Types of the command loop: in particular the channel to the miner never *)
(* holds more than one signal, and no signal under way names a miner that  *)
(* was not started.                                                        *)
(***************************************************************************)
THEOREM TypesAreCorrect == Spec => []TypeOK
<1>1. TypesInv => TypeOK
  BY ThresholdTyped
  DEF TypesInv, TypeOK, MinersInv, MinersTyped, CountTyped,
      SignalsInv, CommandsTyped, SignalsTyped
<1> QED
  BY TypesAlways, <1>1, PTL

-----------------------------------------------------------------------------
(***************************************************************************)
(* Which step leaves the count at its threshold without a sync?  The one   *)
(* that brings it there goes on to send SYNC, the loop takes SYNC and      *)
(* starts a sync, and a sync that ends forgets the count.                  *)
(***************************************************************************)

\* Count, handlers that send SYNC and syncs under way are as they were.
LEMMA StillUnanswered ==
  ASSUME Unanswered', failures' = failures,
         \A h \in Handlers : handlers[h] = "send sync" => handlers'[h] = "send sync",
         \A s \in Syncers : syncers[s] # "idle" => syncers'[s] # "idle"
  PROVE  Unanswered
BY DEF Unanswered, SyncUnderWay

LEMMA HandlerAnswers ==
  ASSUME TypesInv, NEW h \in Handlers, HandlerStep(h), Unanswered'
  PROVE  Unanswered
<1>1. /\ handlers \in [Handlers -> HandlerState] /\ syncers \in [Syncers -> SyncerState]
      /\ failures \in Nat /\ failures <= CONFIRMATION /\ CONFIRMATION \in Nat
  BY ThresholdTyped DEF TypesInv, CountTyped
<1>2. /\ failures' = CONFIRMATION
      /\ \A i \in Handlers : handlers'[i] # "send sync"
      /\ \A s \in Syncers : syncers'[s] = "idle"
  BY DEF Unanswered, SyncUnderWay
<1>3. CASE TailChanges(h) \/ HandlerBroadcasts(h) \/ OutOfSync(h) \/ LoopTakesRestart(h)
  <2>1. failures' = failures /\ syncers' = syncers
    BY <1>3 DEF TailChanges, HandlerBroadcasts, OutOfSync, LoopTakesRestart, syncVars
  <2>2. handlers[h] # "send sync" /\ \E to : handlers' = [handlers EXCEPT ![h] = to]
    BY <1>3 DEF TailChanges, HandlerBroadcasts, OutOfSync, LoopTakesRestart, HandlerGoes
  <2>3. \A i \in Handlers : handlers[i] = "send sync" => handlers'[i] = "send sync"
    BY <1>1, <2>2
  <2> QED
    BY <2>1, <2>3, StillUnanswered
<1>4. CASE CountFailure(h)
  <2>1. failures' = IF failures < CONFIRMATION THEN failures + 1 ELSE failures
    BY <1>4 DEF CountFailure
  <2>2. failures + 1 >= CONFIRMATION
    <3>1. failures \in Nat /\ CONFIRMATION \in Nat /\ failures' = CONFIRMATION
      BY <1>1, <1>2
    <3> QED
      BY <2>1, <3>1
  <2>3. handlers'[h] = "send sync"
    BY <1>1, <1>4, <2>2 DEF CountFailure, HandlerGoes
  <2> QED
    BY <1>2, <2>3
<1>5. CASE LoopTakesSync(h)
  <2>1. PICK s \in Syncers : syncers' = [syncers EXCEPT ![s] = "start"]
    BY <1>5 DEF LoopTakesSync
  <2>2. syncers'[s] = "start"
    BY <1>1, <2>1
  <2> QED
    BY <1>2, <2>2
<1> QED
  BY <1>3, <1>4, <1>5 DEF HandlerStep

LEMMA SyncAnswers ==
  ASSUME TypesInv, NEW s \in Syncers, SyncerStep(s), ~SyncGivesUp(s), Unanswered'
  PROVE  Unanswered
<1>1. syncers \in [Syncers -> SyncerState]
  BY DEF TypesInv, CountTyped
<1>2. failures' > 0 /\ \A i \in Syncers : syncers'[i] = "idle"
  BY DEF Unanswered, SyncUnderWay
<1>3. CASE SyncStarts(s)
  <2>1. syncers'[s] = "run"
    BY <1>1, <1>3 DEF SyncStarts, SyncerGoes
  <2> QED
    BY <1>2, <2>1
<1>4. CASE SyncAddsTail(s)
  BY <1>4, StillUnanswered DEF SyncAddsTail, syncVars
<1>5. CASE SyncEnds(s)
  <2>1. failures' = 0
    BY <1>5 DEF SyncEnds
  <2> QED
    BY <1>2, <2>1
<1> QED
  BY <1>3, <1>4, <1>5 DEF SyncerStep

LEMMA ThresholdKept ==
  TypesInv /\ [Next]_vars
    => (Unanswered' => Unanswered \/ \E s \in Syncers : SyncGivesUp(s))
<1> SUFFICES ASSUME TypesInv, [Next]_vars, Unanswered', ~\E s \in Syncers : SyncGivesUp(s)
             PROVE  Unanswered
  OBVIOUS
<1>1. CASE \E h \in Handlers : HandlerStep(h)
  BY <1>1, HandlerAnswers
<1>2. CASE \E s \in Syncers : SyncerStep(s)
  BY <1>2, SyncAnswers
<1>3. CASE ~(\E h \in Handlers : HandlerStep(h)) /\ ~(\E s \in Syncers : SyncerStep(s))
  BY <1>3, OthersLeaveCount, StillUnanswered
<1> QED
  BY <1>1, <1>2, <1>3

(***************************************************************************)
(* Only a sync that gives up leaves a failure count at its threshold with  *)
(* no SYNC about to be sent and no sync under way: no interleaving of      *)
(* handlers and of syncs that end forgets one.                             *)
(***************************************************************************)
THEOREM ThresholdIsAnswered == Spec => ThresholdAnswered
BY TypesAlways, ThresholdKept, PTL DEF Spec, ThresholdAnswered

-----------------------------------------------------------------------------
(***************************************************************************)
(* The way of a signal: taken by the loop and handed to a goroutine, put   *)
(* into ctl, read by a miner.                                              *)
(***************************************************************************)
LEMMA SignalsMove ==
  ASSUME [Next]_vars
  PROVE  \/ UNCHANGED <<relays, ctl>>
         \/ \E c : Relay(c)
         \/ \E s \in Signal : Deliver(s)
         \/ \E g \in Miners : MinerSignalled(g)
<1> USE DEF minerVars
<1>1. CASE LoopTakesInput
  BY <1>1 DEF LoopTakesInput, HandleMining, StartMining
<1>2. ASSUME NEW h \in Handlers, LoopTakesRestart(h) PROVE (\E c : Relay(c)) \/ UNCHANGED <<relays, ctl>>
  BY <1>2 DEF LoopTakesRestart, HandleMining, StartMining
<1>3. ASSUME NEW h \in Handlers, HandlerStep(h), ~LoopTakesRestart(h) PROVE UNCHANGED <<relays, ctl>>
  BY <1>3 DEF HandlerStep, TailChanges, HandlerBroadcasts, OutOfSync, CountFailure, LoopTakesSync
<1>4. ASSUME NEW g \in Miners, MinerStep(g), ~MinerSignalled(g) PROVE UNCHANGED <<relays, ctl>>
  BY <1>4 DEF MinerStep, MinerCountsPeers, MinerAssembleFails, MinerTakesTail, MinerFinds
<1>5. ASSUME NEW s \in Syncers, SyncerStep(s) PROVE UNCHANGED <<relays, ctl>>
  BY <1>5 DEF SyncerStep, SyncStarts, SyncGivesUp, SyncAddsTail, SyncEnds
<1>6. CASE (\E c \in UserCommands : UserTypes(c)) \/ LoopListsPeers \/ UNCHANGED vars
  BY <1>6 DEF UserTypes, LoopListsPeers, vars
<1> QED
  BY <1>1, <1>2, <1>3, <1>4, <1>5, <1>6 DEF Next

\* Who reads from ctl finds one signal and leaves none.
LEMMA ReadFromCtl ==
  ASSUME NEW S, NEW q \in Seq(S), q # <<>>, Len(q) <= 1
  PROVE  Len(q) = 1 /\ Head(q) = q[1] /\ Len(Tail(q)) = 0
<1>1. Len(q) = 1
  <2>1. Len(q) \in Nat
    OBVIOUS
  <2>2. Len(q) # 0
    BY EmptySeq
  <2> QED
    BY <2>1, <2>2
<1>2. Len(Tail(q)) = Len(q) - 1
  BY HeadTailProperties
<1>3. Head(q) = q[1]
  BY <1>1
<1> QED
  BY <1>1, <1>2, <1>3

\* The signal in ctl was given to a miner that had been started.
CtlNamesMiner == \A i \in 1..Len(ctl) : ctl[i].since <= Len(miners)

\* There are never fewer miners than before.
LEMMA MinersGrow ==
  ASSUME TypesInv, [Next]_vars
  PROVE  Len(miners) \in Nat /\ Len(miners') \in Nat /\ Len(miners) <= Len(miners')
<1> USE DEF minerVars, MinersInv, MinersTyped
<1>0. miners \in Seq(MinerState)
  BY DEF TypesInv
<1>1. CASE UNCHANGED miners
  BY <1>0, <1>1
<1>2. CASE StartMining
  BY <1>0, <1>2 DEF StartMining
<1>3. ASSUME NEW g \in Miners, MinerStep(g) PROVE Len(miners') = Len(miners)
  <2>1. CASE MinerTakesTail(g)
    BY <1>0, <2>1 DEF MinerTakesTail
  <2>2. CASE \E from, to : MinerGoes(g, from, to)
    BY <1>0, <2>2 DEF MinerGoes
  <2> QED
    BY <1>3, <2>1, <2>2
    DEF MinerStep, MinerCountsPeers, MinerAssembleFails, MinerSignalled, MinerFinds
<1>4. UNCHANGED miners \/ StartMining \/ \E g \in Miners : MinerStep(g)
  BY DEF Next, UserTypes, LoopTakesInput, LoopListsPeers, Deliver, HandleMining, Relay,
         HandlerStep, TailChanges, HandlerBroadcasts, LoopTakesRestart, OutOfSync, CountFailure,
         LoopTakesSync, SyncerStep, SyncStarts, SyncGivesUp, SyncAddsTail, SyncEnds, vars
<1> QED
  BY <1>0, <1>1, <1>2, <1>3, <1>4

\* It is so after every step.
LEMMA CtlKept == TypesInv /\ CtlNamesMiner /\ [Next]_vars => CtlNamesMiner'
<1> SUFFICES ASSUME TypesInv, CtlNamesMiner, [Next]_vars PROVE CtlNamesMiner'
  OBVIOUS
<1>1. /\ Len(miners) \in Nat /\ Len(miners') \in Nat /\ Len(miners) <= Len(miners')
      /\ ctl \in Seq(Signal) /\ Len(ctl) <= 1
      /\ \A s \in Signal : s.since \in Nat /\ (s.since > Len(miners) => relays[s] = 0)
  BY MinersGrow, LoopAssumption DEF TypesInv, SignalsInv, SignalsTyped, Signal, LoopAssumption
<1>2. CASE UNCHANGED ctl
  BY <1>1, <1>2 DEF CtlNamesMiner
<1>3. ASSUME NEW s \in Signal, Deliver(s) PROVE CtlNamesMiner'
  <2>1. ctl' = Append(ctl, s) /\ Len(ctl) = 0 /\ ~(s.since > Len(miners))
    BY <1>1, <1>3 DEF Deliver
  <2>2. Len(ctl') = 1 /\ ctl'[1] = s
    BY <1>1, <2>1
  <2> QED
    BY <1>1, <2>1, <2>2 DEF CtlNamesMiner
<1>4. ASSUME NEW g \in Miners, MinerSignalled(g) PROVE CtlNamesMiner'
  <2>1. Len(ctl') = 0
    BY <1>1, <1>4, ReadFromCtl DEF MinerSignalled
  <2> QED
    BY <2>1 DEF CtlNamesMiner
<1> QED
  BY <1>2, <1>3, <1>4, SignalsMove DEF Relay

\* A STOP that has been taken is among the relays or in ctl until the miner that
\* ran then has ended: another miner cannot read it, since none runs beside it.
LEMMA StopKept ==
  TypesInv /\ CtlNamesMiner /\ [Next]_vars
    => \A g \in Miners : StopPending(g) => StopPending(g)' \/ Ended(g)'
<1> SUFFICES ASSUME TypesInv, CtlNamesMiner, [Next]_vars, NEW g \in Miners, StopPending(g)
             PROVE  StopPending(g)' \/ Ended(g)'
  OBVIOUS
<1> DEFINE stop == [op |-> "STOP", since |-> g]
<1>1. stop \in Signal /\ stop.op = "STOP" /\ stop.since = g /\ g \in Nat /\ g >= 1
  BY LoopAssumption DEF Miners, Signal, LoopAssumption
<1> HIDE DEF stop
<1>2. /\ relays \in [Signal -> Nat] /\ ctl \in Seq(Signal) /\ Len(ctl) <= 1
      /\ miners \in Seq(MinerState) /\ AtMostOneMiner
  BY DEF TypesInv, SignalsInv, SignalsTyped, MinersInv, MinersTyped, OneMiner
<1>3. relays[stop] > 0 \/ \E i \in 1..Len(ctl) : ctl[i] = stop
  BY DEF StopPending, Contains, stop
<1>4. SUFFICES ASSUME ~(relays'[stop] > 0), ~(\E i \in 1..Len(ctl') : ctl'[i] = stop)
               PROVE  Ended(g)'
  BY DEF StopPending, Contains, stop
<1>5. CASE UNCHANGED <<relays, ctl>>
  BY <1>3, <1>4, <1>5
<1>6. ASSUME NEW c, Relay(c) PROVE FALSE
  <2> DEFINE s == [op |-> c, since |-> Len(miners)]
  <2>1. relays' = [relays EXCEPT ![s] = relays[s] + 1] /\ ctl' = ctl
    BY <1>6 DEF Relay
  <2> HIDE DEF s
  <2>2. relays'[stop] >= relays[stop]
    BY <1>1, <1>2, <2>1
  <2> QED
    BY <1>1, <1>2, <1>3, <1>4, <2>1, <2>2
<1>7. ASSUME NEW s \in Signal, Deliver(s) PROVE FALSE
  <2>1. /\ relays' = [relays EXCEPT ![s] = relays[s] - 1]
        /\ ctl' = Append(ctl, s) /\ Len(ctl) = 0
    BY <1>2, <1>7 DEF Deliver
  <2>2. Len(ctl') = 1 /\ ctl'[1] = s
    BY <1>2, <2>1
  <2> QED
    BY <1>1, <1>2, <1>3, <1>4, <2>1, <2>2
<1>8. ASSUME NEW h \in Miners, MinerSignalled(h) PROVE Ended(g)'
  <2>1. ctl' = Tail(ctl) /\ relays' = relays /\ ctl # <<>>
    BY <1>8 DEF MinerSignalled
  <2>2. Len(ctl) = 1 /\ Head(ctl) = ctl[1]
    BY <1>2, <2>1, ReadFromCtl
  <2>3. ctl[1] = stop
    BY <1>3, <1>4, <2>1, <2>2
  <2>4. g <= Len(miners) /\ g \in DOMAIN miners
    <3>1. g <= Len(miners)
      BY <1>1, <2>2, <2>3 DEF CtlNamesMiner
    <3> QED
      BY <1>1, <1>2, <3>1
  <2>5. MinerGoes(h, "mine", "done")
    BY <1>1, <1>8, <2>2, <2>3 DEF MinerSignalled
  <2>6. CASE MinerAlive(g)
    <3>1. g = h
      BY <1>2, <2>4, <2>5, <2>6 DEF AtMostOneMiner, MinerAlive, MinerGoes
    <3>2. miners[g] \in MinerState
      BY <1>2, <2>4
    <3>3. g \in DOMAIN miners' /\ miners'[g].pc = "done"
      BY <1>2, <2>4, <2>5, <3>1, <3>2 DEF MinerGoes, MinerState
    <3> QED
      BY <3>3 DEF Ended, MinerAlive
  <2>7. CASE ~MinerAlive(g)
    <3>1. g # h
      BY <2>5, <2>7 DEF MinerAlive, MinerGoes
    <3>2. g \in DOMAIN miners' /\ miners'[g] = miners[g]
      BY <1>2, <2>4, <2>5, <3>1 DEF MinerGoes
    <3> QED
      BY <2>7, <3>2 DEF Ended, MinerAlive
  <2> QED
    BY <2>6, <2>7
<1> QED
  BY <1>5, <1>6, <1>7, <1>8, SignalsMove

(***************************************************************************)
(* A STOP is not lost between HandleCommand and the miner, and is not used *)
(* up on another one: until the miner that ran when it was given has       *)
(* ended, a goroutine holds it or ctl does.                                *)
(***************************************************************************)
THEOREM StopIsNotLost == Spec => StopNotLost
<1>1. Init => CtlNamesMiner
  <2> SUFFICES ASSUME Init PROVE CtlNamesMiner
    OBVIOUS
  <2>1. Len(ctl) = 0
    BY DEF Init
  <2> QED
    BY <2>1 DEF CtlNamesMiner
<1>2. Spec => []CtlNamesMiner
  BY <1>1, TypesAlways, CtlKept, PTL DEF Spec
<1> QED
  BY <1>2, TypesAlways, StopKept, PTL DEF Spec, StopNotLost

-----------------------------------------------------------------------------
(***************************************************************************)
(* Which step leaves a stale miner that nothing was sent to?  A miner that *)
(* takes the tail, or changes it by a block of its own, is not stale; a    *)
(* handler that changes it sends RESTART next; and RESTART is not dropped, *)
(* since the flag tells of the miner.  A block that a sync adds is left.   *)
(***************************************************************************)

\* No miner's step leaves a stale miner behind.
LEMMA MinerStepFresh ==
  ASSUME TypesInv, NEW h \in Miners, MinerStep(h), NEW g \in Miners
  PROVE  ~Stale(g)'
<1>1. miners \in Seq(MinerState) /\ AtMostOneMiner /\ tail \in Nat
  BY DEF TypesInv, MinersInv, MinersTyped, OneMiner
<1>2. h \in DOMAIN miners /\ miners[h].pc # "done" /\ miners[h] \in MinerState
  BY <1>1 DEF MinerStep, MinerCountsPeers, MinerAssembleFails, MinerTakesTail, MinerSignalled,
              MinerFinds, MinerGoes
<1>3. DOMAIN miners' = DOMAIN miners /\ \A i \in DOMAIN miners : i # h => miners'[i] = miners[i]
  BY <1>1, <1>2 DEF MinerStep, MinerCountsPeers, MinerAssembleFails, MinerTakesTail, MinerSignalled,
              MinerFinds, MinerGoes
<1>4. miners'[h].pc # "mine" \/ (miners'[h].base = tail /\ tail' = tail)
  BY <1>1, <1>2 DEF MinerStep, MinerCountsPeers, MinerAssembleFails, MinerTakesTail, MinerSignalled,
              MinerFinds, MinerGoes, MinerState
<1>5. ASSUME g \in DOMAIN miners, g # h PROVE miners'[g].pc # "mine"
  BY <1>1, <1>2, <1>3, <1>5 DEF AtMostOneMiner, MinerAlive
<1> QED
  BY <1>3, <1>4, <1>5 DEF Stale

\* A command about mining, while a miner runs: RESTART and STOP go on their way.
LEMMA CommandTells ==
  ASSUME TypesInv, NEW c \in {"START", "STOP", "RESTART"}, HandleMining(c), UNCHANGED tail,
         NEW g \in Miners, Stale(g)'
  PROVE  /\ Stale(g)
         /\ c # "START" => \E s \in Signal : relays'[s] > 0
         /\ UNCHANGED ctl
         /\ \A s \in Signal : relays[s] > 0 => relays'[s] > 0
<1>1. /\ miners \in Seq(MinerState) /\ FlagTellsMining /\ relays \in [Signal -> Nat]
      /\ is_mining \in BOOLEAN
  BY DEF TypesInv, MinersInv, MinersTyped, OneMiner, SignalsInv, SignalsTyped
<1>2. Stale(g)
  <2>1. CASE UNCHANGED miners
    BY <2>1 DEF Stale
  <2>2. CASE StartMining
    BY <1>1, <2>2 DEF StartMining, Stale
  <2> QED
    BY <2>1, <2>2 DEF HandleMining, Relay, minerVars
<1>3. is_mining
  BY <1>1, <1>2 DEF FlagTellsMining, Stale, MinerAlive
<1>4. CASE c = "START"
  BY <1>2, <1>3, <1>4 DEF HandleMining, minerVars
<1>5. CASE c # "START"
  <2> DEFINE s == [op |-> c, since |-> Len(miners)]
  <2>1. s \in Signal
    <3>1. Len(miners) \in Nat /\ Len(miners) <= MaxCommands /\ MaxCommands \in Nat
      BY <1>1, LoopAssumption
      DEF TypesInv, SignalsInv, CommandsTyped, StartOnItsWay, LoopAssumption
    <3> QED
      BY <1>5, <3>1 DEF Signal
  <2>2. relays' = [relays EXCEPT ![s] = relays[s] + 1] /\ ctl' = ctl
    BY <1>3, <1>5 DEF HandleMining, Relay
  <2> HIDE DEF s
  <2>3. relays[s] \in Nat /\ relays'[s] = relays[s] + 1
    BY <1>1, <2>1, <2>2
  <2>4. \A z \in Signal : z # s => relays'[z] = relays[z]
    BY <1>1, <2>1, <2>2
  <2>5. relays'[s] > 0
    BY <2>3
  <2>6. \A z \in Signal : relays[z] > 0 => relays'[z] > 0
    BY <2>4, <2>5
  <2> QED
    BY <1>2, <1>5, <2>1, <2>2, <2>5, <2>6
<1> QED
  BY <1>4, <1>5

\* No other step leaves one.
LEMMA ToldKept ==
  TypesInv /\ [Next]_vars
    => (REMINE_ON_TAIL_CHANGE =>
          \A g \in Miners : Untold(g)' => Untold(g) \/ \E s \in Syncers : SyncAddsTail(s))
<1> SUFFICES ASSUME TypesInv, [Next]_vars, REMINE_ON_TAIL_CHANGE, NEW g \in Miners, Stale(g)',
                    ~Untold(g), ~\E s \in Syncers : SyncAddsTail(s)
             PROVE  SignalOnItsWay'
  BY DEF Untold
<1>1. handlers \in [Handlers -> HandlerState]
  BY DEF TypesInv, CountTyped
<1>2. Stale(g) => SignalOnItsWay
  BY DEF Untold
<1>3. ASSUME UNCHANGED <<miners, relays, ctl, tail>>,
             \A h \in Handlers : handlers[h] \in {"new tail", "send restart"} =>
                                  handlers'[h] = handlers[h]
      PROVE  SignalOnItsWay'
  BY <1>2, <1>3 DEF SignalOnItsWay, Stale
<1>4. CASE (\E c \in UserCommands : UserTypes(c)) \/ LoopListsPeers \/ UNCHANGED vars
  BY <1>3, <1>4 DEF UserTypes, LoopListsPeers, vars, minerVars
<1>5. CASE LoopTakesInput
  <2>1. CASE UNCHANGED minerVars
    BY <1>3, <1>5, <2>1 DEF LoopTakesInput, minerVars
  <2>2. CASE HandleMining(input)
    <3>1. input \in {"START", "STOP", "RESTART"} \/ UNCHANGED minerVars
      BY <1>5, LoopAssumption
      DEF LoopTakesInput, TypesInv, SignalsInv, CommandsTyped, LoopAssumption
    <3>2. UNCHANGED <<tail, handlers>>
      BY <1>5 DEF LoopTakesInput
    <3> QED
      BY <1>2, <2>1, <2>2, <3>1, <3>2, CommandTells DEF SignalOnItsWay
  <2> QED
    BY <1>5, <2>1, <2>2 DEF LoopTakesInput
<1>6. ASSUME NEW s \in Signal, Deliver(s) PROVE SignalOnItsWay'
  <2>1. ctl' = Append(ctl, s) /\ ctl \in Seq(Signal)
    BY <1>6 DEF Deliver, TypesInv, SignalsInv, SignalsTyped
  <2>2. ctl' # <<>>
    BY <2>1
  <2> QED
    BY <2>2 DEF SignalOnItsWay
<1>7. ASSUME NEW h \in Miners, MinerStep(h) PROVE FALSE
  BY <1>7, MinerStepFresh
<1>8. ASSUME NEW h \in Handlers, HandlerStep(h) PROVE SignalOnItsWay'
  <2>1. CASE TailChanges(h) \/ HandlerBroadcasts(h)
    <3>1. handlers'[h] \in {"new tail", "send restart"}
      BY <1>1, <2>1 DEF TailChanges, HandlerBroadcasts, HandlerGoes
    <3> QED
      BY <3>1 DEF SignalOnItsWay
  <2>2. CASE LoopTakesRestart(h)
    BY <2>2, CommandTells DEF LoopTakesRestart, SignalOnItsWay
  <2>3. CASE OutOfSync(h) \/ CountFailure(h) \/ LoopTakesSync(h)
    <3>1. UNCHANGED <<miners, relays, ctl, tail>>
      BY <2>3 DEF OutOfSync, CountFailure, LoopTakesSync, minerVars
    <3>2. /\ handlers[h] \notin {"new tail", "send restart"}
          /\ \E to : handlers' = [handlers EXCEPT ![h] = to]
      BY <2>3 DEF OutOfSync, CountFailure, LoopTakesSync, HandlerGoes
    <3>3. \A i \in Handlers : i # h => handlers'[i] = handlers[i]
      BY <1>1, <3>2
    <3> QED
      BY <1>3, <3>1, <3>2, <3>3
  <2> QED
    BY <1>8, <2>1, <2>2, <2>3 DEF HandlerStep
<1>9. ASSUME NEW s \in Syncers, SyncerStep(s) PROVE SignalOnItsWay'
  BY <1>3, <1>9 DEF SyncerStep, SyncStarts, SyncGivesUp, SyncEnds, minerVars
<1> QED
  BY <1>4, <1>5, <1>6, <1>7, <1>8, <1>9 DEF Next

(***************************************************************************)
(* With REMINE_ON_TAIL_CHANGE no step but that of a sync that adds a tail  *)
(* leaves a miner on a tail that is not the tail any more, with no handler *)
(* about to send RESTART and no signal on its way.                         *)
(***************************************************************************)
THEOREM StaleMinerIsTold == Spec => StaleIsTold
BY TypesAlways, ToldKept, PTL DEF Spec, StaleIsTold
=============================================================================
