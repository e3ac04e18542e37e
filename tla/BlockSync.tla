------------------------------ MODULE BlockSync ------------------------------
(***************************************************************************)
(* How a node downloads the blocks it misses: SyncToLatest and GetPeer of  *)
(* src/full_node/full_node_server.go on the node's side, and GetBlocks of  *)
(* src/full_node/full_node.go at the peer that is asked.                   *)
(*                                                                         *)
(* A block is the path that leads to it from the genesis block, <<>>; its  *)
(* parent is the path without the last step, its height the length.  Of a  *)
(* peer only the tail matters, since GetBlocks sends blocks below it.  All *)
(* blocks are valid: whether a body passes is the matter of FullNode.      *)
(*                                                                         *)
(* Meanwhile peers mine, connections come and go, SetBlock handlers and    *)
(* the miner add blocks to the node's own tree, and other goroutines add   *)
(* and remove peers under the server's RWMutex.  GetPeer takes its read    *)
(* lock twice, and a goroutine that asks for the lock holds up new readers.*)
(***************************************************************************)
EXTENDS Integers, Sequences, FiniteSets, SequencesExt

CONSTANTS
  Peers,         \* nodes that may be listed as peers
  NOBODY,        \* no peer
  Block,         \* bound: the blocks that anybody ever mines
  BATCH,         \* batch_size: blocks asked for at a time
  CONFIRMATION   \* config: how deep a parent may be for a new block

GENESIS == <<>>

ASSUME SyncAssumption ==
  /\ GENESIS \in Block
  /\ \A b \in Block : b \in Seq(Range(b))
  /\ \A b \in Block \ {GENESIS} : Front(b) \in Block
  /\ IsFiniteSet(Peers)
  /\ BATCH \in Nat \ {0}
  /\ CONFIRMATION \in Nat
  /\ NOBODY \notin Peers

VARIABLES
  chain,    \* the node's blocks
  tail,     \* the node's tail
  best,     \* the tail of each peer
  listed,   \* the peer list, in order
  ready,    \* peers whose connection is Ready
  writer,   \* a goroutine waits for the lock, to add or remove this peer
  sync,     \* [pc, i, tail, peer, reply, synced]: locals of SyncToLatest, and
            \* served, the tail behind the last reply (for the properties)
  syncing,  \* the flag that keeps SetBlock from counting failures
  crashed   \* a panic has ended the process

peerVars == <<best, listed, ready, writer>>
vars == <<chain, tail, peerVars, sync, syncing, crashed>>

Height(b) == Len(b)

Resting ==
  [pc |-> "idle", i |-> 0, tail |-> GENESIS, peer |-> NOBODY,
   reply |-> <<>>, synced |-> FALSE, served |-> GENESIS]

Init ==
  /\ chain = {GENESIS} /\ tail = GENESIS
  /\ best \in [Peers -> Block]
  /\ listed = SetToSeq(Peers) /\ ready = {} /\ writer = NOBODY
  /\ sync = Resting
  /\ syncing = FALSE
  /\ crashed = FALSE

-----------------------------------------------------------------------------
(***************************************************************************)
(* GetBlocks walks down from the tail until it meets the hash, or stands   *)
(* above the genesis block (or on it).  The blocks go to the front of a    *)
(* deque of the given size; what falls out at the back is left for the     *)
(* next call.  (Faulty versions: what falls out is forgotten; the lower    *)
(* block falls out; the highest block comes first.)                        *)
(***************************************************************************)
PathTo(b) == [k \in 1..Height(b) + 1 |-> SubSeq(b, 1, k - 1)]

VisitForgetting(st, b, hash, number) ==
  IF st.done \/ b = hash
  THEN [st EXCEPT !.done = TRUE]
  ELSE [dq     |-> <<b>> \o (IF Len(st.dq) = number THEN Front(st.dq) ELSE st.dq),
        synced |-> st.synced,
        done   |-> Height(b) <= 1]

VisitKeepingHighest(st, b, hash, number) ==
  IF st.done \/ b = hash
  THEN [st EXCEPT !.done = TRUE]
  ELSE [dq     |-> IF Len(st.dq) = number THEN st.dq ELSE <<b>> \o st.dq,
        synced |-> st.synced /\ Len(st.dq) < number,
        done   |-> Height(b) <= 1]

VisitHighestFirst(st, b, hash, number) ==
  IF st.done \/ b = hash
  THEN [st EXCEPT !.done = TRUE]
  ELSE [dq     |-> Append(IF Len(st.dq) = number THEN Tail(st.dq) ELSE st.dq, b),
        synced |-> st.synced /\ Len(st.dq) < number,
        done   |-> Height(b) <= 1]

Visit(st, b, hash, number) ==
  IF st.done \/ b = hash
  THEN [st EXCEPT !.done = TRUE]
  ELSE [dq     |-> <<b>> \o (IF Len(st.dq) = number THEN Front(st.dq) ELSE st.dq),
        synced |-> st.synced /\ Len(st.dq) < number,
        done   |-> Height(b) <= 1]

GetBlocks(t, hash, number) ==
  FoldLeft(LAMBDA st, b : Visit(st, b, hash, number),
           [dq |-> <<>>, synced |-> TRUE, done |-> FALSE],
           Reverse(PathTo(t)))

-----------------------------------------------------------------------------
\* HandleNewBlock, for a block that is valid in itself.  (Faulty version: the
\* parent is not looked for.)
AcceptableOrphan(b) ==
  /\ b \notin chain
  /\ Height(tail) - Height(Front(b)) <= CONFIRMATION

Acceptable(b) ==
  /\ b \notin chain
  /\ Front(b) \in chain
  /\ Height(tail) - Height(Front(b)) <= CONFIRMATION

AddBlock(b) ==
  /\ chain' = chain \cup {b}
  /\ tail' = IF Height(b) > Height(tail) THEN b ELSE tail

HandleNewBlock(b) ==
  IF Acceptable(b) THEN AddBlock(b) ELSE UNCHANGED <<chain, tail>>

-----------------------------------------------------------------------------
(***************************************************************************)
(* SyncToLatest.  The flag is set first, and stays set on an early return. *)
(***************************************************************************)
NoWriter == writer = NOBODY

SyncGoes(from, to) == sync.pc = from /\ sync' = [sync EXCEPT !.pc = to]

SyncStarts ==
  /\ NoWriter
  /\ sync.pc = "idle"
  /\ syncing' = TRUE
  /\ sync' = IF listed = <<>> THEN sync ELSE [Resting EXCEPT !.pc = "pick", !.tail = tail]
  /\ UNCHANGED <<chain, tail, peerVars, crashed>>

\* i % peerSize, with the size read anew each time.
SyncPicks ==
  /\ NoWriter
  /\ sync.pc = "pick"
  /\ IF listed = <<>>
     THEN crashed' = TRUE /\ UNCHANGED sync
     ELSE sync' = [sync EXCEPT !.pc = "rlock", !.i = @ % Len(listed)] /\ UNCHANGED crashed
  /\ UNCHANGED <<chain, tail, peerVars, syncing>>

\* GetPeer takes the read lock, and once more in GetAllPeers.
SyncRLocks ==
  /\ NoWriter
  /\ SyncGoes("rlock", "locked")
  /\ UNCHANGED <<chain, tail, peerVars, syncing, crashed>>

SyncGetsPeer ==
  /\ NoWriter
  /\ sync.pc = "locked"
  /\ \/ /\ sync.i < Len(listed)
        /\ listed[sync.i + 1] \in ready
        /\ sync' = [sync EXCEPT !.pc = "call", !.peer = listed[sync.i + 1]]
        /\ UNCHANGED crashed
     \/ /\ sync.i < Len(listed)
        /\ listed[sync.i + 1] \notin ready
        /\ SyncGoes("locked", "pick")
        /\ UNCHANGED crashed
     \/ /\ sync.i > Len(listed)
        /\ SyncGoes("locked", "pick")
        /\ UNCHANGED crashed
     \/ /\ sync.i = Len(listed)
        /\ crashed' = TRUE
        /\ UNCHANGED sync
  /\ UNCHANGED <<chain, tail, peerVars, syncing>>

\* The peer serves Sync.
SyncAnswered ==
  LET reply == GetBlocks(best[sync.peer], sync.tail, BATCH)
  IN  /\ sync.pc = "call"
      /\ sync' = [sync EXCEPT !.pc = "add", !.reply = reply.dq, !.synced = reply.synced,
                              !.served = best[sync.peer]]
      /\ UNCHANGED <<chain, tail, peerVars, syncing, crashed>>

SyncFails ==
  /\ sync.pc = "call"
  /\ sync' = Resting
  /\ UNCHANGED <<chain, tail, peerVars, syncing, crashed>>

\* SetBlockInternal for each block; its verdict is ignored.
SyncAdds ==
  /\ sync.pc = "add"
  /\ sync.reply # <<>>
  /\ HandleNewBlock(Head(sync.reply))
  /\ sync' = [sync EXCEPT !.reply = Tail(@)]
  /\ UNCHANGED <<peerVars, syncing, crashed>>

\* Faulty version: the tail to go on from is the one the sync began with.
SyncGoesOnFromStart ==
  /\ sync.pc = "add"
  /\ sync.reply = <<>>
  /\ ~sync.synced
  /\ sync' = [Resting EXCEPT !.pc = "pick", !.tail = sync.tail, !.i = sync.i + 1]
  /\ UNCHANGED <<chain, tail, peerVars, syncing, crashed>>

SyncGoesOn ==
  /\ sync.pc = "add"
  /\ sync.reply = <<>>
  /\ ~sync.synced
  /\ sync' = [Resting EXCEPT !.pc = "pick", !.tail = tail, !.i = sync.i + 1]
  /\ UNCHANGED <<chain, tail, peerVars, syncing, crashed>>

SyncEnds ==
  /\ NoWriter
  /\ sync.pc = "add"
  /\ sync.reply = <<>>
  /\ sync.synced
  /\ sync' = Resting
  /\ syncing' = FALSE
  /\ UNCHANGED <<chain, tail, peerVars, crashed>>

-----------------------------------------------------------------------------
(***************************************************************************)
(* The others.  A handler or the miner adds a block to the node's tree; a  *)
(* peer's tail rises; a connection comes up or goes down; a goroutine asks *)
(* for the lock, and gets it when GetPeer does not hold it.                *)
(***************************************************************************)
NodeHears(b) ==
  /\ b # GENESIS
  /\ Acceptable(b)
  /\ AddBlock(b)
  /\ UNCHANGED <<peerVars, sync, syncing, crashed>>

PeerAdvances(p, b) ==
  /\ Height(b) = Height(best[p]) + 1
  /\ best' = [best EXCEPT ![p] = b]
  /\ UNCHANGED <<chain, tail, listed, ready, writer, sync, syncing, crashed>>

ConnectionChanges(p) ==
  /\ ready' = IF p \in ready THEN ready \ {p} ELSE ready \cup {p}
  /\ UNCHANGED <<chain, tail, best, listed, writer, sync, syncing, crashed>>

WriterAsks(p) ==
  /\ NoWriter
  /\ writer' = p
  /\ UNCHANGED <<chain, tail, best, listed, ready, sync, syncing, crashed>>

WriterChangesList ==
  /\ ~NoWriter
  /\ sync.pc # "locked"
  /\ listed' = IF Contains(listed, writer) THEN RemoveFirst(listed, writer)
               ELSE Append(listed, writer)
  /\ writer' = NOBODY
  /\ UNCHANGED <<chain, tail, best, ready, sync, syncing, crashed>>

SyncStep ==
  \/ SyncPicks \/ SyncRLocks \/ SyncGetsPeer
  \/ SyncAnswered \/ SyncFails
  \/ SyncAdds \/ SyncGoesOn \/ SyncEnds

Next ==
  /\ ~crashed
  /\ \/ SyncStarts
     \/ SyncStep
     \/ \E b \in Block : NodeHears(b)
     \/ \E p \in Peers, b \in Block : PeerAdvances(p, b)
     \/ \E p \in Peers : ConnectionChanges(p) \/ WriterAsks(p)
     \/ WriterChangesList

Spec == Init /\ [][Next]_vars

(***************************************************************************)
(* A sync goes on when it can - a call ends, with an answer or with its    *)
(* timeout - and the lock is given to the goroutine that waits for it once *)
(* it is free.  Nobody needs start a sync, mine or connect.                *)
(***************************************************************************)
Fairness ==
  /\ WF_vars(~crashed /\ SyncStep)
  /\ WF_vars(~crashed /\ WriterChangesList)

FairSpec == Spec /\ Fairness
=============================================================================
