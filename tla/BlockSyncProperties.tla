------------------------- MODULE BlockSyncProperties -------------------------
(***************************************************************************)
(* What a sync promises to the node that runs it.                          *)
(***************************************************************************)
EXTENDS BlockSync

(***************************************************************************)
(* Types; the node's blocks are a tree with a highest block as the tail.   *)
(***************************************************************************)
TypeOK ==
  /\ chain \subseteq Block
  /\ GENESIS \in chain
  /\ \A b \in chain \ {GENESIS} : Front(b) \in chain
  /\ tail \in chain
  /\ \A b \in chain : Height(b) <= Height(tail)
  /\ best \in [Peers -> Block]
  /\ Range(listed) \subseteq Peers
  /\ IsInjective(listed)
  /\ ready \subseteq Peers
  /\ writer \in Peers \cup {NOBODY}
  /\ sync.pc \in {"idle", "pick", "rlock", "locked", "call", "add"}
  /\ sync.i \in 0..Cardinality(Peers)
  /\ sync.tail \in chain
  /\ {syncing, crashed} \subseteq BOOLEAN

(***************************************************************************)
(* GetBlocks sends the blocks that follow the hash on the main chain, or   *)
(* the first ones if the hash is not on it, lowest first, and says synced  *)
(* exactly if nothing was left out (the comment above GetBlocks).  A peer  *)
(* without blocks sends the genesis block to whoever is ahead of it.  Said *)
(* of every chain up to four blocks that the peer asked may have, and of   *)
(* batches up to three.                                                    *)
(***************************************************************************)
Following(t, hash) ==
  LET known == IF IsPrefix(hash, t) THEN Height(hash) ELSE 0
  IN  IF t = GENESIS /\ hash # GENESIS THEN <<GENESIS>>
      ELSE [k \in 1..(Height(t) - known) |-> SubSeq(t, 1, known + k)]

Tall == UNION {[1..n -> 1..2] : n \in 0..4}

BatchFollows ==
  sync.pc = "call" =>
    \A t \in Tall, number \in 1..3 :
      LET all   == Following(t, sync.tail)
          reply == GetBlocks(t, sync.tail, number)
      IN  /\ reply.synced = (Len(all) <= number)
          /\ reply.dq = SubSeq(all, 1, IF Len(all) <= number THEN Len(all) ELSE number)

(***************************************************************************)
(* A sync ends with the node at least as high as the peer that said there  *)
(* was no more, and of every block in what is left of a reply the parent   *)
(* stands BEFORE it there, or is in the node's tree already, so that none  *)
(* is an orphan when its turn comes - whatever handlers and the miner add  *)
(* in between, wherever the batches come from - unless the block's branch  *)
(* leaves the node's own more than CONFIRMATION blocks below the tail,     *)
(* where HandleNewBlock gives it up.                                       *)
(***************************************************************************)
KnownPart(b) ==
  LET n == CHOOSE n \in 0..Height(b) :
             /\ SubSeq(b, 1, n) \in chain
             /\ \A m \in n+1..Height(b) : SubSeq(b, 1, m) \notin chain
  IN  SubSeq(b, 1, n)

GivenUp(b) == Height(tail) - Height(KnownPart(b)) > CONFIRMATION

CaughtUp ==
  sync.pc = "add" /\ sync.reply = <<>> /\ sync.synced =>
    Height(tail) >= Height(sync.served) \/ GivenUp(sync.served)

NoOrphans ==
  \A i \in DOMAIN sync.reply :
    LET b == sync.reply[i]
    IN  b # GENESIS =>
          \/ \E j \in 1..i-1 : sync.reply[j] = Front(b)
          \/ Front(b) \in chain
          \/ GivenUp(b)

(***************************************************************************)
(* A round with a peer that has the tail the round began with on its chain *)
(* brings the node a whole batch further up, unless what the node was      *)
(* given meanwhile made it leave that peer's branch; and up in any case.   *)
(* So such a peer is never asked for the same blocks again.                *)
(***************************************************************************)
RoundsGoUp ==
  /\ sync.pc = "add" /\ sync.reply = <<>> /\ ~sync.synced
  /\ IsPrefix(sync.tail, sync.served)
  => /\ Height(tail) > Height(sync.tail)
     /\ Height(tail) >= Height(sync.tail) + BATCH \/ GivenUp(sync.served)

(***************************************************************************)
(* With blocks from syncs, handlers and the miner, the node's blocks still *)
(* are what BlockTree promises: a tree that grows block by block, with one *)
(* of the highest blocks as the tail, which gives way only to a higher one.*)
(***************************************************************************)
Tree ==
  INSTANCE BlockTree WITH
    ROOT   <- GENESIS,
    height <- [b \in chain |-> Height(b)],
    parent <- [b \in chain \ {GENESIS} |-> Front(b)],
    best   <- tail

ImplementsBlockTree == Tree!Spec

(***************************************************************************)
(* A sync comes to an end if one peer always has the node's tail on its    *)
(* chain, and from some time on the peers listed are connected, that one   *)
(* among them, and the list does not change any more.  (Otherwise it may   *)
(* go round for ever: a peer that does not know the node's tail sends the  *)
(* same first batch again, one that is not connected is asked for ever, a  *)
(* writer between the two read locks of GetPeer stops all; and it panics   *)
(* if the list shrinks at the wrong moment.)                               *)
(***************************************************************************)
Active == sync.pc # "idle"

KnowsTail(p) == IsPrefix(tail, best[p])

Settled == NoWriter /\ Range(listed) \subseteq ready

Settles(p) == <>[](Settled /\ Contains(listed, p))

SyncReturns ==
  \A p \in Peers :
    []KnowsTail(p) /\ Settles(p) => (Active ~> (~Active \/ crashed))
=============================================================================
