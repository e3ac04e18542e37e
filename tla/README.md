# A TLA+ model of btc_in_go

btc_in_go is a small Bitcoin in Go: full nodes keep a tree of blocks, mine on
its highest block and pass blocks and transactions on to their peers over gRPC,
and wallets pay through them.  This directory models the program in TLA+,
checks the models on small instances with TLC, and proves theorems about them
with TLAPS.

## The system: parts, state, operations

| part | state | operations | hard behaviour |
|---|---|---|---|
| transactions and ledger (`utils/transaction_utils.go`, `utils/ledger_utils.go`) | none: functions on a map from outputs to owners | validate, fee, coinbase, apply | three places catch a double spend; the fee's sign; fee on one ledger, validity on another |
| block tree (`model/composite_type.go`, `full_node.go`) | `Chain` (hash to wrapper), `Tail` | `HandleNewBlock`, snapshot at a depth | blocks in any order over several branches, ledgers copied from branch to branch |
| full node (`full_node.go`, `blockchain_utils.go`) | block tree, transaction pool, one RWMutex | `SetTransaction` (validate, add), `SetBlock`, `Mine` | state read in one critical section and used in another; the pool under reorganisations |
| peer table (`full_node_server.go`) | `peers`, RWMutex, one GC goroutine for each connection | `AddPeer`, `RemovePeer`, `AddMutualConnection`, broadcasts | check-then-append, a lock held over RPCs, a read lock taken twice |
| command loop (`full_node/cmd/main.go`) | `is_mining`, `is_probing`, `ctl` (buffer of one), `cmd` | `HandleCommand` | commands relayed by goroutines, flags shared without a lock |
| sync (`SyncToLatest`, `GetBlocks`) | `syncing`, `blockFailure` | round-robin download of batches | early returns, forks, peers that come and go |
| network | the above on several nodes | broadcast | order, loss, restarts with the same key |
| wallet (`wallet/`) | last balance, connection, aliases | `SetFullNodeConnection`, `GetBalance`, `TransferMoney`, `SetAlias` | answers that get lost and a user who tries again; transfers before a confirmation; negative change |
| terminal (`layout/layout.go`, the two `main.go`) | the line to show (`command`), the views, the channel to `HandleCommand` | `Edit`, `Layout`, `ParseCommand`, Ctrl-C | pasted lines, the GUI's goroutine blocked on a channel, read-ahead that is lost |
| key file (`file_utils.go`) | one file that programs share | `ParseKeyFile` | two first starts together; an end between create and write |
| network probe (`ProbNetwork`, `Introduce`, `visualize.go`) | `is_probing`, the graph | breadth-first search over RPCs | nodes that do not answer, lists that change meanwhile |
| proof of work and encodings (`blockchain_utils.go`, `bytes_utils.go`) | none | `ByteHasLeadingZeros`, `Int64ToBytes` | boundary values |
| commands (`commands/`) | none | `CreateCommand`, `CreateClientCommand` | what gets through, and what `HandleCommand` takes for granted of it |
| drawing of blocks, generated stubs | | | not modelled: presentation, generated |

Parts call each other like this.  A gRPC handler (`SetTransaction`, `SetBlock`,
`AddPeer`, `Sync`, ...) runs in a goroutine of its own and works on the
`FullNode` behind its RWMutex and on the peer list behind the server's.
`HandleCommand` is one goroutine that takes commands from the unbuffered channel
`cmd` - the user's, and `RESTART` and `SYNC` from `SetBlock` handlers - and starts
goroutines: one miner, one for each relayed signal, one for each sync.  The
miner takes signals from `ctl`, a channel with one place, between two nonces.

What makes each part correct:

* ledger and block tree: a ledger is the set of unspent outputs of its branch;
  no output is spent twice on a branch and no money appears; the tail is a
  highest block and moves only to a higher one; what was accepted never changes;
* full node: the block the miner works on is one the node accepts; its coinbases
  have distinct identifiers; transactions the tail refuses leave the pool;
* command loop: the mining flag tells the truth and there is one miner; a STOP
  stops; a miner leaves a stale tail; a count of failures that calls for
  a sync loses it only when the sync gives up; the loop always comes back to its
  channel (which the code does not keep);
* sync: a batch leaves nothing out and comes in order; a sync that ends has
  caught up; it ends;
* wallet: trying again does not pay twice; transfers lose no money and make
  no debts;
* programs and terminals: the key a program runs with is the one in the file;
  commands reach `HandleCommand` once and in order; Ctrl-C works; a probe asks
  all it hears of, and ends;
* peer table: every entry is watched by a goroutine that can remove it; dead
  addresses leave; adding a peer comes to an end.

## Modules

| module | models | lines of code it stands for |
|---|---|---|
| `Ledger` | pure functions on transactions and ledgers | `utils/transaction_utils.go`, `utils/ledger_utils.go` |
| `Blockchain` | the tree, the tests and the effect of a new block, as operators on a record `[Tail, Chain]` | `model/composite_type.go`, `full_node.go` |
| `BlockTree` | abstract: what a node promises about its blocks, a tree that only grows and a best block | implemented by `FullNode`, by `BlockSync` and by the node of `Wallet` |
| `FullNode` | one node: handlers of transactions and blocks, and the miner | `full_node.go`, `blockchain_utils.go`, handlers in `full_node_server.go` |
| `CommandLoop` | `HandleCommand`, `cmd`, `ctl`, the miner's goroutine, the signalling half of `SetBlock` and `SyncToLatest` | `full_node/cmd/main.go`, `full_node_server.go` |
| `PeerTable` | the peer list, adds, prunes, reapers | `full_node_server.go` |
| `BlockSync` | `SyncToLatest`, `GetPeer`, `GetBlocks` against peers on several branches, under the server's RWMutex | `full_node_server.go`, `full_node.go` |
| `Wallet` (extends `FullNode`) | wallets at work on a full node: two RPCs for a transfer, with the node's handlers between them | `wallet/wallet.go`, `wallet/cmd/main.go`, `transaction_utils.go` |
| `KeyFile` | `ParseKeyFile` of several programs that share a file | `file_utils.go` |
| `Commands` | the grammar of command lines, and what the handlers rely on | `commands/ops.go`, `commands/client_ops.go` |
| `Terminal` (extends `Commands`) | from a line typed to a command taken, with the GUI and without | `layout/layout.go`, both `main.go` |
| `NetworkProbe` | the command `network` | `full_node/cmd/main.go`, `visualize.go` |
| `Process` | a program from start to end: `KeyFile`, `Terminal` and `NetworkProbe` together | both `main.go` |
| `Encodings` | pure functions: integers as bytes, zero bits of a digest | `bytes_utils.go`, `blockchain_utils.go` |
| `...Properties` | what each component promises | |
| `MC...` | the instances TLC checks, with a `.cfg` for each run | |
| `LedgerProofs`, `FullNodeProofs`, `MoneyProofs`, `WalletProofs` | theorems and their proofs, each module on the ones before it | |
| `CommandLoopProofs`, `PeerTableProofs`, `BlockSyncProofs`, `ProcessProofs` | theorems about these components | |

`FullNode` and `CommandLoop` both contain the miner: `FullNode` has what it
computes and when it looks at shared state, with commands as an interruption
that may always come (`MinerInterrupted`); `CommandLoop` has how it is started
and stopped, with the tail as a version number.  The boundary is `Mine(ctl)`.
`CommandLoop` and `BlockSync` both contain `SyncToLatest`: there it is a flag and
a tail that changes, and the question is when a sync is asked for; here it is
the download.  `Process` stops where `HandleCommand` takes a command;
`CommandLoop` and `Wallet` are what it does with one.

### State and actions

* A hash is the tuple of the fields the code feeds to SHA256, so equal hashes
  mean equal fields and the code's omissions (signatures are not hashed) are
  kept.  That takes SHA256 to be injective and the bytes it is given to be
  unambiguous; the code concatenates the fields without their lengths, and
  whether two different transactions can give the same bytes is not modelled.
  A signature is the key that made it.  Nonces are abstracted to `Sealed`: whether
  the block meets the difficulty and carries its own hash.
* Amounts are `float64` in the code (`double` on the wire), and whatever a peer
  sends is decoded.  The models have the integers and `NAN`, the value that is not
  a number, with its arithmetic (`Plus`, `Minus`, `SumOf`: it goes through) and its
  comparisons (`Less` is false of it on either side).  Each test is written the way
  round the code writes it - "not less than zero", "not more than the fee" - so a
  `NAN` passes all four of them (`transaction_utils.go:145`, `:151`, `:183`, `:227`), as
  it does in the code: a coinbase may claim it, and whoever spends that output may
  make any amount.  The properties about money therefore speak of branches all of
  whose amounts are numbers (`OnlyNumbers`), with any others beside them.
  Fractions, rounding and infinities are not modelled.
* `FullNode`: `blockchain`, `txPool` and the two locals that survive a critical
  section (`checked` of a SetTransaction handler, `miner`).  A step is one
  critical section of the node's mutex.  `CreateNewBlock(txs)` is one for each
  order in which the pool, a Go map, may list its transactions, and has the
  code's three outcomes: some fail and are dropped one at a time (`RemoveErrTx`),
  all succeed but `CalcTxFee` fails and `log.Fatalln` ends the process, or
  mining starts.  The peers are the environment: they send any block of
  `WireTxs` and `WireCoinbase` on any known or unknown parent, valid or not, in
  any order and again and again, so loss, duplication and reordering are in it.
* `CommandLoop`: a send on `cmd` and its receive are one step; `ctl` is a sequence
  of at most one signal; `relays` counts the goroutines that wait to put one in.
  A miner is a record in the order of starting; `base` is the tail it mines on.
* `PeerTable`: `adders` are the goroutines in `AddPeerInternal` and
  `AddMutualConnection`, `conns` the connections with the goroutine that watches
  each, `peers` the list.

* `BlockSync`: a block is the path from the genesis block to it, so parent and
  height need no map, and of a peer only its tail matters.  The steps of
  `SyncToLatest` are its looks at shared state: the list's length, the first and
  the second read lock of `GetPeer`, the call, each block added, the tail to go on
  from.  A panic (`i % 0`, `peers[len]`) ends the process: `crashed`.
* `Wallet`: a wallet is a record of its Go fields and the transaction it is
  sending.  A submission arrives at the node or not, and the wallet hears of it
  or not, in any combination; nothing in its state tells which.  A transaction's
  inputs come in every order, since `UTXOs` is a Go map.
* `Process`: `flags` says which of the two programs it is and whether it has a
  GUI.  With the GUI, one goroutine reads all pending events, each Enter perhaps
  waiting for `HandleCommand`, and then lays out the views; without, it reads
  lines.  The end of the process, at any step, resets all but the file.
* `Commands` does not look into tokens: a token is the set of tests it passes.
  `Int64ToBytes` is written for any number of bits and bytes, and checked for
  small ones; eight bytes of seven bits are the code's.

### Locks

A section under the server's RWMutex that ends by itself is one step.  That is
sound for these models because nothing a section writes is read outside the
lock, except `syncing`, `is_mining` and `cmd`, whose accesses have steps of
their own, and the slice `GetAllPeers` returns, of which only the length matters
here; so the section's moves commute with those of goroutines that do not
hold the lock.  Broadcasts hold the read lock over RPCs, but each RPC has a
timeout, they change nothing, and they too only delay the others.  Two sections
do not end by themselves, and are modelled as what they are: `SetBlock` sends
`SYNC` on `cmd` with the lock held (`handlers[h] = "send sync"`, `LockFree`), and
`AddPeerInternal` returns without releasing the read lock when it finds its
address listed (`mutex`).  What the code does to a goroutine that waits behind a
waiting writer is in `WriterJams`.

## What the runs check

| run | instance | properties | result |
|---|---|---|---|
| `pool` | 5 blocks, a transaction and one that spends its output, blocks with and without the first, two confirmations | `TypeOK`, `TreeSound`, `OwnCoinbasesDistinct`, `MinedBlockValid`, `HistoryStable`, `ImplementsBlockTree` | hold |
| `money` | 4 blocks, two confirmations, blocks with double spends in a transaction, in a block and along a branch, coinbases that claim too much, a coinbase that claims `NAN` and a payment out of it | `LedgerIsUnspentSet`, `BranchesSpendOnce`, `NoInflation` | hold |
| `fatal` | as `pool`, with more blocks from peers | `NeverFatal` | violated |
| `confirmed` | 6 blocks, no transactions, one confirmation | `ConfirmedNeverReverted` | violated |
| `loop` | 2 handlers, 2 syncs, 3 commands START, STOP or LIST_PEER, threshold 2, one tail change | `TypeOK`, `OneMiner`, `ThresholdAnswered`, `StopStops` and why it does: `StopNotLost`, `StaleTailAbandoned` and why it does: `StaleIsTold` | hold |
| `blocked` | 1 handler, 1 sync, LIST_PEER | `LoopComesBack` | violated |
| `peerlive` | 1 handler and the loop, 2 addresses, 3 adds | `TypeOK`, `ReapersSuffice`, `DeadAddressLeaves` | hold |
| `leak` | 1 handler and the loop, 2 addresses, 3 adds | `AddReturns` | violated |
| `sync` | 2 peers, a trunk and a fork of three blocks above the genesis block, batches of one, no confirmation | `TypeOK`, `BatchFollows`, `SyncReturns` | hold |
| `syncsafe` | 1 peer, a trunk of five blocks with a branch at the genesis block and one a block above it, batches of three, one confirmation | `CaughtUp`, `NoOrphans`, `RoundsGoUp`, `ImplementsBlockTree` | hold |
| `wallet` | 4 blocks, a wallet with one reward and a named receiver, two transfers, one confirmation | `WalletTypeOK`, `PaysOnce`, `MoneyKept`, `PoolSelfCleans` | hold |
| `process` | 2 programs on one key file, 2 starts, 2 lines of 3, 3 endpoints whose lists change once, one probe | `TypeOK`, `KeyIsKept`, `CommandsInOrder`, `EchoFollows`, `ProbeComplete`, `ArgumentsThere`, `NumbersStayApart`, `LeadingZerosCounted`, `ProbesEnd`, `CtrlCQuits` | hold |

Two properties have a theorem and no run of their own: `TailAdvances`, which
`ImplementsBlockTree` contains, and `OwnLabelsFresh`, the inductive form of
`OwnCoinbasesDistinct`.  `BatchFollows`, `ArgumentsThere`, `NumbersStayApart` and
`LeadingZerosCounted` are about functions: they speak of all inputs within the
bounds they name, the first wherever a peer is asked, the others before anything
starts.

The bounds, and why they are enough for the question:

* `MaxBlocks` counts the genesis block.  Three more make a fork and a branch that
  overtakes, with a transfer that is mined or given up (`wallet`), and they
  are a coin, its spending and a second spending, each in a block of its own, or
  two branches that spend the same coin (`money`); four make a payment, its
  spending and a block between (`pool`, `fatal`); five
  let a branch overtake one whose first block has a confirmation (`confirmed`).
* In `money` a branch of three blocks needs three coinbases with different
  identifiers, or `LedgerIsUnspentSet` and `BranchesSpendOnce` say nothing of it.
  There are four that a node takes (two full rewards, one a tip short, and `NAN`)
  and one that claims too much.  With `CONFIRMATION = 2` the side branch may start
  at the genesis block as late as the main one has its second block.
* A block two below the tail is only taken with `CONFIRMATION = 2` (`pool`), and
  only then can a block be added that must not become the tail.
* In `loop`, three commands are START, STOP, START with a relay still under way, and
  one change of the tail is what a stale miner needs.  RESTART comes from the
  handlers: it meets a STOP in `ctl`'s one place, overtakes it, or finds another
  miner.  One handler can hold the lock that a miner at the top of its loop, the
  other handler and a sync wait for, and with LIST_PEER the loop as well: then
  nothing goes on any more, the miner included (`blocked`), and `StopStops` and
  `StaleTailAbandoned` leave that out (`Jammed`).  Two
  syncs and a threshold of two let one sync end under the other, with counts from
  before and after.
* A count of failures matters up to the threshold only, so it stops there.
  `OrphanAllowed` bounds the syncs under way to the goroutines of `Syncers`.
* `MaxAdds = 3` connections give an address two entries and a third that is
  somebody else's, which is what pruning the last and removing the first can
  confuse.
* In `sync` three blocks are a trunk and two branches, where a client can be on
  one and the peers on the other, and a batch of one block is the shortest that
  several calls are needed for.  Two peers are what turns and an index that
  became the length need.  `GetBlocks` alone is checked on all branches of up to
  four blocks and batches of up to three (`BatchFollows`).
* `syncsafe` has what `sync` is too small for: an order inside a batch (three
  blocks at a time), two batches in a row, and blocks beside the tail, which only
  `CONFIRMATION` above zero lets in, so that the node's own tree has ties and
  branches that compete.  A round brings a whole batch unless the node gives the
  peer's branch up meanwhile, which takes a batch longer than `CONFIRMATION` and a
  block more: hence three and one.  One peer is enough for these properties: its
  chain is any of them at the start and may grow in any direction, and what other
  peers would add the node may hear anyway (`NodeHears`).
* In `wallet` two transfers are a first one and the one that tries again.  With
  four blocks the second is always made on a balance that does not have the
  first, which is where it must not be paid again; that the second may be paid
  where the first was confirmed before it was made is in the theorem
  (`TryingAgainPaysOnce`), not in the run.  Nor are there blocks enough for a
  reorganisation that takes the inputs from a transfer in the pool.  The receiver
  is typed as a name, before and after the name is known.
* In `process` two starts are the race for the key file, or a restart; two lines
  are the fewest that can be pasted.  Each program has two lines it takes and one
  it does not.  With one probe at a time a second `network` waits for the first;
  two that both found the flag clear would draw one picture twice.

Deadlock is not checked: with the bounds used up, or the process ended, the
models stop.  Every passing property has a faulty version of one operation,
marked as such beside it, that makes it fail.

### Fairness

`FullNode.MinerFairness`: the miner's loop calls `Mine` again at once and its
critical sections wait only for sections that end, so each of its steps is
weakly fair; the nonce loop ends with a nonce or a command.  Nothing is assumed
of handlers and peers.  `CommandLoop`: Go runs what can run, and serves waiting
senders and lockers in turn, hence strong fairness where a goroutine's turn may
come and go (the lock taken and released by handlers).  Two assumptions are
about time: a miner looks at `ctl` before each nonce, so it sees a signal that
stays; and assembling does not fail for ever, which `PoolSelfCleans` justifies.
No nonce need be found, no download end, no command be typed.  `PeerTable`: the
sleeping goroutines wake up, RPCs end by their timeouts; nobody need ask
anything and no connection need come up.  That the loop's RPC to a new peer (10
seconds) ends before the third look at its connection (21 seconds) is the guard
`BeingCalled`.  `BlockSync`: a sync goes on when it can, a call ends with an answer
or its timeout, and the lock goes to the goroutine that waits for it; nobody
need start a sync, mine or connect, and what `SyncReturns` needs of peers and list
is a premise of the property, not fairness.  `Wallet`: the miner's fairness alone,
none of wallets and peers; `PoolSelfCleans` speaks of nodes on which a miner runs.
`Process`: the goroutines of a process go on when they can, and a call to a node
ends; `HandleCommand` comes back from each command, which is what `blocked` and
`leak` show it may not do, so `CtrlCQuits` is a promise of the terminal only.

## What is proved

The theorems hold for every value of the constants, under the assumptions that
the modules name: `ConfigAssumption`, `WireAssumption` (what comes over the wire
has the fields of a transaction: two finite lists, and amounts that are integers
or `NAN`), `NanAssumption` (`NAN` is no integer), `SyncAssumption` (a block is a finite
path from the genesis block, whose beginnings are blocks too, and there are
finitely many peers), `LoopAssumption`, `PeersAssumption`, `KeyAssumption`,
`TerminalAssumption`, `ProbeAssumption`, `WalletAssumption` and the bounds, which
are any natural numbers.  TLC evaluates each of them on every run.  Theorems
about branches also have the hypothesis `NilIsNoHash`: the model's nil pointer
is not the hash of a block.

| module | theorem | property |
|---|---|---|
| `FullNodeProofs` | `TypeCorrect`, `TreeIsSound`, `TailOnlyAdvances`, `HistoryIsStable` | `TypeOK`, `TreeSound`, `TailAdvances`, `HistoryStable` |
| | `NodeImplementsBlockTree` | `ImplementsBlockTree` |
| | `OwnLabelsStayFresh`, `OwnCoinbasesNeverCollide` | `OwnLabelsFresh`, `OwnCoinbasesDistinct` |
| `MoneyProofs` | `MoneyIsBounded`, `MinedBlockIsValid` | `NoInflation`, `MinedBlockValid` |
| | `LedgersAreUnspentSets`, `NoDoubleSpending` | `LedgerIsUnspentSet`, `BranchesSpendOnce` |
| `WalletProofs` | `WalletTypesAreCorrect`, `TryingAgainPaysOnce`, `TransfersKeepMoney` | `WalletTypeOK`, `PaysOnce`, `MoneyKept` |
| | `NodeServesWallets` | `TreeSound`, `NoInflation`, `LedgerIsUnspentSet`, `BranchesSpendOnce` of the node under wallets |
| | `ServingNodeKeepsTree` | `ImplementsBlockTree` of the node under wallets |
| `CommandLoopProofs` | `TypesAreCorrect`, `OneMinerAtATime`, `ThresholdIsAnswered` | `TypeOK`, `OneMiner`, `ThresholdAnswered` |
| | `StopIsNotLost`, `StaleMinerIsTold` | `StopNotLost`, `StaleIsTold` |
| `PeerTableProofs` | `TypesAreCorrect`, `ReapersSufficeAlways` | `TypeOK`, `ReapersSuffice` |
| `BlockSyncProofs` | `TypesAreCorrect`, `BatchesFollow`, `CaughtUpAtTheEnd`, `NoneIsOrphan` | `TypeOK`, `BatchFollows`, `CaughtUp`, `NoOrphans` |
| | `EveryRoundGoesUp`, `SyncKeepsTree` | `RoundsGoUp`, `ImplementsBlockTree` |
| | `RepliesFollow` | what `GetBlocks` returns, for all branches and batches |
| `ProcessProofs` | `TypesAreCorrect`, `KeysAreKept`, `ProbesAreComplete`, `ArgumentsAreThere` | `TypeOK`, `KeyIsKept`, `ProbeComplete`, `ArgumentsThere` |
| | `CommandsStayInOrder`, `EchoAlwaysFollows` | `CommandsInOrder`, `EchoFollows` |
| | `CodesStayApart`, `LeadingZerosRight` | what `Int64ToBytes` and `ByteHasLeadingZeros` return, for all sizes |
| | `NumbersAlwaysApart`, `LeadingZerosAlwaysCounted` | `NumbersStayApart`, `LeadingZerosCounted` |

`LedgerProofs` has the lemmas about `Ledger` that the others rest on.

**The block tree.**  Only `HandleNewBlock` changes it, so the proofs rest on one
lemma, `AcceptedBlock`, that says what an accepted block changes: a fresh hash,
one more child of its parent, perhaps the tail.  `TreeSound` (parents, children,
heights, no block above the tail, each ledger made of its parent's) is inductive
with `TypeOK`.  `NodeImplementsBlockTree` follows from it: the refinement maps
heights, parents and tail to the abstract tree's, an accepted block is one
`Grow` step, and that the new tail is a highest block of all is `TailIsHighest`
after the step.  That two coinbases of the node never have the same identifier
is not inductive: the height in a coinbase is read in one critical section, the
tail in another.  `OwnLabelsFresh` is the strengthening: labels in use never
exceed the tail, the miner's label exceeds all in use, and its block is at least
as high as its label.  It holds if nobody else mines with the node's key
(`KeyIsOwn`).

**Induction.**  The recursive functions of the models (a list of transactions
applied one by one, a sum, a walk down a branch) are folds and functions on a
range of numbers.  The library's induction rules cannot be used with this
prover; in their place stand lemmas such as `CountUp`: a set of numbers that has
0, and with each number below n the next one, has all up to n.  It is proved
from `LeastNumber`, which takes a least counterexample from a set of
numbers.  Each induction is then a set that is shown to be closed.

**Money** (`MoneyProofs`).  `MoneyInv` says that pool, blocks and ledgers have
transactions and amounts as `IsTransaction` and `IsBody` say, `NAN` included.
`BoundInv` says that where every amount on a branch is a number
(`OnlyNumbers`) the branch's ledger holds numbers (`Funded`), and they make at
most one reward per level: a valid transaction of numbers on such a ledger makes
nothing, and the fee `CalcTxFee` takes is then never positive, so a coinbase
that passes makes at most the reward.  That a ledger depends on its own branch
only, whatever is on the others, is what lets the premise be about one branch.
Nothing is claimed of a branch with `NAN` on it.  `MinedBlockIsValid`: what
`CreateNewBlock` keeps after `RemoveErrTx` passes `HandleTransactions` on the
ledger it was assembled on, and since accepted blocks never change that ledger
is still the parent's when the block is handled.  `BranchInv` keeps for each
block a `Tally` of its branch, the concatenation of all its transactions: the
ledger's outputs are those created and not claimed, and no output is claimed
twice; both fail only if two transactions of the branch share a hash, which is
why the properties say so.  A tally is extended transaction by transaction
(`RunOK`, `Done`).

**Wallets** (`WalletProofs`).  `WalletInv` is the node's invariants, which still
hold when its transactions come from wallets and peers put them into blocks;
`SentOK`, that each transfer claims all that its wallet had on the branch of the
balance it was made on (`basis`), and that bases never sink and lie
`CONFIRMATION` blocks below the tail or deeper; and `WalletsOK`, that a balance
pays its wallet and what a wallet submits is one of these transfers.
`TryingAgainPaysOnce`: suppose a branch has two different transfers of a wallet,
and the second's basis does not have the first.  Both bases are on the branch,
the first's is the lower one, and its branch is a beginning of the other's
(`LowerBegins`).  An output the first claims is not claimed anywhere below the
second's basis, so it is still the wallet's there (`StillOwned`), and the second,
which claims all, claims it too: twice on one branch, which the tally excludes.
`TransfersKeepMoney` has the hypothesis `WireTxs \subseteq {<<>>}`: peers put no
transactions of their own into their blocks, only those the wallets made.
Somebody else's transaction may leave a tip, and tips are lost (see below), so
without it the property is false; it is the setting of the run as well.
`RewardInv` says that all there is in the pool, in blocks and in the miner's
hands are such transfers and full rewards; each transfer pays exactly what it
claims (`Even`), the fee is then zero, and `FreshNames` lets each block add one
reward to the sum.  `NodeServesWallets` and `ServingNodeKeepsTree` say of the
node in this composition what was proved of the node alone: a submission that
arrives leaves the tree alone, and a peer's block is one that `HandleNewBlock`
accepts or not (`ServingTreeStep`), wherever its transactions come from.

**Command loop.**  `OneMinerAtATime` is inductive with the types of the miners:
a miner clears the flag in its last step and one is started only where it is
clear.  `ThresholdIsAnswered` is an action property over
the types: the step that brings the count to its threshold leaves its handler
about to send `SYNC`, taking `SYNC` starts a sync, a sync that ends forgets the
count, and what remains is a sync that gives up.  `TypesInv` adds the
signals: `ctl` holds at most one, relays are counted, and a miner's program
point is one of its own.  `StopIsNotLost` is an action property: a STOP is with
the goroutine that relays it or in `ctl`, and what is read from `ctl` is read by
the only miner there is, which ends of it.  It needs `CtlNamesMiner`: a STOP in
`ctl` was given when some miner was there, so it is never read before its miner
began.  `StaleMinerIsTold` is one, too, over `TypesInv`: a handler that
changes the tail under a miner sends RESTART next, and the flag, which says
whether RESTART is relayed or dropped, is set while there is a miner; only a
block that a sync adds leaves a miner untold.  What is
left of `StopStops` and `StaleTailAbandoned` for TLC is that what is on its way
arrives.

**Peer table.**  An entry that is appended has a connection of its own and a
goroutine that watches it.  This needs `AddersInv`: no two adders that are
about to append hold the same connection, each was dialled for the adder's
address and nobody watches it yet, and there are no more connections than
attempts.  With it `ReapersSuffice`, entries of an address against goroutines
that will still remove one, is inductive (`PeersInv`): a goroutine that ends
has removed an entry of its address or found none.

**Sync.**  `RepliesFollow` is about the walk of `GetBlocks` from the tail down to
the hash, with a deque that drops its last element when it is full: it is
followed step by step, for branches and batches of any length.  `SyncInv` says
of a sync under way that what is left of a reply is a run of consecutive blocks
of the branch its peer served, lowest first, so that each but the first stands
right behind its parent (`NoOrphans`), that the block under it is in the tree or the
branch is given up, and that the last reply ends at the peer's tail
(`Replied`, `Above`).  `CaughtUp` needs that
blocks other goroutines add meanwhile can only raise the tail, and that a branch
that is given up stays so (`Hopeless`).  `RoundsGoUp` is what keeps a sync from
going round: a peer that has the tail asked for on its chain answers with what
follows it (`RepliesFollow`), and `Rising` says while the reply is added that
the node comes up to its end, a whole batch higher, or has given the branch up.
What is left of `SyncReturns` for TLC is that peers answer, and that they are
asked again.  `SyncKeepsTree` maps the set of blocks to `BlockTree`, with lengths
as heights: syncs, handlers and the miner all add a block on one that is there,
and a tail is replaced by a longer one only.

**Programs.**  `KeyInv`: as long as nobody has created the file over one that
was there, it is empty only while one program is about to write it, and then no
other has a key.  `ProbeInv`: the
addresses a probe has asked, and has yet to ask, are closed under the answers,
and all of them were heard of; when none is left the graph is complete.
`ArgumentsAreThere` goes through the operations of both grammars, for lines of
up to three tokens, which is one more than any command takes
(its lemma, `ValidArguments`, is for any number).  For any number of lines, `Waiting` says that the events
to be read are the last lines typed, with Ctrl-C behind them at most; a step
that reads moves the boundary (`ReadingWaits`), and either passes the first line
on or not.  `CommandsStayInOrder` then keeps an increasing map from the commands
passed on to the places of valid lines, and counts both; `EchoAlwaysFollows`
needs that a line that is ready to be shown is the last one read and those
shown are from before it.

**Encodings** (in `ProcessProofs`).  A shift by n is a division by `Pow2[n]`, a
recursive function; that it is what it says is proved first (`Pow2Unfolds`: the
powers up to each number exist and agree), then that exponents add.
`CodesStayApart` is about groups of any number of bits and arrays of any length:
the groups of a number are its digits (`NextDigit`), numbers with the same
digits are equal (`GroupsTell`), and two codes have the same number of groups
because only the last one lacks the mark (`MarksTell`).  `LeadingZerosRight` is
about digests of any length: the upper r bits of a byte are zero exactly when a
shift by 8 - r leaves nothing (`UpperBits`).  The two properties of the run are
instances of these.

Model-checked only: liveness (`PoolSelfCleans`, `StopStops`,
`StaleTailAbandoned`, `DeadAddressLeaves`, `SyncReturns`, `ProbesEnd`,
`CtrlCQuits`).  TLAPS cannot prove that under fairness; the safety facts behind
three of them (`StopNotLost`, `StaleIsTold`, `RoundsGoUp`) are theorems.

## Where the code and its comments part

* `fatal`: `utils/blockchain_utils.go` ends the process (`log.Fatalln`) when
  the fee of a transaction list cannot be computed, "there should never be a
  case" for it.  The list is applied step by step but its fee is computed on the
  tail's ledger alone, so a pooled transaction that spends another pooled
  transaction's output is such a case.
* `confirmed`: the depth test of `HandleNewBlock` looks at a block's parent only,
  so a branch can grow beside a confirmed block and overtake it.
* `blocked`: a `SetBlock` handler sends `SYNC` with the lock held and the loop, in
  `list_peer`, waits for that lock.
* `leak`: `AddPeerInternal` keeps the read lock when the address is listed; the
  next writer waits for ever, and with `add_peer` the command loop does.

TLC showed more, that no run keeps: tips are deducted from the miner's
reward instead of added ("Reward + Tx fee", `blockchain_utils.go:13`); a
coinbase's height may differ from its block's (`transaction.proto:31`); a STOP
typed twice ends the miner that a later START starts; a sync that finds no peers,
or whose call fails, leaves `syncing` set, and the node counts no orphan block and
asks for no sync from then on, although `src/README.md` (line 140) promises that
the chain "will sync itself if it keeps hearing" such blocks (`ThresholdAnswered`
has it as its exception); blocks that a
sync downloads leave the miner on a stale tail; a prune may cut off somebody
else's entry; one address may be listed twice; without the premises of
`SyncReturns` a sync goes round for ever on a fork deeper than a batch, on a peer
that is down, or between two read locks, and panics when the list shrinks; of two
programs that make the key file together one runs with a key that is lost; of
lines pasted into the wallet's plain terminal some are lost; an amount that is not
a number passes every test, and a branch that has one may hold any amount.

## Not modelled, and the plan

* Drawing the block tree (`show`), `memviz` and graphviz, the places of the views
  and editing within a line: output that no state depends on.
* Generated stubs, SHA256, RSA-PSS, PEM, YAML, the look-up of the public address,
  log lines.
* Fractions, rounding and infinities of `float64` amounts: amounts are integers or
  `NAN`.  (A wallet's user may type `Inf`, which `ParseFloat` takes; the change is
  then below zero, and the transaction is refused like others with such change.)
* Durations, except for their order where the code relies on it.
* Several nodes with all of their state: a node's peers are the environment of
  `FullNode`, which may send any block in any order and again, and the peers of
  `BlockSync`, which have a chain each.  Every safety property of a node holds
  against those, so also in a network.  Agreement between nodes is not stated:
  the code re-sends nothing, and two branches of one height stay.

What could be added: every safety property that a run checks has a theorem, and
so have the action properties and the refinements.  There could be theorems for
steps that the remaining liveness properties rest on (that a probe has fewer
addresses to ask with each answer, that a reaper counts up), which would leave
only the fairness itself to TLC, and a proof that the promises of `CommandLoop`
about a sync hold of `BlockSync`.
