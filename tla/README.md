# TLA+ verification of the Stacks 2.0 node

This directory holds a TLA+ model of the parts of this repository that decide
which chain a node is on: the burnchain sync, the chains coordinator, the
sortition database, the staging databases for Stacks blocks and microblocks,
PoX (anchor blocks, reward cycles and reward sets), the threads of the mining
node that drive them, the peer network that brings the blocks (connections,
inventories, downloads), and the processing of transactions over the Clarity
store. Paths below are relative to the repository checkout `src/`.

## 1. Inventory

### 1.1 Parts of the system, their state and their operations

| Part | Source | State | Operations | Hard because |
|---|---|---|---|---|
| Coordinator signalling | `src/chainstate/coordinator/comm.rs` | three bools under a mutex, a condvar, two atomic counters | announce burn/Stacks block, stop, `wait_on`, wait for counters | announcements coalesce; check-then-sleep; spurious wake-ups; stop against work |
| Chains coordinator | `src/chainstate/coordinator/mod.rs` | canonical sortition tip (memory only) | handle new burn block, handle new Stacks block, process ready blocks, unwind on a late PoX anchor | works on databases other threads write; errors are logged and dropped; restarts |
| Sortition database | `src/chainstate/burn/db/{sortdb,processing}.rs` | snapshots keyed by (burn hash, PoX id), `pox_valid`, accepted-block pointers, reward set | evaluate sortition, choose anchor, pick recipients, invalidate, accept a Stacks block | forks of the burnchain times forks of PoX |
| Sortition algorithm | `src/chainstate/burn/{distribution,sortition}.rs`, `db/processing.rs` | snapshots and the operations accepted with them, per fork | check the operations of a burn block, burn distribution, winner choice, snapshot | integer ranges, rounding; assertions that rest on checks of earlier blocks |
| Burnchain operations | `src/chainstate/burn/operations/*` | none | check a key, a commit, a user burn | they name rows of their fork by place |
| Burnchain sync | `src/burnchains/{burnchain,db,indexer}.rs`, `src/burnchains/bitcoin/*` | header file, burnchain database, three threads and three bounded channels | detect reorg, drop headers, download, parse, store, announce | pipeline threads failing in the middle; reorgs; restarts |
| Staging blocks and microblocks | `src/chainstate/stacks/db/blocks.rs` | staging rows (attachable, processed, orphaned), block files, header table | store, find next, append, set processed, orphan, drop microblocks | several databases committed one after the other; out-of-order arrival |
| Clarity store | `src/vm/database/key_value_wrapper.rs`, `marf.rs` | one history of values per key, a stack of edit logs | get, put, nest, commit, rollback | contexts share the histories; a commit of the last one writes to disk |
| Transaction processing | `src/chainstate/stacks/db/{transactions,accounts}.rs`, `src/vm/{contexts,clarity}.rs`, `src/vm/functions/*` | call frames with asset maps and events, balances with locks, nonces, scheduled rewards | transfer, contract call, asset operations, stack-stx, post-conditions, fee, append or roll back a block | an error anywhere must undo exactly what its frame did, in three places |
| PoX contract | `src/chainstate/stacks/boot/pox.clar` | stacking state, reward-cycle totals | stack-stx, delegation, rejection | written in Clarity |
| Mempool | `src/core/mempool.rs` | pending transactions by origin/sponsor nonce | submit, replace by fee, iterate, garbage-collect | nonce races |
| Unconfirmed state | `src/chainstate/stacks/db/unconfirmed.rs` | microblock-derived state on top of a block | refresh, drop | stale views |
| Miner | `src/chainstate/stacks/miner.rs` | block under construction | build anchored block, build microblocks | cost limits |
| MARF | `src/chainstate/stacks/index/*` | forest of tries on disk | begin, insert, commit, prove | size; crash consistency |
| Clarity VM | `src/vm/*` | none beyond the above | eval, costs, analysis | size |
| Peer connections | `src/net/{p2p,poll,prune}.rs` | sockets, event ids, conversations, bans | connect, accept, handshake, ban, prune | five maps that must agree; ids that are used again |
| Inventories | `src/net/inv.rs`, `chat.rs` | per neighbor: PoX bits, block bits, the state of its scan | scan in rounds, truncate, invalidate, learn announcements | both sides unwind while they talk |
| Block downloads | `src/net/{download,relay}.rs` | requests to make and in flight, cursors, throttles | scan, request, retry with another neighbor, hand over | throttles, hints and failures must not stop progress |
| Other network code | `src/net/{neighbors,connection,chat,http,rpc}.rs` | walks, framing, queries | walk, send, answer | size |
| Mining bot / node | `testnet/mining-bot`, `testnet/stacks-node` | run loop, relayer thread, p2p thread, coordinator thread, bounded channel | sync, register key, mine tenure, process tenure, relay | five threads |
| Encodings, crypto, CLIs | `src/util`, `src/address`, `src/net/codec.rs`, `src/main.rs`, ... | none | parse, format, hash, sign | not stateful |

### 1.2 How the parts interact

The run loop (`testnet/stacks-node/src/run_loop/neon.rs`) synchronises the
burnchain: it replaces headers, downloads blocks in a pipeline of three threads
and stores them in the burnchain database. Each stored block is announced to the
chains coordinator through three bools and a condition variable. The coordinator
evaluates a sortition for each burn block and, between two sortitions, processes
the Stacks blocks that are ready in the staging database. The relayer and p2p
threads put blocks and microblocks there and announce them the same way.
Processing a block writes the Clarity state, the header table, the staging
tables and the sortition database, in that order and in separate commits. When a
processed block turns out to be the PoX anchor of a reward cycle that was begun
without it, the coordinator invalidates every later sortition and evaluates them
again from the end of the prepare phase.

The p2p thread keeps the connections to neighbors, asks them in rounds which
anchor blocks and blocks they have, downloads what is missing and hands it to the
relayer. Running a block means processing its transactions, each in nested
contexts of the Clarity store, one per call frame, and then granting the mining
rewards that mature with it.

    peer --headers, blocks--> BurnchainSync / ReorgSearch / BurnPipeline
                                   | store, announce
                                   v
    relayer --blocks--> StagingBlocks <--process-- Coordinator <-- CoordinatorComm
                                                       |
       ^                              |                |
       | blocks                       | runs           SortitionForks, PoxAnchor, RewardCycles
    Downloader <-- InvSync            v               Sortitions
          \        /          Transactions --> RollbackWrapper
          PeerNetwork

### 1.3 What makes each part correct

* **Signalling**: no announced block is forgotten, whichever way announcements
  coalesce; the receiver never sleeps on a set bool; stop comes first; announced
  work and a stop request are eventually served.
* **PoX**: at most one anchor per prepare phase, the one a majority of the
  prepare phase confirms; each entry of a reward set is paid at most once per
  cycle and none is passed over while blocks of the cycle remain; a commit pays
  recipients exactly if it descends from the anchor.
* **Sortitions**: on each fork a key is registered once and a Stacks block wins once;
  commits rest on keys and parents of earlier blocks of the fork; every hash but
  the largest draws one winner, in proportion to the burns; the assertions on the
  way cannot fail, but for two panics (section 7).
* **Coordinator and sortition database**: the PoX bits of the canonical fork say
  which anchors are known; an unwind removes exactly the sortitions that did not
  know the anchor; a restart reads back a tip next to the one that was in memory; a
  sortition memoizes the highest accepted Stacks block; every burn tip gets its
  sortition.
* **Staging**: the four stores agree on what was accepted; nothing accepted is
  orphaned and no orphan comes back; what is ready can be attached and is
  processed; confirmed microblocks are kept; orphans are collected.
* **Burnchain**: blocks are stored in order and after their parents, whatever
  thread fails; success is reported only when the range is stored; the search for
  a reorg ends in a common ancestor; the node catches up and no wait is endless.
* **Node threads**: the relayer gets every network result once and in order; it
  recognises exactly the sortitions it won; the node asks for a tenure on the tip
  of the burn chain, as long as its sortitions are on that chain.
* **Peer connections**: the maps of the connections agree with each other and
  with the poller; a scan is kept only of neighbors that a round reaches; a denied
  peer is not connected.
* **Inventories and downloads**: a bit that is set is true on our fork; inventories
  of neighbors that stay become exact; what some neighbor has is stored in the end.
* **Clarity store**: nested contexts behave as if each had a copy of the store.
* **Transactions**: no asset leaves an account unlogged, events explain every
  balance, a committed transaction does what its signers agreed to, and STX and
  tokens are conserved.

## 2. The modules

In the order of importance to the chain the node ends up on.

| Modules | Subject | State |
|---|---|---|
| SignalBools, CoordinatorComm | signalling | modelled, checked, proved |
| PoxAnchor, RewardCycles | anchors, reward cycles, reward sets | modelled, checked, proved |
| Sortitions | operations, burn distribution and winners on the forks | modelled, checked, proved |
| SortitionForks (uses PoxAnchor), Coordinator (uses SortitionForks) | forks, unwinds, restarts | modelled, checked |
| StagingBlocks | block and microblock life cycle with crashes | modelled, checked, proved |
| BurnStore (abstract), BurnPipeline (implements it), ReorgSearch, BurnchainSync | burnchain synchronisation | modelled, checked; the refinement and the search proved |
| NodeThreads | run loop, p2p and relayer threads over the bounded channel | modelled, checked, proved |
| NestedStore (abstract), RollbackWrapper (implements it) | nested contexts of the Clarity store | modelled, checked; the refinement proved |
| Transactions (extends RollbackWrapper) | transactions, call frames, assets, rewards | modelled, checked, proved but for the sums |
| PeerNetwork | connections of the p2p thread | modelled, checked, proved |
| InvSync | inventories of neighbors | modelled, checked, proved |
| Downloader | block and microblock downloads | modelled, checked |

The theorems are in eight more modules: InputProofs (BurnPipeline, ReorgSearch,
PeerNetwork, CoordinatorComm), DatabaseProofs (StagingBlocks, Sortitions,
RewardCycles), NodeThreadsProofs, InvSyncProofs, RollbackWrapperProofs, and for
Transactions FrameProofs, AssetProofs and TransactionsProofs, each of which extends
the one before. A module whose component shares a proof module with others has a
prefix of its own on names such as Init and Next (`PeerInit`, `CycleNext`,
`CommSpec`).

## 3. The models

A definition keeps the name of the function it translates where TLA+ allows it;
`PROJECT.json` ("map") gives the source lines of each. Operators named
`Definition_Variant` are plausible bugs: each property of a run is shown to fail
when the definition is replaced by its variant.

### 3.1 CoordinatorComm

State: the three bools, the set of sleepers, the place of the receiver and of each
announcer, how much each announcer has stored, and what the coordinator has seen
and processed. A lock is held for one action. `wait_on` is three actions: receive
at once (`WaitOnActivated`), sleep (`WaitOnBlocks`), and wake after `notify_all`
or spuriously (`SpuriousWakeup`, `WaitOnResumes`); it does not check the bools
again after waking, and neither does the model. Work is stored before it is
announced. The handlers are reduced to the order of their work: read the burn
tip, then for each sortition process it and all ready blocks. A ready block counts
as processed when it was attached, so a call of `process_ready_blocks` may leave the
shared counter where it was.

### 3.2 PoxAnchor, RewardCycles

A fork of the sortition database is a function from heights to snapshots.
`RewardCycles` appends one burn block per action, with any winning commit that
passes `LeaderBlockCommitOp::check`, at a cycle start (with the anchor unknown,
known, absent, or known with an empty reward set), inside a cycle, or with a
failing lookup. `set_size` and `set_entry` are the index keys that
`index_add_fork_info` writes, stale entries included. `cycle_set`, `consumed`,
`draws` and `cycle_start` are history variables for the properties. The hash that
picks a recipient is a free choice of the index.

### 3.3 SortitionForks, Coordinator

A sortition id is a burn block with its PoX bits. Each burn block has at most one
commit, so a Stacks block is named by the sortition that chose it and its hash by
the burn block. `Coordinator` has the thread's place (`pc`), the work list of
`handle_new_burnchain_block`, the tip in memory, and the staging rows reduced to
what `process_ready_blocks` can find. Every early return and panic is an action
that records its reason in `failure`. `Crash` restarts the thread with a tip the
database could return. `stale` records accepted blocks of invalid sortitions.
On a burn fork the tip in memory and the rows of the database go different ways;
`RestartIsNear` says by how much: no valid row is above the tip, and off its fork
there are single blocks only.

### 3.4 StagingBlocks

The stores are separate variables and change at the commit that changes them:
`file` and `stream` (chunk store, no transaction), `row`, `attachable`, `mrow`,
`mdata` (staging tables), `clarity`, `headers`, `in_sortdb`. A crash may come
between any two; the Clarity commit of `append_block` and the write of the confirmed
stream are two steps (`AppendBlock`, `StoreStream`). A stream that forks below what a
block confirms poisons it (`Poison`): `process_ready_blocks` asks for the next block
again at once, and the block stays staged. Rows are matched by block hash or by index hash as the SQL does,
so that two forks with one hash affect each other as in the code. `invalid`
stands for blocks that fail to attach or to run (`detached` says which), `bad_seq`
for the first microblock of a stream that fails. Blocks that are refused before
they are stored change nothing and are left out.

### 3.5 BurnPipeline, BurnStore

One variable per channel of capacity one and per item a thread holds. A receive
fails once the sender is gone, a send once the receiver is. The threads stop at
failed downloads, at blocks that do not parse and at errors of the database; when the
headers cannot be read, the call returns before it has fed the first and does not join
the threads (`ReadHeadersFails`, `DownloadDisconnected`). `BurnStore` is the
promise: blocks are stored in order and the call returns "ok" only when the range
is stored (or the database was that high before).

### 3.6 ReorgSearch, BurnchainSync

`ReorgSearch` walks backwards in batches over two header chains with a common
prefix; the peer may fail or answer with a discontiguous batch. The remote chain
does not change during one search, and its headers have valid work.
`BurnchainSync` composes a round: headers, the range to fetch, one stored block
per action, the announcement, the waits of the start and of the run loop. The answer of
the search is any common header where the chains fork (`Reorg`), so it may be lower than
the highest, as `ReorgSearch` shows that it may. The
threads of the pipeline are not repeated (3.5 shows that together they store a
prefix in order), and the coordinator is one step per signal (3.3 has the
detail): blocks of another fork do not move its tip.

### 3.7 NodeThreads

The run loop, the p2p thread and the relayer of a mining node, with the channel
between them. A directive that the run loop is sending waits in `sending` until
there is room; the p2p thread tries and keeps what does not fit in `results`.
Receiving a directive and handling it is one action of the relayer. The Bitcoin
network is external: it may delay an operation, drop it, let another miner win and
replace its last block. VRF keys are named by what they are derived from, so that
a restarted node may derive one again. `built`, `won`, `seen`, `asked`, `handled`
and `first_own` are history variables. A sync has two ends (`SyncStart`, `SyncEnd`;
3.6 has what is between them): the blocks it stored are in `stored`, the coordinator's
sortitions follow in `view`, and the run loop goes on when `wait_for_sortitions`
returns. Sortitions only follow blocks that build on the sortition tip. So the wait
does not return when the coordinator has stopped, when a fork replaced the tip, or, at
the start, when a restart finds a stored block without its sortition. The relayer may
panic at a lookup, after which it handles nothing. The wait of the PoX watchdog may end
at any time. A follower node, which sends the relayer no directives from the run loop, is
left out. `NetResultsKept` is stated over the positions of the results that wait, and
the module has its own `Last` and `Front`, as that is what its proofs reason about.

### 3.8 RollbackWrapper, NestedStore

All open contexts share one history of values per key (`lookup_map`); a context
is a list of edits (`stack`), which the model keeps as the number of edits per
key, since only their number decides what a rollback pops. A commit appends the
edits to the context below, or, for the last one, writes the newest value of each
history to the store; the assertion that nothing is left over is
`HistoriesMatchEdits`. `NestedStore` is what Clarity relies on: every context has
its own view. `opened`, the lengths of the histories when each context was
opened, is a history variable that the refinement mapping needs to say what the
outer views are. Reads of an earlier block (`set_block_hash`) are not modelled
(section 7).

### 3.9 Transactions

`process_transaction` step by step: nonce checks, the context for the
post-conditions, the first frame, the frames of calls, the post-conditions, the
fee, the nonces, the commit. A contract is any sequence of the primitives that
its transaction allows (STX, a fungible token with a supply, one non-fungible
item, calls of public and read-only functions, `stack-stx`), ending in ok, an
error response, or a thrown error in any frame. Each step makes one change to the
store, so that the invariants are checked between any two. An asset map whose
amount overflows fails the commit of its frame. Blocks are appended one after
another with the rewards that mature, or rolled back. `fees` and `burned` are for
the conservation property: no code pays the fees out, rewards are coinbases. The
rewards of one block are granted in one step: each payee is credited for all its
rows at once, which is what crediting them one after the other at the same burn
height adds up to. What the code's types say of a transaction and of a payment
is assumed (`TransactionAssumption`, `PaymentAssumption`): amounts and nonces are
natural numbers, post-conditions have a code that fits their asset, and transactions
name principals of the model.

### 3.10 PeerNetwork

The maps of `p2p.rs` and the poller as one variable each, and the phases that
`dispatch_network` goes through: accepting, connecting, ready sockets, the work
state machine, the walk, the sweep of dead peers and bans, queued requests. Event
ids are used again as the poller does, so that what is kept by id (bans) may meet
another connection. Pruning may pick any peers it is allowed to pick. The work cycle
passes over the inventories while their sync is throttled (`SyncThrottled`). The
poller's own `deregister` does not fail; in the code a failure is dropped, and the
event id stays taken (`net/poll.rs:259`).

### 3.11 InvSync, Downloader

`InvSync` has the node and its neighbors, each with sortitions that grow, learn
of anchor blocks and unwind, while requests and answers are under way. A call of
`sync_inventories` is one action, as the p2p thread makes it; what neighbors do
comes in between. `shrunk` records that the view of the node lost cycles, or that
cycles were unwound which the view never saw; stale bits are kept then (section 7). A
neighbor answers about its PoX bits from the view that it refreshes as we do ours; in
the model that view is never behind its sortitions. `Downloader` has the state machine of
`download.rs` with both passes, its cursors, hints, throttles and the results the
relayer stores or throws away. `requested` counts down the two intervals in which
a request is not repeated. The inventories a downloader reads are what neighbors
claim, true or not. The states before a request in which names are looked up are one
step with the request, as a neighbor whose name is not found is one that cannot be
reached. Errors of the node's own databases, at which a call returns early, are left
out, and so is the panic at a stream whose block is no longer stored when the stream
arrives (`net/download.rs:1913`): streams are only requested for stored blocks.

### 3.12 Sortitions

A step is one call of `process_block_ops` with any operations of `Txs` whose
places in the block differ, on top of any snapshot: so all forks grow at once. A
snapshot has the rows stored with it, and the index of its fork (`at`, `vrf_keys`,
`blocks`) as the MARF would answer it. The checks of the three operations, the two
filters of a block, the burn distribution with its ranges, the draw and the totals
follow the code; each assertion or panic on the way is an outcome in `panic`,
after which the node is gone. The hash that is compared with the ranges is any
number up to `Uint256Max`. Of commits, the VRF seed and the memo are left out, and
the outputs are in `RewardCycles`.

## 4. Runs

| Run | Question | Bounds |
|---|---|---|
| coordinator_comm | lost wake-ups and work, stop, progress | 3 announcers, 2 blocks each |
| reward_cycles | anchors and recipients; winners and accepted operations of forks | 2 cycles of 3 blocks with prepare phases of 2, reward sets of up to 3; 4 burn blocks on any forks, with up to 3 of 10 operations each, hashes up to 7, a u64 up to 6 |
| coordinator | PoX and burn forks, unwinds, restarts | up to 5 burn blocks on two forks, cycles of 2, one crash |
| staging | agreement of the stores, orphans, microblocks | trees of 3 or 4 blocks, streams of 2, one crash |
| progress | every burn tip gets a sortition; ready blocks are processed, orphans collected | 4 burn blocks, one crash; 3 staged blocks, streams of 1, one of which may fork |
| burnchain | the pipeline's promise and its return; the answer of the reorg search; gaps and progress of rounds | 4 headers, any blocks known before; heights up to 14, batches of 3; a tree of 7 blocks with forks of 2 and 3, ancestors answered too low, one failure, one crash |
| node_threads | the channel, the mined block, progress to the tip | one slot, burn chain from height 2 to 4 or 5, one of: three network results and a stopped coordinator; a fork; a restart; a fork and a restart |
| peer_network | agreement of the maps, denied peers, scans | 3 event ids, two nodes, one of which also calls us |
| block_sync | truth and convergence of inventories; completion of downloads | one neighbor, cycles of 2, heights up to 4, 3 changes; two neighbors, blocks at 2 of 3 heights, one stream, one failure |
| transactions | assets, events, post-conditions, conservation, the store | 2 users, 1 contract, 2 of 8 transactions, 4 frames, contracts of up to 5 operations, uint up to 3, 4 blocks |
| stale_arrival, retry_gap | see section 7 | as above |

`reward_cycles`, `progress`, `burnchain` and `block_sync` put state machines side by side that do
not share state in the model; a variable `machine` names the one that a behaviour
is about.

Why the bounds suffice: the pipeline has seven places for a block, but what can
go wrong concerns neighbours, and four headers fill any four neighbouring places;
a prepare phase of two is the shortest in which votes can split, and two cycles
show what a cycle leaves behind; a PoX fork needs one cycle before and one after
its anchor; four burn blocks are enough for a key, a commit with it, a commit on
that one and a fork, the ten operations contain a key on two forks, commits with
one key, with one block, and user burns with and without their key, and hashes up
to 7 are not a multiple of the totals, so that ranges are rounded; the reorg search passes through at least four batches; from height 2
a node registers a key, mines with it at 3, wins at 4, or too late at 5, and one
slot makes both senders meet a full channel. Three event ids are one more than
the connections that can meet on one, and of the two addresses of one node each
may come first. A neighbor with three changes can unwind and grow again during a
scan. Four frames are a caller, a callee and one below it above the frame of the
environment; amounts up to 3 overflow when two of them meet; the second
transaction is there for nonces and locks that the first one leaves; the third
block is the first with a matured reward, and a fourth is built on it. The
scenarios of `MCCoordinator` and `MCNodeThreads` and the trees of
`MCStagingBlocks` are chosen in the initial state, so that one run covers forks,
crashes and shared anchors without multiplying them.

### Fairness

Weak fairness of the steps of a thread says that the operating system runs it and
that its calls return; nothing is assumed of crashes or failures. In
`StagingBlocks` the fairness is strong per block, because
`find_next_staging_block` reads candidates ORDER BY RANDOM(), and burn blocks keep
coming. In `InvSync` the p2p thread runs (`Dispatch`), neighbors that are asked
answer, and ping and reconnect as the heartbeat and the walk make them; the
property speaks of neighbors that stay connected on our fork. In `Downloader` the
thread runs (`Proceed`), requests are answered or time out, and intervals pass;
fairness is strong for the relayer, the scans and the expiry of throttles, which
go on at any time but are only looked at between two passes, where the model has
them. Properties of progress name the cases from which the code does not recover
(section 7): a panicked thread; an announcement that a crash took, until the next one
comes (`Unannounced`, `Stuck`); forks of the burn chain that replace the sortition tip
(`OneBurnChain`, `OneChain`, `~Begins(view, chain)`); a block whose own microblock
stream forks (`StreamForks`). WorkGetsDone and StopStops have no such case: a stop ends
the thread, and the handler that runs when it is asked for is the last
(StopPreemptsWork).

## 5. Proofs

TLAPS proves, for any constants that satisfy the assumptions:

* `InputProofs`, on CoordinatorComm: type correctness; NoLostWork with
  SleepsOnlyUnsignalled and ProcessedWasStored, which together are inductive (a
  block that is not processed is covered by a bool, by its announcer or by the
  handler that runs; the counters never pass what is stored); QuiescentMeansDone;
  StopPreemptsWork. Assumed: the sets of announcers are disjoint.
* `DatabaseProofs`, on RewardCycles: `AnchorUnique`, from anchor_threshold >
  prepare_length / 2 alone: two candidates would need more confirmations than the
  prepare phase has blocks. Then type correctness, RewardSetConserved and
  DrawsAreFair: the entries in the index and those drawn make up the set of the
  cycle without overlap, and the number drawn follows the blocks of the cycle.
* `DatabaseProofs`, on Sortitions: ForksAreSound (`HistoriesAreSound`) and
  PanicsAreKnown (`AssertionsHold`), for any operations, heights and number of forks.
  The invariant says that the index of a snapshot names the snapshots of its fork and
  has all their keys and winning blocks; that keys and winners are unique along a
  fork; that each commit has its key and its parent; and that each winner is among
  the commits of its snapshot. Without the index the checks, which ask it, would say
  nothing of the rows. Assumed (`ConstantsOK`): heights, places and burns are natural
  numbers, and a location is a pair of them.
* `DatabaseProofs`, on StagingBlocks: AcceptedIsSafe, OrphansStayOrphaned, AcceptanceIsComplete,
  ConfirmedStreamKept and ReadyIsAttachable, for any tree of blocks, streams of any
  length and any order of arrivals. The part of the invariant that crashes leave
  alone (`SafeInv`) says that a block whose transactions ran once runs each time, so
  that a block in the headers is never the one being rejected; that a block being
  staged has no row yet and no other transaction is open; and what the thread knows
  of its block at each step. The part that holds until a crash (`Clean`) says that a
  block which one database has and another lacks is the block at work, that the
  stream kept is the longest of those in the Clarity store, which microblock rows are
  confirmed, and that children of processed blocks are attachable. Assumed
  (`StagingAssumption`): the constants describe trees.
* `InputProofs`, on the burnchain: StoredInOrder, with Consecutive as the strengthening (each
  place holds the block after all those ahead of it, as long as the threads that
  would pass it on run), and that `BurnPipeline` implements `BurnStore`. For this the
  call must not return while a block is under way (`Joined`): either no thread runs, or
  the headers could not be read and no thread will ever get a block (`Quiet`). For
  `ReorgSearch` AnswerIsCommon, for any heights: while the search goes on, the two
  chains agree above the batch by no more than one header, or than the batches that
  repeated errors skipped (`Overlooked`), and the common headers of a batch are its
  first. Assumed (`SearchAssumption`): a batch has at least two headers; the code has
  16, its tests 2.
* `NodeThreadsProofs`: NetResultsKept (`ResultsAreKept`) and TenuresMatchWins
  (`WinsAreProcessed`), for any size of the channel, any burn chain, forks, restarts,
  and a coordinator and a relayer that stop at any time. The first follows the results through the two queues: a step appends the
  next number at the end, removes the lowest at the front, moves the head of
  one queue to the end of the other, or puts a directive of the run loop between them.
  The second needs the order of the directives. `Time` numbers them: the sortition of
  a burn block comes before the tenure on it, and both before those of the next
  block. The notices in the channel increase, none is later than the run loop
  (`NoticesInOrder`), all are later than every tenure run (`TenuresInOrder`), and the
  relayer gives up the block of a tenure only when the run loop has passed its burn
  block (`GivenUpLate`). So no other tenure is run and the block is not given up
  between the tenure that wins and the notice of its win (`WinsAwaited`): the notice
  finds it. The reverse (`WinsReal`) is that what the relayer processed won a
  sortition that the run loop went through. Assumed (`NodeAssumption`): sizes and
  heights are natural numbers, the channel has a slot.
* `InputProofs`, on PeerNetwork: MapsAgree, ScansCanFinish and DeniedNotConnected for any
  number of addresses and event ids. The invariant adds the types of the maps, and
  two lemmas say what registering and deregistering a connection do to it; every
  handler is made of those.
* `RollbackWrapperProofs`: HistoriesMatchEdits (the assertions of the wrapper cannot fail,
  `AssertionsNeverFail`) and KeepsViews (it implements `NestedStore`,
  `WrapperKeepsViews`), for any keys, values and depth. The invariant says that the
  edits of a context are as many as the histories grew while it was open, and that
  these marks never fall from one context to the next. So a rollback shortens each
  history to where its context began, and no view below it changes. `DbSpec` leaves
  open who calls the operations in which order, so these theorems hold of any caller
  that commits and rolls back contexts it opened.
* `InvSyncProofs`: BitsAreTruthful (`ScansTruthful`), for any number of neighbors, any
  lengths of cycles and chains, and any order of requests, answers, timeouts,
  announcements, refreshes and unwindings. Between two refreshes the view of the node
  (`tip`) may be older than its sortitions, and an answer is about the fork that its
  request named. The invariant (`ScanInv`) has a number d of PoX bits on which view and
  sortitions agree; where the view has more, its next bit says that an anchor block is
  missing which the node has by now (`Level`). Every bit of an inventory below cycle d
  is backed by a block that the neighbor stored on the fork of the node (`Backed`); the
  refresh cuts inventories at d, so what is not backed is gone before view and
  sortitions are the same again. A request asks about one cycle of the view, and an
  answer lists blocks that were stored on the fork it names (`RequestOK`, `ReplyOK`,
  `ScanOK`), and when d falls, the bits that an answer adds are above it. Assumed
  (`ScanAssumption`): heights and lengths are positive, and a PoX id has a bit for each
  cycle up to the tip.
* `FrameProofs`, `AssetProofs` and `TransactionsProofs`: AssertionsHold (`TransactionAsserts`), OutflowIsLogged
  (`TransactionOutflow`), CommittedAsAgreed (`TransactionAgreed`) and KeepsViews for
  the calls that `Transactions` makes (`TransactionsKeepViews`), for any number of
  principals and transactions, any depth of calls and any number of blocks. The
  invariant (`Inv`, inductive by `TransactionsInv`) knows the store by its views only,
  one per context, of which the lemmas about the wrapper say what each operation does
  to them. It says how many contexts are open at each step and which frame each
  belongs to (`Contexts`); that the asset map of each frame has what its principals
  lost between the view the frame began with and the one it has (`FramesLogged`,
  where the code only promises the sum at the end); that the lock stack-stx promised
  can be made until it is made (`LocksKept`), for which balances must be locked no
  longer than pox.clar wrote down (`IsStore`); that nobody but update_account_nonce
  writes a nonce (`NoncesKept`); that the views around the payload are those of the
  block until the payload is over (`PayloadApart`); and on the way out, that the
  difference between the transaction's view and the block is covered by the asset
  map that the post-conditions were checked against, and the fee (`WayOut`).

Only model-checked: every liveness property, as fairness is out of this prover's
reach. Of the safety properties, those whose statement or model is built on a
recursive definition, about which the installed provers cannot do induction: the
fork that a block is on, in all of Coordinator; the chain of a burn block in NoGaps
of BurnchainSync; the reference of AnchorMatchesReference and the ancestry of
PoxOutputsFitAncestry; the sums over users, events and hashes of
EventsExplainBalances, AssetsAreConserved and SortitionsFollowBurns. Downloader is
checked for liveness only.

## 6. Not modelled

`PROJECT.json` lists every part with its status and the reason. In short:

* *Pure functions*: the decoding of burnchain operations, the Clarity parser and
  analysis, encodings, cryptography. Outside `Sortitions`, a sortition picks any of
  its commits.
* *Data structures used as maps*: the MARF. A trie differs from a map only at sizes
  that are out of TLC's reach.
* *The Clarity language*: a contract may do anything its primitives can. Costs are
  one of the errors a call may end with.
* *Parts no other part decides by*: mempool (each call is one SQL transaction, and
  any transactions may come from it), unconfirmed state, HTTP interface, events,
  which neighbors data is pushed to, the random walk over the table of peers.
* *Clocks*: the PoX sync watchdog. NodeThreads lets its wait end at any time.
* *Older copies*: the mining bot's copy of the node and the helium node.

Left out of the modelled parts: events and logs; the deprecated entry points of
the burnchain sync; replies of peers that break the protocol; VRF proofs and
seeds; contract deployments, signatures and costs
of transactions; delegation and the reward-cycle totals of the PoX contract; the
look-up of matured payments on a fork and their cache; microblock bits of
inventories. Whether a block is valid is an input of the modules that store and
process blocks. The error "Corruption" of merging microblock streams cannot occur
while ConfirmedStreamKept holds.

## 7. Disagreements between the code and what it says

Two have a run that shows the trace:

* **stale_arrival** (`src/chainstate/burn/db/sortdb.rs:3339`): a staged block of
  an abandoned PoX fork is processed after the unwind, and the next sortition
  fails its assertion.
* **retry_gap** (`src/burnchains/burnchain.rs:1060`): when a call fails after it
  replaced the headers, calling it again does not fetch the blocks of the new fork
  below the height of the old one. The run has no failing download: it is enough that
  the search answers a common header below the highest (`indexer.rs:704`), because the
  call then stores a block that is there already, which fails.

The others were met while stating properties; the properties exclude the case, by
the condition named:

* Where the first block height is not a multiple of the cycle length, a cycle
  start does not follow the block at which `get_chosen_pox_anchor` accepts to be
  called (`sortdb.rs:1549`; the bound of `MCRewardCycles.cfg`), and a commit that
  names genesis makes it panic (`sortdb.rs:1587`; AnchorMatchesReference names
  genesis as the one case).
* A crash between committing an anchor block and the unwind is not noticed at the
  next start (`coordinator/mod.rs:549`; `failure = "LostUnwind"`). No code looks for
  the anchor again, so no property covers what follows.
* A fork of the burn chain does not move the sortition tip
  (`coordinator/mod.rs:439`): its first block is not above the tip, the second
  then has no parent on the tip's fork, and a later attempt meets its own row
  (OneBurnChain). A block accepted meanwhile is recorded at a tip of the other
  fork (`sortdb.rs:1140`, `1166`).
* `process_next_staging_block` is called "a single, atomic transaction" over the
  stores (`blocks.rs:4042`), which are committed one after the other
  (`stacks/db/mod.rs:355`): a crash in between leaves them in disagreement
  (AcceptanceIsComplete excludes crashes; AcceptedIsSafe and OrphansStayOrphaned hold
  across them).
* "TODO: do something with a poison result" (`coordinator/mod.rs:493-560`): a block
  whose microblock stream forks stays staged, and `process_ready_blocks` comes back to
  it for as long as it is the one found next. Rows are read in random order, so others
  get their turn (ReadyIsProcessed excepts only the block itself).
* `drop_staging_microblocks` empties the file of the accepted block that an invalid
  stream follows (`blocks.rs:2141`). StagingBlocks does so as well; the properties about
  accepted blocks speak of rows and of the databases.
* A failed or dropped transaction leaves files emptied (`blocks.rs:3618`, `4366`,
  `2141`), a block whose row was not committed counts as stored because of its
  file (`blocks.rs:1463`), and a block that is run again after a crash finds its
  state already committed (`vm/database/marf.rs:345`): the properties that need
  all stores exclude crashes.
* Rows matched by hash alone (`blocks.rs:1468`, `1866`) make a child ready by the
  twin of its parent on another fork (ReadyIsAttachable excludes twins).
* The reorg search can return one header less than the common ancestor
  (`indexer.rs:704`; AnswerIsCommon bounds the loss by what was skipped).
* After a crash that left stored blocks without sortitions, the start waits for an
  announcement that does not come (`run_loop/neon.rs:176`; `Stuck` in BurnchainSync,
  `pc = "start"` in NodeThreads).
* When a fork of the burn chain replaces the block of the sortition tip, the run loop's
  `wait_for_sortitions` does not return, as the tip stays where it is (TipGetsTenure
  excepts `~Begins(view, chain)`).
* A fork longer than the blocks of one call leaves a gap
  (`burnchain.rs:1069-1088`; NoGaps is checked for forks that fit in a call).
* "not in initial block download, so we're not just replaying an old key"
  (`neon_node.rs:1100`): the run loop starts with a burnchain height of 1
  (`run_loop/neon.rs:219`), so its first sync is never an initial download, and a
  key registered before the start becomes the first active key. The keychain has
  no secret for it and `active_keys` never drops a key, so the node mines no more
  until its next start. The comment "Release current registered key if leader won
  the sortition" (`neon_node.rs:1070`) has no code either. TipGetsTenure asks for
  the attempt, not for its success.
* "telling it to process the block and advertize it if it was mined by the node"
  (`neon_node.rs:769`): a block whose commit comes one burn block late, or that was
  mined before a restart, is given up although it won (OwnWin).
* On a fork of the burn chain, blocks at or below the height already seen are not
  passed to the node (`run_loop/neon.rs:244`; TenuresMatchWins speaks of the blocks
  in `seen`).

In the sortitions:

* "NOTE: this can't overflow" (`burn/distribution.rs:251`) and "overflow -- treat as
  0 (no sortition)" (`burn/sortition.rs:316`) are about one total: where two commits
  reach the limit of a u64, the first place panics before the second is asked. The
  supply of bitcoin is far below it; the model has a small limit to reach both.
* "should never happen" (`burn/sortition.rs:126`): the largest hash is in no range.
  PanicsAreKnown allows these two.
* "If a key is used more than once ..., then only the first commit will be
  incorporated" (`burn/distribution.rs:61`): the filter before it
  (`burnchains/burnchain.rs:658`) keeps the one that burns most.
* "There must exist a previously-accepted LeaderKeyRegisterOp that matches this user
  support burn's VRF public key" (`burn/operations/user_burn_support.rs:250`): a key
  at the place it names is enough, whichever it is. The match is made later, with
  the key of a commit (`apply_user_burns`).

In the peer network:

* "Deregister and ban a neighbor" (`net/p2p.rs:1338`): the ban is kept by event id
  and the conversation is removed, so that `process_bans`, which looks the
  conversation up, finds none, or the next connection with that id. `denied` in
  PeerNetwork follows the code; DeniedNotConnected speaks of peers whose ban was
  written. Bans are only processed in passes that prune.
* "Get the neighbor if we know of it and it's public key is unexpired"
  (`net/p2p.rs:1016`) compares the other way around; `Known` is any set of peers.
* "if the PoX bitvector shrinks, then invalidate block inventories that are no
  longer represented" (`net/inv.rs:1935`): they are cut at the old length, not the
  new one (BitsAreTruthful excludes `shrunk`). The height of the chain view does
  not fall after an unwind either, and a neighbor that answers amid an unwind is
  taken for broken until it is connected again (ScansConverge speaks of
  neighbors that stay on our fork).
* "can't set this if we haven't scanned this remote node's PoX inventory this high"
  (`net/inv.rs:1126`): the comparison (`net/inv.rs:1138`) lets the next cycle pass. So
  a bit may be set for a cycle that the view of the node never saw, and when that cycle
  is unwound before the next refresh, the refresh sees no PoX bit change and keeps the
  bit (BitsAreTruthful excludes this by `shrunk` as well).
  `clear_block_bit` (`net/inv.rs:411`) sets the bit; nothing calls it.
* "tell the downloader to wake up" (`net/p2p.rs:2356`) is reached only after
  `hint_learned_data` may have been cleared.
* "Set a hint that a block is now available ..., if ... we're ahead of the given
  height" (`net/download.rs:791`) is one off, since keys of requests are heights
  less one. `is_inflight` (`net/download.rs:856`) looks for recent microblock
  requests among those of blocks and the other way around. Each only delays a
  request: DownloadsComplete holds with both.
* "Either we have everything already, or none of our peers have anything we don't
  have, or we can't reach any of our peers" (`net/download.rs:2043`) also holds a
  pass in which everything was requested a short while ago.

In the processing of transactions:

* `at-block` "evaluates the expression `expr` _as if_ it were evaluated at the end
  of the block indicated" (`vm/docs/mod.rs:724`): `RollbackWrapper::get` looks for
  uncommitted edits first, and sees those of the transaction.
* "if abort_call_back returns false, all modifications from this transaction will be
  rolled back" (`vm/clarity.rs:751`, `793`): they are if it returns true.
* "Returns the number of STX burned" (`stacks/db/transactions.rs:568`): the receipt
  of a transaction that its post-conditions abort has the STX that would have been
  burned (`transactions.rs:657`), and `append_block` subtracts them from the liquid
  supply. `burned` in Transactions is what was burned.
* "Returns the number of liquid uSTX created" (`stacks/db/blocks.rs:3722`): only the
  miner's part, not that of user burns.
* "this miner gets (r*b)/(R*B) of the coinbases over the reward window"
  (`stacks/db/accounts.rs:585`): the reward is the share of one block, by the burns
  for that block. An address with two rows in a block's payments has its share
  computed from one of them and paid for each (AssetsAreConserved is checked with
  one row for each address). Fees are recorded with the payments and not paid
  ("TODO: missing transaction fee calculation").
* The analysis of a contract is saved also when its initialisation ended with a
  runtime error (`transactions.rs:807`). Deployments are not modelled.
