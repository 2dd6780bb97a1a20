---------------------------- MODULE BurnchainSync ----------------------------
(***************************************************************************)
(* Burnchain::sync_with_indexer (src/src/burnchains/burnchain.rs) between  *)
(* the header database, the burnchain database and the chains coordinator, *)
(* as the run loop of the node drives it: start, wait for the sortitions,  *)
(* then synchronise again and again.  The peer's chain grows and forks,    *)
(* downloads fail, and the node crashes and restarts.  How blocks pass     *)
(* through the threads of a call is BurnPipeline; how far back a call goes *)
(* is ReorgSearch; how the coordinator evaluates sortitions is Coordinator.*)
(***************************************************************************)
EXTENDS Integers, FiniteSets

CONSTANTS
    Burn,       \* burn blocks, genesis among them
    Genesis,
    Parent,     \* the parent of every other burn block
    Rank,       \* the order of block hashes, a number for each burn block
    CycleLength, \* reward_cycle_length, also max_blocks_opt; not 0
    MaxFailures, \* bound on failed downloads
    MaxCrashes,  \* bound on crashes
    MaxTarget    \* bound on target_burnchain_block_height

\* A block and its ancestors.
Chain[b \in Burn] == IF b = Genesis THEN {b} ELSE {b} \cup Chain[Parent[b]]
Height(b) == Cardinality(Chain[b]) - 1
AtHeight(tip, h) == CHOOSE b \in Chain[tip] : Height(b) = h
Least(a, b) == IF a <= b THEN a ELSE b

\* The highest block that two chains have in common.
Ancestor(a, b) == CHOOSE c \in Chain[a] \cap Chain[b] : Chain[c] = Chain[a] \cap Chain[b]

VARIABLES
    peer,      \* tip of the chain of the remote peer
    headers,   \* tip of the header database
    burn_db,   \* blocks of the burnchain database
    sort_tip,  \* burn block of the canonical sortition tip
    signal,    \* SignalBools.new_burn_block
    pc,        \* where the run loop is
    booted,    \* the coordinator thread runs
    target,    \* target_burnchain_block_height
    tip,       \* burn_chain_tip, read when the call starts
    start_block, \* height below the first block to store
    at,        \* height of the next block to store
    end_block, \* height of the last one
    waiting,   \* height_to_wait
    low,       \* history: a search for the common ancestor answered too low
    failures,
    crashes

disk == <<headers, burn_db, sort_tip>>
call == <<tip, start_block, at, end_block>>
faults == <<low, failures, crashes>>
vars == <<peer, disk, signal, pc, booted, target, call, waiting, faults>>

\* None as the height to wait for: no block has it.
NoHeight == Cardinality(Burn)
Heights == 0..NoHeight

Init ==
    /\ peer = Genesis /\ headers = Genesis
    /\ burn_db = {Genesis} /\ sort_tip = Genesis
    /\ signal = FALSE /\ pc = "sync" /\ booted = FALSE
    /\ target = 1
    /\ tip = Genesis /\ start_block = 0 /\ at = 0 /\ end_block = 0 /\ waiting = 0
    /\ low = FALSE /\ failures = 0 /\ crashes = 0

\* BurnchainDB::get_canonical_chain_tip
Better(a, b) == Height(a) > Height(b) \/ (Height(a) = Height(b) /\ Rank[a] < Rank[b])
CanonicalTip(db) == CHOOSE b \in db : \A c \in db \ {b} : Better(b, c)

-----------------------------------------------------------------------------
(* The peer *)

\* The peer's chain grows, or a longer one replaces it.
PeerMoves ==
    /\ \E b \in Burn : Height(b) > Height(peer) /\ peer' = b
    /\ UNCHANGED <<disk, signal, pc, booted, target, call, waiting, faults>>

-----------------------------------------------------------------------------
(* sync_with_indexer *)

\* The call returns Ok with a block of this height.  At the start the coordinator
\* thread is spawned now and is waited for without a height; later the run loop
\* waits until the sortitions have this height.
ReturnsOk(height) ==
    /\ pc' = "wait"
    /\ waiting' = IF booted THEN height ELSE NoHeight
    /\ booted' = TRUE

\* An error: the call is made again.
CallAgain == pc' = "sync" /\ UNCHANGED <<waiting, booted>>

\* Mutant: blocks are fetched from the height of the burnchain database on.
StartBlock_Database(sync_height) == Height(CanonicalTip(burn_db))

\* The blocks to fetch start above the common ancestor, or above the tip of the
\* burnchain database where that is lower.
StartBlock(sync_height) == Least(sync_height, Height(CanonicalTip(burn_db)))

\* They end at the target, or after max_blocks.
EndBlock(start) == Least(Least(Height(peer), target), start + CycleLength)

\* sync_reorg, with what ReorgSearch promises: the height of the last header where
\* the peer has it, else that of a header the two have in common, not always the
\* highest.
Reorg(height) ==
    LET fork == Height(Ancestor(headers, peer))
    IN  /\ height \in IF fork = Height(headers) THEN {fork} ELSE 0..fork
        /\ low' = (low \/ height < fork)

\* The headers follow the peer's chain from the common ancestor; then the range of
\* blocks to fetch is known.  Where there is nothing to fetch, the call returns at
\* once.
SyncHeadersFrom(sync_height) ==
    LET db_tip == CanonicalTip(burn_db)
        start == StartBlock(sync_height)
        last == EndBlock(start)
        caught_up == last = start /\ start = Height(db_tip)
    IN  /\ headers' = peer
        /\ tip' = db_tip /\ start_block' = start /\ at' = start + 1 /\ end_block' = last
        /\ \/ last < start /\ AtHeight(peer, last) \in burn_db /\ ReturnsOk(last)
           \/ last < start /\ AtHeight(peer, last) \notin burn_db /\ CallAgain
           \/ caught_up /\ ReturnsOk(last)
           \/ last >= start /\ ~caught_up /\ pc' = "store" /\ UNCHANGED <<waiting, booted>>
        /\ UNCHANGED <<peer, burn_db, sort_tip, signal, target, failures, crashes>>

SyncHeaders == pc = "sync" /\ \E height \in Heights : Reorg(height) /\ SyncHeadersFrom(height)

\* The peer fails while the headers are fetched, after those of another fork were
\* dropped.
SyncHeadersFails ==
    /\ pc = "sync" /\ failures < MaxFailures
    /\ \E height \in Heights : Reorg(height) /\ headers' = AtHeight(headers, height)
    /\ failures' = failures + 1
    /\ UNCHANGED <<peer, burn_db, sort_tip, signal, pc, booted, target, call, waiting, crashes>>

NextBlock == AtHeight(headers, at)

\* Mutant: the coordinator is not told.
StoreBlock_Silent ==
    /\ pc = "store" /\ at <= end_block
    /\ NextBlock \notin burn_db
    /\ burn_db' = burn_db \cup {NextBlock}
    /\ at' = at + 1
    /\ UNCHANGED <<peer, headers, sort_tip, signal, pc, booted, target, tip, start_block, end_block, waiting,
                   faults>>

\* Burnchain::process_block, and the announcement.
StoreBlock ==
    /\ pc = "store" /\ at <= end_block
    /\ NextBlock \notin burn_db
    /\ burn_db' = burn_db \cup {NextBlock}
    /\ signal' = TRUE
    /\ at' = at + 1
    /\ UNCHANGED <<peer, headers, sort_tip, pc, booted, target, tip, start_block, end_block, waiting, faults>>

\* block_hash is UNIQUE: TrySyncAgain.
StoreKnownBlock ==
    /\ pc = "store" /\ at <= end_block
    /\ NextBlock \in burn_db
    /\ CallAgain
    /\ UNCHANGED <<peer, disk, signal, target, call, faults>>

\* last_processed.block_height: of the last block stored, or of the tip before.
LastProcessed == IF at = start_block + 1 THEN Height(tip) ELSE at - 1

\* A block cannot be downloaded or parsed.
DownloadFails ==
    /\ pc = "store" /\ at <= end_block /\ failures < MaxFailures
    /\ failures' = failures + 1
    /\ \/ CallAgain
       \/ LastProcessed >= end_block /\ ReturnsOk(LastProcessed)
    /\ UNCHANGED <<peer, disk, signal, target, call, low, crashes>>

\* All blocks of the range are stored.
SyncDone ==
    /\ pc = "store" /\ at > end_block
    /\ ReturnsOk(LastProcessed)
    /\ UNCHANGED <<peer, disk, signal, target, call, faults>>

-----------------------------------------------------------------------------
(* The run loop and the coordinator *)

\* wait_for_sortitions returns, and the next round of the run loop starts.
WaitReturns ==
    /\ pc = "wait"
    /\ \/ Height(sort_tip) = Height(CanonicalTip(burn_db))
       \/ Height(sort_tip) >= waiting
    /\ target' = IF waiting = NoHeight THEN CycleLength ELSE Least(target + CycleLength, MaxTarget)
    /\ pc' = "sync"
    /\ UNCHANGED <<peer, disk, signal, booted, call, waiting, faults>>

\* The direct ancestors of the tip with an unprocessed sortition.
Unprocessed == Chain[CanonicalTip(burn_db)] \ Chain[sort_tip]

\* handle_new_burnchain_block: an ancestor that is not in the database ends it
\* (NonContiguousBurnchainBlock), and blocks of another fork do not move the tip.
HandleNewBurnBlock ==
    /\ booted /\ signal
    /\ signal' = FALSE
    /\ sort_tip' = IF Unprocessed \subseteq burn_db /\ sort_tip \in Chain[CanonicalTip(burn_db)]
                   THEN CanonicalTip(burn_db)
                   ELSE sort_tip
    /\ UNCHANGED <<peer, headers, burn_db, pc, booted, target, call, waiting, faults>>

\* The databases are what is left.
Crash ==
    /\ crashes < MaxCrashes
    /\ crashes' = crashes + 1
    /\ pc' = "sync" /\ booted' = FALSE /\ signal' = FALSE /\ target' = 1
    /\ tip' = Genesis /\ start_block' = 0 /\ at' = 0 /\ end_block' = 0 /\ waiting' = 0
    /\ UNCHANGED <<peer, disk, low, failures>>

RunLoop == SyncHeaders \/ StoreBlock \/ StoreKnownBlock \/ SyncDone \/ WaitReturns

Next ==
    \/ PeerMoves \/ RunLoop \/ HandleNewBurnBlock
    \/ SyncHeadersFails \/ DownloadFails \/ Crash

Spec == Init /\ [][Next]_vars

\* The run loop and the coordinator thread keep running.
FairSpec == Spec /\ WF_vars(RunLoop) /\ WF_vars(HandleNewBurnBlock)

-----------------------------------------------------------------------------

\* The peer's chain has not forked below a block this node has seen.
OneChain == \A b, c \in burn_db \cup {headers, peer} : b \in Chain[c] \/ c \in Chain[b]

\* A block is stored after its parent: otherwise the coordinator, which walks from
\* the tip back to a block with a sortition, fails from then on.  After an error,
\* "call this method again" is all a caller has to do.
ParentIsStored == \A b \in burn_db \ {Genesis} : Parent[b] \in burn_db

\* This holds across crashes and failed downloads on one chain, and when the chain
\* forks at any point of calls that succeed and find the highest common ancestor, by
\* no more blocks than a call fetches.  A lower one makes the call store a block again,
\* which fails it.  Whatever fails, the sortitions never run ahead of the blocks: every
\* block below the sortition tip is stored.
NoGaps ==
    /\ OneChain \/ (failures + crashes = 0 /\ ~low) => ParentIsStored
    /\ Chain[sort_tip] \subseteq burn_db

\* A crash left a block without its sortition: the start waits for it, though nobody
\* announces it again.
Stuck ==
    /\ crashes > 0 /\ pc = "wait" /\ waiting = NoHeight /\ ~signal
    /\ Height(sort_tip) < Height(CanonicalTip(burn_db))

\* However the downloads fail and wherever the node crashes, it ends up with a
\* sortition for the tip of the peer's chain once that stops moving, unless the chain
\* forks or the start hangs on a block the crash cut off from its sortition.
ReachesTip == <>[](sort_tip = peer \/ Stuck \/ ~OneChain)
=============================================================================
