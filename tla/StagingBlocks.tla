---------------------------- MODULE StagingBlocks ----------------------------
(***************************************************************************)
(* The staging area of the Stacks chain state                              *)
(* (src/src/chainstate/stacks/db/blocks.rs).  The relayer stages blocks    *)
(* and microblocks in any order; the chains coordinator takes the blocks   *)
(* that are ready, in random order, runs them, and commits to the Clarity  *)
(* store, the headers database, the staging database and the sortition     *)
(* database, one after the other.  Rejected blocks orphan their            *)
(* descendants, which are collected one at a time.                         *)
(*                                                                         *)
(* A block is identified by its consensus hash and block hash; blocks of   *)
(* two PoX forks may have the same block hash, and several statements      *)
(* match rows by block hash only.  A block's file in the chunk store is    *)
(* changed at once, its row when the transaction commits; the node may     *)
(* crash between any two of these steps.                                   *)
(***************************************************************************)
EXTENDS Naturals, FiniteSets, Functions

CONSTANTS
    AllBlocks,
    Genesis,      \* FIRST_STACKS_BLOCK_HASH
    NoBlock,
    Trees         \* the trees of blocks to come, see Tree

\* A tree of blocks, and the number of crashes to come with it.
Tree(bs) ==
    [parent : [bs -> bs \cup {Genesis}],
     hash : [bs -> bs],                  \* anchored_block_hash
     pox_fork : [bs -> {1, 2}],          \* of the block's sortition
     confirms : [bs -> Nat],             \* how many of the parent's microblocks it confirms
     stream_length : Nat,                \* bound: microblocks that follow a block
     equivocated : SUBSET bs,            \* blocks whose microblock stream forks
     detached : SUBSET bs,               \* blocks that, if invalid, do not attach to their parent
     crashes : Nat]

ASSUME StagingAssumption ==
    /\ Genesis \notin AllBlocks /\ NoBlock \notin AllBlocks \cup {Genesis}
    /\ \A t \in Trees :
           /\ DOMAIN t.parent \subseteq AllBlocks
           /\ t \in Tree(DOMAIN t.parent)
           /\ \A b \in DOMAIN t.parent :
                  t.confirms[b] <= IF t.parent[b] = Genesis THEN 0 ELSE t.stream_length

VARIABLES
    tree,        \* the tree of blocks to come
    invalid,     \* blocks that do not attach or fail to run
    bad_seq,     \* first microblock of each block hash's stream that fails to run
    valid_pox,   \* PoX forks with valid sortitions
    row,         \* staging_blocks: processed and orphaned
    attachable,  \* rows with attachable = 1
    file,        \* chunk store: the block's file
    mrow,        \* staging_microblocks: processed and orphaned
    mdata,       \* staging_microblocks_data, by microblock hash
    stream,      \* chunk store: how many microblocks of each stream
    clarity,     \* blocks committed to the Clarity store
    headers,     \* block_headers
    in_sortdb,   \* stacks_block_accepted in the sortition database
    storing,     \* the block the relayer is staging
    signal,      \* is an event announced to the coordinator?
    pc,          \* where the coordinator thread is
    cur,         \* the block it is processing
    more,        \* will it ask for another block?
    failure,     \* what ended the coordinator thread
    crashes

Blocks == DOMAIN tree.parent
Parent == tree.parent
BlockHash == tree.hash
PoxFork == tree.pox_fork
Confirms == tree.confirms
StreamLength == tree.stream_length
Seqs == 0..(StreamLength - 1)
Microblocks == Blocks \X Seqs

\* The blocks with microblocks that some block confirms; the others' microblocks
\* stay in staging and are left out.
Streamed == {b \in Blocks : \E c \in Blocks : Parent[c] = b /\ Confirms[c] > 0}

truth == <<tree, invalid, bad_seq>>
staging_db == <<row, attachable, mrow, mdata>>
chunks == <<file, stream>>
others == <<clarity, headers, in_sortdb>>
thread == <<pc, cur, more, failure>>
vars == <<truth, valid_pox, staging_db, chunks, others, storing, signal, thread, crashes>>

RowStatus ==
    {"none",
     "staged",     \* processed = 0, orphaned = 0
     "orphan",     \* processed = 0, orphaned = 1
     "processed",  \* processed = 1, orphaned = 0
     "rejected"}   \* processed = 1, orphaned = 1

TypeOK ==
    /\ tree \in Trees
    /\ invalid \subseteq Blocks
    /\ bad_seq \in [Range(BlockHash) -> 0..StreamLength]
    /\ valid_pox \subseteq Range(PoxFork)
    /\ row \in [Blocks -> RowStatus]
    /\ attachable \subseteq {b \in Blocks : row[b] /= "none"}
    /\ file \in [Blocks -> {"none", "data", "empty"}]
    /\ mrow \in [Microblocks -> {"none", "staged", "confirmed", "orphaned"}]
    /\ mdata \subseteq Range(BlockHash) \X Seqs
    /\ stream \in [Blocks -> 0..StreamLength]
    /\ headers \subseteq clarity /\ in_sortdb \subseteq headers /\ clarity \subseteq Blocks
    /\ storing \in Blocks \cup {NoBlock}
    /\ signal \in BOOLEAN
    /\ pc \in {"idle", "find", "stream", "headers", "blocks", "sort", "reject", "drop", "gc", "dead"}
    /\ cur \in Blocks \cup {NoBlock}
    /\ pc \in {"stream", "headers", "blocks", "sort", "reject", "drop"} => cur /= NoBlock
    /\ more \in BOOLEAN
    /\ failure \in {"none", "NoBlockData", "MarfExists"}
    /\ crashes \in 0..tree.crashes

Init ==
    /\ tree \in Trees
    /\ invalid \in SUBSET Blocks
    /\ bad_seq \in [Range(BlockHash) -> 0..StreamLength]
    /\ \A h \in Range(BlockHash) :
           (\A b \in Streamed : BlockHash[b] /= h) => bad_seq[h] = StreamLength
    /\ valid_pox = Range(PoxFork)
    /\ row = [b \in Blocks |-> "none"]
    /\ attachable = {}
    /\ file = [b \in Blocks |-> "none"]
    /\ mrow = [m \in Microblocks |-> "none"]
    /\ mdata = {}
    /\ stream = [b \in Blocks |-> 0]
    /\ clarity = {} /\ headers = {} /\ in_sortdb = {}
    /\ storing = NoBlock
    /\ signal = FALSE
    /\ pc = "idle" /\ cur = NoBlock /\ more = FALSE /\ failure = "none"
    /\ crashes = 0

-----------------------------------------------------------------------------
(* Rows and files. *)

\* The rows whose parent_anchored_block_hash is that of b, on any fork.
ChildrenByHash(b) ==
    {c \in Blocks : row[c] /= "none" /\ Parent[c] /= Genesis /\ BlockHash[Parent[c]] = BlockHash[b]}

Children(b) == {c \in Blocks : row[c] /= "none" /\ Parent[c] = b}

\* The files of the blocks in bs are emptied: free_block, or atomic_file_write
\* of no bytes.
Emptied(bs) == [b \in Blocks |-> IF b \in bs THEN "empty" ELSE file[b]]

\* delete_orphaned_epoch_data on the rows: b is rejected and its children are
\* orphans, to be collected later.
RowsWithout(b) ==
    [c \in Blocks |-> IF c = b THEN "rejected" ELSE IF c \in Children(b) THEN "orphan" ELSE row[c]]

\* The microblocks that follow b are orphaned, and their data is deleted.
MicroblocksWithout(b) ==
    [m \in Microblocks |-> IF m[1] = b /\ mrow[m] /= "none" THEN "orphaned" ELSE mrow[m]]

DataWithout(b) == mdata \ {<<BlockHash[b], i>> : i \in {j \in Seqs : mrow[<<b, j>>] /= "none"}}

\* No transaction on the staging database is open in the coordinator thread.
Unlocked == pc \notin {"stream", "headers", "blocks", "reject", "drop"}

-----------------------------------------------------------------------------
(* The relayer. *)

\* Mutant: only unprocessed rows count as known blocks.
WriteBlock_NoFileCheck(b) ==
    /\ storing = NoBlock /\ Unlocked
    /\ row[b] \notin {"staged", "orphan", "processed"}
    /\ PoxFork[b] \in valid_pox
    /\ storing' = b
    /\ file' = [file EXCEPT ![b] = "data"]
    /\ UNCHANGED <<truth, valid_pox, staging_db, stream, others, signal, thread, crashes>>

\* preprocess_anchored_block up to store_block: the block is not stored, its
\* sortition is on a valid PoX fork, and its file is written.
WriteBlock(b) ==
    /\ storing = NoBlock /\ Unlocked
    /\ row[b] = "none" /\ file[b] = "none"
    /\ PoxFork[b] \in valid_pox
    /\ storing' = b
    /\ file' = [file EXCEPT ![b] = "data"]
    /\ UNCHANGED <<truth, valid_pox, staging_db, stream, others, signal, thread, crashes>>

\* Mutant: a processed parent counts as unprocessed.
CommitStagingBlock_AnyParent ==
    LET b      == storing
        parent == IF Parent[b] /= Genesis /\ row[Parent[b]] /= "none" THEN {} ELSE {b}
    IN  /\ b /= NoBlock
        /\ row' = [row EXCEPT ![b] = "staged"]
        /\ attachable' = (attachable \cup parent) \ ChildrenByHash(b)
        /\ storing' = NoBlock
        /\ signal' = TRUE
        /\ UNCHANGED <<truth, valid_pox, mrow, mdata, chunks, others, thread, crashes>>

\* store_staging_block commits the row: attachable unless the parent is staged;
\* children, on any fork, wait for this block.  The coordinator is told.
CommitStagingBlock ==
    LET b      == storing
        parent == IF Parent[b] /= Genesis /\ row[Parent[b]] = "staged" THEN {} ELSE {b}
    IN  /\ b /= NoBlock
        /\ row' = [row EXCEPT ![b] = "staged"]
        /\ attachable' = (attachable \cup parent) \ ChildrenByHash(b)
        /\ storing' = NoBlock
        /\ signal' = TRUE
        /\ UNCHANGED <<truth, valid_pox, mrow, mdata, chunks, others, thread, crashes>>

\* preprocess_streamed_microblock: the block it follows is staged or stored.
StageMicroblock(b, i) ==
    /\ storing = NoBlock /\ Unlocked
    /\ b \in Streamed
    /\ mrow[<<b, i>>] = "none"
    /\ row[b] = "staged" \/ file[b] = "data"
    /\ mrow' = [mrow EXCEPT ![<<b, i>>] = "staged"]
    /\ mdata' = mdata \cup {<<BlockHash[b], i>>}
    /\ UNCHANGED <<truth, valid_pox, row, attachable, chunks, others, storing, signal, thread, crashes>>

\* A burn block is announced.
NewBurnBlock ==
    /\ ~signal
    /\ signal' = TRUE
    /\ UNCHANGED <<truth, valid_pox, staging_db, chunks, others, storing, thread, crashes>>

-----------------------------------------------------------------------------
(* The coordinator thread: process_ready_blocks and process_blocks(.., 1). *)

Wake ==
    /\ pc = "idle" /\ signal
    /\ signal' = FALSE
    /\ pc' = "find"
    /\ UNCHANGED <<truth, valid_pox, staging_db, chunks, others, storing, cur, more, failure, crashes>>

\* process_new_pox_anchor invalidates the sortitions of a PoX fork and then
\* processes the blocks that are ready.
UnwindPox(f) ==
    /\ pc = "find"
    /\ f \in valid_pox /\ valid_pox /= {f}
    /\ valid_pox' = valid_pox \ {f}
    /\ UNCHANGED <<truth, staging_db, chunks, others, storing, signal, thread, crashes>>

\* The rows find_next_staging_block reads, and those whose parent's header is
\* there.
Candidates == {b \in attachable : row[b] = "staged"}
\* Mutant: the parent's header is not looked up.
CanAttach_AnyParent == {b \in Candidates : TRUE}

CanAttach == {b \in Candidates : Parent[b] = Genesis \/ Parent[b] \in headers}

\* load_staging_microblock_stream: the microblocks after the parent of b.
StreamSeqs(b) == {i \in Seqs : mrow[<<Parent[b], i>>] \in {"staged", "confirmed"}}

NeedsStream(b) == Confirms[b] > 0
NoStream(b) == NeedsStream(b) /\ StreamSeqs(b) = {}

\* merge_microblock_streams: an unprocessed microblock has no data.
StreamUnreadable(b) ==
    /\ NeedsStream(b)
    /\ \E i \in StreamSeqs(b) :
           mrow[<<Parent[b], i>>] = "staged" /\ <<BlockHash[Parent[b]], i>> \notin mdata

\* validate_parent_microblock_stream: the whole stream is contiguous from 0 ...
StreamContiguous(b) ==
    NeedsStream(b) => \E n \in 1..StreamLength : StreamSeqs(b) = 0..(n - 1)

\* ... no two microblocks have the same parent ...
StreamForks(b) == NeedsStream(b) /\ Parent[b] \in tree.equivocated
Poisoned(b) == StreamContiguous(b) /\ StreamForks(b)

\* ... and it has the microblock that the block names as its parent.
StreamConnects(b) ==
    NeedsStream(b) => \E n \in Confirms[b]..StreamLength : StreamSeqs(b) = 0..(n - 1)

\* A block find_next_staging_block may return: rows come in random order.
Finds(b) ==
    /\ pc = "find" /\ storing = NoBlock
    /\ b \in CanAttach
    /\ ~NoStream(b)

Returns(again) ==
    /\ pc' = "gc"
    /\ more' = again
    /\ UNCHANGED <<truth, valid_pox, staging_db, chunks, others, storing, signal, cur, failure, crashes>>

\* The data of a candidate is missing: the thread panics.
NoBlockData(b) ==
    /\ pc = "find" /\ storing = NoBlock
    /\ b \in CanAttach /\ file[b] /= "data"
    /\ failure' = "NoBlockData"
    /\ pc' = "dead"
    /\ UNCHANGED <<truth, valid_pox, staging_db, chunks, others, storing, signal, cur, more, crashes>>

\* DeserializeError: process_blocks goes on, with nothing to return.
UnreadableStream(b) == Finds(b) /\ file[b] = "data" /\ StreamUnreadable(b) /\ Returns(FALSE)

Readable(b) == Finds(b) /\ file[b] = "data" /\ ~StreamUnreadable(b)

\* It has a new microblock public key and attaches to its parent.
Attaches(b) == Readable(b) /\ b \notin invalid \cap tree.detached

\* "Stopping at block -- discontiguous header stream"
Discontiguous(b) == Attaches(b) /\ ~StreamConnects(b) /\ ~Poisoned(b) /\ Returns(FALSE)

\* A poison microblock is returned, also when the stream does not reach the
\* microblock that the block names, and the block stays as it is.
Poison(b) == Attaches(b) /\ Poisoned(b) /\ Returns(TRUE)

Runs(b) == Attaches(b) /\ StreamConnects(b) /\ ~StreamForks(b)

\* The microblock of the parent's stream that fails, if b confirms it.
Offender(b) == IF Parent[b] = Genesis THEN StreamLength ELSE bad_seq[BlockHash[Parent[b]]]
MicroblockFails(b) == Offender(b) < Confirms[b]

\* drop_staging_microblocks: the microblocks at and after the offender, on every
\* fork, and the blocks that build on them.
Dropped(b) ==
    IF MicroblockFails(b) /\ mrow[<<Parent[b], Offender(b)>>] = "staged"
    THEN {m \in Microblocks : /\ mrow[m] /= "none"
                              /\ BlockHash[m[1]] = BlockHash[Parent[b]]
                              /\ m[2] >= Offender(b)}
    ELSE {}

BuildOn(ms) ==
    {c \in Blocks : /\ row[c] /= "none" /\ NeedsStream(c)
                    /\ \E m \in ms : BlockHash[m[1]] = BlockHash[Parent[c]] /\ m[2] = Confirms[c] - 1}

\* A block that does not attach, or fails to run: set_block_processed(.., false)
\* empties its file.
RejectBlock(b) ==
    /\ \/ Readable(b) /\ b \in invalid \cap tree.detached
       \/ Runs(b) /\ ~MicroblockFails(b) /\ b \in invalid
    /\ file' = Emptied({b})
    /\ cur' = b
    /\ pc' = "reject"
    /\ UNCHANGED <<truth, valid_pox, staging_db, stream, others, storing, signal, more, failure, crashes>>

\* A microblock it confirms fails: the file of the block that the microblocks
\* follow is emptied too.
RejectMicroblock(b) ==
    /\ Runs(b)
    /\ MicroblockFails(b)
    /\ file' = Emptied({b} \cup IF Dropped(b) = {} THEN {} ELSE {Parent[b]})
    /\ cur' = b
    /\ pc' = "drop"
    /\ UNCHANGED <<truth, valid_pox, staging_db, stream, others, storing, signal, more, failure, crashes>>

\* The rejection of a block is committed.
CommitRejectedBlock ==
    /\ pc = "reject"
    /\ row' = RowsWithout(cur)
    /\ attachable' = attachable \ ({cur} \cup Children(cur))
    /\ mrow' = MicroblocksWithout(cur)
    /\ mdata' = DataWithout(cur)
    /\ pc' = "gc" /\ more' = FALSE
    /\ UNCHANGED <<truth, valid_pox, chunks, others, storing, signal, cur, failure, crashes>>

\* And with it the microblocks that are dropped.
CommitDrop ==
    LET dropped == Dropped(cur)
        on      == BuildOn(dropped)
    IN  /\ pc = "drop"
        /\ row' = [c \in Blocks |-> IF c \in on THEN "orphan" ELSE RowsWithout(cur)[c]]
        /\ attachable' = attachable \ ({cur} \cup Children(cur) \cup on)
        /\ mrow' = [m \in Microblocks |-> IF m \in dropped THEN "orphaned" ELSE MicroblocksWithout(cur)[m]]
        /\ mdata' = DataWithout(cur) \ {<<BlockHash[m[1]], m[2]>> : m \in dropped}
        /\ pc' = "gc" /\ more' = FALSE
        /\ UNCHANGED <<truth, valid_pox, chunks, others, storing, signal, cur, failure, crashes>>

Accepts(b) == Runs(b) /\ b \notin invalid /\ ~MicroblockFails(b)

\* append_block commits to the Clarity store, where the block must be new.
AppendBlock(b) ==
    /\ Accepts(b)
    /\ b \notin clarity
    /\ clarity' = clarity \cup {b}
    /\ cur' = b
    /\ pc' = "stream"
    /\ UNCHANGED <<truth, valid_pox, staging_db, chunks, headers, in_sortdb, storing, signal, more, failure, crashes>>

\* "Failed to commit to MARF block": the thread panics.
MarfExists(b) ==
    /\ Accepts(b)
    /\ b \in clarity
    /\ failure' = "MarfExists"
    /\ pc' = "dead"
    /\ UNCHANGED <<truth, valid_pox, staging_db, chunks, others, storing, signal, cur, more, crashes>>

\* Mutant: the stream file is replaced.
StoreStream_Overwrites ==
    /\ pc = "stream"
    /\ stream' = IF NeedsStream(cur) THEN [stream EXCEPT ![Parent[cur]] = Confirms[cur]] ELSE stream
    /\ pc' = "headers"
    /\ UNCHANGED <<truth, valid_pox, staging_db, file, others, storing, signal, cur, more, failure, crashes>>

\* set_microblocks_confirmed writes the stream to the chunk store, unless a longer
\* one is there.
StoreStream ==
    /\ pc = "stream"
    /\ stream' = IF NeedsStream(cur) /\ stream[Parent[cur]] < Confirms[cur]
                 THEN [stream EXCEPT ![Parent[cur]] = Confirms[cur]] ELSE stream
    /\ pc' = "headers"
    /\ UNCHANGED <<truth, valid_pox, staging_db, file, others, storing, signal, cur, more, failure, crashes>>

\* ChainstateTx::commit, its first half.
CommitHeaders ==
    /\ pc = "headers"
    /\ headers' = headers \cup {cur}
    /\ pc' = "blocks"
    /\ UNCHANGED <<truth, valid_pox, staging_db, chunks, clarity, in_sortdb, storing, signal, cur, more, failure, crashes>>

\* The microblocks that cur confirms, and those whose data is deleted with them.
Confirmed == IF NeedsStream(cur) THEN {m \in Microblocks : m[1] = Parent[cur] /\ m[2] < Confirms[cur]} ELSE {}
Merged == IF NeedsStream(cur) THEN {<<BlockHash[Parent[cur]], i>> : i \in 0..(stream[Parent[cur]] - 1)} ELSE {}

\* Mutant: the children are not made attachable.
CommitBlocks_NoChildren ==
    /\ pc = "blocks"
    /\ row' = [row EXCEPT ![cur] = "processed"]
    /\ attachable' = attachable
    /\ mrow' = [m \in Microblocks |-> IF m \in Confirmed /\ mrow[m] = "staged" THEN "confirmed" ELSE mrow[m]]
    /\ mdata' = mdata \ Merged
    /\ pc' = "sort"
    /\ UNCHANGED <<truth, valid_pox, chunks, others, storing, signal, cur, more, failure, crashes>>

\* Its second half: set_microblocks_confirmed and set_block_processed(.., true).
CommitBlocks ==
    /\ pc = "blocks"
    /\ row' = [row EXCEPT ![cur] = "processed"]
    /\ attachable' = attachable \cup ChildrenByHash(cur)
    /\ mrow' = [m \in Microblocks |-> IF m \in Confirmed /\ mrow[m] = "staged" THEN "confirmed" ELSE mrow[m]]
    /\ mdata' = mdata \ Merged
    /\ pc' = "sort"
    /\ UNCHANGED <<truth, valid_pox, chunks, others, storing, signal, cur, more, failure, crashes>>

\* Mutant: the sortition database is not told.
CommitSortition_Lost ==
    /\ pc = "sort"
    /\ in_sortdb' = in_sortdb
    /\ pc' = "gc" /\ more' = TRUE
    /\ UNCHANGED <<truth, valid_pox, staging_db, chunks, clarity, headers, storing, signal, cur, failure, crashes>>

\* process_blocks commits the sortition database.
CommitSortition ==
    /\ pc = "sort"
    /\ in_sortdb' = in_sortdb \cup {cur}
    /\ pc' = "gc" /\ more' = TRUE
    /\ UNCHANGED <<truth, valid_pox, staging_db, chunks, clarity, headers, storing, signal, cur, failure, crashes>>

\* Nothing can be processed.  Candidates that cannot attach and are off the
\* valid PoX forks are orphaned: their files are emptied, but the transaction
\* is not committed.
NoneReady ==
    /\ pc = "find" /\ storing = NoBlock
    /\ \A b \in CanAttach : NoStream(b) /\ file[b] = "data"
    /\ file' = Emptied({b \in Candidates \ CanAttach : PoxFork[b] \notin valid_pox})
    /\ pc' = "gc" /\ more' = FALSE
    /\ UNCHANGED <<truth, valid_pox, staging_db, stream, others, storing, signal, cur, failure, crashes>>

Resume ==
    /\ pc' = IF more THEN "find" ELSE "idle"
    /\ cur' = NoBlock
    /\ more' = FALSE
    /\ UNCHANGED <<truth, valid_pox, stream, others, storing, signal, failure, crashes>>

\* Mutant: the row is not updated.
CollectOrphan_KeepsRow(b) ==
    /\ pc = "gc" /\ storing = NoBlock
    /\ row[b] = "orphan"
    /\ row' = row
    /\ attachable' = attachable \ ({b} \cup Children(b))
    /\ mrow' = MicroblocksWithout(b)
    /\ mdata' = DataWithout(b)
    /\ file' = Emptied({b})
    /\ Resume

\* process_next_orphaned_staging_block, once per call of process_blocks.
CollectOrphan(b) ==
    /\ pc = "gc" /\ storing = NoBlock
    /\ row[b] = "orphan"
    /\ row' = RowsWithout(b)
    /\ attachable' = attachable \ ({b} \cup Children(b))
    /\ mrow' = MicroblocksWithout(b)
    /\ mdata' = DataWithout(b)
    /\ file' = Emptied({b})
    /\ Resume

NoOrphans ==
    /\ pc = "gc" /\ storing = NoBlock
    /\ \A b \in Blocks : row[b] /= "orphan"
    /\ Resume
    /\ UNCHANGED <<staging_db, file>>

\* The node stops and starts again: open transactions are rolled back.
Crash ==
    /\ crashes < tree.crashes
    /\ crashes' = crashes + 1
    /\ storing' = NoBlock
    /\ signal' = FALSE
    /\ pc' = "idle" /\ cur' = NoBlock /\ more' = FALSE /\ failure' = "none"
    /\ UNCHANGED <<truth, valid_pox, staging_db, chunks, others>>

\* What the coordinator does with a block that find_next_staging_block returns.
Process(b) ==
    \/ NoBlockData(b)
    \/ UnreadableStream(b)
    \/ Discontiguous(b)
    \/ Poison(b)
    \/ RejectBlock(b)
    \/ RejectMicroblock(b)
    \/ AppendBlock(b)
    \/ MarfExists(b)

\* What it does next in any case.
Work ==
    \/ Wake
    \/ CommitRejectedBlock
    \/ CommitDrop
    \/ StoreStream
    \/ CommitHeaders
    \/ CommitBlocks
    \/ CommitSortition
    \/ NoneReady
    \/ \E b \in Blocks : CollectOrphan(b)
    \/ NoOrphans

Next ==
    \/ \E b \in Blocks : WriteBlock(b)
    \/ CommitStagingBlock
    \/ \E b \in Blocks, i \in Seqs : StageMicroblock(b, i)
    \/ NewBurnBlock
    \/ \E f \in valid_pox : UnwindPox(f)
    \/ \E b \in Blocks : Process(b)
    \/ Work
    \/ Crash

Spec == Init /\ [][Next]_vars

\* The coordinator thread keeps running, rows are read in random order, the
\* relayer finishes what it stores and burn blocks keep coming.
FairSpec ==
    /\ Spec
    /\ WF_vars(Work) /\ WF_vars(CommitStagingBlock) /\ WF_vars(NewBurnBlock)
    /\ \A b \in AllBlocks : SF_vars(b \in Blocks /\ Process(b)) /\ SF_vars(b \in Blocks /\ CollectOrphan(b))

-----------------------------------------------------------------------------
(* Safety. *)

\* No block is between two of the databases.
Settled == pc \in {"idle", "find"} /\ storing = NoBlock

\* The headers, the staging rows and the sortition database agree on which
\* blocks were accepted: process_next_staging_block "Occurs as a single, atomic
\* transaction against the (marf'ed) headers database and (un-marf'ed) staging
\* block database".
AcceptanceIsAtomic ==
    Settled => \A b \in Blocks :
        /\ b \in headers <=> row[b] = "processed"
        /\ b \in headers <=> b \in in_sortdb

\* They do as long as the node does not crash, whatever else goes wrong with the
\* blocks and microblocks in between.
AcceptanceIsComplete == crashes = 0 => AcceptanceIsAtomic

Gone == {"orphan", "rejected"}

\* Headers form a tree from genesis, and no rejection, orphaning or collection
\* ever reaches a block that has one, wherever the node crashes.
AcceptedIsSafe ==
    \A b \in headers : row[b] \notin Gone /\ (Parent[b] = Genesis \/ Parent[b] \in headers)

\* A block that was rejected or orphaned is never staged or processed again,
\* also when peers send it again or the node crashes.
OrphansStayOrphaned ==
    [][\A b \in Blocks : row[b] \in Gone => row'[b] \in Gone]_vars

\* The chunk store has the longest stream that an accepted block confirms, and
\* the rows say the same: "the file contains the longest stream built on by any
\* anchored block discovered so far".
ConfirmedStreamKept ==
    Settled /\ crashes = 0 => \A b \in Blocks :
        LET confirming == {Confirms[c] : c \in {d \in headers : Parent[d] = b}} \cup {0}
        IN  /\ stream[b] \in confirming /\ \A n \in confirming : n <= stream[b]
            /\ {i \in Seqs : mrow[<<b, i>>] = "confirmed"} = 0..(stream[b] - 1)

\* Another block has the hash of b's parent: store_staging_block takes back that the
\* children of either are attachable when the other is staged.
ParentHasTwin(b) ==
    /\ Parent[b] /= Genesis
    /\ \E c \in Blocks \ {Parent[b]} : BlockHash[c] = BlockHash[Parent[b]]

\* A staged block whose parent was accepted can be found: "children of this
\* processed block are now attachable".
ReadyIsAttachable ==
    Settled /\ crashes = 0 => \A b \in Blocks :
        row[b] = "staged" /\ (Parent[b] = Genesis \/ Parent[b] \in headers) /\ ~ParentHasTwin(b) => b \in attachable

-----------------------------------------------------------------------------
(* Liveness. *)

\* Nothing but time keeps b from being processed.
Ready(b) == row[b] = "staged" /\ (Parent[b] = Genesis \/ Parent[b] \in headers) /\ StreamConnects(b)

\* A block whose parent is accepted and whose microblocks are there is accepted or
\* rejected, whatever else is staged: blocks that wait for microblocks, that cannot
\* attach, and blocks with a poisoned stream, for which process_ready_blocks asks again
\* at once.  A block whose own stream forks stays staged for ever, and a block whose
\* parent's hash occurs twice may; those two are excepted, and so are nodes whose
\* coordinator thread has panicked or that have crashed.
ReadyIsProcessed ==
    \A b \in AllBlocks :
        b \in Blocks /\ Ready(b) /\ ~StreamForks(b) /\ ~ParentHasTwin(b)
            ~> ~Ready(b) \/ pc = "dead" \/ crashes > 0

\* "The blocks database will eventually delete all orphaned data", unless the
\* coordinator thread panics.
OrphansAreCollected ==
    \A b \in AllBlocks :
        b \in Blocks /\ row[b] = "orphan" ~> (row[b] = "rejected" /\ file[b] = "empty") \/ pc = "dead"
=============================================================================
