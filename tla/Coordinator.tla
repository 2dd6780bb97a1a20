---------------------------- MODULE Coordinator ----------------------------
(***************************************************************************)
(* The chains coordinator (src/src/chainstate/coordinator/mod.rs): it      *)
(* turns stored burn blocks into sortitions, processes the staged Stacks   *)
(* blocks that are ready, and when a block it processes turns out to be a  *)
(* PoX anchor that sortitions went on without, it unwinds to the end of    *)
(* that prepare phase and evaluates the burn blocks again.                 *)
(*                                                                         *)
(* Other threads store burn blocks and staging blocks while it works.  It  *)
(* may crash and restart between any two steps; a step ends where the code *)
(* commits to a database.  Stacks blocks are valid here and a block is     *)
(* processed and accepted in one step; module StagingBlocks has invalid    *)
(* blocks and the commits in between.                                      *)
(***************************************************************************)
EXTENDS SortitionForks

CONSTANTS
    Scenarios,   \* the burn chains to come, each with what goes wrong
    MaxCrashes   \* bound: crashes of the node

Faults ==
    {"OutOfOrder",        \* a block may be staged before its parent
     "MicroblockStreams", \* a block may wait for its parent's microblocks
     "Crash"}

ASSUME CoordinatorAssumption ==
    /\ MaxCrashes \in Nat
    /\ \A s \in Scenarios : DOMAIN s.commits \subseteq BurnBlocks /\ s.faults \subseteq Faults

VARIABLES
    faults,      \* what may go wrong
    burn_db,     \* the burn blocks in the burnchain database
    signal,      \* the events announced to the coordinator
    tip,         \* canonical_sortition_tip, in memory
    pc,          \* where the coordinator thread is
    todo,        \* sortitions_to_process
    anchor,      \* the old anchor block process_ready_blocks returned
    failure,     \* how a handler failed last
    staged,      \* staging_blocks rows, by sortition id
    attachable,  \* those with attachable = 1
    waiting,     \* those whose parent microblocks are not all here
    truncated,   \* those whose block file has been emptied
    processed,   \* block_headers
    crashes,
    stale        \* history: blocks processed after their PoX fork was abandoned

world == <<commits, faults>>
thread == <<tip, pc, todo, anchor, failure>>
staging == <<staged, attachable, waiting, truncated, processed>>
vars == <<world, snapshots, burn_db, signal, thread, staging, crashes, stale>>

Sortitions == DOMAIN snapshots

\* The failed assertions that end the coordinator thread.
Panics == {"ArrivalAssertion", "NoBlockData"}

TypeOK ==
    /\ burn_db \subseteq AllBurn
    /\ signal \subseteq {"NEW_BURN_BLOCK", "NEW_STACKS_BLOCK"}
    /\ tip \in Sortitions
    /\ pc \in {"idle", "burn", "loop", "ready", "unwind", "dead"}
    /\ todo \in Seq(BurnBlocks)
    /\ anchor \in AllBurn \cup {NoBlock}
    /\ failure \in {"none", "MissingParentBlock", "ExistsError", "LostUnwind"} \cup Panics
    /\ waiting \subseteq staged /\ truncated \subseteq staged /\ attachable \subseteq staged
    /\ staged \subseteq Sortitions
    /\ processed \subseteq staged \cup {FirstSortition}
    /\ crashes \in 0..MaxCrashes
    /\ stale \subseteq processed

Init ==
    /\ \E s \in Scenarios : commits = s.commits /\ faults = s.faults
    /\ snapshots = [s \in {FirstSortition} |-> FirstSnapshot]
    /\ burn_db = {FirstBurn}
    /\ signal = {}
    /\ tip = FirstSortition
    /\ pc = "idle"
    /\ todo = << >>
    /\ anchor = NoBlock
    /\ failure = "none"
    /\ staged = {} /\ attachable = {} /\ waiting = {} /\ truncated = {}
    /\ processed = {FirstSortition}
    /\ crashes = 0
    /\ stale = {}

-----------------------------------------------------------------------------
(* The other threads. *)

\* The burnchain downloader stores a block and announces it.
StoreBurnBlock(b) ==
    /\ b \in DOMAIN commits \ burn_db
    /\ BurnParent[b] \in burn_db
    /\ burn_db' = burn_db \cup {b}
    /\ signal' = signal \cup {"NEW_BURN_BLOCK"}
    /\ UNCHANGED <<world, snapshots, thread, staging, crashes, stale>>

\* Staged blocks that name a block with this hash as their parent.
ChildrenOf(b) == {y \in staged \ processed : Burn(StacksParent(y)) = b}

\* The relayer stores a Stacks block of a sortition on a valid PoX fork
\* (preprocess_anchored_block, store_staging_block) and announces it.
StageBlock(x) ==
    /\ x \notin staged \cup processed
    /\ snapshots[x].sortition /\ snapshots[x].pox_valid
    /\ "OutOfOrder" \in faults \/ StacksParent(x) \in staged \cup processed
    /\ staged' = staged \cup {x}
    /\ attachable' = (attachable \ ChildrenOf(Burn(x)))
                        \cup (IF StacksParent(x) \in staged \ processed THEN {} ELSE {x})
    /\ \/ UNCHANGED waiting
       \/ "MicroblockStreams" \in faults /\ StacksParent(x) /= FirstSortition /\ waiting' = waiting \cup {x}
    /\ signal' = signal \cup {"NEW_STACKS_BLOCK"}
    /\ UNCHANGED <<world, snapshots, burn_db, thread, truncated, processed, crashes, stale>>

\* The relayer stores the microblocks; it announces blocks only.
StageMicroblocks(x) ==
    /\ x \in waiting
    /\ waiting' = waiting \ {x}
    /\ UNCHANGED <<world, snapshots, burn_db, signal, thread, staged, attachable, truncated, processed, crashes, stale>>

-----------------------------------------------------------------------------
(* The coordinator thread. *)

\* run: a burn block is announced.
TakeBurnSignal ==
    /\ pc = "idle"
    /\ "NEW_BURN_BLOCK" \in signal
    /\ signal' = signal \ {"NEW_BURN_BLOCK"}
    /\ pc' = "burn"
    /\ UNCHANGED <<world, snapshots, burn_db, tip, todo, anchor, failure, staging, crashes, stale>>

\* run: a Stacks block is announced; handle_new_stacks_block.
TakeStacksSignal ==
    /\ pc = "idle"
    /\ signal = {"NEW_STACKS_BLOCK"}
    /\ signal' = {}
    /\ pc' = "ready"
    /\ UNCHANGED <<world, snapshots, burn_db, tip, todo, anchor, failure, staging, crashes, stale>>

\* BurnchainDB::get_canonical_chain_tip
BurnTip ==
    CHOOSE b \in burn_db : \A c \in burn_db :
        \/ BurnHeight[c] < BurnHeight[b]
        \/ BurnHeight[c] = BurnHeight[b] /\ BurnOrder[b] <= BurnOrder[c]

\* The ancestors of the burn tip from the first one without a sortition.
Unprocessed ==
    LET chain == BurnChainOf(BurnTip)
        new   == {h \in DOMAIN chain : ~is_sortition_processed(chain[h], tip)}
        first == BurnHeight[BurnTip] - Cardinality(new)
    IN  [i \in 1..Cardinality(new) |-> chain[first + i]]

\* handle_new_burnchain_block, up to its loop.
CollectUnprocessed ==
    /\ pc = "burn"
    /\ todo' = Unprocessed
    /\ pc' = "loop"
    /\ UNCHANGED <<world, snapshots, burn_db, signal, tip, anchor, failure, staging, crashes, stale>>

\* get_reward_cycle_info for the child of p: the anchor block chosen in the
\* prepare phase that ends there, and whether its header is in block_headers.
ChosenAnchor(p) ==
    LET found == ChosenAnchors(ForkSnapshots(p), Height(p) - PrepareLength, Height(p))
    IN  IF found = {} THEN NoBlock ELSE Burn(Fork(p)[CHOOSE h \in found : TRUE])

AnchorKnown(p) == ChosenAnchor(p) = NoBlock \/ get_sortition_id(ChosenAnchor(p), p) \in processed

NextBurn == Head(todo)
NextParent == get_sortition_id(BurnParent[NextBurn], tip)
NextStart == is_reward_cycle_start(BurnHeight[NextBurn])
NextId == NewSortitionId(NextBurn, NextParent, NextStart, AnchorKnown(NextParent))
InLoop == pc = "loop" /\ todo /= << >>

\* A failed handler leaves the coordinator waiting for the next event.
HandlerFails(why) ==
    /\ failure' = why
    /\ pc' = IF why \in Panics THEN "dead" ELSE "idle"
    /\ todo' = << >>
    /\ UNCHANGED <<world, snapshots, burn_db, signal, tip, anchor, staging, crashes, stale>>

\* The parent of the burn block is not on the fork of the canonical tip.
ParentMissing ==
    /\ InLoop
    /\ ~is_sortition_processed(BurnParent[NextBurn], tip)
    /\ HandlerFails("MissingParentBlock")

\* The assertion in process_new_block_arrivals fails.
ArrivalPanic ==
    /\ InLoop
    /\ is_sortition_processed(BurnParent[NextBurn], tip)
    /\ ArrivalAssertFails(NextParent)
    /\ HandlerFails("ArrivalAssertion")

\* put_indexed_begin finds the sortition id in the index already.
SortitionExists ==
    /\ InLoop
    /\ is_sortition_processed(BurnParent[NextBurn], tip)
    /\ ~ArrivalAssertFails(NextParent)
    /\ NextId \in Sortitions
    /\ HandlerFails("ExistsError")

\* Mutant: the tip follows the burn block that came last.
EvaluateSortition_Follows ==
    /\ InLoop
    /\ is_sortition_processed(BurnParent[NextBurn], tip)
    /\ ~ArrivalAssertFails(NextParent)
    /\ NextId \notin Sortitions
    /\ snapshots' = snapshots @@
          (NextId :> NewSnapshot(NextBurn, NextParent, NextStart, ChosenAnchor(NextParent), AnchorKnown(NextParent)))
    /\ tip' = NextId
    /\ todo' = Tail(todo)
    /\ pc' = "ready"
    /\ UNCHANGED <<world, burn_db, signal, anchor, failure, staging, crashes, stale>>

\* evaluate_sortition commits the new snapshot; the canonical tip moves to it
\* if it is higher.
EvaluateSortition ==
    /\ InLoop
    /\ is_sortition_processed(BurnParent[NextBurn], tip)
    /\ ~ArrivalAssertFails(NextParent)
    /\ NextId \notin Sortitions
    /\ snapshots' = snapshots @@
          (NextId :> NewSnapshot(NextBurn, NextParent, NextStart, ChosenAnchor(NextParent), AnchorKnown(NextParent)))
    /\ tip' = IF Height(tip) < BurnHeight[NextBurn] THEN NextId ELSE tip
    /\ todo' = Tail(todo)
    /\ pc' = "ready"
    /\ UNCHANGED <<world, burn_db, signal, anchor, failure, staging, crashes, stale>>

\* The loop over the burn blocks is done.
LoopDone ==
    /\ pc = "loop"
    /\ todo = << >>
    /\ pc' = "idle"
    /\ UNCHANGED <<world, snapshots, burn_db, signal, tip, todo, anchor, failure, staging, crashes, stale>>

-----------------------------------------------------------------------------
(* process_ready_blocks *)

\* The rows find_next_staging_block considers, and those it can attach.
Candidates == (staged \cap attachable) \ processed
CanAttach == {x \in Candidates : StacksParent(x) \in processed}

\* process_blocks: a candidate, in random order, is processed and accepted at
\* the canonical sortition tip.
ProcessBlock(x) ==
    /\ pc = "ready"
    /\ x \in CanAttach \ (waiting \cup truncated)
    /\ processed' = processed \cup {x}
    /\ attachable' = attachable \cup ChildrenOf(Burn(x))
    /\ snapshots' = AcceptBlock(tip, x)
    /\ IF is_stacks_block_in_sortition_set(tip, Burn(x)) /\ is_stacks_block_pox_anchor(Burn(x), tip)
       THEN anchor' = Burn(x) /\ pc' = "unwind"
       ELSE UNCHANGED <<anchor, pc>>
    /\ stale' = IF snapshots[x].pox_valid THEN stale ELSE stale \cup {x}
    /\ UNCHANGED <<world, burn_db, signal, tip, todo, failure, staged, waiting, truncated, crashes>>

\* find_next_staging_block meets a block whose file is empty.
NoBlockData ==
    /\ pc = "ready"
    /\ CanAttach \cap truncated /= {}
    /\ HandlerFails("NoBlockData")

\* Nothing is ready.  Candidates that cannot attach and are off the valid PoX
\* fork are orphaned: the files are emptied, the row changes are not committed.
NoneReady ==
    /\ pc = "ready"
    /\ CanAttach \subseteq waiting \ truncated
    /\ truncated' = truncated \cup {x \in Candidates \ CanAttach : ~snapshots[x].pox_valid}
    /\ pc' = "loop"
    /\ UNCHANGED <<world, snapshots, burn_db, signal, tip, todo, anchor, failure, staged, attachable, waiting, processed, crashes, stale>>

-----------------------------------------------------------------------------
\* Mutant: nothing is invalidated.
Unwind_NoInvalidation ==
    /\ pc = "unwind"
    /\ LET prep_end == OldestPrepareEnd(tip, anchor)
       IN  tip' = prep_end
    /\ anchor' = NoBlock
    /\ todo' = << >>
    /\ pc' = "burn"
    /\ UNCHANGED <<world, snapshots, burn_db, signal, failure, staging, crashes, stale>>

\* Mutant: evaluation is left to the next burn block.
Unwind_Stops ==
    /\ pc = "unwind"
    /\ LET prep_end == OldestPrepareEnd(tip, anchor)
       IN  /\ snapshots' = InvalidateDescendants(Burn(prep_end))
           /\ tip' = prep_end
    /\ anchor' = NoBlock
    /\ todo' = << >>
    /\ pc' = "idle"
    /\ UNCHANGED <<world, burn_db, signal, failure, staging, crashes, stale>>

\* process_new_pox_anchor: every descendant of the prepare phase's last burn
\* block is invalidated, and evaluation restarts there.
Unwind ==
    /\ pc = "unwind"
    /\ LET prep_end == OldestPrepareEnd(tip, anchor)
       IN  /\ snapshots' = InvalidateDescendants(Burn(prep_end))
           /\ tip' = prep_end
    /\ anchor' = NoBlock
    /\ todo' = << >>
    /\ pc' = "burn"
    /\ UNCHANGED <<world, burn_db, signal, failure, staging, crashes, stale>>

\* The node stops anywhere and ChainsCoordinator::run starts again, with the
\* canonical tip of the sortition database and no event.  An unwind that was due
\* is forgotten.
Crash ==
    /\ "Crash" \in faults
    /\ crashes < MaxCrashes
    /\ crashes' = crashes + 1
    /\ tip' \in CanonicalTips
    /\ pc' = "idle"
    /\ todo' = << >>
    /\ anchor' = NoBlock
    /\ signal' = {}
    /\ failure' = IF pc = "unwind" THEN "LostUnwind" ELSE failure
    /\ UNCHANGED <<world, snapshots, burn_db, staging, stale>>

Work ==
    \/ TakeBurnSignal
    \/ TakeStacksSignal
    \/ CollectUnprocessed
    \/ ParentMissing
    \/ ArrivalPanic
    \/ SortitionExists
    \/ EvaluateSortition
    \/ LoopDone
    \/ \E x \in staged : ProcessBlock(x)
    \/ NoBlockData
    \/ NoneReady
    \/ Unwind

Next ==
    \/ \E b \in BurnBlocks : StoreBurnBlock(b)
    \/ \E x \in Sortitions : StageBlock(x)
    \/ \E x \in waiting : StageMicroblocks(x)
    \/ Work
    \/ Crash

Spec == Init /\ [][Next]_vars

\* The coordinator thread keeps running.
FairSpec == Spec /\ WF_vars(Work)

-----------------------------------------------------------------------------
(* Safety. *)

\* No handler has failed, no unwind was lost in a crash, and no block of an
\* abandoned PoX fork was processed.
Regular == failure = "none" /\ stale = {}

\* The burn chain has not forked.
OneBurnChain == \A b, c \in burn_db : b \in Range(BurnChainOf(c)) \/ c \in Range(BurnChainOf(b))

\* The coordinator has nothing to do.
Waiting == pc = "idle" /\ signal = {} /\ Regular

\* What a restart may find: no valid row is above the tip that the coordinator works
\* from in memory, and off the fork of that tip there are only single blocks that follow
\* one of its blocks, as burn forks leave them behind.  So the tip that a restart reads
\* from the database, where forks of equal height are ordered by hash, differs from the
\* one in memory by the last block at most.  This holds over burn forks and crashes,
\* whatever handlers failed and whatever was unwound.
RestartIsNear ==
    pc = "idle" => \A s \in Sortitions :
        snapshots[s].pox_valid => Height(s) <= Height(tip) /\ snapshots[s].parent \in Range(Fork(tip))

\* Each PoX bit of the canonical fork says whether the anchor block of its
\* cycle has been processed: no sortition of the fork went on without an
\* anchor that is there.
PoxMatchesAnchors ==
    Waiting => \A s \in CycleStarts(tip) :
        Last(s[2]) <=> \/ snapshots[s].anchor = NoBlock
                       \/ get_sortition_id(snapshots[s].anchor, tip) \in processed

\* Every row that is valid is an ancestor of the canonical tip when there is
\* one burn chain: an unwind leaves nothing of the PoX fork it abandons.
ValidIsCanonical ==
    Regular /\ OneBurnChain /\ pc \in {"idle", "ready"} =>
        {s \in Sortitions : snapshots[s].pox_valid} = Range(Fork(tip))

\* Is the memoized tip of t an accepted block of its fork, with none higher?
HighestAccepted(t) ==
    LET best == snapshots[t].stacks_tip
    IN  /\ best \in Range(Fork(t)) /\ best \in processed
        /\ \A x \in Range(Fork(t)) : accepted(x) => StacksHeight[Burn(x)] <= StacksHeight[Burn(best)]

\* A new sortition memoizes the highest Stacks block accepted on its fork:
\* set_stacks_block_accepted and process_new_block_arrivals together miss no
\* block, whatever the order in which blocks and burn blocks come, and however
\* far an unwind went back.
SortitionSeesHighest ==
    [][Regular /\ OneBurnChain /\ tip' \notin Sortitions => HighestAccepted(tip)']_vars

\* A snapshot that arrives on the fork is the fork's own: the assertion in
\* process_new_block_arrivals, "this block arrived on an ancestor block".
ArrivalsAreOnFork == failure /= "ArrivalAssertion"

-----------------------------------------------------------------------------
(* Liveness. *)

\* A crash took an announcement with it, and nothing has been announced since.
Unannounced == crashes > 0 /\ pc = "idle" /\ signal = {}

\* Every burn tip gets its sortition, also across an unwind and across restarts, or
\* the coordinator waits for the announcement that a crash took: on one burn chain no
\* error of a handler, which run logs and drops, leaves a burn block behind.  Excepted
\* are burn forks, blocks of an abandoned PoX fork that are processed, and a
\* coordinator thread that has panicked.
SortitionsCatchUp ==
    (BurnTip /= Burn(tip))
        ~> (BurnTip = Burn(tip) \/ Unannounced \/ stale /= {} \/ pc = "dead" \/ ~OneBurnChain)
=============================================================================
