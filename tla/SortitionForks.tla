--------------------------- MODULE SortitionForks ---------------------------
(***************************************************************************)
(* The sortition database with its forks: the snapshots table, the         *)
(* fork-aware index and the memoized canonical Stacks tip                  *)
(* (src/src/chainstate/burn/db/sortdb.rs).  Module RewardCycles has the    *)
(* reward set along one fork; here every reward set has a recipient left.  *)
(*                                                                         *)
(* A sortition id is a burn block with the PoX bits seen from it, as       *)
(* SortitionId::new hashes them together.  Each burn block carries at most *)
(* one block commit, so the burn block also names the Stacks block hash it *)
(* commits to, and the sortition id names that Stacks block under its      *)
(* consensus hash.  The index maps a key to the value written last on the  *)
(* fork, which is read off the ancestors of a snapshot here.               *)
(***************************************************************************)
EXTENDS PoxAnchor, Sequences, SequencesExt, FiniteSetsExt, TLC

CONSTANTS
    BurnBlocks,   \* burn header hashes
    FirstBurn,    \* the first burn block, which is not in BurnBlocks
    BurnParent,   \* the parent of each burn block
    BurnOrder,    \* the order of burn header hashes, ranked from 0
    NoBlock       \* no burn block

AllBurn == BurnBlocks \cup {FirstBurn}

ASSUME BurnChain ==
    /\ FirstBurn \notin BurnBlocks
    /\ NoBlock \notin AllBurn
    /\ BurnParent \in [BurnBlocks -> AllBurn]
    /\ BurnOrder \in [AllBurn -> Nat]

VARIABLES
    commits,      \* the burn blocks to come, each with its block commit
    snapshots     \* the snapshots table, by sortition id

\* block_height of each burn header.
BurnHeight ==
    LET height[b \in AllBurn] ==
            IF b = FirstBurn THEN FirstBlockHeight ELSE height[BurnParent[b]] + 1
    IN  [b \in AllBurn |-> height[b]]

\* The burn chain that ends in each block, by height.
BurnChains ==
    LET chain[c \in AllBurn] ==
            (BurnHeight[c] :> c) @@ (IF c = FirstBurn THEN << >> ELSE chain[BurnParent[c]])
    IN  [b \in AllBurn |-> chain[b]]

BurnChainOf(b) == BurnChains[b]

\* Some burn blocks carry no commit.
NoCommit == [parent_block_ptr |-> 0, pox |-> FALSE, present |-> FALSE]

FirstSortition == <<FirstBurn, <<TRUE>>>>
Burn(s) == s[1]
Height(s) == BurnHeight[Burn(s)]

\* BlockSnapshot::initial, the row written by SortitionDB::connect.
FirstSnapshot ==
    [parent |-> FirstSortition, sortition |-> TRUE, parent_block_ptr |-> 0,
     anchor |-> NoBlock, pox_valid |-> TRUE, arrival_index |-> 0, accepted_at |-> {},
     max_arrival |-> 0, indexed |-> {}, stacks_tip |-> FirstSortition]

-----------------------------------------------------------------------------
(* The index. *)

\* The sortition ids on the fork that ends in t, by height.
Fork(t) ==
    LET fork[s \in DOMAIN snapshots] ==
            (Height(s) :> s)
                @@ (IF s = FirstSortition THEN << >> ELSE fork[snapshots[s].parent])
    IN  fork[t]

\* The same fork as the snapshots module PoxAnchor reads.
ForkSnapshots(t) == [h \in DOMAIN Fork(t) |-> snapshots[Fork(t)[h]]]

\* get_sortition_id: is burn block b on the fork, and as which sortition?
is_sortition_processed(b, t) ==
    BurnHeight[b] \in DOMAIN Fork(t) /\ Burn(Fork(t)[BurnHeight[b]]) = b

get_sortition_id(b, t) == Fork(t)[BurnHeight[b]]

\* is_stacks_block_in_sortition_set: key stacks_block_present.
is_stacks_block_in_sortition_set(t, b) ==
    is_sortition_processed(b, t) /\ snapshots[get_sortition_id(b, t)].sortition

\* The cycle starts on the fork at which block hash b was written as anchor.
AnchorStarts(t, b) == {s \in Range(Fork(t)) : snapshots[s].anchor = b}

\* Key pox_anchor_to_prepare_end exists for the hash.
is_stacks_block_pox_anchor(b, t) == AnchorStarts(t, b) /= {}

Highest(S) == CHOOSE s \in S : \A r \in S : Height(r) <= Height(s)

\* get_prepare_end_for: the last write of the key on the fork.
get_prepare_end_for(t, b) == snapshots[Highest(AnchorStarts(t, b))].parent

\* Mutant: only the latest cycle that chose the anchor is undone.
OldestPrepareEnd_Latest(t, b) == get_prepare_end_for(t, b)

\* The loop in process_new_pox_anchor over earlier cycles with this anchor.
OldestPrepareEnd(t, b) ==
    LET older[s \in DOMAIN snapshots] ==
            IF AnchorStarts(s, b) = {} THEN s ELSE older[get_prepare_end_for(s, b)]
    IN  older[get_prepare_end_for(t, b)]

CycleStarts(t) == {s \in Range(Fork(t)) : is_reward_cycle_start(Height(s))}

\* pox_last_anchor, and whether its reward set was known.
LastAnchor(t) ==
    IF CycleStarts(t) = {} THEN NoBlock ELSE snapshots[Highest(CycleStarts(t))].anchor
LastAnchorKnown(t) == LastAnchor(t) /= NoBlock /\ Last(t[2])

-----------------------------------------------------------------------------
(* Stacks blocks, named by hash b (the burn block) or by sortition id x. *)

\* The header of a block fixes its parent hash and its height.
StacksHeight ==
    LET height[b \in AllBurn] ==
            IF b = FirstBurn THEN 0
            ELSE height[BurnChainOf(b)[commits[b].parent_block_ptr]] + 1
    IN  height

\* get_block_snapshot_of_parent_stacks_block, on the fork of x.
StacksParent(x) == Fork(x)[snapshots[x].parent_block_ptr]

\* get_max_arrival_index
MaxArrival == Max({snapshots[s].arrival_index : s \in DOMAIN snapshots})

accepted(s) == snapshots[s].arrival_index > 0

\* get_canonical_sortition_tip: ORDER BY block_height DESC, burn_header_hash
\* ASC among the valid rows; the rows that tie are all possible answers.
CanonicalTips ==
    LET valid == {s \in DOMAIN snapshots : snapshots[s].pox_valid}
        high  == {s \in valid : \A r \in valid : Height(r) <= Height(s)}
    IN  {s \in high : \A r \in high : BurnOrder[Burn(s)] <= BurnOrder[Burn(r)]}

-----------------------------------------------------------------------------
(* process_new_block_arrivals, for the child of snapshot p. *)

\* The rows with an arrival index from that of p's index to the newest.
NewArrivals(p) == {s \in DOMAIN snapshots : accepted(s) /\ snapshots[s].arrival_index >= snapshots[p].max_arrival}

\* The failed assertion sn == arrival_sn: the burn block of an arrival is on
\* this fork under another sortition id.
ArrivalAssertFails(p) ==
    \E s \in NewArrivals(p) : is_sortition_processed(Burn(s), p) /\ get_sortition_id(Burn(s), p) /= s

\* Mutant: the arrival on p itself is left out.
ArrivalsOn_NotParent(p) == {s \in NewArrivals(p) : s \in Range(Fork(p)) \ {p}}

ArrivalsOn(p) == {s \in NewArrivals(p) : s \in Range(Fork(p))}

\* The memoized tip of p, or the first arrival of the greatest height above it.
BestTip(p) ==
    LET best == {x \in ArrivalsOn(p) : StacksHeight[Burn(x)] > StacksHeight[Burn(snapshots[p].stacks_tip)]}
        high == {x \in best : \A y \in best : StacksHeight[Burn(y)] <= StacksHeight[Burn(x)]}
    IN  IF best = {} THEN snapshots[p].stacks_tip
        ELSE CHOOSE x \in high : \A y \in high : snapshots[x].arrival_index <= snapshots[y].arrival_index

-----------------------------------------------------------------------------
(* evaluate_sortition for burn block b on parent snapshot p. *)

\* LeaderBlockCommitOp::check and the sortition: the commit names genesis or a
\* winner of this fork, and pays a recipient exactly if it descends from the
\* known anchor block.
CommitWins(b, p, anchor, known) ==
    LET c == commits[b]
        sn == ForkSnapshots(p)
    IN  /\ c.present
        /\ \/ c.parent_block_ptr = 0
           \/ c.parent_block_ptr \in (FirstBlockHeight + 1)..Height(p) /\ sn[c.parent_block_ptr].sortition
        /\ IF known
           THEN descended_from(sn, Height(p), c.parent_block_ptr, BurnHeight[anchor]) = IF c.pox THEN "yes" ELSE "no"
           ELSE ~c.pox

\* The new row.  At a cycle start the anchor found and whether it is known
\* come from get_reward_cycle_info; inside a cycle from the index.
NewSnapshot(b, p, start, anchor, known) ==
    [parent |-> p,
     sortition |-> IF start THEN CommitWins(b, p, anchor, known /\ anchor /= NoBlock)
                   ELSE CommitWins(b, p, LastAnchor(p), LastAnchorKnown(p)),
     parent_block_ptr |-> commits[b].parent_block_ptr,
     anchor |-> IF start THEN anchor ELSE NoBlock,
     pox_valid |-> TRUE,
     arrival_index |-> 0,
     accepted_at |-> {},
     max_arrival |-> MaxArrival,
     indexed |-> snapshots[p].indexed \cup {Burn(s) : s \in ArrivalsOn(p)},
     stacks_tip |-> BestTip(p)]

\* The PoX bits of the new snapshot.
NewSortitionId(b, p, start, known) == <<b, IF start THEN Append(p[2], known) ELSE p[2]>>

-----------------------------------------------------------------------------
(* set_stacks_block_accepted_at_tip, for block x with the tip of the fork. *)

\* get_accepted_stacks_block_pointer; it panics on two rows, which a child of a
\* block accepted on two PoX forks meets only on longer chains than are checked.
AcceptedPointers(t, b) == {x \in DOMAIN snapshots : t \in snapshots[x].accepted_at /\ Burn(x) = b}

\* Does the block extend the memoized tip?
ExtendsTip(t, x) == Burn(snapshots[t].stacks_tip) = Burn(StacksParent(x))

\* Is its parent known to have been accepted on this fork?
BuildsOnFork(t, x) ==
    \/ AcceptedPointers(t, Burn(StacksParent(x))) /= {}
    \/ Burn(StacksParent(x)) \in snapshots[t].indexed

AcceptBlock(t, x) ==
    [snapshots EXCEPT
        ![x].arrival_index = MaxArrival + 1,
        ![x].accepted_at = IF ExtendsTip(t, x) \/ BuildsOnFork(t, x) THEN {t} ELSE @,
        ![t].stacks_tip =
            IF \/ ExtendsTip(t, x)
               \/ BuildsOnFork(t, x) /\ StacksHeight[Burn(x)] > StacksHeight[Burn(@)]
            THEN x ELSE @]

-----------------------------------------------------------------------------
\* Mutant: only the children of the burn block are invalidated.
InvalidateDescendants_Children(b) ==
    [s \in DOMAIN snapshots |->
        IF s /= FirstSortition /\ BurnParent[Burn(s)] = b THEN [snapshots[s] EXCEPT !.pox_valid = FALSE] ELSE snapshots[s]]

\* invalidate_descendants_of: every row whose burn block descends from b,
\* whatever its PoX fork.
InvalidateDescendants(b) ==
    [s \in DOMAIN snapshots |->
        IF Burn(s) /= b /\ b \in Range(BurnChainOf(Burn(s)))
        THEN [snapshots[s] EXCEPT !.pox_valid = FALSE] ELSE snapshots[s]]
=============================================================================
