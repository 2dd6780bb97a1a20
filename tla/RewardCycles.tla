---------------------------- MODULE RewardCycles ----------------------------
(***************************************************************************)
(* One fork of the sortition database growing block by block, with what    *)
(* its index remembers about PoX: the PoX bit vector, the anchor block of  *)
(* the current reward cycle and the reward set.  Each step is one call of  *)
(* SortitionDB::evaluate_sortition (src/src/chainstate/burn/db/sortdb.rs)  *)
(* with the pieces of processing.rs and leader_block_commit.rs it runs.    *)
(*                                                                         *)
(* The index is a fork-aware trie: what a block writes is seen by its      *)
(* descendants only, so one fork is enough here; module Coordinator has    *)
(* the forks.  The reward set the Clarity state yields, the verdict on     *)
(* whether the anchor block has been processed and the draw of a recipient *)
(* are inputs.  A reward slot stands for one entry of the reward set.      *)
(***************************************************************************)
EXTENDS PoxAnchor, Sequences

CONSTANTS
    Slots,         \* entries a reward set can have
    NoSlot,        \* no recipient
    MaxRewardSet,  \* bound: size of a reward set
    MaxHeight      \* bound: height of the fork

ASSUME RewardAssumption ==
    /\ NoSlot \notin Slots
    /\ MaxRewardSet \in Nat
    /\ MaxHeight \in Nat /\ MaxHeight >= FirstBlockHeight

VARIABLES
    sn,           \* the snapshots of the fork, by height
    tip,          \* its height
    pox_id,       \* one bit per reward cycle: was its anchor block known?
    last_anchor,  \* the height that chose the anchor of this cycle, or NoAnchor
    set_size,     \* pox_reward_set_size
    set_entry,    \* pox_reward_set_entry; entries from set_size on are left-overs
    anchor_failure,      \* how the last anchor lookup failed
    cycle_start,  \* history: the height this reward cycle started at
    cycle_set,    \* history: the reward set this cycle started with
    consumed,     \* history: the recipients drawn in this cycle
    draws         \* history: the number of those draws

history == <<cycle_start, cycle_set, consumed, draws>>
cycle_vars == <<sn, tip, pox_id, last_anchor, set_size, set_entry, anchor_failure, history>>

NoAnchor == -1
Heights == FirstBlockHeight..MaxHeight
Indexes == 0..(MaxRewardSet - 1)

CycleTypeOK ==
    /\ tip \in Heights
    /\ sn \in [FirstBlockHeight..tip -> Snapshot]
    /\ pox_id \in Seq(BOOLEAN)
    /\ last_anchor \in Heights \cup {NoAnchor}
    /\ set_size \in 0..MaxRewardSet
    /\ set_entry \in [Indexes -> Slots \cup {NoSlot}]
    /\ anchor_failure \in {"none", "NotPrepareEndBlock", "MissingParentBlock", "panic"}
    /\ cycle_start \in Heights
    /\ cycle_set \subseteq Slots
    /\ consumed \subseteq Slots
    /\ draws \in Nat

CycleInit ==
    /\ tip = FirstBlockHeight
    /\ sn = [h \in {FirstBlockHeight} |-> InitialSnapshot]
    /\ pox_id = <<TRUE>>
    /\ last_anchor = NoAnchor
    /\ set_size = 0
    /\ set_entry = [i \in Indexes |-> NoSlot]
    /\ anchor_failure = "none"
    /\ cycle_start = FirstBlockHeight
    /\ cycle_set = {}
    /\ consumed = {}
    /\ draws = 0

-----------------------------------------------------------------------------
(* Block commits and the new snapshot. *)

\* LeaderBlockCommitOp::check, of a commit in the block after tip that sees
\* the given recipient and anchor: its outputs must fit its ancestry, and the
\* parent it names is the genesis block or a commit accepted earlier in this
\* fork, which need not have won its sortition.
ValidCommit(c, recipient, anchor) ==
    /\ IF recipient = NoSlot
       THEN ~c.pox
       ELSE descended_from(sn, tip, c.parent_block_ptr, anchor) = IF c.pox THEN "yes" ELSE "no"
    /\ \/ c.parent_block_ptr = 0 /\ c.parent_won
       \/ c.parent_block_ptr \in (FirstBlockHeight + 1)..tip /\ sn[c.parent_block_ptr].sortition

Commits(height) ==
    [sortition : {TRUE}, parent_block_ptr : 0..(height - 1), parent_won : BOOLEAN, pox : BOOLEAN]

\* process_block_ops and append_chain_tip_snapshot: some valid commit wins, or
\* the block has none and there is no sortition.
AppendSnapshot(recipient, anchor) ==
    \E s \in {NoSortition} \cup {c \in Commits(tip + 1) : ValidCommit(c, recipient, anchor)} :
        /\ sn' = [h \in FirstBlockHeight..(tip + 1) |-> IF h = tip + 1 THEN s ELSE sn[h]]
        /\ tip' = tip + 1

-----------------------------------------------------------------------------
(* The reward set. *)

\* pick_recipient inside a reward cycle: an index below the size, if the cycle
\* has an anchor block and entries are left.
PickIndex == IF last_anchor /= NoAnchor /\ set_size > 0 THEN 0..(set_size - 1) ELSE {}

\* Vec::remove: the later entries move down.
RemoveEntry(n, set, ix) == [i \in 0..(n - 2) |-> IF i < ix THEN set[i] ELSE set[i + 1]]

\* The entries written for a new reward set of the given size; entries of an
\* earlier cycle beyond that size stay in the index.
WriteEntries(n, set) == [i \in Indexes |-> IF i < n THEN set[i] ELSE set_entry[i]]

\* The known reward sets: distinct slots, numbered from 0.
RewardSets(n) == {set \in [0..(n - 1) -> Slots] : \A i, j \in 0..(n - 1) : set[i] = set[j] => i = j}

-----------------------------------------------------------------------------
(* evaluate_sortition, by what the block is to the reward cycle. *)

StartsCycle == tip < MaxHeight /\ anchor_failure = "none" /\ is_reward_cycle_start(tip + 1)
InCycle == tip < MaxHeight /\ anchor_failure = "none" /\ ~is_reward_cycle_start(tip + 1)

\* The lookup of the anchor block fails: no snapshot is made, and the next
\* attempt at this block meets the same answer.
AnchorLookupFails ==
    /\ StartsCycle
    /\ AnchorLookup(sn, tip) /= "ok"
    /\ anchor_failure' = AnchorLookup(sn, tip)
    /\ UNCHANGED <<sn, tip, pox_id, last_anchor, set_size, set_entry, history>>

\* What get_reward_cycle_info finds in the prepare phase that ends at tip.
Anchors == ChosenAnchors(sn, tip - PrepareLength, tip)
AnchorFound == StartsCycle /\ AnchorLookup(sn, tip) = "ok"

\* The cycle begins with a PoX bit, an anchor or none, and no recipients.
StartWithoutRecipients(bit, anchor) ==
    /\ pox_id' = Append(pox_id, bit)
    /\ last_anchor' = anchor
    /\ set_size' = 0
    /\ AppendSnapshot(NoSlot, NoAnchor)
    /\ cycle_start' = tip + 1
    /\ cycle_set' = {}
    /\ consumed' = {}
    /\ draws' = 0
    /\ UNCHANGED <<set_entry, anchor_failure>>

\* NotSelected: no block has enough confirmations, which counts as known.
StartCycleWithoutAnchor ==
    /\ AnchorFound
    /\ Anchors = {}
    /\ StartWithoutRecipients(TRUE, NoAnchor)

\* SelectedAndUnknown: the anchor is remembered, its reward set is not known.
StartCycleAnchorUnknown ==
    /\ AnchorFound
    /\ \E a \in Anchors : StartWithoutRecipients(FALSE, a)

\* SelectedAndKnown with an empty reward set.
StartCycleEmptySet ==
    /\ AnchorFound
    /\ \E a \in Anchors : StartWithoutRecipients(TRUE, a)

\* SelectedAndKnown: the first block of the cycle draws the first recipient,
\* and the rest of the set is written.
StartCycleAnchorKnown ==
    /\ AnchorFound
    /\ \E a \in Anchors, n \in 1..MaxRewardSet : \E set \in RewardSets(n), ix \in 0..(n - 1) :
          /\ last_anchor' = a
          /\ set_size' = n - 1
          /\ set_entry' = WriteEntries(n - 1, RemoveEntry(n, set, ix))
          /\ AppendSnapshot(set[ix], a)
          /\ cycle_set' = {set[i] : i \in 0..(n - 1)}
          /\ consumed' = {set[ix]}
    /\ pox_id' = Append(pox_id, TRUE)
    /\ cycle_start' = tip + 1
    /\ draws' = 1
    /\ UNCHANGED anchor_failure

\* Mutant: the size shrinks but the drawn entry is not overwritten.
DrawRecipient_KeepsEntry ==
    /\ InCycle
    /\ \E ix \in PickIndex :
          /\ AppendSnapshot(set_entry[ix], last_anchor)
          /\ consumed' = consumed \cup {set_entry[ix]}
    /\ set_size' = set_size - 1
    /\ draws' = draws + 1
    /\ UNCHANGED <<set_entry, pox_id, last_anchor, anchor_failure, cycle_start, cycle_set>>

\* A later block of the cycle draws a recipient, whose entry is overwritten
\* by the last one.
DrawRecipient ==
    /\ InCycle
    /\ \E ix \in PickIndex :
          /\ set_entry' = [set_entry EXCEPT ![ix] = set_entry[set_size - 1]]
          /\ AppendSnapshot(set_entry[ix], last_anchor)
          /\ consumed' = consumed \cup {set_entry[ix]}
    /\ set_size' = set_size - 1
    /\ draws' = draws + 1
    /\ UNCHANGED <<pox_id, last_anchor, anchor_failure, cycle_start, cycle_set>>

\* A later block of the cycle without a recipient.
NoRecipient ==
    /\ InCycle
    /\ PickIndex = {}
    /\ AppendSnapshot(NoSlot, NoAnchor)
    /\ UNCHANGED <<pox_id, last_anchor, set_size, set_entry, anchor_failure, history>>

CycleNext ==
    \/ AnchorLookupFails
    \/ StartCycleWithoutAnchor
    \/ StartCycleAnchorUnknown
    \/ StartCycleEmptySet
    \/ StartCycleAnchorKnown
    \/ DrawRecipient
    \/ NoRecipient

CycleSpec == CycleInit /\ [][CycleNext]_cycle_vars

-----------------------------------------------------------------------------
(* Safety. *)

LiveEntries == {set_entry[i] : i \in 0..(set_size - 1)}

\* The reward set is conserved: the entries below pox_reward_set_size are
\* distinct, none of them was drawn before or is a left-over of an earlier
\* cycle, and with the drawn ones they make up the set the cycle began with,
\* through Vec::remove in its first block and swap-removal in the others.
RewardSetConserved ==
    /\ \A i, j \in 0..(set_size - 1) : set_entry[i] = set_entry[j] => i = j
    /\ LiveEntries \cap consumed = {}
    /\ LiveEntries \cup consumed = cycle_set

\* No entry of the reward set is a recipient twice in a reward cycle.
NoDoubleDraw == Cardinality(consumed) = draws

\* A block of a reward cycle goes without a recipient only when every entry of
\* the set has had its turn.
NoEntrySkipped == draws < tip - cycle_start + 1 => set_size = 0

\* Along every fork the recipients of a reward cycle are distinct entries of its
\* reward set, and none of them is left out while blocks of the cycle remain.
DrawsAreFair == NoDoubleDraw /\ NoEntrySkipped

\* The assertion in get_chosen_pox_anchor: at most one block has
\* anchor_threshold confirmations.
AtMostOneAnchor ==
    AnchorLookup(sn, tip) = "ok" => \A a, b \in Anchors : a = b

\* The assertion and the early returns of get_chosen_pox_anchor on the way from
\* get_reward_cycle_info: where the first block height is a multiple of the cycle
\* length, every start of a reward cycle follows a prepare-phase end, and the
\* lookup fails only for a winner that builds on genesis by height 0.
LookupFailsOnlyOnGenesis ==
    anchor_failure /= "none" =>
        /\ anchor_failure = "panic"
        /\ \E w \in Winners(sn, tip - PrepareLength, tip) : sn[w].parent_block_ptr = 0
=============================================================================
