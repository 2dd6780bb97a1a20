----------------------------- MODULE PoxAnchor -----------------------------
(***************************************************************************)
(* Reward-cycle arithmetic (src/src/burnchains/burnchain.rs), the choice   *)
(* of a PoX anchor block (get_chosen_pox_anchor) and the ancestry test of  *)
(* block commits (descended_from), both in                                 *)
(* src/src/chainstate/burn/db/sortdb.rs.                                   *)
(*                                                                         *)
(* They read the sortitions of one fork, given here as a function sn from  *)
(* burn heights to snapshots.  Of the winning block commit a snapshot      *)
(* keeps the height it names as its parent, whether the commit it names    *)
(* there was that height's winner, and whether it paid a PoX recipient.    *)
(* A block commit is thus identified by the height of its sortition.       *)
(***************************************************************************)
EXTENDS Integers, FiniteSets

CONSTANTS
    FirstBlockHeight,   \* burnchain.first_block_height
    RewardCycleLength,  \* the fields of struct PoxConstants
    PrepareLength,
    AnchorThreshold

\* PoxConstants::new asserts the last conjunct.
ASSUME PoxConstants ==
    /\ FirstBlockHeight \in Nat
    /\ RewardCycleLength \in Nat \ {0}
    /\ PrepareLength \in Nat
    /\ AnchorThreshold \in Nat
    /\ AnchorThreshold > PrepareLength \div 2

Snapshot == [sortition : BOOLEAN, parent_block_ptr : Nat, parent_won : BOOLEAN, pox : BOOLEAN]

\* BlockSnapshot::initial: the sentinel counts as a sortition, won by the
\* genesis block.
InitialSnapshot ==
    [sortition |-> TRUE, parent_block_ptr |-> 0, parent_won |-> TRUE, pox |-> FALSE]

NoSortition ==
    [sortition |-> FALSE, parent_block_ptr |-> 0, parent_won |-> TRUE, pox |-> FALSE]

-----------------------------------------------------------------------------
(* Heights and reward cycles. *)

is_reward_cycle_start(height) ==
    /\ height > FirstBlockHeight + 1
    /\ (height - FirstBlockHeight) % RewardCycleLength = 1

-----------------------------------------------------------------------------
(* get_chosen_pox_anchor, for the prepare phase (begin, end]. *)

\* get_sortition_winners_in_fork
Winners(sn, begin, end) == {h \in (begin + 1)..end : sn[h].sortition}

\* Mutant: the walk stops one block too late, at the parent of the first
\* block outside the prepare phase.
Candidate_TooFar(sn, begin, end) ==
    LET cursor[h \in FirstBlockHeight..end] ==
            IF h < begin \/ sn[h].parent_block_ptr < FirstBlockHeight THEN h ELSE cursor[sn[h].parent_block_ptr]
    IN  cursor

\* The height at which the walk back from each winner leaves the prepare
\* phase.  The code memoizes the walk by winner; since winners come in
\* increasing order, a remembered walk is the one from the parent.
Candidate(sn, begin, end) ==
    LET cursor[h \in FirstBlockHeight..end] ==
            IF h <= begin THEN h ELSE cursor[sn[h].parent_block_ptr]
    IN  cursor

\* candidate_anchors: the winners that confirm the block chosen at height a.
Confirmations(sn, begin, end, a) ==
    {w \in Winners(sn, begin, end) : Candidate(sn, begin, end)[w] = a}

\* The candidates that pass the test against anchor_threshold.
ChosenAnchors(sn, begin, end) ==
    {a \in FirstBlockHeight..begin :
        Cardinality(Confirmations(sn, begin, end, a)) >= AnchorThreshold}

\* A winner whose parent height is not in this fork.
DanglingParent(sn, begin, end) ==
    \E w \in Winners(sn, begin, end) : sn[w].parent_block_ptr \notin FirstBlockHeight..end

\* How get_chosen_pox_anchor ends when called for a block at height end:
\* an error of its own, a failed lookup, a failed expect(), or "ok".
AnchorLookup(sn, end) ==
    IF end % RewardCycleLength /= 0 \/ end < PrepareLength THEN "NotPrepareEndBlock"
    ELSE IF end - PrepareLength + 1 < FirstBlockHeight THEN "MissingParentBlock"
    ELSE IF DanglingParent(sn, end - PrepareLength, end) THEN "panic"
    ELSE "ok"

-----------------------------------------------------------------------------
\* Mutant: the walk does not look at the block it starts from.
descended_from_Strict(sn, tip, height, anchor) ==
    LET walk[h \in FirstBlockHeight..tip] ==
            IF h < anchor \/ ~sn[h].sortition THEN "no"
            ELSE IF sn[h].parent_block_ptr = anchor THEN "yes"
            ELSE IF sn[h].parent_block_ptr \in FirstBlockHeight..tip
                 THEN walk[sn[h].parent_block_ptr] ELSE "error"
    IN  IF height \in FirstBlockHeight..tip THEN walk[height] ELSE "error"

\* descended_from: is the block chosen at the given height the anchor, or does
\* it descend from it, following parent pointers in the fork with that tip?
descended_from(sn, tip, height, anchor) ==
    LET walk[h \in FirstBlockHeight..tip] ==
            IF h < anchor \/ ~sn[h].sortition THEN "no"
            ELSE IF h = anchor THEN "yes"
            ELSE IF sn[h].parent_block_ptr \in FirstBlockHeight..tip
                 THEN walk[sn[h].parent_block_ptr] ELSE "error"
    IN  IF height \in FirstBlockHeight..tip THEN walk[height] ELSE "error"
=============================================================================
