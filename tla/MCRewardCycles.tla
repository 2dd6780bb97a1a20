--------------------------- MODULE MCRewardCycles ---------------------------
(***************************************************************************)
(* Two views of the sortition database: PoX along one fork (RewardCycles)  *)
(* and the operations of the burn blocks of all forks (Sortitions).  A     *)
(* behaviour is one of the machine that "machine" names; the other stays   *)
(* where it starts.                                                        *)
(*                                                                         *)
(* The reference definition of ancestry for RewardCycles does not follow   *)
(* the code: the set of all proper ancestors of a block instead of a walk  *)
(* with early exits.                                                       *)
(***************************************************************************)
EXTENDS RewardCycles, Sortitions, TLC

VARIABLES machine

SlotSymmetry == Permutations(Slots)

\* The operations that burn blocks can hold.  Keys can be registered at 2 and 3, by two
\* addresses, and again with another; commits use the keys of 2 and 3, some of them the same
\* key or the same block, and build on genesis or on two commits of 3.
Key(i, public_key, address) ==
    [type |-> "key", vtxindex |-> i, public_key |-> public_key, address |-> address, consensus |-> 1]
Commit(i, block, key, parent, burn_fee, address) ==
    [type |-> "commit", vtxindex |-> i, block |-> block, key |-> key, parent |-> parent,
     burn_fee |-> burn_fee, address |-> address]
UserBurn(i, block, public_key, key, burn_fee) ==
    [type |-> "user", vtxindex |-> i, block |-> block, public_key |-> public_key, key |-> key,
     burn_fee |-> burn_fee, consensus |-> 2]
MCTxs ==
    {Key(1, "k1", "a"), Key(2, "k1", "b"), Key(2, "k2", "b"),
     Commit(1, "x", <<2, 1>>, <<0, 0>>, 2, "a"), Commit(2, "y", <<2, 1>>, <<0, 0>>, 3, "a"),
     Commit(3, "x", <<2, 2>>, <<0, 0>>, 1, "b"), Commit(3, "y", <<2, 2>>, <<3, 1>>, 2, "b"),
     Commit(4, "z", <<3, 2>>, <<3, 3>>, 1, "b"),
     UserBurn(5, "x", "k1", <<2, 1>>, 1), UserBurn(6, "x", "k2", <<2, 1>>, 3)}

all_vars == <<machine, cycle_vars, fork_vars>>

MCInit == machine \in {"cycles", "sortitions"} /\ CycleInit /\ ForkInit

MCNext ==
    /\ UNCHANGED machine
    /\ \/ machine = "cycles" /\ CycleNext /\ UNCHANGED fork_vars
       \/ machine = "sortitions" /\ ForkNext /\ UNCHANGED cycle_vars

MCSpec == MCInit /\ [][MCNext]_all_vars

\* The heights above which a block builds, by the parent heights that commits
\* name.
NamedAncestors ==
    LET above[h \in FirstBlockHeight..tip] ==
            IF h = FirstBlockHeight \/ ~sn[h].sortition \/ sn[h].parent_block_ptr < FirstBlockHeight THEN {}
            ELSE {sn[h].parent_block_ptr} \cup above[sn[h].parent_block_ptr]
    IN  above

PrepareEnd == (tip - FirstBlockHeight) % RewardCycleLength = 0 /\ AnchorLookup(sn, tip) = "ok"

\* get_chosen_pox_anchor: the anchor is the block with enough confirmations, where a winner
\* in the prepare phase confirms its highest ancestor from before it; the lookup fails only
\* as LookupFailsOnlyOnGenesis of RewardCycles says.
AnchorMatchesReference ==
    /\ LookupFailsOnlyOnGenesis
    /\ PrepareEnd =>
        LET begin == tip - PrepareLength
            above == NamedAncestors
            vote(w) == Max(above[w] \cap FirstBlockHeight..begin)
        IN  Anchors = {a \in FirstBlockHeight..begin :
                          Quantify(Winners(sn, begin, tip), LAMBDA w : vote(w) = a) >= AnchorThreshold}

\* A winning commit of this reward cycle paid a PoX recipient exactly if the
\* cycle still had one for its block and the commit descends from the anchor.
PoxOutputsFitAncestry ==
    LET above == NamedAncestors
    IN  \A h \in cycle_start..tip :
            h > FirstBlockHeight /\ sn[h].sortition =>
                (sn[h].pox <=> /\ h - cycle_start < Cardinality(cycle_set)
                               /\ last_anchor \in above[h])
=============================================================================
