----------------------------- MODULE Sortitions -----------------------------
(***************************************************************************)
(* The forks of the sortition database, by the operations of their burn    *)
(* blocks: leaders register VRF keys, commit to Stacks blocks with a key   *)
(* registered before, and users burn in support of such a commit.  A step  *)
(* is one call of SortitionHandleTx::process_block_ops                     *)
(* (src/src/chainstate/burn/db/processing.rs): it checks the operations of *)
(* a burn block against the fork it extends, makes the burn distribution,  *)
(* draws the winner and stores the snapshot with the accepted operations.  *)
(*                                                                         *)
(* A snapshot is known by its place in snap, which stands for its          *)
(* sortition id and its consensus hash.  A location is a height and a      *)
(* vtxindex.  The hash that picks the winner is an input.  The outputs of  *)
(* a commit and the reward set are in RewardCycles.                        *)
(***************************************************************************)
EXTENDS Integers, Sequences, FiniteSets, FiniteSetsExt

CONSTANTS
    Txs,          \* operations that a burn block can hold
    FirstHeight,  \* first_block_height
    Lifetime,     \* consensus_hash_lifetime
    Uint256Max,   \* Uint256::max()
    U64Max,       \* u64::max_value()
    NoWinner,     \* the winner where there is no sortition
    MaxOps,       \* bound: operations of a burn block
    MaxSnapshots  \* bound: snapshots of all forks

VARIABLES
    snap,    \* the snapshots, each with what a reader of its fork sees
    panic  \* why processing stopped the node, or "none"

fork_vars == <<snap, panic>>

\* at is the index from heights to the snapshots of the fork, vrf_keys the public keys and
\* blocks the Stacks blocks it has on record; the operations are the rows of this snapshot.
Initial ==
    [height |-> FirstHeight, at |-> [h \in {FirstHeight} |-> 1], winner |-> NoWinner, total_burn |-> 0,
     vrf_keys |-> {}, blocks |-> {}, leader_keys |-> {}, block_commits |-> {}, user_burns |-> {}]

ForkInit == snap = <<Initial>> /\ panic = "none"

-----------------------------------------------------------------------------
(* What a fork says, up to snapshot n. *)

\* Mutant: the rows of a height, on whichever fork.
Rows_AnyFork(n, table, loc) ==
    UNION {{op \in snap[m][table] : op.vtxindex = loc[2]} : m \in {i \in DOMAIN snap : snap[i].height = loc[1]}}

\* The operations at a location of the fork.
Rows(n, table, loc) ==
    IF loc[1] \in DOMAIN snap[n].at THEN {op \in snap[snap[n].at[loc[1]]][table] : op.vtxindex = loc[2]} ELSE {}

get_leader_key_at(n, loc) == Rows(n, "leader_keys", loc)

get_block_commit_parent(n, loc) == Rows(n, "block_commits", loc)

has_VRF_public_key(n, key) == key \in snap[n].vrf_keys

expects_stacks_block_in_fork(n, block) == block \in snap[n].blocks

is_fresh_consensus_hash(n, id) ==
    \E h \in DOMAIN snap[n].at : h >= snap[n].height - Lifetime /\ snap[n].at[h] = id

-----------------------------------------------------------------------------
(* The checks of single operations, in the block after snapshot n. *)

\* LeaderKeyRegisterOp::check
CheckKey(op, n) ==
    /\ ~has_VRF_public_key(n, op.public_key)
    /\ is_fresh_consensus_hash(n, op.consensus)

\* LeaderBlockCommitOp::parse_from_tx and check.  <<0, 0>> is the genesis block.
CheckCommit(op, n) ==
    /\ op.parent[1] = 0 => op.parent[2] = 0
    /\ op.parent[1] <= snap[n].height
    /\ op.key[1] \in 1..snap[n].height
    /\ op.burn_fee > 0
    /\ ~expects_stacks_block_in_fork(n, op.block)
    /\ \E k \in get_leader_key_at(n, op.key) : k.address = op.address
    /\ op.parent = <<0, 0>> \/ get_block_commit_parent(n, op.parent) # {}

\* UserBurnSupportOp::parse_from_tx and check: the public key it names is not compared with
\* the one at the location it names.
CheckUserBurn(op, n) ==
    /\ is_fresh_consensus_hash(n, op.consensus)
    /\ op.key[1] \in 1..(snap[n].height + 1)
    /\ get_leader_key_at(n, op.key) # {}

check_transaction(op, n) ==
    /\ op.type = "key" => CheckKey(op, n)
    /\ op.type = "commit" => CheckCommit(op, n)
    /\ op.type = "user" => CheckUserBurn(op, n)

-----------------------------------------------------------------------------
(* The checks of a block. *)

OfType(ops, type) == {op \in ops : op.type = type}

\* The first registration of a key stays.
filter_block_VRF_dups(ops) ==
    {op \in ops : op.type = "key" =>
        ~\E o \in OfType(ops, "key") : o.public_key = op.public_key /\ o.vtxindex < op.vtxindex}

\* Of the commits with one key, the first of those that burn most stays.
filter_block_commits_with_same_VRF_key(ops) ==
    {op \in ops : op.type = "commit" =>
        ~\E o \in OfType(ops, "commit") :
            /\ o.key = op.key
            /\ \/ o.burn_fee > op.burn_fee
               \/ o.burn_fee = op.burn_fee /\ o.vtxindex < op.vtxindex}

check_block_ops(txs, n) ==
    filter_block_commits_with_same_VRF_key(filter_block_VRF_dups({op \in txs : check_transaction(op, n)}))

-----------------------------------------------------------------------------
(* The burn distribution. *)

Burns(ops) == MapThenSumSet(LAMBDA op : op.burn_fee, ops)

\* get_consumed_leader_keys: the key of an accepted commit.
ConsumedKey(c, n) == CHOOSE k \in get_leader_key_at(n, c.key) : TRUE

\* apply_user_burns: those with the public key and the block of the commit.
SupportOf(c, users, n) ==
    {u \in users : u.public_key = ConsumedKey(c, n).public_key /\ u.block = c.block}

\* make_distribution without the ranges: one sample point for each commit.
BurnSample(ops, n) ==
    LET point(c) ==
            LET users == SupportOf(c, OfType(ops, "user"), n)
            IN  [candidate |-> c, burns |-> c.burn_fee + Burns(users), user_burns |-> users]
    IN  {point(c) : c \in OfType(ops, "commit")}

\* The total, without the check that it is a u64.
TotalBurns(points) == MapThenSumSet(LAMBDA p : p.burns, points)

\* Where a range ends, by the points up to its own; it starts where the one before it ends.
RangeEnd(dist, upto) == (Uint256Max * TotalBurns(upto)) \div TotalBurns(dist)

\* Mutant: a range starts after the end of the one before it.
make_sortition_ranges_Gap(dist) ==
    LET before(p) == {q \in dist : q.candidate.vtxindex < p.candidate.vtxindex}
    IN  [p \in dist |-> [start |-> IF before(p) = {} THEN 0 ELSE RangeEnd(dist, before(p)) + 1,
                         end |-> RangeEnd(dist, before(p) \cup {p})]]

make_sortition_ranges(dist) ==
    LET before(p) == {q \in dist : q.candidate.vtxindex < p.candidate.vtxindex}
    IN  [p \in dist |-> IF Cardinality(dist) = 1 THEN [start |-> 0, end |-> Uint256Max]
                        ELSE [start |-> RangeEnd(dist, before(p)),
                              end |-> RangeEnd(dist, before(p) \cup {p})]]

\* The sample points that the index falls to.
sample_burn_distribution(dist, index) ==
    LET range == make_sortition_ranges(dist)
    IN  {p \in dist : Cardinality(dist) = 1 \/ (range[p].start <= index /\ index < range[p].end)}

\* select_winning_block: the commit that won the last sortition of the fork, for its VRF seed,
\* has to be in the database.
LastWinnerStored(n) ==
    LET s(h) == snap[snap[n].at[h]]
        won == {h \in DOMAIN snap[n].at : s(h).winner # NoWinner}
    IN  \A h \in won : (\A g \in won : g <= h) => s(h).winner \in s(h).block_commits

\* The assertions and panics of get_consumed_leader_keys, make_distribution, apply_user_burns
\* and make_sortition_ranges, on the operations that passed the checks.
DistributionPanic(ops, n) ==
    LET commits == OfType(ops, "commit")
        clash(c, d) == c # d /\ c.key = d.key
        pair(c) == <<ConsumedKey(c, n).public_key, c.block>>
    IN  CASE \E c \in commits : get_leader_key_at(n, c.key) = {} -> "no leader key"
          [] \E c, d \in commits : clash(c, d) -> "duplicate entry"
          [] \E c, d \in commits : c # d /\ pair(c) = pair(d) -> "duplicate pair"
          [] Cardinality(commits) > 1 /\ TotalBurns(BurnSample(ops, n)) >= U64Max -> "total burns"
          [] OTHER -> "none"

-----------------------------------------------------------------------------
(* The snapshot. *)

\* from_block_ops: the keys, the commits of the distribution and the user burns they got.
AcceptedUserBurns(dist) == UNION {p.user_burns : p \in dist}

\* make_snapshot: no sortition without burns, or where a total is more than a u64 holds.
HasSortition(dist, n) ==
    LET total == TotalBurns(dist)
    IN  /\ dist # {}
        /\ total > 0
        /\ total < U64Max
        /\ snap[n].total_burn + total <= U64Max

\* append_chain_tip_snapshot and index_add_fork_info: the rows of the new snapshot, and its
\* index, which adds to that of its parent.
Appended(n, ops, dist, winner) ==
    LET height == snap[n].height + 1
        keys == OfType(ops, "key")
        won == winner # NoWinner
    IN  [height |-> height,
         at |-> [h \in FirstHeight..height |-> IF h = height THEN Len(snap) + 1 ELSE snap[n].at[h]],
         winner |-> winner,
         total_burn |-> snap[n].total_burn + IF won THEN TotalBurns(dist) ELSE 0,
         vrf_keys |-> snap[n].vrf_keys \cup {k.public_key : k \in keys},
         blocks |-> snap[n].blocks \cup IF won THEN {winner.block} ELSE {},
         leader_keys |-> keys,
         block_commits |-> {p.candidate : p \in dist},
         user_burns |-> AcceptedUserBurns(dist)]

-----------------------------------------------------------------------------
\* The operations of one burn block, in the order of their vtxindex.
BurnBlocks ==
    {txs \in UNION {kSubset(k, Txs) : k \in 0..MaxOps} :
        \A a, b \in txs : a.vtxindex = b.vtxindex => a = b}

CanProcess == panic = "none" /\ Len(snap) < MaxSnapshots

\* process_checked_block_ops, where nothing can be drawn.
NothingDrawn(n, ops, dist) ==
    /\ ~HasSortition(dist, n)
    /\ snap' = Append(snap, Appended(n, ops, dist, NoWinner))
    /\ UNCHANGED panic

\* The same with a sortition: index is the hash, mixed with the VRF seed of the last winner.
Sortition(n, ops, dist) ==
    /\ HasSortition(dist, n)
    /\ LastWinnerStored(n)
    /\ \E index \in 0..Uint256Max : \E p \in sample_burn_distribution(dist, index) :
           snap' = Append(snap, Appended(n, ops, dist, p.candidate))
    /\ UNCHANGED panic

\* No seed to mix, or no range that has the index.
SortitionPanics(n, dist) ==
    /\ HasSortition(dist, n)
    /\ LastWinnerStored(n) => \E index \in 0..Uint256Max : sample_burn_distribution(dist, index) = {}
    /\ panic' = IF LastWinnerStored(n) THEN "unable to map" ELSE "no winning commit"
    /\ UNCHANGED snap

\* A burn block on top of snapshot n.
process_block_ops(n, txs) ==
    LET ops == check_block_ops(txs, n)
        dist == BurnSample(ops, n)
        reason == DistributionPanic(ops, n)
    IN  /\ CanProcess
        /\ \/ reason # "none" /\ panic' = reason /\ UNCHANGED snap
           \/ /\ reason = "none"
              /\ NothingDrawn(n, ops, dist) \/ Sortition(n, ops, dist) \/ SortitionPanics(n, dist)

ForkNext == \E n \in DOMAIN snap, txs \in BurnBlocks : process_block_ops(n, txs)

ForkSpec == ForkInit /\ [][ForkNext]_fork_vars

-----------------------------------------------------------------------------
(* Properties *)

ParentOf(n) == snap[n].at[snap[n].height - 1]

\* Of the assertions and panics on the way to a snapshot only two can be met: the largest hash
\* is in no range, and make_sortition_ranges unwraps a total that make_snapshot would answer
\* with no sortition.
PanicsAreKnown == panic \in {"none", "unable to map", "total burns"}

\* make_distribution, sample_burn_distribution and make_snapshot: every hash but the largest
\* draws one commit, each commit wins its part of the hashes by what was burned for it, up to
\* rounding, and the total of the fork grows by these burns; and no other panic can be met.
SortitionsFollowBurns ==
    /\ PanicsAreKnown
    /\ \A n \in {m \in DOMAIN snap : snap[m].winner # NoWinner} :
        LET rows == snap[n].block_commits \cup snap[n].user_burns
            total == Burns(rows)
            dist == BurnSample(rows, ParentOf(n))
            drawn == [index \in 0..(Uint256Max - 1) |-> sample_burn_distribution(dist, index)]
            wins(p) == Cardinality({index \in DOMAIN drawn : p \in drawn[index]})
            error(p) == wins(p) * total - Uint256Max * p.burns
        IN  /\ \A index \in DOMAIN drawn : Cardinality(drawn[index]) = 1
            /\ \A p \in dist : -total < error(p) /\ error(p) < total
            /\ snap[n].total_burn = snap[ParentOf(n)].total_burn + total

\* The checks of LeaderKeyRegisterOp and LeaderBlockCommitOp and the filters of a block: on
\* every fork a public key is registered once and a Stacks block wins once, and a commit has its
\* key, of the same address, and its parent in earlier blocks of its own fork.
ForksAreSound ==
    \A n \in DOMAIN snap :
        LET fork == DOMAIN snap[n].at
            s(h) == snap[snap[n].at[h]]
        IN  /\ \A g, h \in fork : \A k \in s(g).leader_keys, l \in s(h).leader_keys :
                    k.public_key = l.public_key => g = h /\ k = l
            /\ \A g, h \in fork :
                    s(g).winner # NoWinner /\ s(h).winner # NoWinner /\ s(g).winner.block = s(h).winner.block
                        => g = h
            /\ \A c \in snap[n].block_commits :
                    /\ c.key[1] \in fork \ {snap[n].height}
                    /\ \E k \in s(c.key[1]).leader_keys : k.vtxindex = c.key[2] /\ k.address = c.address
                    /\ \/ c.parent = <<0, 0>>
                       \/ /\ c.parent[1] \in fork \ {snap[n].height}
                          /\ \E p \in s(c.parent[1]).block_commits : p.vtxindex = c.parent[2]
=============================================================================
