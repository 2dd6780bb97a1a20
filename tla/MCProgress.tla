----------------------------- MODULE MCProgress -----------------------------
(***************************************************************************)
(* The two loops of the coordinator thread must make progress: sortitions, *)
(* and staged blocks.  A behaviour is one of the machine that "machine"    *)
(* names; the other stays where it starts.                                 *)
(***************************************************************************)
EXTENDS MCCoordinator

CONSTANTS a1, c1, Genesis, AllBlocks, Trees

VARIABLES
    machine,
    tree, invalid, bad_seq, valid_pox, row, ready, file, mrow, mdata, stream, clarity, headers,
    in_sortdb, storing, announced, at, cur, more, fault, restarts

S == INSTANCE StagingBlocks WITH
        attachable <- ready, signal <- announced, pc <- at, failure <- fault, crashes <- restarts

\* The blocks b1 and c1 follow a1 and confirm its one microblock.
Siblings ==
    [parent |-> a1 :> Genesis @@ b1 :> a1 @@ c1 :> a1,
     hash |-> [x \in {a1, b1, c1} |-> x],
     pox_fork |-> [x \in {a1, b1, c1} |-> 1],
     confirms |-> a1 :> 0 @@ b1 :> 1 @@ c1 :> 1,
     stream_length |-> 1, equivocated |-> {}, detached |-> {b1}, crashes |-> 0]

\* The stream after a1 forks: b1, which confirms it, stays staged, and c1, which does not,
\* is to be processed all the same.  c1 is on another PoX fork, which may be unwound before
\* a1 comes.
PoisonedSibling ==
    [Siblings EXCEPT !.confirms[c1] = 0, !.pox_fork[c1] = 2, !.equivocated = {a1}, !.detached = {}]

ProgressTrees == {Siblings, PoisonedSibling}

s_vars == <<tree, invalid, bad_seq, valid_pox, row, ready, file, mrow, mdata, stream, clarity, headers,
            in_sortdb, storing, announced, at, cur, more, fault, restarts>>
all_vars == <<machine, vars, s_vars>>
Sorting == machine = "sortitions"
Staging == machine = "staging"

MCInit ==
    /\ machine \in {"sortitions", "staging"}
    /\ Init /\ S!Init
    /\ Sorting => tree = Siblings /\ invalid = {} /\ bad_seq[a1] = 1
    /\ Staging => commits[b4] = NoCommit

MCNext ==
    /\ UNCHANGED machine
    /\ \/ Sorting /\ Next /\ UNCHANGED s_vars
       \/ Staging /\ S!Next /\ UNCHANGED vars

\* The fairness of the FairSpec of each.
MCFairSpec ==
    /\ MCInit /\ [][MCNext]_all_vars
    /\ WF_vars(Sorting /\ Work)
    /\ WF_s_vars(Staging /\ S!Work) /\ WF_s_vars(Staging /\ S!CommitStagingBlock)
    /\ WF_s_vars(Staging /\ S!NewBurnBlock)
    /\ \A b \in AllBlocks : SF_s_vars(Staging /\ S!Process(b)) /\ SF_s_vars(Staging /\ S!CollectOrphan(b))

\* A staged block whose parent was accepted and whose microblocks are there, and do not
\* fork, is accepted or rejected, whatever else is staged: see StagingBlocks.
ReadyIsProcessed == Staging => S!ReadyIsProcessed

\* Orphaned blocks are rejected and their files emptied: see StagingBlocks.
OrphansAreCollected == Staging => S!OrphansAreCollected
=============================================================================
