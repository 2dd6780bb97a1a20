--------------------------- MODULE MCCoordinator ---------------------------
(* Coordinator on burn chains of a few blocks, with reward cycles of two. *)
EXTENDS Coordinator

CONSTANTS b1, b2, b3, b4, b5, c2, c3

\* The chain b1-b2-b3-b4-b5, and the fork b1-c2-c3.
Tree == {b1, b2, b3, b4, b5, c2, c3}
TreeParent == b1 :> FirstBurn @@ b2 :> b1 @@ b3 :> b2 @@ b4 :> b3 @@ b5 :> b4 @@ c2 :> b1 @@ c3 :> c2
TreeOrder == FirstBurn :> 0 @@ b1 :> 1 @@ c2 :> 2 @@ b2 :> 3 @@ b3 :> 4 @@ c3 :> 5 @@ b4 :> 6 @@ b5 :> 7

Commit(ptr, pox) == [parent_block_ptr |-> ptr, pox |-> pox, present |-> TRUE]
Plain(ptrs) == {Commit(ptr, FALSE) : ptr \in ptrs}
Pox(ptrs) == {Commit(ptr, TRUE) : ptr \in ptrs}

\* One commit for each burn block, of those it may carry.
Choose(may, what) ==
    {[commits |-> c, faults |-> what] :
        c \in {f \in [DOMAIN may -> UNION Range(may)] : \A b \in DOMAIN may : f[b] \in may[b]}}

\* Every commit that can be valid somewhere.
AnyCommits ==
    Choose(b1 :> {NoCommit} \cup Plain({0})
           @@ b2 :> {NoCommit} \cup Plain({0, 1})
           @@ b3 :> {NoCommit} \cup Plain(0..2) \cup Pox({1, 2})
           @@ b4 :> {NoCommit} \cup Plain(0..3) \cup Pox({1, 2, 3}), {})

\* Commits around one PoX fork, with all that can go wrong.
WithFaults ==
    Choose(b1 :> Plain({0})
           @@ b2 :> Plain({1})
           @@ b3 :> Plain({0, 2}) \cup Pox({2})
           @@ b4 :> {NoCommit} \cup Plain({3}) \cup Pox({1, 3}), Faults)

\* Two reward cycles whose anchor may be the same block.
SharedAnchor ==
    Choose(b1 :> Plain({0})
           @@ b2 :> Plain({1})
           @@ b3 :> {NoCommit} \cup Pox({2})
           @@ b4 :> Plain({1}) \cup Pox({1, 3})
           @@ b5 :> {NoCommit} \cup Pox({4}), {})

\* Two burn chains, and a crash.
Forks ==
    Choose(b1 :> Plain({0})
           @@ b2 :> Plain({1})
           @@ b3 :> {NoCommit} \cup Plain({2}) \cup Pox({1})
           @@ c2 :> Plain({1})
           @@ c3 :> {NoCommit} \cup Plain({2}), {"Crash"})

\* One PoX fork and a block that only wins after the unwind.
CatchUp == Choose(b1 :> Plain({0}) @@ b2 :> Plain({1}) @@ b3 :> Pox({2}) @@ b4 :> {NoCommit} \cup Pox({3}), {"Crash"})

AllScenarios == AnyCommits \cup WithFaults \cup SharedAnchor \cup Forks
=============================================================================
