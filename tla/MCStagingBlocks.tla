-------------------------- MODULE MCStagingBlocks --------------------------
(* StagingBlocks on small trees of blocks. *)
EXTENDS StagingBlocks, TLC

CONSTANTS a1, b1, c1, d1

\* a1 - b1 - d1 and a1 - c1: b1 and c1 compete, and confirm different parts of the
\* stream after a1.
Competing ==
    [parent |-> a1 :> Genesis @@ b1 :> a1 @@ c1 :> a1 @@ d1 :> b1,
     hash |-> [x \in {a1, b1, c1, d1} |-> x],
     pox_fork |-> [x \in {a1, b1, c1, d1} |-> 1],
     confirms |-> a1 :> 0 @@ b1 :> 1 @@ c1 :> 2 @@ d1 :> 0,
     stream_length |-> 2, equivocated |-> {}, detached |-> {b1}, crashes |-> 0]

\* The same without d1, with a crash.
Crashing ==
    [parent |-> a1 :> Genesis @@ b1 :> a1 @@ c1 :> a1,
     hash |-> [x \in {a1, b1, c1} |-> x],
     pox_fork |-> [x \in {a1, b1, c1} |-> 1],
     confirms |-> a1 :> 0 @@ b1 :> 1 @@ c1 :> 2,
     stream_length |-> 2, equivocated |-> {}, detached |-> {}, crashes |-> 1]

\* b1 follows a1 and d1 follows c1 on another PoX fork; a1 and c1 have one hash.
Twins ==
    [parent |-> a1 :> Genesis @@ b1 :> a1 @@ c1 :> Genesis @@ d1 :> c1,
     hash |-> a1 :> a1 @@ b1 :> b1 @@ c1 :> a1 @@ d1 :> d1,
     pox_fork |-> a1 :> 1 @@ b1 :> 1 @@ c1 :> 2 @@ d1 :> 2,
     confirms |-> a1 :> 0 @@ b1 :> 1 @@ c1 :> 0 @@ d1 :> 1,
     stream_length |-> 1, equivocated |-> {c1}, detached |-> {b1}, crashes |-> 0]

AllTrees == {Competing, Crashing, Twins}
=============================================================================
