---------------------------- MODULE MCNodeThreads ----------------------------
(* NodeThreads around a channel with one slot. *)
EXTENDS NodeThreads

\* The burn chain is high enough to register a key, to mine with it, and to win or
\* to come too late.
AllScenarios == {
    [height |-> 4, reorgs |-> 0, results |-> 3, restarts |-> 0, stops |-> TRUE],
    [height |-> 5, reorgs |-> 1, results |-> 0, restarts |-> 0, stops |-> FALSE],
    [height |-> 5, reorgs |-> 0, results |-> 0, restarts |-> 1, stops |-> FALSE],
    [height |-> 4, reorgs |-> 1, results |-> 0, restarts |-> 1, stops |-> FALSE]}
=============================================================================
