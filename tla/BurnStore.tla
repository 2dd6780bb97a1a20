------------------------------ MODULE BurnStore ------------------------------
(***************************************************************************)
(* What Burnchain::sync_with_indexer promises about the burn blocks of one *)
(* range (src/src/burnchains/burnchain.rs): they are stored in order, and  *)
(* the call succeeds when all of them are.  Where the database already     *)
(* reaches the end of the range, with blocks of a fork that was abandoned, *)
(* it may also succeed with none.                                          *)
(***************************************************************************)
EXTENDS Naturals, Sequences

CONSTANT N \* burn blocks start_block + 1 .. end_block, numbered from 1

VARIABLES
    tip,    \* the tip of the database at the start, numbered likewise
    stored, \* the blocks stored by this call, in order
    result  \* "running", or what the call returns

vars == <<tip, stored, result>>

Results ==
    {"running",
     "ok",
     "again",  \* TrySyncAgain or another error: the call is made again
     "closed"} \* burnchain_error::CoordinatorClosed

Init ==
    /\ tip \in Nat
    /\ stored = <<>>
    /\ result = "running"

\* Burnchain::process_block on the next block.
Store ==
    /\ result = "running"
    /\ Len(stored) < N
    /\ stored' = Append(stored, Len(stored) + 1)
    /\ UNCHANGED <<tip, result>>

\* The call returns; the coordinator is told of each block after it is stored,
\* so the call learns that the coordinator is closed only then.
Return(r) ==
    /\ result = "running"
    /\ r \in Results \ {"running"}
    /\ r = "ok" => Len(stored) = N \/ (stored = <<>> /\ tip >= N)
    /\ r = "closed" => Len(stored) > 0
    /\ result' = r
    /\ UNCHANGED <<tip, stored>>

Next == Store \/ \E r \in Results : Return(r)

Spec == Init /\ [][Next]_vars
=============================================================================
