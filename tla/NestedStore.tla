---------------------------- MODULE NestedStore ----------------------------
(***************************************************************************)
(* What Clarity expects of a key-value store with nested contexts: each    *)
(* open context has a view of the store.  A context starts with the view   *)
(* of the one around it, writes change the innermost view only, a rollback *)
(* forgets that view, and a commit makes it the view of the context around *)
(* it.  views[1] is the store itself.                                      *)
(***************************************************************************)
EXTENDS Naturals, Sequences

VARIABLE views

Depth == Len(views)
Outer(n) == SubSeq(views, 1, n)

Init == Depth = 1

\* A new context sees what the one around it sees.
Nest == views' = Append(views, views[Depth])

Write ==
    /\ Depth > 1
    /\ Len(views') = Depth
    /\ \A d \in 1..(Depth - 1) : views'[d] = views[d]

Rollback == Depth > 1 /\ views' = Outer(Depth - 1)

Commit == Depth > 1 /\ views' = Append(Outer(Depth - 2), views[Depth])

\* The contexts are abandoned, all of them.
Drop == views' = Outer(1)

\* Without open contexts the store may move to another block.
Reopen == Depth = 1 /\ Len(views') = 1

Next == Nest \/ Write \/ Rollback \/ Commit \/ Drop \/ Reopen

Spec == Init /\ [][Next]_views
=============================================================================
