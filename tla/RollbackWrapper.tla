-------------------------- MODULE RollbackWrapper --------------------------
(***************************************************************************)
(* The store Clarity executes against: RollbackWrapper, of                 *)
(* src/src/vm/database/key_value_wrapper.rs.  There is one history of      *)
(* values for each key, shared by all the open contexts, and each context  *)
(* only remembers which keys it edited.                                    *)
(*                                                                         *)
(* The histories of two keys are independent, so of a context's list of    *)
(* edits the model keeps how often each key is in it.  Data and metadata   *)
(* have a map each and the same code; here they are keys of one map.       *)
(***************************************************************************)
EXTENDS Naturals, Sequences

CONSTANT Keys

VARIABLES
    store,       \* the backing store, at the block that is open
    lookup_map,  \* the values put for each key, oldest first
    stack,       \* the open contexts: for each, the number of edits of each key
    opened       \* history: for each context, the length of each history when it was opened

db == <<store, lookup_map, stack, opened>>

Top == Len(stack)
Below(n) == SubSeq(stack, 1, n)
NoEdits == [k \in Keys |-> 0]
Lengths == [k \in Keys |-> Len(lookup_map[k])]

DbInit ==
    /\ DOMAIN store = Keys
    /\ lookup_map = [k \in Keys |-> <<>>]
    /\ stack = <<>>
    /\ opened = <<>>

-----------------------------------------------------------------------------
\* The value that get finds when the store answers with "backing".
get(k, backing) == IF lookup_map[k] = <<>> THEN backing[k] ELSE lookup_map[k][Len(lookup_map[k])]

nest ==
    /\ stack' = Append(stack, NoEdits)
    /\ opened' = Append(opened, Lengths)
    /\ UNCHANGED <<store, lookup_map>>

\* put, for each key of the function m.
put(m) ==
    /\ Top > 0
    /\ DOMAIN m \subseteq Keys
    /\ lookup_map' = [k \in Keys |-> IF k \in DOMAIN m THEN Append(lookup_map[k], m[k]) ELSE lookup_map[k]]
    /\ stack' = Append(Below(Top - 1), [k \in Keys |-> stack[Top][k] + (IF k \in DOMAIN m THEN 1 ELSE 0)])
    /\ UNCHANGED <<store, opened>>

\* One value is popped from the history of its key for every edit of the context.
Popped == [k \in Keys |-> SubSeq(lookup_map[k], 1, Len(lookup_map[k]) - stack[Top][k])]

rollback ==
    /\ Top > 0
    /\ lookup_map' = Popped
    /\ stack' = Below(Top - 1)
    /\ opened' = SubSeq(opened, 1, Top - 1)
    /\ UNCHANGED store

\* put_all applies the edits in order, so the last value of a key stays.
BottomCommit ==
    /\ Top = 1
    /\ store' = [k \in Keys |-> IF stack[1][k] = 0 THEN store[k] ELSE lookup_map[k][stack[1][k]]]
    /\ lookup_map' = Popped
    /\ stack' = <<>>
    /\ opened' = <<>>

\* Mutant: only the keys the outer context has not edited bubble up.
BubbleUp_Once ==
    /\ Top > 1
    /\ stack' = Append(Below(Top - 2),
                       [k \in Keys |-> IF stack[Top - 1][k] > 0 THEN stack[Top - 1][k] ELSE stack[Top][k]])
    /\ opened' = SubSeq(opened, 1, Top - 1)
    /\ UNCHANGED <<store, lookup_map>>

\* The edits bubble up to the next item in the stack.
BubbleUp ==
    /\ Top > 1
    /\ stack' = Append(Below(Top - 2), [k \in Keys |-> stack[Top - 1][k] + stack[Top][k]])
    /\ opened' = SubSeq(opened, 1, Top - 1)
    /\ UNCHANGED <<store, lookup_map>>

commit == BottomCommit \/ BubbleUp

\* The log of a transaction is dropped with the connection that has it.
drop_log ==
    /\ lookup_map' = [k \in Keys |-> <<>>]
    /\ stack' = <<>>
    /\ opened' = <<>>
    /\ UNCHANGED store

\* Between transactions the backing store is moved to another block.
set_tip(s) ==
    /\ stack = <<>>
    /\ DOMAIN s = Keys
    /\ store' = s
    /\ UNCHANGED <<lookup_map, stack, opened>>

-----------------------------------------------------------------------------
\* What the code asserts when it pops values: there is one for every edit ("Clarity VM had
\* edit log entry, but not lookup_map entry"), and a commit to the store leaves none behind
\* (assert!(lookup_map.len() == 0)).
HistoriesMatchEdits ==
    \A k \in Keys :
        /\ Top = 0 => lookup_map[k] = <<>>
        /\ Top > 0 => stack[Top][k] <= Len(lookup_map[k])
        /\ Top = 1 => stack[Top][k] = Len(lookup_map[k])

\* The view of context d: the value each key had when the next context was opened, or has now.
Seen(d, k) == IF d > Top THEN Len(lookup_map[k]) ELSE opened[d][k]
View(d) == [k \in Keys |-> IF Seen(d, k) = 0 THEN store[k] ELSE lookup_map[k][Seen(d, k)]]
Views == [d \in 1..(Top + 1) |-> View(d)]

Promise == INSTANCE NestedStore WITH views <- Views

\* The shared histories do what separate views would: the wrapper implements NestedStore, so a
\* write is invisible outside its context until that commits, and a rollback restores every
\* value, however the contexts that edit one key are nested.
KeepsViews == Promise!Spec
=============================================================================
