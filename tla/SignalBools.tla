---------------------------- MODULE SignalBools ----------------------------
(***************************************************************************)
(* The mutex-guarded struct of src/src/chainstate/coordinator/comm.rs      *)
(* through which every thread of the node talks to the chains coordinator. *)
(* Each method of the Rust struct runs under the mutex, so each is one     *)
(* operator on the value of the struct.                                    *)
(***************************************************************************)

\* The values of struct SignalBools.
SignalStruct == [new_stacks_block : BOOLEAN, new_burn_block : BOOLEAN, stop : BOOLEAN]

\* CoordinatorCommunication::instantiate: nothing has been announced.
NoSignal == [new_stacks_block |-> FALSE, new_burn_block |-> FALSE, stop |-> FALSE]

CoordinatorEvents == {"NEW_STACKS_BLOCK", "NEW_BURN_BLOCK", "STOP", "TIMEOUT"}

activated_signal(bools) ==
    bools.stop \/ bools.new_stacks_block \/ bools.new_burn_block

\* Mutant: stop comes last.
ReceivedEvent_StopLast(bools) ==
    CASE bools.new_burn_block -> "NEW_BURN_BLOCK"
      [] ~bools.new_burn_block /\ bools.new_stacks_block -> "NEW_STACKS_BLOCK"
      [] ~bools.new_burn_block /\ ~bools.new_stacks_block /\ bools.stop -> "STOP"
      [] ~activated_signal(bools) -> "TIMEOUT"

\* receive_signal, the event it returns: stop wins over burn, burn over stacks.
ReceivedEvent(bools) ==
    CASE bools.stop -> "STOP"
      [] ~bools.stop /\ bools.new_burn_block -> "NEW_BURN_BLOCK"
      [] ~bools.stop /\ ~bools.new_burn_block /\ bools.new_stacks_block -> "NEW_STACKS_BLOCK"
      [] ~activated_signal(bools) -> "TIMEOUT"

\* Mutant: taking one event clears both bools.
AfterReceive_ClearsBoth(bools) ==
    [bools EXCEPT !.new_burn_block = FALSE, !.new_stacks_block = FALSE]

\* receive_signal, what it leaves in the struct: only the bool of the
\* returned event is cleared, and stop never is.
AfterReceive(bools) ==
    [bools EXCEPT
        !.new_burn_block = @ /\ ReceivedEvent(bools) /= "NEW_BURN_BLOCK",
        !.new_stacks_block = @ /\ ReceivedEvent(bools) /= "NEW_STACKS_BLOCK"]
=============================================================================
