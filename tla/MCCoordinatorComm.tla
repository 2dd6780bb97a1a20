------------------------- MODULE MCCoordinatorComm -------------------------
(***************************************************************************)
(* A small instance of CoordinatorComm: the burnchain sync thread, the     *)
(* miner (which waits for its block) and the network relayer (which does   *)
(* not), each with up to MaxWork blocks, so that announcements of both     *)
(* kinds coalesce and overtake each other.                                 *)
(***************************************************************************)
EXTENDS CoordinatorComm

=============================================================================
