-------------------------- MODULE CoordinatorComm --------------------------
(***************************************************************************)
(* The threads of a node and the chains coordinator thread, as they meet   *)
(* in src/src/chainstate/coordinator/comm.rs.                              *)
(*                                                                         *)
(* An announcer puts a block in a database first and announces it          *)
(* afterwards: the burnchain sync thread does so with burn blocks, the     *)
(* miner and the network relayer with Stacks blocks.  Announcements carry  *)
(* no data and coalesce in one bool per kind.  The coordinator sleeps on a *)
(* condition variable, takes one event, and runs that event's handler,     *)
(* which looks for work in the databases.                                  *)
(*                                                                         *)
(* A block is a number: the announcer's n-th block.  What a handler does   *)
(* with it, and how it can fail, is the subject of modules Coordinator and *)
(* StagingBlocks; here every handler succeeds.                             *)
(***************************************************************************)
EXTENDS Naturals, SignalBools

CONSTANTS
    BurnAnnouncers,    \* threads that store and announce burn blocks
    StacksAnnouncers,  \* threads that store and announce Stacks blocks
    Waiters,           \* the Stacks announcers that wait for the coordinator: miners
    MaxWork            \* bound: blocks one announcer stores

ASSUME CommAssumption ==
    /\ BurnAnnouncers \cap StacksAnnouncers = {}
    /\ Waiters \subseteq StacksAnnouncers
    /\ MaxWork \in Nat

Announcers == BurnAnnouncers \cup StacksAnnouncers

VARIABLES
    signal_bools,             \* the struct guarded by the mutex
    rpc,                      \* where the coordinator thread is
    apc,                      \* where each announcer is
    in_db,                    \* blocks an announcer has put in its database
    handled,                  \* of those, the blocks the coordinator has processed
    walk,                     \* burn blocks the running burn handler has found to process
    stacks_blocks_processed,  \* counter shared with the announcers
    sortitions_processed,     \* counter shared with the announcers
    current                   \* the counter value a waiter read before storing

comm_vars == <<signal_bools, rpc, apc, in_db, handled, walk,
          stacks_blocks_processed, sortitions_processed, current>>

\* "run": about to call wait_on.  "blocked": in Condvar::wait, mutex released.
\* "woken": notified, or woken spuriously, and re-acquiring the mutex.
\* "burn": entering the burn handler.  "sortitions": in its loop over the
\* blocks it found.  "ready": in process_ready_blocks, called from that loop.
\* "stacks": in process_ready_blocks, called by the Stacks handler.
ReceiverPC == {"run", "blocked", "woken", "burn", "sortitions", "ready", "stacks", "stopped"}
AnnouncerPC == {"idle", "read", "stored", "polling", "closed"}

CommTypeOK ==
    /\ signal_bools \in SignalStruct
    /\ rpc \in ReceiverPC
    /\ apc \in [Announcers -> AnnouncerPC]
    /\ in_db \in [Announcers -> 0..MaxWork]
    /\ handled \in [Announcers -> 0..MaxWork]
    /\ walk \in [BurnAnnouncers -> 0..MaxWork]
    /\ stacks_blocks_processed \in Nat
    /\ sortitions_processed \in Nat
    /\ current \in [Waiters -> Nat]

CommInit ==
    /\ signal_bools = NoSignal
    /\ rpc = "run"
    /\ apc = [a \in Announcers |-> "idle"]
    /\ in_db = [a \in Announcers |-> 0]
    /\ handled = [a \in Announcers |-> 0]
    /\ walk = [a \in BurnAnnouncers |-> 0]
    /\ stacks_blocks_processed = 0
    /\ sortitions_processed = 0
    /\ current = [a \in Waiters |-> 0]

-----------------------------------------------------------------------------
(* The announcers. *)

announcerVars == <<apc, in_db, current>>
handlerVars == <<handled, walk, stacks_blocks_processed, sortitions_processed>>

\* Mutant: announcements set their bool but wake nobody.
NotifyAll_Forgotten == rpc' = rpc

\* notify_all wakes the coordinator if it is blocked, and is lost otherwise.
NotifyAll == rpc' = IF rpc = "blocked" THEN "woken" ELSE rpc

\* inner_process_tenure reads the counter before it stores its block.
GetStacksBlocksProcessed(a) ==
    /\ a \in Waiters
    /\ apc[a] = "idle"
    /\ in_db[a] < MaxWork
    /\ current' = [current EXCEPT ![a] = stacks_blocks_processed]
    /\ apc' = [apc EXCEPT ![a] = "read"]
    /\ UNCHANGED <<signal_bools, rpc, in_db, handlerVars>>

\* The block is committed to the announcer's database.
Store(a) ==
    /\ apc[a] = IF a \in Waiters THEN "read" ELSE "idle"
    /\ in_db[a] < MaxWork
    /\ in_db' = [in_db EXCEPT ![a] = @ + 1]
    /\ apc' = [apc EXCEPT ![a] = "stored"]
    /\ UNCHANGED <<signal_bools, rpc, current, handlerVars>>

\* Where the caller goes after announce_new_*_block: it gives up when the
\* coordinator is being stopped, a miner waits, the others continue.
AfterAnnounce(a) ==
    IF signal_bools.stop THEN "closed" ELSE IF a \in Waiters THEN "polling" ELSE "idle"

announce_new_burn_block(a) ==
    /\ a \in BurnAnnouncers
    /\ apc[a] = "stored"
    /\ signal_bools' = [signal_bools EXCEPT !.new_burn_block = TRUE]
    /\ NotifyAll
    /\ apc' = [apc EXCEPT ![a] = AfterAnnounce(a)]
    /\ UNCHANGED <<in_db, current, handlerVars>>

announce_new_stacks_block(a) ==
    /\ a \in StacksAnnouncers
    /\ apc[a] = "stored"
    /\ signal_bools' = [signal_bools EXCEPT !.new_stacks_block = TRUE]
    /\ NotifyAll
    /\ apc' = [apc EXCEPT ![a] = AfterAnnounce(a)]
    /\ UNCHANGED <<in_db, current, handlerVars>>

\* wait_for_stacks_blocks_processed returns: the counter has passed the value
\* read, or the timeout fires.  The miner goes on either way.
WaitReturnsTrue(a) ==
    /\ a \in Waiters
    /\ apc[a] = "polling"
    /\ stacks_blocks_processed > current[a]
    /\ apc' = [apc EXCEPT ![a] = "idle"]
    /\ UNCHANGED <<signal_bools, rpc, in_db, current, handlerVars>>

WaitTimesOut(a) ==
    /\ a \in Waiters
    /\ apc[a] = "polling"
    /\ stacks_blocks_processed <= current[a]
    /\ apc' = [apc EXCEPT ![a] = "idle"]
    /\ UNCHANGED <<signal_bools, rpc, in_db, current, handlerVars>>

stop_chains_coordinator ==
    /\ ~signal_bools.stop
    /\ signal_bools' = [signal_bools EXCEPT !.stop = TRUE]
    /\ NotifyAll
    /\ UNCHANGED <<announcerVars, handlerVars>>

-----------------------------------------------------------------------------
(* The coordinator thread: ChainsCoordinator::run and wait_on. *)

\* run's match on the event that wait_on returns.
Dispatch(event) ==
    CASE event = "STOP" -> "stopped"
      [] event = "NEW_BURN_BLOCK" -> "burn"
      [] event = "NEW_STACKS_BLOCK" -> "stacks"
      [] event = "TIMEOUT" -> "run"

\* receive_signal, under the mutex, and the dispatch on its result.
ReceiveSignal ==
    /\ signal_bools' = AfterReceive(signal_bools)
    /\ rpc' = Dispatch(ReceivedEvent(signal_bools))
    /\ UNCHANGED <<announcerVars, handlerVars>>

\* wait_on finds a signal and does not sleep.
WaitOnActivated ==
    /\ rpc = "run"
    /\ activated_signal(signal_bools)
    /\ ReceiveSignal

\* wait_on sleeps: checking the bools and releasing the mutex are one step.
WaitOnBlocks ==
    /\ rpc = "run"
    /\ ~activated_signal(signal_bools)
    /\ rpc' = "blocked"
    /\ UNCHANGED <<signal_bools, announcerVars, handlerVars>>

\* Condvar::wait may return without a notification.
SpuriousWakeup ==
    /\ rpc = "blocked"
    /\ rpc' = "woken"
    /\ UNCHANGED <<signal_bools, announcerVars, handlerVars>>

\* wait_on has the mutex again.  It does not re-check the bools.
WaitOnResumes ==
    /\ rpc = "woken"
    /\ ReceiveSignal

\* handle_new_burnchain_block: one walk over the burnchain database from its
\* tip back to the first block with a sortition.
WalkBurnchain ==
    /\ rpc = "burn"
    /\ walk' = [a \in BurnAnnouncers |-> in_db[a]]
    /\ rpc' = "sortitions"
    /\ UNCHANGED <<signal_bools, announcerVars, handled,
                   stacks_blocks_processed, sortitions_processed>>

\* One turn of the handler's loop: a sortition, then process_ready_blocks.
ProcessSortition ==
    /\ rpc = "sortitions"
    /\ \E a \in BurnAnnouncers :
          /\ handled[a] < walk[a]
          /\ handled' = [handled EXCEPT ![a] = @ + 1]
    /\ sortitions_processed' = sortitions_processed + 1
    /\ rpc' = "ready"
    /\ UNCHANGED <<signal_bools, announcerVars, walk, stacks_blocks_processed>>

BurnHandlerReturns ==
    /\ rpc = "sortitions"
    /\ \A a \in BurnAnnouncers : handled[a] >= walk[a]
    /\ rpc' = "run"
    /\ UNCHANGED <<signal_bools, announcerVars, handlerVars>>

\* process_ready_blocks asks the staging database for one block at a time, and counts
\* those that won a sortition of the canonical fork ...
ProcessReadyBlock ==
    /\ rpc \in {"ready", "stacks"}
    /\ \E a \in StacksAnnouncers :
          /\ handled[a] < in_db[a]
          /\ handled' = [handled EXCEPT ![a] = @ + 1]
    /\ stacks_blocks_processed' \in {stacks_blocks_processed, stacks_blocks_processed + 1}
    /\ UNCHANGED <<signal_bools, rpc, announcerVars, walk, sortitions_processed>>

\* ... and returns to its caller when there is none.
NoReadyBlock ==
    /\ rpc \in {"ready", "stacks"}
    /\ \A a \in StacksAnnouncers : handled[a] = in_db[a]
    /\ rpc' = IF rpc = "ready" THEN "sortitions" ELSE "run"
    /\ UNCHANGED <<signal_bools, announcerVars, handlerVars>>

-----------------------------------------------------------------------------
AnnouncerStep(a) ==
    \/ GetStacksBlocksProcessed(a)
    \/ Store(a)
    \/ announce_new_burn_block(a)
    \/ announce_new_stacks_block(a)
    \/ WaitReturnsTrue(a)
    \/ WaitTimesOut(a)

WaitOn == WaitOnActivated \/ WaitOnBlocks \/ WaitOnResumes

Handle ==
    \/ WalkBurnchain
    \/ ProcessSortition
    \/ BurnHandlerReturns
    \/ ProcessReadyBlock
    \/ NoReadyBlock

CommNext ==
    \/ \E a \in Announcers : AnnouncerStep(a)
    \/ stop_chains_coordinator
    \/ WaitOn
    \/ SpuriousWakeup
    \/ Handle

CommSpec == CommInit /\ [][CommNext]_comm_vars

\* The operating system runs the coordinator thread, and a thread that has
\* stored a block goes on to announce it.
CommFairSpec ==
    /\ CommSpec
    /\ WF_comm_vars(WaitOn)
    /\ WF_comm_vars(Handle)
    /\ \A a \in Announcers : WF_comm_vars(announce_new_burn_block(a) \/ announce_new_stacks_block(a))

-----------------------------------------------------------------------------
(* Safety. *)

\* No wake-up is lost: while wait_on sleeps in the condition variable no bool
\* is set, whatever the announcers did between its check and its sleep.
SleepsOnlyUnsignalled ==
    rpc = "blocked" => ~activated_signal(signal_bools)

\* The coordinator still has block n of announcer a in view: its bool is set,
\* or a handler is running that will look at the database, or has seen n.
InView(a) ==
    IF a \in BurnAnnouncers
    THEN \/ signal_bools.new_burn_block
         \/ rpc = "burn"
         \/ rpc \in {"sortitions", "ready"} /\ walk[a] >= in_db[a]
    ELSE \/ signal_bools.new_stacks_block
         \/ rpc \in {"ready", "stacks"}

\* Coalescing loses no work: a block that was stored and announced is
\* processed or in view of the coordinator, though announcements that arrive
\* while the bool is set, or while a handler runs, leave no trace of their own.
NoLostWork ==
    \A a \in Announcers :
        (apc[a] /= "stored" /\ handled[a] < in_db[a]) => InView(a)

\* What NoLostWork means to the outside: if the coordinator sleeps, every
\* announced block has been processed.
QuiescentMeansDone ==
    rpc = "blocked" =>
        \A a \in Announcers : apc[a] /= "stored" => handled[a] = in_db[a]

\* A block is processed after it was stored, and the burn handler never runs
\* past what its walk found.
ProcessedWasStored ==
    /\ \A a \in Announcers : handled[a] <= in_db[a]
    /\ \A a \in BurnAnnouncers : walk[a] <= in_db[a]

\* Once stop is set the coordinator starts no handler: the event order of
\* receive_signal puts STOP first.
StopPreemptsWork ==
    [][signal_bools.stop /\ rpc \in {"run", "woken"} => rpc' \notin {"burn", "stacks"}]_comm_vars

-----------------------------------------------------------------------------
(* Liveness. *)

\* Every stored block is processed, unless the node is stopped: the priority
\* of burn over Stacks announcements starves neither.
WorkGetsDone ==
    \A a \in Announcers : \A n \in 1..MaxWork :
        (in_db[a] >= n) ~> (handled[a] >= n \/ signal_bools.stop)

\* A stop request ends the coordinator thread, and comes first: however busy the
\* announcers are, the handler that runs is the last.
StopStops == (signal_bools.stop ~> rpc = "stopped") /\ StopPreemptsWork
=============================================================================
