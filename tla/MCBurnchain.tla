----------------------------- MODULE MCBurnchain -----------------------------
(***************************************************************************)
(* The three parts of burnchain synchronisation: the threads of a call     *)
(* (BurnPipeline), the search for the common ancestor (ReorgSearch) and    *)
(* the calls of the run loop (BurnchainSync).  A behaviour is one of the   *)
(* machine that "machine" names; the others stay where they start.         *)
(***************************************************************************)
EXTENDS BurnPipeline, ReorgSearch

CONSTANTS
    Burn, Genesis, Parent, Rank, CycleLength, MaxFailures, MaxCrashes, MaxTarget

VARIABLES
    machine,
    peer, headers, burn_db, sort_tip, signal, pc, booted, target, s_tip, s_start, at, end_block,
    waiting, low, failures, crashes

S == INSTANCE BurnchainSync WITH tip <- s_tip, start_block <- s_start

\* After 1, block 2 is a fork, and 3 and 4 a longer one; then 5 and 6 make the first
\* fork the longest.
TreeBurn == 0..6
TreeParent == [b \in 1..6 |-> IF b = 3 THEN 1 ELSE IF b = 5 THEN 2 ELSE b - 1]
TreeRank == [b \in TreeBurn |-> 10 - b]

s_vars == <<peer, headers, burn_db, sort_tip, signal, pc, booted, target, s_tip, s_start, at,
            end_block, waiting, low, failures, crashes>>
all_vars == <<machine, vars, search_vars, s_vars>>
Piping == machine = "pipeline"
Searching == machine = "search"
Syncing == machine = "sync"

MCInit ==
    /\ machine \in {"pipeline", "search", "sync"}
    /\ Init /\ SearchInit /\ S!Init
    /\ Piping \/ (tip = 0 /\ known = {})
    /\ Searching \/ (local = 0 /\ remote = 0)

MCNext ==
    /\ UNCHANGED machine
    /\ \/ Piping /\ Next /\ UNCHANGED <<search_vars, s_vars>>
       \/ Searching /\ SearchNext /\ UNCHANGED <<vars, s_vars>>
       \/ Syncing /\ S!Next /\ UNCHANGED <<vars, search_vars>>

\* The fairness of the FairSpec of each.
MCFairSpec ==
    /\ MCInit /\ [][MCNext]_all_vars
    /\ WF_vars(Piping /\ Caller) /\ WF_vars(Piping /\ DownloadThread)
    /\ WF_vars(Piping /\ ParseThread) /\ WF_vars(Piping /\ DbThread)
    /\ WF_search_vars(Searching /\ (LoadHeaders \/ LoadDiscontiguous \/ FoundAncestor \/ NoAncestor))
    /\ WF_s_vars(Syncing /\ S!RunLoop) /\ WF_s_vars(Syncing /\ S!HandleNewBurnBlock)

\* sync_with_indexer returns, whichever of its threads stop, and so does the search for a
\* common ancestor, whatever the two chains are: see BurnPipeline and ReorgSearch.
CallsReturn == (Piping => Returns) /\ (Searching => SearchEnds)

\* Burn blocks are stored after their parents, across failures and crashes on one chain and
\* across forks of calls that find the highest common ancestor and succeed, and all below
\* the sortition tip are: see BurnchainSync.
NoGaps == S!NoGaps

\* Burn blocks are stored after their parents, whatever fails: "If this method returns
\* Err(burnchain_error::TrySyncAgain), then call this method again."
ParentIsStored == S!ParentIsStored

\* The node ends up with a sortition for the tip of the peer's chain, unless that forks or
\* the start hangs after a crash: see BurnchainSync.
ReachesTip == Syncing => S!ReachesTip
=============================================================================
