----------------------------- MODULE ReorgSearch -----------------------------
(***************************************************************************)
(* BitcoinIndexer::find_bitcoin_reorg                                      *)
(* (src/src/burnchains/bitcoin/indexer.rs): the search, backwards and in   *)
(* batches, for the highest header that the local header database and the  *)
(* remote peer have in common.  Headers are linked by their hashes, so the *)
(* two chains are equal up to a height and differ above it.  The peer is   *)
(* taken to send headers with valid work.                                  *)
(***************************************************************************)
EXTENDS Integers

CONSTANTS
    REORG_BATCH_SIZE,
    MaxHeight         \* bound on the height of the two chains

\* 16, and 2 in tests.  The first header of a batch is not compared, so that nothing is in
\* batches of one.
ASSUME SearchAssumption == REORG_BATCH_SIZE \in Nat \ {0, 1} /\ MaxHeight \in Nat

VARIABLES
    local,       \* height of the last header of the local database
    remote,      \* height of the last header of the peer
    fork,        \* height of the last header they have in common
    start_block, \* where the batch starts
    batch_loaded, \* how many headers of the batch the reorg database holds
    discontiguous_header_error_count,
    new_tip,     \* the answer
    search_pc    \* "load", "scan", "done", or "failed" when the peer failed

search_vars ==
    <<local, remote, fork, start_block, batch_loaded, discontiguous_header_error_count, new_tip, search_pc>>

chains == <<local, remote, fork>>

\* u64::saturating_sub
SaturatingSub(a, b) == IF a >= b THEN a - b ELSE 0

Least(a, b) == IF a <= b THEN a ELSE b

\* get_headers_height is one more than the height of the last header.
SearchInit ==
    /\ local \in 0..MaxHeight
    /\ remote \in 0..MaxHeight
    /\ fork \in 0..Least(local, remote)
    /\ start_block = SaturatingSub(local + 1, REORG_BATCH_SIZE)
    /\ batch_loaded = 0
    /\ discontiguous_header_error_count = 0
    /\ new_tip = 0
    /\ search_pc = "load"

\* The peer knows the header it is asked to start from, which setup_reorg_headers
\* has copied from the local database, or has nothing above it to send.
LoadHeaders ==
    /\ search_pc = "load"
    /\ start_block <= fork \/ remote <= start_block
    /\ batch_loaded' = IF remote <= start_block THEN 1
                       ELSE Least(remote - start_block + 1, REORG_BATCH_SIZE)
    /\ search_pc' = "scan"
    /\ UNCHANGED <<chains, start_block, discontiguous_header_error_count, new_tip>>

\* The peer does not know it and sends headers from genesis on, which do not
\* connect (NoncontiguousHeader).
LoadDiscontiguous ==
    /\ search_pc = "load"
    /\ start_block > fork /\ remote > start_block
    /\ discontiguous_header_error_count' = discontiguous_header_error_count + 1
    /\ start_block' =
         SaturatingSub(start_block, REORG_BATCH_SIZE * (discontiguous_header_error_count + 1))
    /\ UNCHANGED <<chains, batch_loaded, new_tip, search_pc>>

\* The peer times out or hangs up.
LoadFails ==
    /\ search_pc = "load"
    /\ search_pc' = "failed"
    /\ UNCHANGED <<chains, start_block, batch_loaded, discontiguous_header_error_count, new_tip>>

\* The headers compared: those of the batch that both have, but for the first.
Compared ==
    LET canonical == Least(local - start_block + 1, REORG_BATCH_SIZE)
    IN  start_block + 1 .. start_block + Least(canonical, batch_loaded) - 1

\* Mutant: the header copied to start the batch is compared as well.
Common_Bootstrap ==
    {i \in Compared : i <= fork} \cup (IF batch_loaded = 1 THEN {start_block} ELSE {})

Common == {i \in Compared : i <= fork}

FoundAncestor ==
    /\ search_pc = "scan"
    /\ \E i \in Common : (\A j \in Common : j <= i) /\ new_tip' = i
    /\ search_pc' = "done"
    /\ UNCHANGED <<chains, start_block, batch_loaded, discontiguous_header_error_count>>

\* "No common ancestor found": the batch before, if there is one.
NoAncestor ==
    /\ search_pc = "scan"
    /\ Common = {}
    /\ search_pc' = IF start_block = 0 THEN "done" ELSE "load"
    /\ start_block' = SaturatingSub(start_block, REORG_BATCH_SIZE)
    /\ UNCHANGED <<chains, batch_loaded, discontiguous_header_error_count, new_tip>>

SearchNext ==
    LoadHeaders \/ LoadDiscontiguous \/ LoadFails \/ FoundAncestor \/ NoAncestor

SearchSpec == SearchInit /\ [][SearchNext]_search_vars

\* The search goes on; the peer need not fail.
FairSearchSpec == SearchSpec /\ WF_search_vars(LoadHeaders \/ LoadDiscontiguous \/ FoundAncestor \/ NoAncestor)

-----------------------------------------------------------------------------

\* The answer is a header that the two chains have in common, so that dropping the
\* headers above it leaves a prefix of the peer's chain; and one that is too low is so
\* by one, where the fork starts at a batch's first header, or by the batches that were
\* skipped after repeated errors.
AnswerIsCommon ==
    search_pc = "done" =>
        /\ new_tip <= fork
        /\ \/ fork - new_tip <= 1
           \/ fork - new_tip <= REORG_BATCH_SIZE * (discontiguous_header_error_count - 1)

\* The search ends.
SearchEnds == TRUE ~> search_pc \in {"done", "failed"}
=============================================================================
