---------------------------- MODULE MCBlockSync ----------------------------
(***************************************************************************)
(* The two state machines of the p2p thread that keep up with the blocks   *)
(* of the neighbors: inventories and downloads.  A behaviour is one of the *)
(* machine that "machine" names; the other stays where it starts.          *)
(***************************************************************************)
EXTENDS InvSync, TLC

CONSTANTS
    nbr, home, p1, p2,
    Blocks, Parent, Confirms, Claims, Serves, ServesStream, Announces, FirstTip, MaxTip,
    MaxInflight, MaxFailures

VARIABLES
    machine,
    chain_height, inv_blocks, inv_streams, inv_changed, state, cursor, next_cursor,
    num_downloaded, empty_passes, to_try, requests, fetched, requested, blocked_urls,
    finished, results, saved, failures

D == INSTANCE Downloader WITH Peers <- {p1, p2}, rested <- finished, stored <- saved

\* A node starts before or in the second reward cycle, in that with or without its anchor block.
MCStarts == {[height |-> 2, pox |-> <<TRUE>>]} \cup {[height |-> 3, pox |-> <<TRUE, b>>] : b \in BOOLEAN}
MCParent == 1 :> 0 @@ 3 :> 1
MCClaims == p1 :> {1, 3} @@ p2 :> {1}
MCServes == p1 :> {1, 3} @@ p2 :> {}
MCStreams == p1 :> {1} @@ p2 :> {}
MCAnnounces == p1 :> {3} @@ p2 :> {}

d_vars == <<chain_height, inv_blocks, inv_streams, inv_changed, state, cursor, next_cursor,
            num_downloaded, empty_passes, to_try, requests, fetched, requested, blocked_urls,
            finished, results, saved, failures>>
mc_vars == <<machine, scan_vars, d_vars>>
Scanning == machine = "inventories"
Fetching == machine = "downloads"

MCInit ==
    /\ machine \in {"inventories", "downloads"}
    /\ ScanInit /\ D!Init
    /\ Fetching => \A n \in Nodes : Len(chain[n].pox) = 2 /\ chain[n].pox[2]

MCNext ==
    /\ UNCHANGED machine
    /\ \/ Scanning /\ ScanNext /\ UNCHANGED d_vars
       \/ Fetching /\ D!Next /\ UNCHANGED scan_vars

MCSpec ==
    /\ MCInit /\ [][MCNext]_mc_vars
    /\ WF_pass(Scanning /\ Dispatch)
    /\ WF_scan_vars(Scanning /\ IntervalPasses)
    /\ WF_scan_vars(Scanning /\ Ping(nbr)) /\ WF_scan_vars(Scanning /\ Answer(nbr))
    /\ WF_scan_vars(Scanning /\ Connect(nbr))
    /\ WF_state(Fetching /\ D!Proceed)
    /\ WF_d_vars(Fetching /\ \E key \in DOMAIN requests : D!Answer(key))
    /\ \A q \in {p1, p2} : SF_d_vars(Fetching /\ D!Scanned(q))
    /\ SF_d_vars(Fetching /\ D!Store) /\ SF_d_vars(Fetching /\ D!Expire)
    /\ SF_d_vars(Fetching /\ D!Unblock) /\ WF_d_vars(Fetching /\ D!IntervalPasses)

\* The inventory of a neighbor that stays connected and on our fork becomes exact: see
\* InvSync.
ScansConverge == Scanning => InventoryConverges

\* All blocks, and all confirmed microblock streams, that neighbors have are stored in the
\* end: see Downloader.
DownloadsComplete == Fetching => D!DownloadsComplete
=============================================================================
