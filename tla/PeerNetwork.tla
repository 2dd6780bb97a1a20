----------------------------- MODULE PeerNetwork -----------------------------
(***************************************************************************)
(* The connections of a node (src/net/p2p.rs, poll.rs, prune.rs): sockets  *)
(* that connect, conversations, the maps that tie them to the addresses of *)
(* neighbors and to event ids, the ids that wait to be banned, the peers   *)
(* the database denies, and the block inventories kept for neighbors.      *)
(*                                                                         *)
(* dispatch_network is one thread: it goes through the phases below over   *)
(* and over, and within one of them carries the work of do_network_work as *)
(* far as it gets.  What messages say, time and the HTTP sockets are left  *)
(* out: a handshake, a timeout, a failed socket or an invalid message may  *)
(* come whenever the phase that handles it is reached.  The poller's       *)
(* deregister does not fail.                                               *)
(***************************************************************************)
EXTENDS Integers, FiniteSets, Functions

CONSTANTS
    Listening,     \* addresses the neighbor walk may connect to
    Calling,       \* addresses inbound connections come from
    Node(_),       \* the node (the public key) behind an address
    Known,         \* addresses whose public key lookup_peer finds in the database
    Allowed,       \* addresses the operator always allows
    EventCapacity, \* how many event ids the poller has
    NumClients,    \* num_clients
    SoftClients,   \* soft_num_clients
    SoftNeighbors  \* soft_num_neighbors

Neighbors == Listening \cup Calling
EventIds == 0..(EventCapacity - 1)

ASSUME PeerAssumption ==
    /\ Listening \cap Calling = {}
    /\ Known \subseteq Neighbors /\ Allowed \subseteq Neighbors
    /\ EventCapacity \in Nat \ {0}
    /\ NumClients \in Nat /\ SoftClients \in Nat /\ SoftNeighbors \in Nat

VARIABLES
    phase,      \* where dispatch_network is
    work,       \* work_state
    do_prune,   \* prune when the cycle of the work ends?
    polled,     \* event_map: the event ids in use
    count,      \* where the search for the next event id starts
    connecting, \* event id -> address it connects to
    peers,      \* event id -> conversation: its address, whether its key is known
    events,     \* address -> event id
    bans,       \* event ids to ban
    denied,     \* addresses the database denies
    stats       \* block_stats: address -> how the scan of its inventory stands

peer_vars == <<phase, work, do_prune, polled, count, connecting, peers, events, bans, denied, stats>>
session == <<polled, connecting, peers, events, stats>>

Phases == {"accept", "connect", "ready", "work", "walk", "sweep", "requests"}
ScanStates == {"scanning", "done", "Broken", "Dead"}

PeerTypeOK ==
    /\ phase \in Phases
    /\ work \in {"GetPublicIP", "BlockInvSync", "BlockDownload", "Prune"}
    /\ do_prune \in BOOLEAN
    /\ polled \subseteq EventIds /\ count \in EventIds
    /\ DOMAIN connecting \subseteq EventIds /\ Range(connecting) \subseteq Listening
    /\ DOMAIN peers \subseteq EventIds
    /\ \A e \in DOMAIN peers : peers[e] \in [nk : Neighbors, key : BOOLEAN]
    /\ DOMAIN events \subseteq Neighbors /\ Range(events) \subseteq EventIds
    /\ bans \subseteq EventIds
    /\ denied \subseteq Neighbors
    /\ DOMAIN stats \subseteq Neighbors /\ Range(stats) \subseteq ScanStates

PeerInit ==
    /\ phase = "accept" /\ work = "GetPublicIP" /\ do_prune = FALSE
    /\ polled = {} /\ count \in EventIds
    /\ connecting = <<>> /\ peers = <<>> /\ events = <<>>
    /\ bans = {} /\ denied = {} /\ stats = <<>>

-----------------------------------------------------------------------------
(* Helpers *)

Without(f, S) == Restrict(f, DOMAIN f \ S)
With(f, x, v) == [y \in DOMAIN f \cup {x} |-> IF y = x THEN v ELSE f[y]]

Outbound(e) == peers[e].nk \in Listening
Inbounds == {e \in DOMAIN peers : ~Outbound(e)}
Outbounds == {e \in DOMAIN peers : Outbound(e)}

\* The first id that is free when one searches from count on.
IsNextEventId(i) ==
    LET Distance(j) == (j - count) % EventCapacity
        Free == EventIds \ polled
    IN i \in Free /\ \A j \in Free : Distance(i) <= Distance(j)

After(i) == (i + 1) % EventCapacity

\* Mutant: the inventories of the neighbors are kept.
deregister_peers_KeepInv(S, inventories) ==
    LET gone == {nk \in DOMAIN events : events[nk] \in S}
    IN  /\ events' = Without(events, gone)
        /\ stats' = inventories
        /\ polled' = polled \ (S \cap (DOMAIN peers \cup DOMAIN connecting))
        /\ connecting' = Without(connecting, S)
        /\ peers' = Without(peers, S)

\* Everything that is known of the connections on the ids S goes, with the inventories of
\* the neighbors behind them; inventories are those that were kept until then.
deregister_peers(S, inventories) ==
    LET gone == {nk \in DOMAIN events : events[nk] \in S}
    IN  /\ events' = Without(events, gone)
        /\ stats' = Without(inventories, gone)
        /\ polled' = polled \ (S \cap (DOMAIN peers \cup DOMAIN connecting))
        /\ connecting' = Without(connecting, S)
        /\ peers' = Without(peers, S)

EventsOf(N) == {events[nk] : nk \in N \cap DOMAIN events}

deregister_neighbors(N, inventories) ==
    deregister_peers(EventsOf(N), inventories)

deregister_and_ban(N, inventories) ==
    /\ bans' = bans \cup EventsOf(N)
    /\ deregister_neighbors(N, inventories)

\* Mutant: whether the database denies the peer is only asked before it connects.
can_register_peer_NoDeny(nk) ==
    /\ nk \notin DOMAIN events
    /\ nk \in Calling => Cardinality(Inbounds) < NumClients

\* Mutant: a neighbor that is connected already may be registered again.
can_register_peer_Twice(nk) ==
    /\ nk \notin denied
    /\ nk \in Calling => Cardinality(Inbounds) < NumClients

can_register_peer(nk) ==
    /\ nk \notin denied
    /\ nk \notin DOMAIN events
    /\ nk \in Calling => Cardinality(Inbounds) < NumClients

\* A socket that reached the peer becomes a conversation, unless it may not or fails.
register_peer(e, nk) ==
    \/ /\ can_register_peer(nk)
       /\ \E key \in BOOLEAN :
            /\ key => nk \in Known
            /\ peers' = With(peers, e, [nk |-> nk, key |-> key])
       /\ events' = With(events, nk, e)
       /\ polled' = polled \cup {e}
    \/ polled' = polled \ {e} /\ UNCHANGED <<peers, events>>

-----------------------------------------------------------------------------
(* Sockets *)

Go(p) == phase' = p

\* process_new_sockets: a peer called; without a free id the poller closed the socket.
Accept(nk) ==
    /\ phase = "accept"
    /\ \E e \in EventIds :
        /\ IsNextEventId(e)
        /\ count' = After(e)
        /\ register_peer(e, nk)
    /\ UNCHANGED <<phase, work, do_prune, connecting, bans, denied, stats>>

\* process_connecting_sockets
Connected(e) ==
    /\ phase = "connect" /\ e \in DOMAIN connecting
    /\ connecting' = Without(connecting, {e})
    /\ register_peer(e, connecting[e])
    /\ UNCHANGED <<phase, work, do_prune, count, bans, denied, stats>>

\* process_ready_sockets: a handshake tells the peer's key ...
Handshake(e) ==
    /\ phase = "ready" /\ e \in DOMAIN peers
    /\ peers' = [peers EXCEPT ![e].key = TRUE]
    /\ UNCHANGED <<phase, work, do_prune, polled, count, connecting, events, bans, denied, stats>>

\* ... or the conversation is dead.
ConversationFails(e) ==
    /\ phase = "ready" /\ e \in DOMAIN peers
    /\ deregister_peers({e}, stats)
    /\ UNCHANGED <<phase, work, do_prune, count, bans, denied>>

\* The addresses find_outbound_neighbor may give for the conversation e.
find_outbound_neighbor(e) ==
    IF Outbound(e) THEN {peers[e].nk}
    ELSE {peers[r].nk : r \in {r \in Outbounds :
                                  /\ peers[e].key /\ peers[r].key
                                  /\ Node(peers[r].nk) = Node(peers[e].nk)}}

\* handle_unsolicited_inv_update: a neighbor announced a block that cannot be.
InvalidUpdate(e) ==
    /\ phase = "ready" /\ e \in DOMAIN peers
    /\ \E nk \in find_outbound_neighbor(e) :
        /\ nk \in DOMAIN stats
        /\ bans' = bans \cup {e} \cup EventsOf({nk})
    /\ UNCHANGED <<phase, work, do_prune, session, count, denied>>

-----------------------------------------------------------------------------
(* do_network_work *)

\* The neighbors whose inventories are fetched.
get_outbound_sync_peers == {peers[e].nk : e \in {e \in Outbounds : peers[e].key}}

\* do_get_public_ip: a new address of our own closes all connections.
GetPublicIP ==
    /\ phase = "work" /\ work = "GetPublicIP"
    /\ \/ Go("walk") /\ UNCHANGED <<work, session>>
       \/ work' = "BlockInvSync" /\ UNCHANGED <<phase, session>>
       \/ /\ work' = "BlockInvSync" /\ UNCHANGED phase
          /\ DOMAIN peers /= {}
          /\ deregister_peers(DOMAIN peers, stats)
    /\ UNCHANGED <<do_prune, count, bans, denied>>

\* inv_sync_run of all scans that are not finished: a scan goes on, ends (also when the
\* neighbor is stale or diverged), or finds its neighbor broken or no longer connected.
ScanResults ==
    {scans \in [DOMAIN stats -> ScanStates] : \A nk \in DOMAIN stats :
        IF stats[nk] /= "scanning" THEN scans[nk] = stats[nk]
        ELSE scans[nk] = "Dead" <=> nk \notin DOMAIN events}

\* sync_inventories soon after a round that learned nothing.
SyncThrottled ==
    /\ phase = "work" /\ work = "BlockInvSync"
    /\ work' \in {"BlockDownload", "Prune"}
    /\ UNCHANGED <<phase, do_prune, session, count, bans, denied>>

\* sync_inventories, not throttled: when all scans are finished the bad peers are culled,
\* a new round starts with the neighbors there are, and the bad peers are dropped.
SyncInventories ==
    /\ phase = "work" /\ work = "BlockInvSync"
    /\ \E scans \in ScanResults :
        LET In(S) == {nk \in DOMAIN stats : scans[nk] \in S}
            kept == In({"done"}) \cup get_outbound_sync_peers
        IN  IF In({"scanning"}) = {}
            THEN /\ bans' = bans \cup EventsOf(In({"Broken"}))
                 /\ deregister_neighbors(In({"Broken", "Dead"}), [nk \in kept |-> "scanning"])
                 /\ work' \in {"BlockDownload", "Prune"}
                 /\ UNCHANGED phase
            ELSE /\ stats' = scans
                 /\ Go("walk")
                 /\ UNCHANGED <<work, bans, polled, connecting, peers, events>>
    /\ UNCHANGED <<do_prune, count, denied>>

\* do_network_block_download: neighbors whose answers were no good are banned.
DownloadBlocks ==
    /\ phase = "work" /\ work = "BlockDownload"
    /\ \E broken \in SUBSET Listening : deregister_and_ban(broken, stats)
    /\ \/ Go("walk") /\ UNCHANGED work
       \/ work' = "Prune" /\ UNCHANGED phase
    /\ UNCHANGED <<do_prune, count, denied>>

\* process_bans: the ids that still have a conversation, except those of allowed peers.
Punished == {e \in bans \cap DOMAIN peers : peers[e].nk \notin Allowed}

\* prune_connections leaves the allowed peers alone (and those of the walk; not modelled).
Safe == {e \in DOMAIN peers : peers[e].nk \in Allowed}

\* Which inbound peers share a host and came last is left open.
prune_frontier_inbound_ip ==
    IF Cardinality(Inbounds \ Punished) <= SoftClients THEN {{}}
    ELSE SUBSET (Inbounds \ (Punished \cup Safe))

\* Which outbound peers share an organisation, and how healthy they are, is left open.
prune_frontier_outbound_orgs ==
    IF Cardinality(Outbounds \ Punished) <= SoftNeighbors THEN {{}}
    ELSE SUBSET (Outbounds \ (Punished \cup Safe))

FinishCycle ==
    /\ phase = "work" /\ work = "Prune"
    /\ work' = "GetPublicIP" /\ Go("walk")
    /\ do_prune' = FALSE
    /\ IF do_prune
       THEN /\ denied' = denied \cup {peers[e].nk : e \in Punished}
            /\ bans' = {}
            /\ \E by_ip \in prune_frontier_inbound_ip, by_org \in prune_frontier_outbound_orgs :
                deregister_peers(Punished \cup by_ip \cup by_org, stats)
       ELSE UNCHANGED <<denied, bans, session>>
    /\ UNCHANGED count

-----------------------------------------------------------------------------
(* The rest of the pass *)

\* walk_peer_graph connects; unlike register_peer it does not look at the sockets that
\* are connecting already.
ConnectPeer(nk) ==
    /\ phase = "walk" /\ ~do_prune
    /\ nk \notin denied /\ nk \notin DOMAIN events
    /\ \E e \in EventIds :
        /\ IsNextEventId(e)
        /\ count' = After(e)
        /\ polled' = polled \cup {e}
        /\ connecting' = With(connecting, e, nk)
    /\ UNCHANGED <<phase, work, do_prune, peers, events, bans, denied, stats>>

\* process_neighbor_walk: a walk found broken, or dead and replaced, neighbors.
FinishWalk ==
    /\ phase = "walk" /\ ~do_prune
    /\ \E broken, dropped \in SUBSET Listening :
        /\ bans' = bans \cup EventsOf(broken)
        /\ deregister_neighbors(broken \cup dropped, stats)
    /\ do_prune' \in BOOLEAN
    /\ Go("sweep")
    /\ UNCHANGED <<work, count, denied>>

\* disconnect_unresponsive, and the errors of flush_relay_handles.
Disconnect(e) ==
    /\ phase = "sweep" /\ e \in DOMAIN peers \cup DOMAIN connecting
    /\ deregister_peers({e}, stats)
    /\ UNCHANGED <<phase, work, do_prune, count, bans, denied>>

\* dispatch_request of a Ban by another thread.
RequestBan(nk) ==
    /\ phase = "requests" /\ nk \in DOMAIN events
    /\ bans' = bans \cup EventsOf({nk})
    /\ UNCHANGED <<phase, work, do_prune, session, count, denied>>

NextPhase == [accept |-> "connect", connect |-> "ready", ready |-> "work", walk |-> "sweep",
              sweep |-> "requests", requests |-> "accept"]

Proceed ==
    /\ phase /= "work"
    /\ Go(NextPhase[phase])
    /\ UNCHANGED <<work, do_prune, session, count, bans, denied>>

\* The time until which an address is denied passes.
DenialEnds(nk) ==
    /\ nk \in denied
    /\ denied' = denied \ {nk}
    /\ UNCHANGED <<phase, work, do_prune, session, count, bans>>

PeerNext ==
    \/ \E nk \in Calling : Accept(nk)
    \/ \E nk \in Listening : ConnectPeer(nk)
    \/ \E nk \in Neighbors : RequestBan(nk) \/ DenialEnds(nk)
    \/ \E e \in EventIds : Connected(e) \/ Handshake(e) \/ ConversationFails(e)
                           \/ InvalidUpdate(e) \/ Disconnect(e)
    \/ GetPublicIP \/ SyncThrottled \/ SyncInventories \/ DownloadBlocks \/ FinishCycle
    \/ FinishWalk \/ Proceed

PeerSpec == PeerInit /\ [][PeerNext]_peer_vars

-----------------------------------------------------------------------------
(* Properties *)

\* Event ids, conversations and addresses agree: a neighbor's event id leads to the
\* conversation with it and back, a socket connects or converses and not both, and the
\* poller watches exactly these.  register_peer's and poll.rs's assertions rest on it.
MapsAgree ==
    /\ \A nk \in DOMAIN events : events[nk] \in DOMAIN peers /\ peers[events[nk]].nk = nk
    /\ \A e \in DOMAIN peers : peers[e].nk \in DOMAIN events /\ events[peers[e].nk] = e
    /\ DOMAIN peers \cap DOMAIN connecting = {}
    /\ polled = DOMAIN peers \cup DOMAIN connecting

\* Inventories are only kept for neighbors that a round of scans can reach: outbound,
\* connected, with a known key.  A scan of any other would be left over when a round
\* ends, and reset_sync_peers marks it unfinished without starting it anew: no later
\* round would end.
ScansCanFinish == DOMAIN stats \subseteq get_outbound_sync_peers

\* A peer the database denies is not connected, also when the connection was under way
\* as it was banned.
DeniedNotConnected == denied \cap DOMAIN events = {}
=============================================================================
