------------------------------- MODULE InvSync -------------------------------
(***************************************************************************)
(* The inventories a node keeps of its neighbors (src/net/inv.rs): which   *)
(* anchor blocks and which blocks each of them says it has.  The node scans*)
(* its neighbors in rounds, first their PoX bits and then, one reward cycle*)
(* after the other, their blocks.  The neighbors answer from their own     *)
(* sortitions (src/net/chat.rs), which change at any time, as ours do: when*)
(* the anchor block of an earlier reward cycle arrives, a node unwinds its *)
(* sortitions to the start of that cycle and processes them again.         *)
(*                                                                         *)
(* There is one burn chain.  Reward cycle c is that of the heights c*R + 1 *)
(* to (c+1)*R, and bit c + 1 of a PoX id says whether the anchor block for *)
(* it is there.  Microblock streams go through the same code as blocks and *)
(* are left out.                                                           *)
(***************************************************************************)
EXTENDS Integers, Sequences, FiniteSets, FiniteSetsExt

CONSTANTS
    Peers,
    Us,                   \* this node
    RewardCycleLength,
    GETPOXINV_MAX_BITLEN,
    Won,                  \* the heights at which some block won
    Starts,               \* the sortitions a node may have when it starts
    MaxHeight,            \* bound on the burn chain
    MaxChanges            \* bound on the sortitions, blocks and failures there are after the start

Nodes == Peers \cup {Us}

VARIABLES
    chain,             \* node -> its sortitions: the height of the tip, and its PoX id
    unwound,           \* node -> the tips that were unwound
    anchors,           \* node -> the anchor blocks it has, by the PoX id they were chosen under
    stored,            \* peer -> the blocks it stored, by sortition
    connected,         \* the peers with a conversation
    reported,          \* peer -> height of its burn chain, of the last message from it
    chain_view,        \* our view of the burn chain: its height
    tip,               \* our view of the sortitions (tip_sort_id and pox_id)
    block_stats,       \* peer -> how its scan stands
    request,           \* peer -> the request that waits for an answer
    reply,             \* peer -> the answer
    hint_learned_data,
    hint_do_full_rescan,
    rested,            \* was the last full scan less than sync_interval ago?
    pass,              \* what dispatch_network does next
    shrunk,            \* did we ever unwind reward cycles that our view lost, or never saw?
    changes

remote == <<unwound, anchors, stored>>
views == <<chain_view, tip, shrunk>>
scans == <<block_stats, request, reply>>
hints == <<hint_learned_data, hint_do_full_rescan, rested>>
links == <<connected, reported>>
scan_vars == <<chain, remote, links, views, scans, hints, pass, changes>>

-----------------------------------------------------------------------------
(* Sortitions *)

CycleOf(h) == (h - 1) \div RewardCycleLength
block_height_to_reward_cycle(h) == h \div RewardCycleLength
reward_cycle_to_block_height(c) == c * RewardCycleLength + 1

\* What the code's types say; a PoX id has a bit for each reward cycle up to the tip.
ASSUME ScanAssumption ==
    /\ {RewardCycleLength, GETPOXINV_MAX_BITLEN} \cup Won \subseteq Nat \ {0}
    /\ Us \notin Peers
    /\ \A c \in Starts : /\ c \in [height : Nat \ {0}, pox : Seq(BOOLEAN)]
                        /\ Len(c.pox) = CycleOf(c.height) + 1

\* Sortitions are told apart by their height and the PoX bits they depend on.
IsPrefix(s, t) == Len(s) <= Len(t) /\ \A i \in 1..Len(s) : s[i] = t[i]
Sortition(c, h) == [height |-> h, pox |-> SubSeq(c.pox, 1, CycleOf(h) + 1)]
On(c, s) == s.height <= c.height /\ IsPrefix(s.pox, c.pox)

\* pox_valid, and whether the node has the sortition at all
PoxValid(n, s) == On(chain[n], s)
Knows(n, s) == PoxValid(n, s) \/ \E c \in unwound[n] : On(c, s)

Bit(bits, c) == c < Len(bits) /\ bits[c + 1]

-----------------------------------------------------------------------------
(* PeerBlocksInv *)

NoInventory == [pox |-> <<>>, blocks |-> {}, num_sortitions |-> 0]

truncate_block_inventories(inv, c) ==
    LET first == reward_cycle_to_block_height(c)
    IN  IF inv.num_sortitions >= first
        THEN [inv EXCEPT !.blocks = {h \in @ : h < first}, !.num_sortitions = first]
        ELSE inv

truncate_pox_inventory(inv, c) ==
    IF c < Len(inv.pox) THEN [inv EXCEPT !.pox = SubSeq(@, 1, c)] ELSE inv

Truncate(inv, c) == truncate_block_inventories(truncate_pox_inventory(inv, c), c)

\* Blocks from the first reward cycle on whose bit becomes one are forgotten.
merge_pox_inv(inv, c, bits) ==
    LET pox == [i \in 1..Max({Len(inv.pox), c + Len(bits)}) |->
                   IF i > c /\ i <= c + Len(bits) THEN bits[i - c] ELSE inv.pox[i]]
        flipped == {k \in c..(c + Len(bits) - 1) : Bit(pox, k) /\ ~Bit(inv.pox, k)}
        merged == [inv EXCEPT !.pox = pox]
    IN  IF flipped = {} THEN merged ELSE truncate_block_inventories(merged, Min(flipped))

\* The answer says what holds for the heights first to first + bitlen - 1.
merge_blocks_inv(inv, first, bitlen, blocks) ==
    [inv EXCEPT !.blocks = {h \in @ : h \notin first..(first + bitlen - 1)} \cup blocks,
                !.num_sortitions = Max({@, first + bitlen})]

\* Up to which reward cycle an inventory agrees with a PoX id, if not on all.
Disagreements(inv, pox) ==
    {k \in 0..(Max({Len(inv.pox), Len(pox)}) - 1) :
        \/ k >= Len(inv.pox) \/ k >= Len(pox)
        \/ Bit(inv.pox, k) # Bit(pox, k)}

-----------------------------------------------------------------------------
(* NeighborBlockStats *)

NewStats ==
    [inv |-> NoInventory, state |-> "GetPoxInvBegin", status |-> "Online", done |-> FALSE,
     learned_data |-> FALSE, pox_reward_cycle |-> 0, block_reward_cycle |-> 0, target |-> 0]

NoRequest == [type |-> "none"]
NoReply == [type |-> "none"]

\* A field that the state does not use is zero.
reset_pox_scan(s, c) ==
    [s EXCEPT !.pox_reward_cycle = c, !.block_reward_cycle = 0, !.target = 0, !.state = "GetPoxInvBegin"]
reset_block_scan(s, c) ==
    [s EXCEPT !.pox_reward_cycle = 0, !.block_reward_cycle = c, !.target = 0, !.state = "GetBlocksInvBegin"]

diagnose_nack(code, height) ==
    CASE code = "Throttled" -> "Dead"
      [] code = "InvalidPoxFork" -> "Diverged"
      [] code = "NoSuchBurnchainBlock" ->
            IF height < chain_view THEN "Stale"
            ELSE IF height > chain_view THEN "Diverged" ELSE "Broken"

\* Is our view still that of a valid fork?  (Otherwise StaleView)
ViewValid == PoxValid(Us, Sortition(tip, tip.height))

-----------------------------------------------------------------------------
(* Requests.  Begin carries a scan on until it waits for an answer, ends, or fails *)
(* because our view is stale; it yields the scan, the request and whether it failed. *)

Waiting(s, r) == [scan |-> s, request |-> r, stale |-> FALSE]
Stopped(s) == [scan |-> [s EXCEPT !.done = TRUE], request |-> NoRequest, stale |-> FALSE]
Stale(s) == [scan |-> [s EXCEPT !.done = TRUE], request |-> NoRequest, stale |-> TRUE]

CanAskPox(p, c) ==
    /\ c < Len(tip.pox)
    /\ p \in connected
    /\ reward_cycle_to_block_height(c) <= reported[p]

make_getpoxinv(p, c) ==
    LET max == Min({Len(tip.pox), block_height_to_reward_cycle(reported[p])})
    IN  [type |-> "GetPoxInv",
         base |-> Sortition(tip, reward_cycle_to_block_height(c)),
         num |-> IF c + GETPOXINV_MAX_BITLEN <= max THEN GETPOXINV_MAX_BITLEN ELSE Max({1, max - c})]

CanAskBlocks(p, s, c) ==
    /\ c < Len(s.inv.pox)
    /\ reward_cycle_to_block_height(c) <= chain_view
    /\ p \in connected
    /\ c < Len(tip.pox)
    /\ \A k \in Disagreements(s.inv, tip.pox) : c < k

make_getblocksinv(c) ==
    LET first == reward_cycle_to_block_height(c)
    IN  [type |-> "GetBlocksInv", base |-> Sortition(tip, first),
         num |-> IF first + RewardCycleLength <= chain_view THEN RewardCycleLength
                 ELSE chain_view - first + 1]

inv_getblocksinv_begin(p, s) ==
    LET c == s.block_reward_cycle
    IN  IF ~CanAskBlocks(p, s, c) THEN Stopped(s)
        ELSE IF ~ViewValid THEN Stale(s)
        ELSE IF reward_cycle_to_block_height(c) > reported[p] THEN Stopped(s)
        ELSE Waiting([s EXCEPT !.state = "GetBlocksInvFinish", !.target = c], make_getblocksinv(c))

inv_getpoxinv_begin(p, s) ==
    LET c == IF Len(s.inv.pox) < Len(tip.pox) THEN Len(s.inv.pox) ELSE s.pox_reward_cycle
    IN  IF ~CanAskPox(p, c) THEN inv_getblocksinv_begin(p, reset_block_scan(s, 0))
        ELSE IF ~ViewValid THEN Stale(s)
        ELSE Waiting([s EXCEPT !.state = "GetPoxInvFinish", !.target = c], make_getpoxinv(p, c))

Begin(p, s) ==
    IF s.state = "GetPoxInvBegin" THEN inv_getpoxinv_begin(p, s) ELSE inv_getblocksinv_begin(p, s)

-----------------------------------------------------------------------------
(* Answers *)

\* The first reward cycle from target on, of those both sides speak of, where only we
\* (ours) or only the peer (~ours) knows the anchor block.
Uncertain(target, bits, ours) ==
    LET end == Min({Len(tip.pox), target + Len(bits)})
        cycles == {k \in target..(end - 1) :
                       Bit(tip.pox, k) = ours /\ bits[k - target + 1] # ours}
    IN  IF cycles # {} THEN Min(cycles) ELSE Max({target, end})

\* The scan after the PoX bits of the peer are merged.
PoxScanned(s, bits) ==
    LET end == s.target + Len(bits)
        inv == merge_pox_inv(s.inv, s.target, bits)
        certain == Min({Uncertain(s.target, bits, TRUE), Uncertain(s.target, bits, FALSE)})
        learned == [s EXCEPT !.inv = inv,
                             !.learned_data = @ \/ \E k \in s.target..(end - 1) :
                                                       Bit(inv.pox, k) /\ ~Bit(s.inv.pox, k)]
    IN  IF certain # end
        THEN reset_block_scan([learned EXCEPT !.inv = Truncate(@, certain)], 0)
        ELSE reset_pox_scan(learned, s.pox_reward_cycle + Len(bits))

inv_getpoxinv_try_finish(p, s) ==
    LET r == reply[p]
        status == diagnose_nack(r.code, r.height)
    IN  CASE r.type = "failed" -> Stopped([s EXCEPT !.status = "Dead", !.state = "Done"])
          [] r.type = "Nack" /\ status = "Diverged" ->
                Begin(p, reset_block_scan([s EXCEPT !.inv = Truncate(@, s.target)], 0))
          [] r.type = "Nack" /\ status # "Diverged" ->
                Stopped([s EXCEPT !.status = status, !.state = "Done"])
          [] r.type = "PoxInv" -> Begin(p, PoxScanned(s, r.bits))

inv_getblocksinv_try_finish(p, s) ==
    LET r == reply[p]
        inv == merge_blocks_inv(s.inv, reward_cycle_to_block_height(s.target), r.bitlen, r.blocks)
        learned == [s EXCEPT !.inv = inv,
                             !.learned_data = @ \/ r.blocks \ s.inv.blocks # {}]
    IN  CASE r.type = "failed" -> Stopped([s EXCEPT !.status = "Dead", !.state = "Done"])
          [] r.type = "Nack" ->
                Stopped([s EXCEPT !.status = diagnose_nack(r.code, r.height), !.state = "Done"])
          [] r.type = "BlocksInv" /\ s.target < Len(tip.pox) ->
                Begin(p, reset_block_scan(learned, s.block_reward_cycle + 1))
          [] r.type = "BlocksInv" /\ s.target >= Len(tip.pox) ->
                Stopped([learned EXCEPT !.state = "Done"])

\* One pass over the scan of a peer.
inv_sync_run(p) ==
    LET s == block_stats[p]
        waits == [scan |-> s, request |-> request[p], stale |-> FALSE]
    IN  CASE s.done -> waits
          [] ~s.done /\ s.status # "Online" -> Stopped(s)
          [] ~s.done /\ s.status = "Online" /\ s.state \in {"GetPoxInvBegin", "GetBlocksInvBegin"} ->
                Begin(p, s)
          [] ~s.done /\ s.status = "Online" /\ s.state = "GetPoxInvFinish" ->
                IF reply[p] = NoReply THEN waits ELSE inv_getpoxinv_try_finish(p, s)
          [] ~s.done /\ s.status = "Online" /\ s.state = "GetBlocksInvFinish" ->
                IF reply[p] = NoReply THEN waits ELSE inv_getblocksinv_try_finish(p, s)

-----------------------------------------------------------------------------
(* The neighbors and the chains *)

ScanInit ==
    /\ chain \in [Nodes -> Starts]
    /\ unwound = [n \in Nodes |-> {}]
    /\ anchors = [n \in Nodes |-> {SubSeq(chain[n].pox, 1, k - 1) : k \in {i \in 2..Len(chain[n].pox) : chain[n].pox[i]}}]
    /\ stored = [p \in Peers |-> {}]
    /\ connected = Peers /\ reported = [p \in Peers |-> chain[p].height]
    /\ chain_view = chain[Us].height /\ tip = chain[Us] /\ shrunk = FALSE
    /\ block_stats = <<>>
    /\ request = [p \in Peers |-> NoRequest] /\ reply = [p \in Peers |-> NoReply]
    /\ hint_learned_data = FALSE /\ hint_do_full_rescan = TRUE /\ rested = FALSE
    /\ pass = "refresh" /\ changes = 0

Change == changes < MaxChanges /\ changes' = changes + 1

\* A node processes the next sortition; at the start of a reward cycle the PoX id grows.
NextSortition(n) ==
    LET c == chain[n]
        h == c.height + 1
    IN  /\ h <= MaxHeight /\ Change
        /\ chain' = [chain EXCEPT ![n] =
                [height |-> h,
                 pox |-> IF CycleOf(h) = Len(c.pox) THEN Append(c.pox, c.pox \in anchors[n]) ELSE c.pox]]
        /\ UNCHANGED <<remote, links, views, scans, hints, pass>>

\* A node gets the anchor block of a reward cycle, and unwinds what it processed without it.
NewAnchor(n) ==
    \E k \in 1..Len(chain[n].pox) :
        LET fork == SubSeq(chain[n].pox, 1, k)
        IN  /\ k * RewardCycleLength < MaxHeight
            /\ fork \notin anchors[n] /\ Change
            /\ anchors' = [anchors EXCEPT ![n] = @ \cup {fork}]
            /\ IF k < Len(chain[n].pox)
               THEN /\ unwound' = [unwound EXCEPT ![n] = @ \cup {chain[n]}]
                    /\ chain' = [chain EXCEPT ![n] = [height |-> k * RewardCycleLength, pox |-> fork]]
               ELSE UNCHANGED <<unwound, chain>>
            /\ shrunk' = (shrunk \/ (n = Us /\ Len(tip.pox) <= k /\ k < Len(chain[n].pox)))
            /\ UNCHANGED <<stored, links, chain_view, tip, scans, hints, pass>>

StoreBlock(p) ==
    /\ Change
    /\ \E h \in Won :
        /\ h <= chain[p].height /\ Sortition(chain[p], h) \notin stored[p]
        /\ stored' = [stored EXCEPT ![p] = @ \cup {Sortition(chain[p], h)}]
    /\ UNCHANGED <<chain, unwound, anchors, links, views, scans, hints, pass>>

\* The height in a message is that of the view its sender had when it last refreshed it.
Heights(p) == {reported[p], chain[p].height}

Heard(p, h) ==
    /\ reported' = [reported EXCEPT ![p] = h]
    /\ UNCHANGED <<chain, remote, connected, views, block_stats, request, hints, pass>>

\* A message that has nothing to do with inventories.
Ping(p) ==
    /\ p \in connected
    /\ Heard(p, chain[p].height)
    /\ UNCHANGED <<reply, changes>>

Nack(code, h) == [type |-> "Nack", code |-> code, height |-> h]

\* The bits come from the peer's view of its sortitions, which it refreshes in every
\* pass: here it is never behind.
make_getpoxinv_response(p, r, h) ==
    IF Len(chain[p].pox) <= 1 THEN Nack("Throttled", h)
    ELSE IF ~PoxValid(p, r.base) THEN Nack("InvalidPoxFork", h)
    ELSE LET c == CycleOf(r.base.height)
         IN  [type |-> "PoxInv", bits |-> SubSeq(chain[p].pox, c + 1, Min({c + r.num, Len(chain[p].pox)}))]

make_getblocksinv_response(p, r, h) ==
    LET last == r.base.height + r.num - 1
    IN  IF ~Knows(p, r.base) THEN Nack("NoSuchBurnchainBlock", h)
        ELSE IF ~PoxValid(p, r.base) THEN Nack("InvalidPoxFork", h)
        ELSE IF last > chain[p].height THEN Nack("NoSuchBurnchainBlock", h)
        ELSE [type |-> "BlocksInv", bitlen |-> r.num,
              blocks |-> {k \in r.base.height..last : Sortition(chain[p], k) \in stored[p]}]

Answer(p) ==
    /\ request[p] # NoRequest /\ reply[p] = NoReply
    /\ UNCHANGED changes
    /\ \E h \in Heights(p) :
        /\ Heard(p, h)
        /\ reply' = [reply EXCEPT ![p] = IF request[p].type = "GetPoxInv"
                                         THEN make_getpoxinv_response(p, request[p], h)
                                         ELSE make_getblocksinv_response(p, request[p], h)]

\* BlocksAvailable: the peer announces a block it stored, on whichever fork it was then.
\* The last reward cycle allowed is the one after those whose PoX bits are known.
set_data_available(p, s) ==
    /\ PoxValid(Us, s)
    /\ block_height_to_reward_cycle(s.height) <= Len(block_stats[p].inv.pox)
    /\ s.height \notin block_stats[p].inv.blocks
    /\ block_stats' = [block_stats EXCEPT ![p].inv = merge_blocks_inv(@, s.height, 1, {s.height})]

Announce(p) ==
    /\ p \in DOMAIN block_stats
    /\ \E s \in stored[p] : set_data_available(p, s)
    /\ UNCHANGED <<chain, remote, links, views, request, reply, hints, pass, changes>>

\* No answer comes in time.
Timeout(p) ==
    /\ request[p] # NoRequest /\ reply[p] = NoReply
    /\ Change
    /\ reply' = [reply EXCEPT ![p] = [type |-> "failed"]]
    /\ UNCHANGED <<chain, remote, connected, reported, views, block_stats, request, hints, pass>>

\* deregister_peer also drops the inventory.
del_peer(p) ==
    /\ p \in connected /\ Change
    /\ connected' = connected \ {p}
    /\ block_stats' = [q \in DOMAIN block_stats \ {p} |-> block_stats[q]]
    /\ request' = [request EXCEPT ![p] = NoRequest] /\ reply' = [reply EXCEPT ![p] = NoReply]
    /\ UNCHANGED <<chain, remote, reported, views, hints, pass>>

Connect(p) ==
    /\ p \notin connected
    /\ connected' = connected \cup {p}
    /\ reported' = [reported EXCEPT ![p] = chain[p].height]
    /\ UNCHANGED <<chain, remote, views, scans, hints, pass, changes>>

-----------------------------------------------------------------------------
(* dispatch_network *)

\* Mutant: scans go on as if nothing had changed.
invalidate_block_inventories_NoReset(c) ==
    /\ block_stats' = [p \in DOMAIN block_stats |-> [block_stats[p] EXCEPT !.inv = Truncate(@, c)]]
    /\ UNCHANGED <<request, reply>>

invalidate_block_inventories(c) ==
    LET dropped(inv) == c < Len(inv.pox) \/ reward_cycle_to_block_height(c) < inv.num_sortitions
        restarted == {p \in DOMAIN block_stats : dropped(block_stats[p].inv)}
    IN  /\ block_stats' = [p \in DOMAIN block_stats |->
                        LET s == [block_stats[p] EXCEPT !.inv = Truncate(@, c)]
                        IN  IF p \in restarted THEN reset_pox_scan(s, c) ELSE s]
        /\ request' = [p \in Peers |-> IF p \in restarted THEN NoRequest ELSE request[p]]
        /\ reply' = [p \in Peers |-> IF p \in restarted THEN NoReply ELSE reply[p]]

refresh_burnchain_view ==
    IF chain[Us].height > chain_view
    THEN /\ chain_view' = chain[Us].height
         /\ hint_learned_data' = TRUE /\ hint_do_full_rescan' = TRUE
    ELSE UNCHANGED <<chain_view, hint_learned_data, hint_do_full_rescan>>

\* When the vector shrinks, inventories are only cut at its old length.
refresh_sortition_view ==
    LET new == chain[Us].pox
        flips == {c \in 0..(Min({Len(new), Len(tip.pox)}) - 1) : ~Bit(tip.pox, c) /\ Bit(new, c)}
    IN  /\ IF flips # {} THEN invalidate_block_inventories(Min(flips))
           ELSE IF Len(new) < Len(tip.pox) THEN invalidate_block_inventories(Len(tip.pox))
           ELSE UNCHANGED scans
        /\ tip' = chain[Us]
        /\ shrunk' = (shrunk \/ Len(new) < Len(tip.pox))

Refresh ==
    /\ pass = "refresh" /\ pass' = "sync"
    /\ refresh_burnchain_view
    /\ refresh_sortition_view
    /\ UNCHANGED <<chain, remote, links, rested, changes>>

Throttled == ~hint_do_full_rescan /\ ~hint_learned_data /\ rested

\* Mutant: scans that are done stay done.
reset_sync_peers_KeepDone(scan, neighbors) ==
    [p \in neighbors |-> IF p \in DOMAIN scan THEN scan[p] ELSE NewStats]

\* The block_stats the next round starts from, for the neighbors that are connected.
reset_sync_peers(scan, neighbors) ==
    [p \in neighbors |->
        IF p \in DOMAIN scan
        THEN reset_pox_scan([scan[p] EXCEPT !.status = "Online", !.done = FALSE, !.learned_data = FALSE], 0)
        ELSE NewStats]

\* One call of sync_inventories.  When every scan is done the round ends: neighbors
\* that are broken or dead are disconnected, and the next round is prepared.
sync_inventories ==
    LET run == [p \in DOMAIN block_stats |-> inv_sync_run(p)]
        scan == [p \in DOMAIN block_stats |-> run[p].scan]
        learned == hint_learned_data
                   \/ \E p \in DOMAIN block_stats : ~block_stats[p].done /\ (run[p].stale \/ scan[p].learned_data)
        bad == {p \in DOMAIN block_stats : scan[p].status \in {"Broken", "Dead"}}
    IN  /\ reply' = [p \in Peers |-> NoReply]
        /\ IF \A p \in DOMAIN block_stats : scan[p].done
           THEN /\ hint_learned_data' = FALSE
                /\ hint_do_full_rescan' = (learned \/ block_stats = <<>>)
                /\ rested' = (rested \/ ~hint_do_full_rescan')
                /\ connected' = connected \ bad
                /\ block_stats' = reset_sync_peers(scan, connected')
                /\ request' = [p \in Peers |-> NoRequest]
           ELSE /\ block_stats' = scan
                /\ request' = [p \in Peers |-> IF p \in DOMAIN block_stats THEN run[p].request ELSE NoRequest]
                /\ hint_learned_data' = learned
                /\ UNCHANGED <<hint_do_full_rescan, rested, connected>>

do_network_inv_sync ==
    /\ pass = "sync" /\ pass' = "refresh"
    /\ IF Throttled THEN UNCHANGED <<scans, hints, connected>> ELSE sync_inventories
    /\ UNCHANGED <<chain, remote, reported, views, changes>>

IntervalPasses ==
    /\ rested /\ rested' = FALSE
    /\ UNCHANGED <<chain, remote, links, views, scans, hint_learned_data, hint_do_full_rescan, pass, changes>>

ScanNext ==
    \/ \E n \in Nodes : NextSortition(n) \/ NewAnchor(n)
    \/ \E p \in Peers : StoreBlock(p) \/ Ping(p) \/ Answer(p) \/ Announce(p) \/ Timeout(p) \/ del_peer(p) \/ Connect(p)
    \/ Refresh \/ do_network_inv_sync \/ IntervalPasses

ScanSpec == ScanInit /\ [][ScanNext]_scan_vars

\* Refresh and do_network_inv_sync take turns.
Dispatch ==
    \/ pass = "refresh" /\ pass' = "sync"
    \/ pass = "sync" /\ pass' = "refresh"

\* The p2p thread runs, neighbors answer and are reconnected, and time passes.
FairSpec ==
    /\ ScanSpec
    /\ WF_pass(Dispatch) /\ WF_scan_vars(IntervalPasses)
    /\ \A p \in Peers : WF_scan_vars(Ping(p)) /\ WF_scan_vars(Answer(p)) /\ WF_scan_vars(Connect(p))

-----------------------------------------------------------------------------
(* Properties *)

Truthful(p, h) == h <= tip.height => Sortition(tip, h) \in stored[p]

\* A peer that is said to have the block of a height has the one that won on our PoX fork,
\* however forks changed on either side while the peer was scanned; unless our PoX id
\* shrank, or reward cycles were unwound that our view never saw: stale bits are kept then.
BitsAreTruthful ==
    tip = chain[Us] /\ ~shrunk =>
        \A p \in DOMAIN block_stats : \A h \in block_stats[p].inv.blocks : Truthful(p, h)

\* Once a neighbor stays connected and on our fork, our inventory of it becomes exact,
\* whatever was believed before.
InventoryConverges ==
    \A p \in Peers :
        <>[](p \in connected /\ chain[p] = chain[Us] /\ tip.height = chain_view /\ Len(tip.pox) > 1)
        => <>[](/\ p \in DOMAIN block_stats
                /\ block_stats[p].inv.blocks = {h \in 1..tip.height : Sortition(tip, h) \in stored[p]})
=============================================================================
