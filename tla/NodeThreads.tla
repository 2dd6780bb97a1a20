----------------------------- MODULE NodeThreads -----------------------------
(***************************************************************************)
(* The threads of a mining node (testnet/stacks-node): the run loop        *)
(* (run_loop/neon.rs), the relayer that also mines, and the p2p thread     *)
(* (neon_node.rs).  Run loop and p2p thread send directives to the relayer *)
(* over one bounded channel; the run loop waits when it is full, the p2p   *)
(* thread keeps its results and tries again.  The relayer keeps the block  *)
(* it mined last until it hears of the next sortition.                     *)
(*                                                                         *)
(* A Stacks block is the number of the tenure that built it.  What a block *)
(* holds, microblocks and the sockets are left out.                        *)
(***************************************************************************)
EXTENDS Integers, Sequences, FiniteSets, FiniteSetsExt

CONSTANTS
    Buffer,              \* RELAYER_MAX_BUFFER
    CycleLength,         \* reward_cycle_length
    StableConfirmations, \* stable_confirmations
    StartHeight,         \* height of the burn chain when the node first starts
    Scenarios            \* bounds on what happens around the threads, see below

ASSUME NodeAssumption ==
    /\ Buffer \in Nat \ {0} /\ CycleLength \in Nat \ {0} /\ StableConfirmations \in Nat
    /\ StartHeight \in Nat \ {0}
    /\ \A s \in Scenarios :
        /\ s.height \in Nat /\ s.height >= StartHeight \* height of the burn chain in the end
        /\ s.reorgs \in Nat                            \* forks of the burn chain
        /\ s.results \in Nat                           \* network results with data
        /\ s.restarts \in Nat                          \* restarts of the node
        /\ s.stops \in BOOLEAN                         \* may the coordinator be stopped?

VARIABLES
    scenario,    \* one of Scenarios
    chain,       \* the burn chain: the block at each height
    mempool,     \* operations that were submitted and are in no burn block
    reorgs,      \* forks of the burn chain so far
    stored,      \* the burn chain up to the last block in the burn-chain database
    view,        \* the burn chain up to the canonical sortition tip
    coordinator, \* does the chains coordinator run?
    pc,          \* where the run loop is
    sending,     \* the directive it is sending, as a sequence of at most one
    target,      \* target_burnchain_block_height
    burn_height, \* burnchain_height
    height,      \* block_height
    ibd,         \* in the initial block download?
    active_keys,
    last,        \* last_burn_block
    p2p,         \* where the p2p thread is
    results,     \* results_with_data
    fetched,     \* number of network results with data
    channel,     \* relay_channel
    relayer,     \* does the relayer thread run?
    vrf_map,     \* the VRF keys the keychain has
    last_mined_block, \* sequence of at most one
    built,       \* history: the burn block each tenure was built on
    won,         \* history: sortitions processed as won by this node
    seen,        \* history: burn blocks the run loop went through
    asked,       \* history: the burn block of the last tenure or registration
    handled,     \* history: the last network result the relayer handled
    restarts,
    first_own    \* history: the first tenure since the last restart

burnchain == <<chain, mempool, reorgs>>
run_loop == <<pc, sending, target, burn_height, height, ibd, active_keys, last, seen>>
p2p_thread == <<p2p, results, fetched>>
miner == <<vrf_map, last_mined_block, built, won, asked>>
lives == <<scenario, restarts, first_own>>
vars == <<burnchain, stored, view, coordinator, run_loop, p2p_thread, channel, relayer, miner, handled, lives>>

Least(a, b) == IF a <= b THEN a ELSE b

Last(s) == s[Len(s)]
Front(s) == SubSeq(s, 1, Len(s) - 1)
Begins(s, t) == Len(s) <= Len(t) /\ \A i \in 1..Len(s) : s[i] = t[i]
InSomeOrder(S) == CHOOSE s \in [1..Cardinality(S) -> S] : IsInjective(s)

\* Who won a sortition, if it is not one of this node's tenures.
NoSortition == 0
AnotherMiner == -1

\* A burn block has its identity (height and fork), its parent's, the operations of
\* this node in it and the Stacks block that won its sortition.
BurnBlock(h, fork, parent, ops, winner) ==
    [id |-> <<h, fork>>, parent |-> parent, ops |-> ops, winner |-> winner]
KeysIn(b) == {op.key : op \in {o \in b.ops : o.op = "key"}}
Genesis == <<0, 0>>

KeyRegister(key) == [op |-> "key", key |-> key]
BlockCommit(tenure) == [op |-> "commit", block |-> tenure]

\* Directives
HandleNetResult(n) == [kind |-> "net", result |-> n]
ProcessTenure(b) == [kind |-> "process", id |-> b.id, burn |-> b.parent, block |-> b.winner]
RunTenure(key, b) == [kind |-> "run", key |-> key, burn |-> b.id]
RegisterKey(b) == [kind |-> "register", burn |-> b.id]

-----------------------------------------------------------------------------
(* The burn chain *)

\* A block after the given chain, with some of the submitted operations; one of
\* its commits wins, or another miner's, or there is no sortition.
Extensions(ch, fork, ops) ==
    LET tenures == {op.block : op \in {o \in ops : o.op = "commit"}}
    IN  {Append(ch, BurnBlock(Len(ch) + 1, fork, Last(ch).id, ops, winner)) :
            winner \in tenures \cup {NoSortition, AnotherMiner}}

NewBurnBlock ==
    /\ Len(chain) < scenario.height
    /\ \E ops \in SUBSET mempool :
        /\ chain' \in Extensions(chain, reorgs, ops)
        /\ mempool' = mempool \ ops
    /\ UNCHANGED <<reorgs, stored, view, coordinator, run_loop, p2p_thread, channel, relayer, miner, handled, lives>>

\* The last burn block is replaced by two others; its operations are pending again.
Reorg ==
    /\ reorgs < scenario.reorgs /\ Len(chain) > StartHeight /\ Len(chain) < scenario.height
    /\ reorgs' = reorgs + 1
    /\ LET pending == mempool \cup Last(chain).ops
       IN  \E ops \in SUBSET pending :
            /\ \E ch \in Extensions(Front(chain), reorgs', ops) : chain' \in Extensions(ch, reorgs', {})
            /\ mempool' = pending \ ops
    /\ UNCHANGED <<stored, view, coordinator, run_loop, p2p_thread, channel, relayer, miner, handled, lives>>

-----------------------------------------------------------------------------
(* Start *)

\* The run loop waits for the sortition of every stored block, though nobody
\* announces them; it starts at the sortition tip, and the other threads with it.
Boot(tip) ==
    /\ coordinator' = TRUE
    /\ pc' = IF Len(stored') <= Len(tip) THEN "sync" ELSE "start"
    /\ sending' = <<>> /\ target' = CycleLength /\ burn_height' = 1
    /\ height' = Len(tip) /\ ibd' = FALSE /\ active_keys' = <<>> /\ last' = Last(tip) /\ seen' = {}
    /\ p2p' = "poll" /\ results' = <<>> /\ fetched' = 0
    /\ channel' = <<>> /\ relayer' = TRUE
    /\ vrf_map' = {} /\ last_mined_block' = <<>> /\ won' = {} /\ asked' = Genesis /\ handled' = 0

\* A key of an earlier life of the node, with the same seed.
OldKey == <<1, 0>>

\* The chain may hold a key of this node from before; the database has one block.
Init ==
    /\ \E old \in 0..StartHeight :
        chain = [h \in 1..StartHeight |->
            BurnBlock(h, 0, <<h - 1, 0>>, IF h = old THEN {KeyRegister(OldKey)} ELSE {}, NoSortition)]
    /\ scenario \in Scenarios
    /\ mempool = {} /\ reorgs = 0
    /\ stored = SubSeq(chain, 1, 1) /\ view = stored
    /\ coordinator = TRUE
    /\ pc = "sync" /\ sending = <<>> /\ target = CycleLength /\ burn_height = 1
    /\ height = 1 /\ ibd = FALSE /\ active_keys = <<>> /\ last = chain[1] /\ seen = {}
    /\ p2p = "poll" /\ results = <<>> /\ fetched = 0
    /\ channel = <<>> /\ relayer = TRUE
    /\ vrf_map = {} /\ last_mined_block = <<>> /\ built = <<>> /\ won = {} /\ asked = Genesis
    /\ handled = 0 /\ restarts = 0 /\ first_own = 1

\* How far the coordinator may be with the stored blocks.  It evaluates a block whose
\* parent is on the fork of its tip; a block that does not add to the height leaves
\* the tip where it is, and is one of two highest for who reads the database.
Sortitions ==
    {view} \cup {SubSeq(stored, 1, n) :
        n \in {k \in Len(view)..Len(stored) : k = Len(view) \/ Begins(view, stored)}}

\* The process ends, at any point, and is started again.  In the middle of sync some
\* of the blocks are stored.
Restart ==
    /\ restarts < scenario.restarts
    /\ restarts' = restarts + 1 /\ first_own' = Len(built) + 1
    /\ view' \in IF pc = "start" THEN {view} ELSE Sortitions
    /\ \/ stored' = stored
       \/ pc = "wait" /\ \E n \in Len(view')..Len(stored) : stored' = SubSeq(stored, 1, n)
    /\ Boot(view')
    /\ UNCHANGED <<scenario, burnchain, built>>

\* stop_chains_coordinator
StopCoordinator ==
    /\ scenario.stops
    /\ pc /= "done" /\ coordinator /\ coordinator' = FALSE
    /\ UNCHANGED <<burnchain, stored, view, run_loop, p2p_thread, channel, relayer, miner, handled, lives>>

-----------------------------------------------------------------------------
(* The run loop *)

\* Where one call of sync starts, and how far it gets: BurnchainSync has the details.
SyncStart ==
    CHOOSE n \in 0..Len(stored) :
        /\ \A i \in 1..n : i <= Len(chain) /\ stored[i] = chain[i]
        /\ n = Len(stored) \/ stored[n + 1] /= chain[n + 1]
SyncEnd == Least(Least(Len(chain), target), SyncStart + CycleLength)

\* PoxSyncWatchdog::infer_initial_block_download
infer_initial_block_download == Len(view) + StableConfirmations < burn_height

\* Mutant: the target stays where it is.
Synced_SameTarget(tip) ==
    /\ view' = tip /\ target' = target
    /\ pc' = IF Len(tip) <= height THEN "sync" ELSE "blocks"

\* sync returns this sortition tip.
Synced(tip) ==
    /\ view' = tip
    /\ target' = Least(target + CycleLength, scenario.height)
    /\ pc' = IF Len(tip) <= height THEN "sync" ELSE "blocks"

\* The watchdog's wait, then sync: the headers come, and the blocks are stored and
\* announced.  Where there are blocks to store and the coordinator has stopped, sync
\* fails at the first and the process ends.
Sync ==
    /\ pc = "sync" /\ sending = <<>>
    /\ ibd' = infer_initial_block_download
    /\ burn_height' = Len(chain)
    /\ \/ SyncEnd <= SyncStart /\ Synced(view) /\ UNCHANGED stored
       \/ /\ SyncEnd > SyncStart /\ coordinator
          /\ stored' = SubSeq(chain, 1, SyncEnd) /\ pc' = "wait" /\ UNCHANGED <<view, target>>
       \/ /\ SyncEnd > SyncStart /\ ~coordinator
          /\ stored' = SubSeq(chain, 1, SyncStart + 1) /\ pc' = "done" /\ UNCHANGED <<view, target>>
    /\ UNCHANGED <<burnchain, coordinator, sending, height, active_keys, last, seen,
                   p2p_thread, channel, relayer, miner, handled, lives>>

\* wait_for_sortitions returns when the sortition tip is as high as the blocks.  The
\* coordinator follows blocks on top of its tip; off a fork of the burn chain that
\* replaces its tip it never gets there.
WaitForSortitions ==
    /\ pc = "wait" /\ sending = <<>>
    /\ \/ Len(stored) <= Len(view) /\ Synced(view)
       \/ Len(stored) > Len(view) /\ coordinator /\ Begins(view, stored) /\ Synced(stored)
    /\ UNCHANGED <<burnchain, stored, coordinator, sending, burn_height, height, ibd, active_keys, last, seen,
                   p2p_thread, channel, relayer, miner, handled, lives>>

\* process_burnchain_state, then relayer_sortition_notify
ProcessBurnchainState ==
    LET b == view[height + 1]
    IN  /\ pc = "blocks" /\ sending = <<>> /\ height < Len(view)
        /\ height' = height + 1 /\ last' = b /\ seen' = seen \cup {b}
        /\ active_keys' = IF ibd THEN active_keys ELSE active_keys \o InSomeOrder(KeysIn(b))
        /\ sending' = IF b.winner = NoSortition THEN <<>> ELSE <<ProcessTenure(b)>>
        /\ UNCHANGED <<burnchain, stored, view, coordinator, pc, target, burn_height, ibd,
                       p2p_thread, channel, relayer, miner, handled, lives>>

\* relayer_issue_tenure, at the tip of the burn chain
IssueTenure ==
    /\ pc = "blocks" /\ sending = <<>> /\ height = Len(view)
    /\ pc' = "sync"
    /\ sending' = IF height < burn_height THEN <<>>
                  ELSE IF active_keys = <<>> THEN <<RegisterKey(last)>>
                  ELSE <<RunTenure(Head(active_keys), last)>>
    /\ UNCHANGED <<burnchain, stored, view, coordinator, target, burn_height, height, ibd, active_keys, last, seen,
                   p2p_thread, channel, relayer, miner, handled, lives>>

\* send: waits while the channel is full, fails when the relayer is gone.
Send ==
    /\ sending /= <<>> /\ sending' = <<>>
    /\ \/ relayer /\ Len(channel) < Buffer /\ channel' = channel \o sending /\ pc' = pc
       \/ ~relayer /\ channel' = channel /\ pc' = "done"
    /\ UNCHANGED <<burnchain, stored, view, coordinator, target, burn_height, height, ibd, active_keys, last, seen,
                   p2p_thread, relayer, miner, handled, lives>>

-----------------------------------------------------------------------------
(* The p2p thread *)

\* The threads beside the run loop start after its first wait and end with it.
Running == pc \notin {"start", "done"}

\* One pass over the network, with or without data to store; without any and with
\* no results left over it changes nothing.
Poll ==
    /\ Running /\ p2p = "poll" /\ p2p' = "dispatch"
    /\ \/ results /= <<>> /\ UNCHANGED <<results, fetched>>
       \/ /\ fetched < scenario.results /\ fetched' = fetched + 1
          /\ results' = Append(results, HandleNetResult(fetched + 1))
    /\ UNCHANGED <<burnchain, stored, view, coordinator, run_loop, channel, relayer, miner, handled, lives>>

\* Mutant: a result that does not fit goes to the back.
KeptResults_Back == Append(Tail(results), Head(results))

\* A result that does not fit goes back to the front.
KeptResults == <<Head(results)>> \o Tail(results)

\* One turn of the loop that passes the results on.
Dispatch ==
    /\ Running /\ p2p = "dispatch"
    /\ \/ results = <<>> /\ p2p' = "poll" /\ UNCHANGED <<results, channel>>
       \/ /\ results /= <<>> /\ relayer /\ Len(channel) < Buffer
          /\ channel' = Append(channel, Head(results)) /\ results' = Tail(results) /\ p2p' = p2p
       \/ /\ results /= <<>> /\ relayer /\ Len(channel) >= Buffer
          /\ results' = KeptResults /\ p2p' = "poll" /\ channel' = channel
       \/ /\ results /= <<>> /\ ~relayer
          /\ results' = Tail(results) /\ p2p' = "done" /\ channel' = channel
    /\ UNCHANGED <<burnchain, stored, view, coordinator, run_loop, fetched, relayer, miner, handled, lives>>

-----------------------------------------------------------------------------
(* The relayer *)

Receives(kind) ==
    /\ Running /\ relayer /\ channel /= <<>>
    /\ Head(channel).kind = kind
    /\ channel' = Tail(channel)

\* process_network_result; an error ends the thread.
RelayNetResult ==
    /\ Receives("net")
    /\ handled' = Head(channel).result
    /\ relayer' \in BOOLEAN
    /\ UNCHANGED <<burnchain, stored, view, coordinator, run_loop, p2p_thread, miner, lives>>

\* Mutant: the burn block a block was mined on is not compared.
Won_AnyBurnBlock(d) == last_mined_block /= <<>> /\ last_mined_block[1] = d.block

\* The winner is the block mined last, and was mined on the block before.
Won(d) == last_mined_block /= <<>> /\ last_mined_block[1] = d.block /\ built[d.block] = d.burn

\* The block is stored and announced.  The thread ends when the coordinator has
\* stopped, and when the block's sortition cannot be read for what follows.
inner_process_tenure == relayer' \in BOOLEAN

\* The block mined last is given up, whether it won or not.
RelayProcessTenure ==
    LET d == Head(channel)
    IN  /\ Receives("process")
        /\ last_mined_block' = <<>>
        /\ \/ Won(d) /\ won' = won \cup {d.id} /\ inner_process_tenure
           \/ ~Won(d) /\ UNCHANGED <<won, relayer>>
        /\ UNCHANGED <<burnchain, stored, view, coordinator, run_loop, p2p_thread, vrf_map, built, asked,
                       handled, lives>>

\* submit_operation, which may fail: nobody looks at the result.
Submit(op) == mempool' \in {mempool, mempool \cup {op}}

\* A proof needs the secret key.
generate_proof(key) == key \in vrf_map

\* relayer_run_tenure: fails without the secret key, and on any error while the
\* block is built; an error that reads a database ends the thread.
RelayRunTenure ==
    LET d == Head(channel)
        tenure == Len(built) + 1
    IN  /\ Receives("run")
        /\ asked' = d.burn
        /\ \/ /\ last_mined_block' = <<>> /\ UNCHANGED <<built, mempool>>
              /\ UNCHANGED relayer \/ (generate_proof(d.key) /\ relayer' = FALSE)
           \/ /\ generate_proof(d.key) /\ UNCHANGED relayer
              /\ built' = Append(built, d.burn) /\ last_mined_block' = <<tenure>>
              /\ Submit(BlockCommit(tenure))
        /\ UNCHANGED <<chain, reorgs, stored, view, coordinator, run_loop, p2p_thread, vrf_map, won, handled, lives>>

\* The next key is derived from the number of rotations and the height.
rotate_vrf_keypair(block_height) == <<Cardinality(vrf_map) + 1, block_height>>

\* rotate_vrf_and_register
RelayRegisterKey ==
    LET d == Head(channel)
        key == rotate_vrf_keypair(d.burn[1])
    IN  /\ Receives("register")
        /\ asked' = d.burn
        /\ vrf_map' = vrf_map \cup {key}
        /\ Submit(KeyRegister(key))
        /\ UNCHANGED <<chain, reorgs, stored, view, coordinator, run_loop, p2p_thread, relayer,
                       last_mined_block, built, won, handled, lives>>

-----------------------------------------------------------------------------
RunLoop == Sync \/ WaitForSortitions \/ ProcessBurnchainState \/ IssueTenure \/ Send
Relayer == RelayNetResult \/ RelayProcessTenure \/ RelayRunTenure \/ RelayRegisterKey

Next ==
    \/ NewBurnBlock \/ Reorg \/ Restart \/ StopCoordinator
    \/ RunLoop
    \/ Poll \/ Dispatch
    \/ Relayer

Spec == Init /\ [][Next]_vars

\* The run loop and the relayer are never kept from running.
FairSpec == Spec /\ WF_vars(RunLoop) /\ WF_vars(Relayer)

-----------------------------------------------------------------------------
(* Properties *)

\* "don't lose this data -- just try it again": as long as the relayer runs, the
\* network results it has not handled are in the channel and in the p2p thread's
\* queue, each once and in the order in which they came.
NetResultsKept ==
    LET waiting == channel \o results
        net == {i \in DOMAIN waiting : waiting[i].kind = "net"}
    IN  relayer =>
            /\ {waiting[i].result : i \in net} = handled + 1..fetched
            /\ \A i, j \in net : i < j => waiting[i].result < waiting[j].result

\* A sortition that this run of the node won with a block built on the burn block
\* before.
OwnWin(b) == b.winner >= first_own /\ built[b.winner] = b.parent
Notified(b) ==
    \A i \in 1..Len(channel \o sending) :
        LET d == (channel \o sending)[i] IN d.kind = "process" => d.id /= b.id

\* Once the relayer has heard of a sortition, it has processed the block it mined
\* exactly when that block won on the burn block it was built on, however late the
\* relayer is and however many burn blocks one sync brings.
TenuresMatchWins == relayer => \A b \in seen : Notified(b) => (OwnWin(b) <=> b.id \in won)

\* When the burn chain stops growing ahead of the node, the relayer is asked to mine
\* on its tip or to register a key there, however the chain forked above the node's
\* sortitions.  Not so when a thread stops or the node restarts; when a restart finds
\* a stored block without its sortition, for which the run loop waits forever; and
\* when the fork replaced a block that has its sortition, which the node never leaves.
TipGetsTenure ==
    \A r \in 0..Max({s.restarts : s \in Scenarios}) :
        (restarts = r /\ Len(view) < Len(chain) /\ Len(chain) = scenario.height)
            ~> (asked = Last(chain).id \/ ~relayer \/ ~coordinator \/ restarts /= r
                \/ pc = "start" \/ ~Begins(view, chain))
=============================================================================
