------------------------------ MODULE Downloader ------------------------------
(***************************************************************************)
(* The block downloader of the p2p thread (src/net/download.rs).  It scans *)
(* the sortitions in batches of one reward cycle for blocks, and for       *)
(* microblock streams that stored blocks confirm, which some neighbor's    *)
(* inventory has and we do not.  It asks the neighbors for them over HTTP, *)
(* one after the other until one serves the request, and hands what it got *)
(* to the relayer, which stores it some time later.                        *)
(*                                                                         *)
(* GetBlocksBegin stands for DNSLookupFinish too, in which the names of    *)
(* the neighbors are looked up.  Errors of our own databases, at which a   *)
(* call returns early, are left out.                                       *)
(*                                                                         *)
(* Sortition heights count from the first burn block.  The request for the *)
(* block of height h has the key h - 1.                                    *)
(***************************************************************************)
EXTENDS Integers, Sequences, FiniteSets, FiniteSetsExt, Functions

CONSTANTS
    Peers,
    Blocks,              \* heights at which a block won
    Parent,              \* block -> its parent, 0 for the first
    Confirms,            \* the blocks that confirm a microblock stream of their parent
    Claims,              \* peer -> the blocks it has according to its answers to scans
    Serves,              \* peer -> the blocks it serves when asked
    ServesStream,        \* peer -> the blocks whose microblock stream it serves
    Announces,           \* peer -> the blocks and streams it announces
    FirstTip, MaxTip,    \* bounds on the height of the burn chain
    RewardCycleLength,
    MaxInflight,         \* max_inflight_requests
    MaxFailures          \* bound on what goes wrong in the network and in the relayer

VARIABLES
    chain_height,        \* height of the chain view
    inv_blocks,          \* peer -> the blocks in its inventory
    inv_streams,         \* peer -> the streams in its inventory
    inv_changed,         \* did inventories change since the downloader looked?
    state,
    cursor,              \* kind -> sortition height where the next scan starts
    next_cursor,         \* kind -> sortition height after what is being fetched
    num_downloaded,      \* kind -> was something downloaded in this pass?
    empty_passes,        \* kind -> did the last pass end without a download?
    to_try,              \* kind -> key -> peers to ask
    requests,            \* key -> peer, the requests in flight (of the kind state tells)
    fetched,             \* kind -> the keys whose data came
    requested,           \* kind -> block -> how recently it was asked for: 2, 1 or 0
    blocked_urls,        \* peers not to ask for a while
    rested,              \* is finished_scan_at less than download_interval ago?
    results,             \* kind -> blocks, handed to the relayer
    stored,              \* kind -> blocks
    failures

inventory == <<inv_blocks, inv_streams, inv_changed>>
accounting == <<num_downloaded, empty_passes, rested>>
vars == <<chain_height, inventory, state, cursor, next_cursor, accounting, to_try, requests,
          fetched, requested, blocked_urls, results, stored, failures>>

Kinds == {"block", "stream"}
Both(x) == [k \in Kinds |-> x]
None == <<>>

Block(key) == key + 1

\* What the request with this key asks for: the block itself, or the stream of its parent.
Target(kind, key) == IF kind = "block" THEN Block(key) ELSE Parent[Block(key)]

Init ==
    /\ chain_height = FirstTip
    /\ inv_blocks = [p \in Peers |-> {b \in Claims[p] : b <= FirstTip}]
    /\ inv_streams = [p \in Peers |-> {b \in ServesStream[p] : b <= FirstTip}]
    /\ inv_changed = FALSE
    /\ state = "DNSLookupBegin"
    /\ cursor = Both(0) /\ next_cursor = Both(0)
    /\ num_downloaded = Both(FALSE) /\ empty_passes = Both(FALSE) /\ rested = FALSE
    /\ to_try = Both(None) /\ requests = None /\ fetched = Both({})
    /\ requested = Both([b \in Blocks |-> 0])
    /\ blocked_urls = {}
    /\ results = Both({}) /\ stored = Both({})
    /\ failures = 0

-----------------------------------------------------------------------------
(* Scanning *)

\* Both kinds look at the other kind's last requests, and for twice the time.
is_inflight(kind, b, queued) ==
    LET other == IF kind = "block" THEN "stream" ELSE "block"
    IN  \/ \E key \in DOMAIN queued[kind] : Target(kind, key) = b
        \/ requested[other][b] > 0

\* Is there something to ask for?
Needed(kind, b) ==
    IF kind = "block" THEN b \notin stored["block"]
    ELSE /\ b \in stored["block"] /\ b \in Confirms
         /\ Parent[b] \in stored["block"] /\ Parent[b] \notin stored["stream"]

\* Mutant: the last height of the batch is left out.
make_requests_Short(kind, start, queued) ==
    LET end == Min({start + RewardCycleLength, chain_height}) - 1
        keys == {key \in start..(end - 1) :
                    Block(key) \in Blocks /\ ~is_inflight(kind, Block(key), queued)
                    /\ Needed(kind, Block(key))}
        inv == IF kind = "block" THEN inv_blocks ELSE inv_streams
    IN  [key \in keys |-> {p \in Peers \ blocked_urls : Target(kind, key) \in inv[p]}]

\* The keys and the peers to ask, of one batch.
make_requests(kind, start, queued) ==
    LET end == Min({start + RewardCycleLength, chain_height})
        keys == {key \in start..(end - 1) :
                    Block(key) \in Blocks /\ ~is_inflight(kind, Block(key), queued)
                    /\ Needed(kind, Block(key))}
        inv == IF kind = "block" THEN inv_blocks ELSE inv_streams
    IN  [key \in keys |-> {p \in Peers \ blocked_urls : Target(kind, key) \in inv[p]}]

\* What is left of a batch once the requests that fit are queued: the new queue, the
\* height the loop stops at, and how many heights were passed over as asked for already.
Queue(kind, start, batch, queued) ==
    LET max == IF batch = None THEN 0 ELSE Max(DOMAIN batch)
        candidates == {key \in DOMAIN batch : batch[key] # {}}
        before(key) == DOMAIN queued \cup {k \in candidates : k < key}
        recent == {key \in candidates :
                    \/ requested[kind][Target(kind, key)] = 2
                    \/ \E k \in before(key) : Target(kind, k) = Target(kind, key)}
        free == MaxInflight - Cardinality(DOMAIN queued)
        fresh == candidates \ recent
        taken == {key \in fresh : Cardinality({k \in fresh : k <= key}) <= free}
        stop == IF Cardinality(taken) = free
                THEN (IF free = 0 THEN start ELSE Max(taken) + 1)
                ELSE Max({start, max + 1})
    IN  [queued |-> [key \in DOMAIN queued \cup taken |->
                        IF key \in taken THEN batch[key] ELSE queued[key]],
         max |-> max, stop |-> stop,
         passed |-> Cardinality({key \in recent : key < stop})]

\* The loop of block_dns_lookups_begin.  A stream that was asked for recently moves the
\* height of the blocks on, not that of the streams.
RECURSIVE Scan(_, _)
Scan(at, queued) ==
    LET b == Queue("block", at["block"], make_requests("block", at["block"], queued), queued["block"])
        s == Queue("stream", at["stream"], make_requests("stream", at["stream"], queued), queued["stream"])
        all == [block |-> b.queued, stream |-> s.queued]
        next == [block |-> b.stop + s.passed, stream |-> s.stop]
    IN  IF \A k \in Kinds : at[k] > chain_height THEN [at |-> at, queued |-> queued]
        ELSE IF b.max <= at["block"] /\ s.max <= at["stream"] THEN [at |-> at, queued |-> all]
        ELSE IF \E k \in Kinds : Cardinality(DOMAIN all[k]) >= MaxInflight
        THEN [at |-> next, queued |-> all]
        ELSE Scan(next, all)

\* requested_blocks and requested_microblocks of what was queued
Requested(queued) ==
    [k \in Kinds |-> [b \in Blocks |->
        IF \E key \in DOMAIN queued[k] : Target(k, key) = b THEN 2 ELSE requested[k][b]]]

Idle == \A k \in Kinds : empty_passes[k]

block_dns_lookups_begin(at) ==
    LET scan == Scan(at, Both(None))
        nothing == \A k \in Kinds : scan.queued[k] = None
    IN  /\ to_try' = scan.queued
        /\ requested' = Requested(scan.queued)
        /\ next_cursor' = [k \in Kinds |-> scan.at[k] + (IF nothing THEN RewardCycleLength ELSE 0)]
        /\ state' = "GetBlocksBegin"

Throttled == Idle /\ ~inv_changed /\ rested

\* download_blocks, when the last pass is over.  It does nothing while it is throttled.
Begin ==
    /\ state = "DNSLookupBegin"
    /\ ~Throttled
    /\ LET start == IF Idle THEN Both(0) ELSE cursor
       IN  cursor' = start /\ block_dns_lookups_begin(start)
    /\ empty_passes' = IF Idle THEN Both(FALSE) ELSE empty_passes
    /\ inv_changed' = FALSE
    /\ UNCHANGED <<chain_height, inv_blocks, inv_streams, num_downloaded, rested, requests, fetched,
                   blocked_urls, results, stored, failures>>

-----------------------------------------------------------------------------
(* Fetching *)

Kind == IF state \in {"GetBlocksBegin", "GetBlocksFinish"} THEN "block" ELSE "stream"

Fails == failures < MaxFailures /\ failures' = failures + 1

\* One request per key is sent, to any of the peers left for it; those that were tried
\* before it could not be reached.
begin_request ==
    /\ state \in {"GetBlocksBegin", "GetMicroblocksBegin"}
    /\ \E unreachable \in [DOMAIN to_try[Kind] -> SUBSET Peers] :
        LET queue == to_try[Kind]
            left(key) == queue[key] \ unreachable[key]
        IN  /\ \A key \in DOMAIN queue : unreachable[key] \subseteq queue[key]
            /\ IF UNION Range(unreachable) = {} THEN UNCHANGED failures ELSE Fails
            /\ \E peer \in [{key \in DOMAIN queue : left(key) # {}} -> Peers] :
                /\ \A key \in DOMAIN peer : peer[key] \in left(key)
                /\ requests' = peer
                /\ to_try' = [to_try EXCEPT ![Kind] = [key \in DOMAIN queue |->
                                 IF key \in DOMAIN peer THEN left(key) \ {peer[key]} ELSE {}]]
    /\ state' = IF Kind = "block" THEN "GetBlocksFinish" ELSE "GetMicroblocksFinish"
    /\ UNCHANGED <<chain_height, inventory, cursor, next_cursor, accounting, fetched, requested,
                   blocked_urls, results, stored>>

Answered(key) == requests' = Restrict(requests, DOMAIN requests \ {key})

\* The data comes, or the peer does not have it and is disconnected as broken.
Answer(key) ==
    LET p == requests[key]
        served == Target(Kind, key) \in (IF Kind = "block" THEN Serves[p] ELSE ServesStream[p])
    IN  /\ Answered(key)
        /\ IF served
           THEN /\ fetched' = [fetched EXCEPT ![Kind] = @ \cup {key}]
                /\ UNCHANGED <<inv_blocks, inv_streams>>
           ELSE /\ inv_blocks' = [inv_blocks EXCEPT ![p] = {}]
                /\ inv_streams' = [inv_streams EXCEPT ![p] = {}]
                /\ UNCHANGED fetched
        /\ UNCHANGED <<chain_height, inv_changed, state, cursor, next_cursor, accounting, to_try,
                       requested, blocked_urls, results, stored, failures>>

\* The connection fails.
Dies(key) ==
    /\ Fails /\ Answered(key)
    /\ blocked_urls' = blocked_urls \cup {requests[key]}
    /\ UNCHANGED <<chain_height, inventory, state, cursor, next_cursor, accounting, to_try, fetched,
                   requested, results, stored>>

getblocks_try_finish ==
    /\ state = "GetBlocksFinish" /\ requests = None
    /\ state' = "GetMicroblocksBegin"
    /\ UNCHANGED <<chain_height, inventory, cursor, next_cursor, accounting, to_try, requests, fetched,
                   requested, blocked_urls, results, stored, failures>>

\* A pass is over for the kinds whose cursor reached the tip of the burn chain.
AtTip(k) == next_cursor[k] >= chain_height

EndPass(downloaded) ==
    /\ cursor' = [k \in Kinds |-> IF AtTip(k) THEN 0 ELSE next_cursor[k]]
    /\ next_cursor' = cursor'
    /\ empty_passes' = [k \in Kinds |-> IF AtTip(k) THEN ~downloaded[k] ELSE empty_passes[k]]
    /\ num_downloaded' = [k \in Kinds |-> downloaded[k] /\ ~AtTip(k)]
    /\ rested' = (rested \/ \A k \in Kinds : empty_passes'[k])
    /\ state' = "DNSLookupBegin"

\* Streams that do not fit the block that confirms them are dropped.
finish_downloads ==
    /\ state = "GetMicroblocksFinish" /\ requests = None
    /\ \E valid \in SUBSET fetched["stream"] :
        LET got == [fetched EXCEPT !["stream"] = valid]
            left == [k \in Kinds |-> Restrict(to_try[k],
                        {key \in DOMAIN to_try[k] : key \notin fetched[k] /\ to_try[k][key] # {}})]
            downloaded == [k \in Kinds |-> num_downloaded[k] \/ got[k] # {}]
        IN  /\ IF valid = fetched["stream"] THEN UNCHANGED failures ELSE Fails
            /\ results' = [k \in Kinds |-> results[k] \cup {Target(k, key) : key \in got[k]}]
            /\ to_try' = left
            /\ IF left = Both(None) THEN EndPass(downloaded)
               ELSE /\ num_downloaded' = downloaded
                    /\ state' = "GetBlocksBegin"
                    /\ UNCHANGED <<cursor, next_cursor, empty_passes, rested>>
    /\ fetched' = Both({})
    /\ UNCHANGED <<chain_height, inventory, requests, requested, blocked_urls, stored>>

-----------------------------------------------------------------------------
(* Hints *)

hint_download_rescan ==
    /\ empty_passes' = Both(FALSE)
    /\ next_cursor' = [k \in Kinds |-> IF empty_passes[k] THEN 0 ELSE next_cursor[k]]

hint_sortition_height_available(k, h) ==
    LET wake == empty_passes[k] \/ h < cursor[k]
    IN  /\ empty_passes' = [empty_passes EXCEPT ![k] = @ /\ ~wake]
        /\ cursor' = [cursor EXCEPT ![k] = IF wake THEN h ELSE @]
        /\ next_cursor' = [next_cursor EXCEPT ![k] = IF wake THEN h ELSE @]

\* Messages and sortitions are noticed between two calls of download_blocks.
Returned == state \in {"DNSLookupBegin", "GetBlocksBegin"} \/ requests # None

NewSortition ==
    /\ Returned
    /\ chain_height < MaxTip /\ chain_height' = chain_height + 1
    /\ hint_download_rescan
    /\ UNCHANGED <<inventory, state, cursor, num_downloaded, rested, to_try, requests, fetched, requested,
                   blocked_urls, results, stored, failures>>

\* A scan of the peer ends with something new.  During a pass the next call of
\* download_blocks takes note of the change and does nothing about it.
Scanned(p) ==
    LET blocks == {b \in Claims[p] : b <= chain_height}
        streams == {b \in ServesStream[p] : b <= chain_height}
    IN  /\ Returned
        /\ blocks # inv_blocks[p] \/ streams # inv_streams[p]
        /\ inv_blocks' = [inv_blocks EXCEPT ![p] = blocks]
        /\ inv_streams' = [inv_streams EXCEPT ![p] = streams]
        /\ inv_changed' = (state = "DNSLookupBegin")
        /\ UNCHANGED <<chain_height, state, cursor, next_cursor, accounting, to_try, requests, fetched,
                       requested, blocked_urls, results, stored, failures>>

\* The peer announces a block or a stream.
Announced(p) ==
    /\ Returned
    /\ \E h \in 1..chain_height :
        \/ /\ h \in (Serves[p] \cap Announces[p]) \ inv_blocks[p]
           /\ inv_blocks' = [inv_blocks EXCEPT ![p] = @ \cup {h}]
           /\ hint_sortition_height_available("block", h)
           /\ UNCHANGED inv_streams
        \/ /\ h \in (ServesStream[p] \cap Announces[p]) \ inv_streams[p]
           /\ inv_streams' = [inv_streams EXCEPT ![p] = @ \cup {h}]
           /\ hint_sortition_height_available("stream", h)
           /\ UNCHANGED inv_blocks
    /\ UNCHANGED <<chain_height, inv_changed, state, num_downloaded, rested, to_try, requests, fetched,
                   requested, blocked_urls, results, stored, failures>>

-----------------------------------------------------------------------------
(* The relayer, and time *)

\* What these change is only read when a scan begins.
Between(rest) ==
    /\ state = "DNSLookupBegin"
    /\ UNCHANGED <<chain_height, inventory, state, cursor, next_cursor, num_downloaded, empty_passes,
                   to_try, requests, fetched, rest>>

Store ==
    /\ results # Both({})
    /\ results' = Both({})
    /\ stored' = [k \in Kinds |-> stored[k] \cup results[k]]
    /\ Between(<<requested, blocked_urls, rested, failures>>)

\* The relayer throws the data away, for one because the PoX fork changed meanwhile.
Discard ==
    /\ results # Both({}) /\ Fails
    /\ results' = Both({})
    /\ Between(<<requested, blocked_urls, rested, stored>>)

\* BLOCK_REREQUEST_INTERVAL passes.
Expire ==
    /\ \E k \in Kinds, b \in Blocks : requested[k][b] > 0
    /\ requested' = [k \in Kinds |-> [b \in Blocks |-> Max({0, requested[k][b] - 1})]]
    /\ Between(<<results, blocked_urls, rested, stored, failures>>)

Unblock ==
    /\ blocked_urls # {} /\ blocked_urls' = {}
    /\ Between(<<results, requested, rested, stored, failures>>)

IntervalPasses ==
    /\ rested /\ rested' = FALSE
    /\ Between(<<results, requested, blocked_urls, stored, failures>>)

Next ==
    \/ Begin \/ begin_request \/ getblocks_try_finish \/ finish_downloads
    \/ \E key \in DOMAIN requests : Answer(key) \/ Dies(key)
    \/ NewSortition \/ \E p \in Peers : Scanned(p) \/ Announced(p)
    \/ Store \/ Discard \/ Expire \/ Unblock \/ IntervalPasses

\* The steps of the p2p thread, by what they do to the state: they are enabled like the
\* actions above, and only those take them.
Proceed ==
    \/ state = "DNSLookupBegin" /\ ~Throttled /\ state' = "GetBlocksBegin"
    \/ state = "GetBlocksBegin" /\ state' = "GetBlocksFinish"
    \/ state = "GetBlocksFinish" /\ requests = None /\ state' = "GetMicroblocksBegin"
    \/ state = "GetMicroblocksBegin" /\ state' = "GetMicroblocksFinish"
    \/ /\ state = "GetMicroblocksFinish" /\ requests = None
       /\ state' \in {"DNSLookupBegin", "GetBlocksBegin"}

\* The p2p thread and the relayer run, peers answer and are scanned, and time passes.
\* Strong fairness stands for steps that are due at any time and that the model only
\* takes between two calls.
FairSpec ==
    /\ Init /\ [][Next]_vars
    /\ WF_state(Proceed)
    /\ WF_vars(\E key \in DOMAIN requests : Answer(key))
    /\ \A p \in Peers : SF_vars(Scanned(p))
    /\ SF_vars(Store) /\ SF_vars(Expire) /\ SF_vars(Unblock) /\ WF_vars(IntervalPasses)

-----------------------------------------------------------------------------
(* Properties *)

Available(k, b) ==
    \E p \in Peers : IF k = "block" THEN b \in Serves[p] \cap Claims[p] ELSE b \in ServesStream[p]

\* Every block that some neighbor has and says so is stored in the end, and then every
\* microblock stream that a stored block confirms, although neighbors claim blocks they do
\* not have, connections fail, the relayer discards data, requests are not repeated for a
\* while and scans are throttled.
DownloadsComplete ==
    []<>(/\ \A b \in Blocks : b <= chain_height /\ Available("block", b) => b \in stored["block"]
         /\ \A b \in Confirms : Available("stream", Parent[b]) /\ {b, Parent[b]} \subseteq stored["block"]
                => Parent[b] \in stored["stream"])
=============================================================================
