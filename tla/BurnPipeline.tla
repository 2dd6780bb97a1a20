---------------------------- MODULE BurnPipeline ----------------------------
(***************************************************************************)
(* The threads of Burnchain::sync_with_indexer                             *)
(* (src/src/burnchains/burnchain.rs): the caller feeds headers to a        *)
(* download thread, which passes blocks to a parse thread, which passes    *)
(* them to a database thread.  Each channel is a sync_channel(1): a send   *)
(* waits for room and fails once the receiver is gone; a receive waits for *)
(* an item and fails once the channel is empty and the sender is gone.     *)
(* Any of the threads may give up.  The caller joins all three, unless it  *)
(* cannot read the headers.                                                *)
(***************************************************************************)
EXTENDS Naturals, Sequences

CONSTANTS
    N,      \* how many headers are fed
    MaxTip, \* bound on the height of the database at the start
    End,    \* the message None: there are no more
    Empty   \* nothing

Blocks == 1..N
Items == Blocks \cup {End}
Slot == Items \cup {Empty}

ASSUME PipelineAssumption ==
    /\ N \in Nat /\ MaxTip \in Nat
    /\ End \notin Nat /\ Empty \notin Nat \cup {End}

VARIABLES
    tip,     \* burn_chain_tip.block_height - start_block
    known,   \* the blocks of the range that are in the database already
    next,    \* what the caller sends next; Empty when it joins the threads
    fed,     \* downloader_result.is_ok()
    down,    \* the channel to the download thread
    loaded,  \* what the download thread sends next
    parse,   \* the channel to the parse thread
    parsed,  \* what the parse thread sends next
    store,   \* the channel to the database thread
    stored,  \* the blocks in the database, in order
    failure, \* the error of the database thread
    alive,   \* the threads that run
    closed,  \* SignalBools.stop: the coordinator is told to stop
    result   \* what the call returns

vars ==
    <<tip, known, next, fed, down, loaded, parse, parsed, store, stored, failure, alive, closed, result>>

Threads == {"download", "parse", "db"}

TypeOK ==
    /\ tip \in 0..MaxTip /\ known \subseteq Blocks
    /\ next \in Slot /\ fed \in BOOLEAN
    /\ down \in Slot /\ loaded \in Slot /\ parse \in Slot /\ parsed \in Slot /\ store \in Slot
    /\ stored \in Seq(Blocks)
    /\ failure \in {"none", "again", "closed"}
    /\ alive \subseteq Threads
    /\ closed \in BOOLEAN
    /\ result \in {"running", "ok", "again", "closed"}

First == IF N = 0 THEN End ELSE 1

Following(i) == IF i = End THEN Empty ELSE IF i = N THEN End ELSE i + 1

Init ==
    /\ tip \in 0..MaxTip
    /\ known \in SUBSET {b \in Blocks : b <= tip}
    /\ next = First /\ fed = TRUE
    /\ down = Empty /\ loaded = Empty /\ parse = Empty /\ parsed = Empty /\ store = Empty
    /\ stored = <<>> /\ failure = "none"
    /\ alive = Threads
    /\ closed = FALSE
    /\ result = "running"

-----------------------------------------------------------------------------
(* The caller. *)

\* read_headers fails: the call returns at once, and leaves the threads to
\* themselves.
ReadHeadersFails ==
    /\ next = First
    /\ next' = Empty /\ result' = "again"
    /\ UNCHANGED <<tip, known, fed, down, loaded, parse, parsed, store, stored, failure, alive, closed>>

\* Mutant: the final None is not sent.
Feed_NoEnd ==
    /\ next /= Empty /\ "download" \in alive /\ down = Empty
    /\ down' = next
    /\ next' = IF Following(next) = End THEN Empty ELSE Following(next)
    /\ UNCHANGED <<tip, known, fed, loaded, parse, parsed, store, stored, failure, alive, closed, result>>

\* "feed the pipeline!", and then None.
Feed ==
    /\ next /= Empty /\ "download" \in alive /\ down = Empty
    /\ down' = next
    /\ next' = Following(next)
    /\ UNCHANGED <<tip, known, fed, loaded, parse, parsed, store, stored, failure, alive, closed, result>>

\* The download thread is gone.
FeedFails ==
    /\ next /= Empty /\ "download" \notin alive
    /\ fed' = FALSE
    /\ next' = Empty
    /\ UNCHANGED <<tip, known, down, loaded, parse, parsed, store, stored, failure, alive, closed, result>>

\* last_processed.block_height
LastProcessed == IF stored = <<>> THEN tip ELSE stored[Len(stored)]

\* Mutant: the height of the last block is not compared with end_block.
Join_AnyHeight ==
    /\ next = Empty /\ alive = {} /\ result = "running"
    /\ result' = IF failure /= "none" THEN failure
                 ELSE IF ~fed THEN "again"
                 ELSE "ok"
    /\ UNCHANGED <<tip, known, next, fed, down, loaded, parse, parsed, store, stored, failure, alive, closed>>

\* "join up": the error of the database thread comes first, then a last block
\* below end_block, then an error of feeding.
Join ==
    /\ next = Empty /\ alive = {} /\ result = "running"
    /\ result' = IF failure /= "none" THEN failure
                 ELSE IF LastProcessed < N \/ ~fed THEN "again"
                 ELSE "ok"
    /\ UNCHANGED <<tip, known, next, fed, down, loaded, parse, parsed, store, stored, failure, alive, closed>>

-----------------------------------------------------------------------------
(* The download thread. *)

DownloadEnds == alive' = alive \ {"download"} /\ down' = Empty /\ loaded' = Empty

Download ==
    /\ "download" \in alive /\ loaded = Empty /\ down /= Empty
    /\ loaded' = down
    /\ down' = Empty
    /\ UNCHANGED <<tip, known, next, fed, parse, parsed, store, stored, failure, alive, closed, result>>

\* The caller is gone: the loop ends and None is sent.
DownloadDisconnected ==
    /\ "download" \in alive /\ loaded = Empty /\ down = Empty /\ result /= "running"
    /\ loaded' = End
    /\ UNCHANGED <<tip, known, next, fed, down, parse, parsed, store, stored, failure, alive, closed, result>>

\* downloader.download fails.
DownloadFails ==
    /\ "download" \in alive /\ loaded = Empty /\ down \in Blocks
    /\ DownloadEnds
    /\ UNCHANGED <<tip, known, next, fed, parse, parsed, store, stored, failure, closed, result>>

SendBlock ==
    /\ "download" \in alive /\ loaded /= Empty
    /\ "parse" \in alive /\ parse = Empty
    /\ parse' = loaded
    /\ IF loaded = End THEN DownloadEnds ELSE loaded' = Empty /\ UNCHANGED <<alive, down>>
    /\ UNCHANGED <<tip, known, next, fed, parsed, store, stored, failure, closed, result>>

\* ThreadChannelError
SendBlockFails ==
    /\ "download" \in alive /\ loaded /= Empty /\ "parse" \notin alive
    /\ DownloadEnds
    /\ UNCHANGED <<tip, known, next, fed, parse, parsed, store, stored, failure, closed, result>>

-----------------------------------------------------------------------------
(* The parse thread. *)

ParseEnds == alive' = alive \ {"parse"} /\ parse' = Empty /\ parsed' = Empty

Parse ==
    /\ "parse" \in alive /\ parsed = Empty /\ parse /= Empty
    /\ parsed' = parse
    /\ parse' = Empty
    /\ UNCHANGED <<tip, known, next, fed, down, loaded, store, stored, failure, alive, closed, result>>

\* The download thread is gone: the loop ends and None is sent.
ParseDisconnected ==
    /\ "parse" \in alive /\ parsed = Empty /\ parse = Empty /\ "download" \notin alive
    /\ parsed' = End
    /\ UNCHANGED <<tip, known, next, fed, down, loaded, parse, store, stored, failure, alive, closed, result>>

\* parser.parse fails.
ParseFails ==
    /\ "parse" \in alive /\ parsed = Empty /\ parse \in Blocks
    /\ ParseEnds
    /\ UNCHANGED <<tip, known, next, fed, down, loaded, store, stored, failure, closed, result>>

SendParsed ==
    /\ "parse" \in alive /\ parsed /= Empty
    /\ "db" \in alive /\ store = Empty
    /\ store' = parsed
    /\ IF parsed = End THEN ParseEnds ELSE parsed' = Empty /\ UNCHANGED <<alive, parse>>
    /\ UNCHANGED <<tip, known, next, fed, down, loaded, stored, failure, closed, result>>

\* ThreadChannelError
SendParsedFails ==
    /\ "parse" \in alive /\ parsed /= Empty /\ "db" \notin alive
    /\ ParseEnds
    /\ UNCHANGED <<tip, known, next, fed, down, loaded, store, stored, failure, closed, result>>

-----------------------------------------------------------------------------
(* The database thread. *)

\* Burnchain::process_block stores a block that is new and the coordinator is
\* told.
StoreBlock ==
    /\ "db" \in alive /\ store \in Blocks \ known
    /\ stored' = Append(stored, store)
    /\ store' = Empty
    /\ IF closed THEN failure' = "closed" /\ alive' = alive \ {"db"}
       ELSE UNCHANGED <<failure, alive>>
    /\ UNCHANGED <<tip, known, next, fed, down, loaded, parse, parsed, closed, result>>

\* block_hash is UNIQUE: a block that is in the database cannot be stored.  Nor can
\* any other when the database fails.
StoreFails ==
    /\ "db" \in alive /\ store \in Blocks
    /\ store' = Empty
    /\ failure' = "again" /\ alive' = alive \ {"db"}
    /\ UNCHANGED <<tip, known, next, fed, down, loaded, parse, parsed, stored, closed, result>>

StoreEnds ==
    /\ "db" \in alive
    /\ store = End \/ (store = Empty /\ "parse" \notin alive)
    /\ store' = Empty
    /\ alive' = alive \ {"db"}
    /\ UNCHANGED <<tip, known, next, fed, down, loaded, parse, parsed, stored, failure, closed, result>>

\* stop_chains_coordinator
Close ==
    /\ ~closed
    /\ closed' = TRUE
    /\ UNCHANGED <<tip, known, next, fed, down, loaded, parse, parsed, store, stored, failure, alive, result>>

Caller == Feed \/ FeedFails \/ Join
DownloadThread == Download \/ DownloadDisconnected \/ DownloadFails \/ SendBlock \/ SendBlockFails
ParseThread == Parse \/ ParseDisconnected \/ ParseFails \/ SendParsed \/ SendParsedFails
DbThread == StoreBlock \/ StoreFails \/ StoreEnds

Next == ReadHeadersFails \/ Caller \/ DownloadThread \/ ParseThread \/ DbThread \/ Close

Spec == Init /\ [][Next]_vars

\* Every thread that can take a step does.
FairSpec ==
    Spec /\ WF_vars(Caller) /\ WF_vars(DownloadThread) /\ WF_vars(ParseThread) /\ WF_vars(DbThread)

-----------------------------------------------------------------------------

\* Whatever thread fails, and whenever, the blocks in the database are the first
\* of the range, each after its parent.
StoredInOrder == \A i \in 1..Len(stored) : stored[i] = i

\* The blocks between the database and the caller are consecutive, as long as the
\* threads that would pass them on run: a channel or a thread that holds a block
\* holds the one after all those ahead of it.
Holds(slot) == IF slot \in Blocks THEN 1 ELSE 0
AtStore == Len(stored) + 1
AtParsed == AtStore + Holds(store)
AtParse == AtParsed + Holds(parsed)
AtLoaded == AtParse + Holds(parse)
AtDown == AtLoaded + Holds(loaded)
AtNext == AtDown + Holds(down)

Consecutive ==
    /\ store \in Blocks => store = AtStore
    /\ "db" \in alive =>
         /\ parsed \in Blocks => parsed = AtParsed
         /\ parse \in Blocks => parse = AtParse
         /\ "parse" \in alive =>
              /\ loaded \in Blocks => loaded = AtLoaded
              /\ down \in Blocks => down = AtDown
              /\ next \in Blocks /\ "download" \in alive => next = AtNext

\* The three threads do what sync_with_indexer promises.
Promise == INSTANCE BurnStore WITH N <- N, tip <- tip, stored <- stored, result <- result
KeepsPromise == Promise!Spec

\* The caller is never left waiting for a thread that waits for another.
Returns == TRUE ~> result /= "running"
=============================================================================
