----------------------------- MODULE InputProofs -----------------------------
(***************************************************************************)
(* What reaches a node: the burn chain (BurnPipeline and ReorgSearch), its *)
(* peers (PeerNetwork), and the signals by which its threads announce      *)
(* blocks to the chains coordinator (CoordinatorComm).                     *)
(*                                                                         *)
(* For any number of headers: the blocks that the three threads of         *)
(* Burnchain::sync_with_indexer store are the first of the range, in       *)
(* order, whichever thread fails; and the threads implement BurnStore.     *)
(* The inductive invariant adds to StoredInOrder where every block on its  *)
(* way to the database is (Consecutive).                                   *)
(*                                                                         *)
(* For any two header chains and any size of the batches: what             *)
(* find_bitcoin_reorg answers.  Its invariant says how far the chains may  *)
(* agree above the batch that is searched.                                 *)
(*                                                                         *)
(* For any number of addresses and event ids: the maps of the connections  *)
(* agree, inventories belong to neighbors that a round can scan, and no    *)
(* denied peer is connected.  The three are proved together, in PeerInv:   *)
(* that a disconnected neighbor's inventory goes with it, and that a       *)
(* banned one is out of events, rests on the maps being inverse to each    *)
(* other.                                                                  *)
(*                                                                         *)
(* For any number of announcers and blocks: no announced block is lost.    *)
(* The inductive invariant is CommInv: the types, the fact that a sleeping *)
(* coordinator has no signal pending, the bounds on what was processed,    *)
(* and NoLostWork itself.  QuiescentMeansDone follows from it.             *)
(***************************************************************************)
EXTENDS BurnPipeline, ReorgSearch, PeerNetwork, CoordinatorComm, SequenceTheorems, TLAPS

-----------------------------------------------------------------------------
(* The threads of a call of sync_with_indexer, and the search. *)

PipelineInv == TypeOK /\ Consecutive /\ StoredInOrder

\* Nothing is stored or on its way when sync_with_indexer has started its threads.
LEMMA InitInv == Init => PipelineInv
<1>. SUFFICES ASSUME Init PROVE PipelineInv
  OBVIOUS
<1>. USE PipelineAssumption DEF Init, Slot, Items, Blocks, Threads
<1>1. stored = <<>> /\ stored \in Seq(Blocks) /\ Len(stored) = 0
  BY Zenon, EmptySeq
<1>2. next \in Slot /\ (next \in Blocks => next = 1)
  BY DEF First
<1>3. known \subseteq Blocks
  OBVIOUS
<1>4. TypeOK
  BY Zenon, <1>1, <1>2, <1>3 DEF TypeOK
<1>5. Consecutive
  BY <1>1, <1>2
  DEF Consecutive, AtNext, AtDown, AtLoaded, AtParse, AtParsed, AtStore, Holds
<1>6. StoredInOrder
  BY <1>1 DEF StoredInOrder
<1>. QED
  BY Zenon, <1>4, <1>5, <1>6 DEF PipelineInv

\* A block that is stored is the next one: what Consecutive is needed for.
LEMMA AppendInOrder ==
  ASSUME NEW s \in Seq(Blocks), \A i \in 1..Len(s) : s[i] = i, NEW b \in Blocks, b = Len(s) + 1
  PROVE  /\ Append(s, b) \in Seq(Blocks)
         /\ Len(Append(s, b)) = Len(s) + 1
         /\ Append(s, b)[Len(s) + 1] = b
         /\ \A i \in 1..(Len(s) + 1) : Append(s, b)[i] = i
<1>1. Append(s, b) \in Seq(Blocks) /\ Len(Append(s, b)) = Len(s) + 1
  BY Zenon, AppendProperties
<1>2. \A i \in 1..Len(s) : Append(s, b)[i] = s[i]
  BY AppendProperties
<1>3. Append(s, b)[Len(s) + 1] = b
  BY ZenonT(30), AppendProperties
<1>4. Len(s) \in Nat
  BY Zenon, LenProperties
<1>. QED
  BY <1>1, <1>2, <1>3, <1>4

\* Every thread passes on what it took from its channel.
LEMMA NextTypeOK == TypeOK /\ [Next]_vars => TypeOK'
<1>. SUFFICES ASSUME TypeOK, [Next]_vars PROVE TypeOK'
  OBVIOUS
<1>1. Empty \in Slot /\ End \in Slot
  BY Zenon DEF Slot, Items
<1>2. \A i \in Slot : i /= Empty => Following(i) \in Slot
  BY PipelineAssumption DEF Slot, Items, Blocks, Following
<1>3. \A b \in Blocks : Append(stored, b) \in Seq(Blocks)
  BY Zenon, AppendProperties DEF TypeOK
<1>. USE DEF TypeOK
<1>4. CASE Feed
  BY Zenon, <1>2, <1>4 DEF Feed
<1>5. CASE FeedFails \/ ReadHeadersFails
  BY Zenon, <1>1, <1>5 DEF FeedFails, ReadHeadersFails
<1>6. CASE Join
  BY Zenon, <1>6 DEF Join
<1>7. CASE DownloadThread
  BY Zenon, <1>1, <1>7 DEF DownloadThread, Download, DownloadDisconnected, DownloadFails,
     SendBlock, SendBlockFails, DownloadEnds
<1>8. CASE ParseThread
  BY Zenon, <1>1, <1>8 DEF ParseThread, Parse, ParseDisconnected, ParseFails, SendParsed, SendParsedFails, ParseEnds
<1>9. CASE StoreBlock
  BY Zenon, <1>1, <1>3, <1>9 DEF StoreBlock
<1>10. CASE StoreFails \/ StoreEnds
  BY Zenon, <1>1, <1>10 DEF StoreFails, StoreEnds
<1>11. CASE Close
  BY Zenon, <1>11 DEF Close
<1>12. CASE UNCHANGED vars
  BY Zenon, <1>12 DEF vars
<1>. QED
  BY Zenon, <1>4, <1>5, <1>6, <1>7, <1>8, <1>9, <1>10, <1>11, <1>12 DEF Next, Caller, DbThread

\* A step of a thread moves at most one block one stage further, and a thread
\* that fails leaves the blocks before its own in order.
LEMMA NextInv == PipelineInv /\ [Next]_vars => PipelineInv'
<1>. SUFFICES ASSUME PipelineInv, [Next]_vars PROVE PipelineInv'
  OBVIOUS
<1>. USE PipelineAssumption DEF PipelineInv, Slot, Items, Blocks, Threads
<1>0. Len(stored) \in Nat
  BY Zenon, LenProperties DEF TypeOK
<1>typed. TypeOK'
  BY Zenon, NextTypeOK
<1>1. CASE Feed
  <2>1. /\ AtDown' = AtDown /\ AtLoaded' = AtLoaded /\ AtParse' = AtParse
        /\ AtParsed' = AtParsed /\ AtStore' = AtStore
    BY Zenon, <1>1 DEF Feed, AtDown, AtLoaded, AtParse, AtParsed, AtStore, Holds
  <2>2. AtDown \in Nat
    BY <1>0 DEF AtDown, AtLoaded, AtParse, AtParsed, AtStore, Holds
  <2>3. AtNext = AtDown
    BY <1>1, <2>2 DEF Feed, AtNext, Holds
  <2>4. next' \in Blocks => next \in Blocks /\ next' = next + 1
    <3>1. next \in Blocks \/ next = End
      BY Zenon, <1>1 DEF TypeOK, Feed
    <3>2. next = End => next' = Empty
      BY Zenon, <1>1 DEF Feed, Following
    <3>3. next \in Blocks => next' = End \/ next' = next + 1
      BY <1>1 DEF Feed, Following
    <3>. QED
      BY <3>1, <3>2, <3>3
  <2>5. next \in Blocks => AtNext' = AtDown + 1
    BY Zenon, <1>1, <2>1 DEF Feed, AtNext, Holds
  <2>6. Consecutive'
    BY Zenon, <1>1, <2>1, <2>3, <2>4, <2>5 DEF Feed, Consecutive
  <2>. QED
    BY Zenon, <1>1, <1>typed, <2>6 DEF Feed, StoredInOrder
<1>2. CASE FeedFails \/ ReadHeadersFails \/ Join \/ Close
  <2>1. /\ UNCHANGED <<store, stored, parsed, parse, loaded, down, alive>>
        /\ next' = next \/ next' \notin Blocks
    BY <1>2 DEF FeedFails, ReadHeadersFails, Join, Close
  <2>2. Consecutive'
    BY Zenon, <2>1 DEF Consecutive, AtNext, AtDown, AtLoaded, AtParse, AtParsed, AtStore, Holds
  <2>. QED
    BY Zenon, <1>typed, <2>1, <2>2 DEF StoredInOrder
<1>3. CASE Download
  <2>1. AtNext' = AtNext /\ AtLoaded' = AtLoaded /\ AtLoaded = AtDown
    BY <1>0, <1>3 DEF Download, AtNext, AtDown, AtLoaded, AtParse, AtParsed, AtStore, Holds
  <2>2. AtParsed' = AtParsed /\ AtParse' = AtParse /\ AtStore' = AtStore
    BY Zenon, <1>3 DEF Download, AtParse, AtParsed, AtStore, Holds
  <2>3. /\ loaded' = down /\ down' \notin Blocks
        /\ UNCHANGED <<store, parsed, parse, next, alive>>
    BY <1>3 DEF Download
  <2>4. Consecutive'
    BY Zenon, <2>1, <2>2, <2>3 DEF Consecutive
  <2>. QED
    BY Zenon, <1>3, <1>typed, <2>4 DEF Download, StoredInOrder
<1>4. CASE DownloadFails
  <2>1. Consecutive'
    BY <1>0, <1>4
    DEF DownloadFails, DownloadEnds, Consecutive,
        AtNext, AtDown, AtLoaded, AtParse, AtParsed, AtStore, Holds
  <2>. QED
    BY Zenon, <1>4, <1>typed, <2>1 DEF DownloadFails, DownloadEnds, StoredInOrder
<1>5. CASE SendBlock
  <2>1. AtParse' = AtParse /\ AtParsed' = AtParsed /\ AtStore' = AtStore
    BY Zenon, <1>5 DEF SendBlock, AtParse, AtParsed, AtStore, Holds
  <2>2. Consecutive'
    <3>1. CASE loaded = End
      BY <1>5, <2>1, <3>1 DEF SendBlock, DownloadEnds, Consecutive
    <3>2. CASE loaded /= End
      <4>1. AtLoaded = AtParse /\ AtDown' = AtDown
        BY <1>0, <1>5, <2>1, <3>2 DEF SendBlock, AtDown, AtLoaded, AtParse, AtParsed, AtStore, Holds
      <4>2. AtNext' = AtNext
        BY Zenon, <1>5, <3>2, <4>1 DEF SendBlock, AtNext, Holds
      <4>3. AtLoaded' = AtLoaded + Holds(loaded) /\ (loaded' \notin Blocks)
        BY <1>5, <2>1, <3>2, <4>1 DEF SendBlock, AtLoaded
      <4>. QED
        BY Zenon, <1>5, <2>1, <3>2, <4>1, <4>2, <4>3 DEF SendBlock, Consecutive
    <3>. QED
      BY Zenon, <3>1, <3>2
  <2>. QED
    BY Zenon, <1>5, <1>typed, <2>2 DEF SendBlock, DownloadEnds, StoredInOrder
<1>6. CASE SendBlockFails
  <2>1. Consecutive'
    BY Zenon, <1>0, <1>6
    DEF SendBlockFails, DownloadEnds, Consecutive,
        AtNext, AtDown, AtLoaded, AtParse, AtParsed, AtStore, Holds
  <2>. QED
    BY Zenon, <1>6, <1>typed, <2>1 DEF SendBlockFails, DownloadEnds, StoredInOrder
<1>7. CASE Parse
  <2>1. AtParsed' = AtParsed /\ AtStore' = AtStore
    BY Zenon, <1>7 DEF Parse, AtParsed, AtStore, Holds
  <2>2. AtParse = AtParsed /\ AtLoaded' = AtLoaded
    BY <1>0, <1>7, <2>1 DEF Parse, AtLoaded, AtParse, AtParsed, AtStore, Holds
  <2>3. AtDown' = AtDown /\ AtNext' = AtNext
    BY Zenon, <1>7, <2>2 DEF Parse, AtNext, AtDown, Holds
  <2>4. Consecutive'
    BY <1>7, <2>1, <2>2, <2>3 DEF Parse, Consecutive
  <2>. QED
    BY Zenon, <1>7, <1>typed, <2>4 DEF Parse, StoredInOrder
<1>8. CASE ParseDisconnected
  <2>1. Consecutive'
    BY <1>0, <1>8
    DEF ParseDisconnected, Consecutive,
        AtNext, AtDown, AtLoaded, AtParse, AtParsed, AtStore, Holds
  <2>. QED
    BY Zenon, <1>8, <1>typed, <2>1 DEF ParseDisconnected, StoredInOrder
<1>9. CASE ParseFails
  <2>1. Consecutive'
    BY <1>0, <1>9
    DEF ParseFails, ParseEnds, Consecutive,
        AtNext, AtDown, AtLoaded, AtParse, AtParsed, AtStore, Holds
  <2>. QED
    BY Zenon, <1>9, <1>typed, <2>1 DEF ParseFails, ParseEnds, StoredInOrder
<1>10. CASE SendParsed
  <2>1. AtStore' = AtStore /\ AtParsed = AtStore
    BY <1>0, <1>10 DEF SendParsed, AtParsed, AtStore, Holds
  <2>2. Consecutive'
    <3>1. CASE parsed = End
      BY <1>10, <2>1, <3>1 DEF SendParsed, ParseEnds, Consecutive
    <3>2. CASE parsed /= End
      <4>1. AtParse' = AtParse
        BY <1>0, <1>10, <2>1, <3>2 DEF SendParsed, AtParse, AtParsed, AtStore, Holds
      <4>2. AtLoaded' = AtLoaded /\ AtDown' = AtDown /\ AtNext' = AtNext
        BY Zenon, <1>10, <3>2, <4>1 DEF SendParsed, AtNext, AtDown, AtLoaded, Holds
      <4>. QED
        BY <1>10, <2>1, <3>2, <4>1, <4>2 DEF SendParsed, Consecutive
    <3>. QED
      BY Zenon, <3>1, <3>2
  <2>. QED
    BY Zenon, <1>10, <1>typed, <2>2 DEF SendParsed, ParseEnds, StoredInOrder
<1>11. CASE SendParsedFails
  <2>1. Consecutive'
    BY Zenon, <1>0, <1>11
    DEF SendParsedFails, ParseEnds, Consecutive,
        AtNext, AtDown, AtLoaded, AtParse, AtParsed, AtStore, Holds
  <2>. QED
    BY Zenon, <1>11, <1>typed, <2>1 DEF SendParsedFails, ParseEnds, StoredInOrder
<1>12. CASE StoreFails
  <2>1. Consecutive'
    BY <1>0, <1>12
    DEF StoreFails, Consecutive,
        AtNext, AtDown, AtLoaded, AtParse, AtParsed, AtStore, Holds
  <2>. QED
    BY Zenon, <1>12, <1>typed, <2>1 DEF StoreFails, StoredInOrder
<1>13. CASE StoreEnds
  <2>1. Consecutive'
    BY <1>0, <1>13
    DEF StoreEnds, Consecutive,
        AtNext, AtDown, AtLoaded, AtParse, AtParsed, AtStore, Holds
  <2>. QED
    BY Zenon, <1>13, <1>typed, <2>1 DEF StoreEnds, StoredInOrder
<1>14. CASE StoreBlock
  <2>1. store = Len(stored) + 1 /\ store \in Blocks
    BY Zenon, <1>14 DEF StoreBlock, Consecutive, AtStore
  <2>2. /\ stored' \in Seq(Blocks)
        /\ Len(stored') = Len(stored) + 1
        /\ \A i \in 1..Len(stored') : stored'[i] = i
    BY Zenon, <1>14, <2>1, AppendInOrder DEF TypeOK, StoreBlock, StoredInOrder
  <2>3. /\ store' = Empty
        /\ alive' \subseteq alive
        /\ UNCHANGED <<tip, known, next, fed, down, loaded, parse, parsed, closed, result>>
    BY Zenon, <1>14 DEF StoreBlock
  <2>4. AtParsed' = AtParsed
    BY <1>0, <2>1, <2>2, <2>3 DEF AtParsed, AtStore, Holds
  <2>5. /\ AtParse' = AtParse /\ AtLoaded' = AtLoaded
        /\ AtDown' = AtDown /\ AtNext' = AtNext
    BY Zenon, <2>3, <2>4 DEF AtNext, AtDown, AtLoaded, AtParse, Holds
  <2>6. Consecutive'
    BY <2>3, <2>4, <2>5 DEF Consecutive
  <2>. QED
    BY Zenon, <1>typed, <2>2, <2>6 DEF StoredInOrder
<1>15. CASE DownloadDisconnected
  <2>1. Consecutive'
    BY <1>0, <1>15
    DEF DownloadDisconnected, Consecutive,
        AtNext, AtDown, AtLoaded, AtParse, AtParsed, AtStore, Holds
  <2>. QED
    BY Zenon, <1>15, <1>typed, <2>1 DEF DownloadDisconnected, StoredInOrder
<1>16. CASE UNCHANGED vars
  BY Zenon, <1>typed, <1>16
  DEF vars, Consecutive, StoredInOrder, AtNext, AtDown, AtLoaded, AtParse, AtParsed, AtStore, Holds
<1>. HIDE DEF PipelineInv, Slot, Items, Blocks, Threads
<1>. QED
  BY Zenon, <1>1, <1>2, <1>3, <1>4, <1>5, <1>6, <1>7, <1>8, <1>9, <1>10, <1>11, <1>12, <1>13, <1>14, <1>15, <1>16
  DEF Next, Caller, DownloadThread, ParseThread, DbThread

\* The inductive invariant holds throughout a call of sync_with_indexer.
THEOREM PipelineInvHolds == Spec => []PipelineInv
  BY InitInv, NextInv, PTL DEF Spec

\* Type correctness of the pipeline.
THEOREM PipelineTypeCorrect == Spec => []TypeOK
  BY PipelineInvHolds, PTL DEF PipelineInv

\* Whichever thread of sync_with_indexer fails, and whenever, the blocks in the
\* database are the first of the range, each stored after its parent.
THEOREM StoredAsPrefix == Spec => []StoredInOrder
  BY PipelineInvHolds, PTL DEF PipelineInv

\* The blocks on their way to the database are consecutive.
THEOREM InFlightInOrder == Spec => []Consecutive
  BY PipelineInvHolds, PTL DEF PipelineInv

-----------------------------------------------------------------------------
(* The threads implement BurnStore. *)

\* No block is on its way.
Quiet == next = Empty /\ \A slot \in {down, loaded, parse, parsed, store} : slot \notin Blocks

\* The thread that finds the coordinator closed has just stored a block; the
\* threads have nothing before the caller feeds them; and the call returns when no
\* thread runs, or when none will ever have a block.
Joined ==
    /\ failure = "closed" => stored /= <<>>
    /\ next = First =>
         /\ \A slot \in {down, loaded, parse, parsed, store} : slot = Empty
         /\ alive = Threads /\ result = "running"
    /\ result /= "running" => alive = {} \/ Quiet

\* sync_with_indexer returns after it joined the three threads, or before it feeds
\* them anything.
LEMMA JoinedStep == PipelineInv /\ Joined /\ [Next]_vars => Joined'
<1>. SUFFICES ASSUME PipelineInv, Joined, [Next]_vars PROVE Joined'
  OBVIOUS
<1>0. Empty \notin Blocks /\ End \notin Blocks /\ Empty /= End /\ First \in Items
  BY PipelineAssumption DEF Blocks, First, Items
<1>1. CASE StoreBlock
  <2>1. store \in Blocks /\ stored \in Seq(Blocks) /\ stored' = Append(stored, store)
    BY Zenon, <1>1 DEF StoreBlock, PipelineInv, TypeOK
  <2>2. stored' /= <<>>
    BY <2>1
  <2>3. result = "running" /\ next /= First
    BY Zenon, <1>0, <1>1, <2>1 DEF StoreBlock, Joined, Quiet
  <2>4. result' = result /\ next' = next
    BY Zenon, <1>1 DEF StoreBlock
  <2>. QED
    BY Zenon, <2>2, <2>3, <2>4 DEF Joined, First
<1>2. CASE ~StoreBlock /\ next = First
  <2>1. Feed \/ ReadHeadersFails \/ Close \/ UNCHANGED vars
    BY Zenon, <1>0, <1>2
    DEF Joined, Threads, Next, vars, Caller, DownloadThread, ParseThread, DbThread, FeedFails, Join,
        Download, DownloadDisconnected, DownloadFails, SendBlock, SendBlockFails, Parse,
        ParseDisconnected, ParseFails, SendParsed, SendParsedFails, StoreFails, StoreEnds
  <2>2. CASE Feed
    <3>1. next' /= First
      BY <1>2, <2>2, PipelineAssumption DEF Feed, Following, First
    <3>. QED
      BY Zenon, <1>2, <2>2, <3>1 DEF Feed, Joined, First
  <2>3. CASE ReadHeadersFails
    <3>1. next' /= First /\ Quiet'
      BY Zenon, <1>0, <1>2, <2>3, PipelineAssumption DEF ReadHeadersFails, Joined, Quiet, Items, Blocks
    <3>. QED
      BY Zenon, <2>3, <3>1 DEF ReadHeadersFails, Joined, First
  <2>4. CASE Close \/ UNCHANGED vars
    <3>1. UNCHANGED <<next, down, loaded, parse, parsed, store, stored, failure, alive, result>>
      BY Zenon, <2>4 DEF Close, vars
    <3>. QED
      BY Zenon, <3>1 DEF Joined, Quiet, First, Blocks, Threads
  <2>. QED
    BY Zenon, <2>1, <2>2, <2>3, <2>4
<1>3. CASE ~StoreBlock /\ next /= First
  <2>1. stored' = stored /\ (failure' = failure \/ failure' = "again")
    BY Zenon, <1>3
    DEF Next, vars, Caller, DownloadThread, ParseThread, DbThread, Feed, FeedFails, ReadHeadersFails,
        Join, Close, Download, DownloadDisconnected, DownloadFails, SendBlock, SendBlockFails, Parse,
        ParseDisconnected, ParseFails, SendParsed, SendParsedFails, StoreFails, StoreEnds
  <2>2. alive' \subseteq alive /\ (result' = result \/ alive = {})
    BY Zenon, <1>3
    DEF Next, vars, Caller, DownloadThread, ParseThread, DbThread, Feed, FeedFails, ReadHeadersFails,
        Join, Close, Download, DownloadDisconnected, DownloadFails, DownloadEnds, SendBlock,
        SendBlockFails, Parse, ParseDisconnected, ParseFails, ParseEnds, SendParsed, SendParsedFails,
        StoreFails, StoreEnds
  <2>3. next' /= First
    <3>1. next \in Items => Following(next) /= First
      BY <1>3, PipelineAssumption DEF Items, Blocks, Following, First
    <3>2. next' = next \/ next' = Empty \/ (next \in Items /\ next' = Following(next))
      BY Zenon, <1>3
      DEF PipelineInv, TypeOK, Slot, Next, vars, Caller, DownloadThread, ParseThread, DbThread, Feed,
          FeedFails, ReadHeadersFails, Join, Close, Download, DownloadDisconnected, DownloadFails,
          SendBlock, SendBlockFails, Parse, ParseDisconnected, ParseFails, SendParsed,
          SendParsedFails, StoreFails, StoreEnds
    <3>. QED
      BY Zenon, <1>0, <1>3, <3>1, <3>2, PipelineAssumption DEF Items, Blocks
  <2>4. Quiet => Quiet'
    <3>. SUFFICES ASSUME Quiet PROVE Quiet'
      OBVIOUS
    <3>1. /\ next' = Empty
          /\ down' \in {down, Empty} /\ loaded' \in {loaded, down, Empty, End}
          /\ parse' \in {parse, loaded, Empty} /\ parsed' \in {parsed, parse, Empty, End}
          /\ store' \in {store, parsed, Empty}
      BY Zenon, <1>3
      DEF Quiet, Next, vars, Caller, DownloadThread, ParseThread, DbThread, Feed, FeedFails,
          ReadHeadersFails, Join, Close, Download, DownloadDisconnected, DownloadFails, DownloadEnds,
          SendBlock, SendBlockFails, Parse, ParseDisconnected, ParseFails, ParseEnds, SendParsed,
          SendParsedFails, StoreFails, StoreEnds
    <3>. QED
      BY Zenon, <1>0, <3>1 DEF Quiet, Blocks
  <2>5. First' = First
    BY DEF First
  <2>. QED
    BY Zenon, <2>1, <2>2, <2>3, <2>4, <2>5 DEF Joined
<1>. QED
  BY Zenon, <1>1, <1>2, <1>3

\* Storing a block and returning are steps of BurnStore; all else stutters.
LEMMA StepImplements ==
  ASSUME PipelineInv, Joined, [Next]_vars
  PROVE  [Promise!Next]_(Promise!vars)
<1>. USE PipelineAssumption DEF PipelineInv, TypeOK
<1>0. Len(stored) \in Nat
  BY Zenon, LenProperties
<1>1. CASE StoreBlock
  <2>1. store = Len(stored) + 1 /\ store \in Blocks
    BY Zenon, <1>1 DEF StoreBlock, Consecutive, AtStore
  <2>0. result = "running"
    BY Zenon, <1>1 DEF StoreBlock, Joined, Quiet
  <2>2. Promise!Store
    BY <1>0, <1>1, <2>1, <2>0 DEF StoreBlock, Promise!Store, Blocks
  <2>. QED
    BY Zenon, <2>2 DEF Promise!Next
<1>2. CASE Join
  <2>1. result = "running" /\ result' \in {"ok", "again", "closed"}
        /\ UNCHANGED <<tip, stored>>
    BY Zenon, <1>2 DEF Join
  <2>2. result' = "closed" => Len(stored) > 0
    <3>1. result' = "closed" => stored /= <<>>
      BY Zenon, <1>2 DEF Join, Joined
    <3>. QED
      BY <1>0, <3>1, EmptySeq
  <2>3. result' = "ok" => Len(stored) = N \/ (stored = <<>> /\ tip >= N)
    <3>1. CASE stored = <<>>
      BY <1>2, <3>1 DEF Join, LastProcessed
    <3>2. CASE stored /= <<>>
      <4>1. Len(stored) \in 1..Len(stored)
        BY <1>0, <3>2, EmptySeq
      <4>2. stored[Len(stored)] = Len(stored) /\ stored[Len(stored)] \in Blocks
        BY Zenon, <4>1, ElementOfSeq DEF StoredInOrder
      <4>3. result' = "ok" => ~(stored[Len(stored)] < N)
        BY Zenon, <1>2, <3>2 DEF Join, LastProcessed
      <4>. QED
        BY <1>0, <4>2, <4>3 DEF Blocks
    <3>. QED
      BY Zenon, <3>1, <3>2
  <2>4. Promise!Return(result')
    BY Zenon, <2>1, <2>2, <2>3 DEF Promise!Return, Promise!Results
  <2>. QED
    BY Zenon, <2>1, <2>4 DEF Promise!Next, Promise!Results
<1>3. CASE ReadHeadersFails
  <2>1. Promise!Return("again")
    BY Zenon, <1>3 DEF ReadHeadersFails, Joined, Promise!Return, Promise!Results
  <2>. QED
    BY Zenon, <2>1 DEF Promise!Next, Promise!Results
<1>4. CASE ~StoreBlock /\ ~Join /\ ~ReadHeadersFails
  BY Zenon, <1>4
  DEF Next, vars, Caller, DownloadThread, ParseThread, DbThread, Feed, FeedFails, Close,
      Download, DownloadDisconnected, DownloadFails, SendBlock, SendBlockFails, Parse, ParseDisconnected, ParseFails,
      SendParsed, SendParsedFails, StoreFails, StoreEnds, Promise!vars
<1>. QED
  BY Zenon, <1>1, <1>2, <1>3, <1>4

\* sync_with_indexer keeps its promise: every run of the three threads is a run of
\* BurnStore, in which blocks are stored in order and "ok" is returned when the
\* range is stored, or when the database was as high as the range before.
THEOREM PipelineImplements == Spec => KeepsPromise
<1>1. Init => Joined
  BY Zenon DEF Init, Joined
<1>2. Init => Promise!Init
  BY PipelineAssumption DEF Init, Promise!Init
<1>3. Spec => []Joined
  BY <1>1, PipelineInvHolds, JoinedStep, PTL DEF Spec
<1>4. PipelineInv /\ Joined /\ [Next]_vars => [Promise!Next]_(Promise!vars)
  BY Zenon, StepImplements
<1>. QED
  BY <1>2, <1>3, <1>4, PipelineInvHolds, PTL DEF Spec, KeepsPromise, Promise!Spec

-----------------------------------------------------------------------------
(* The search for a common ancestor. *)

\* How many headers the peer has sent of the batch that starts here.
InBatch == IF remote <= start_block THEN 1 ELSE Least(remote - start_block + 1, REORG_BATCH_SIZE)

\* The chains agree above the batch by no more than one header, or than the batches skipped.
Overlooked ==
    \/ fork <= start_block + REORG_BATCH_SIZE
    \/ fork <= start_block + REORG_BATCH_SIZE - 1 + REORG_BATCH_SIZE * (discontiguous_header_error_count - 1)

SearchInv ==
    /\ local \in Nat /\ remote \in Nat /\ fork \in Nat /\ fork <= local /\ fork <= remote
    /\ start_block \in Nat /\ start_block <= local
    /\ discontiguous_header_error_count \in Nat
    /\ search_pc \in {"load", "scan", "done", "failed"}
    /\ search_pc \in {"load", "scan"} => new_tip = 0 /\ Overlooked
    /\ search_pc = "scan" => batch_loaded = InBatch
    /\ AnswerIsCommon

\* What the batch has in common: all of it up to the fork.
LEMMA CommonRange ==
    ASSUME SearchInv, search_pc = "scan"
    PROVE  \A i \in Int : i \in Common <=> start_block < i /\ i < start_block + REORG_BATCH_SIZE /\ i <= fork
<1>1. REORG_BATCH_SIZE \in Nat
  BY Zenon, SearchAssumption
<1>2. CASE remote <= start_block
  BY <1>1, <1>2 DEF SearchInv, Common, Compared, InBatch, Least
<1>3. CASE remote > start_block
  BY <1>1, <1>3 DEF SearchInv, Common, Compared, InBatch, Least
<1>. QED
  BY <1>2, <1>3 DEF SearchInv

LEMMA SearchStarts == SearchInit => SearchInv
BY SearchAssumption DEF SearchInit, SearchInv, Overlooked, AnswerIsCommon, SaturatingSub, Least

LEMMA SearchStep == SearchInv /\ [SearchNext]_search_vars => SearchInv'
<1>. SUFFICES ASSUME SearchInv, [SearchNext]_search_vars PROVE SearchInv'
  OBVIOUS
<1>. DEFINE B == REORG_BATCH_SIZE
            errors == discontiguous_header_error_count
<1>1. B \in Nat /\ B >= 2
  BY SearchAssumption
<1>2. CASE UNCHANGED search_vars
  BY Zenon, <1>2 DEF search_vars, SearchInv, Overlooked, InBatch, AnswerIsCommon
<1>3. CASE LoadHeaders
  BY Zenon, <1>3 DEF LoadHeaders, chains, SearchInv, Overlooked, InBatch, AnswerIsCommon
<1>4. CASE LoadDiscontiguous
  <2>1. errors' = errors + 1 /\ errors \in Nat /\ B * errors \in Nat /\ B * (errors + 1) = B * errors + B
    BY <1>1, <1>4 DEF LoadDiscontiguous, SearchInv
  <2>2. start_block' = SaturatingSub(start_block, B * errors + B) /\ fork' = fork /\ fork < start_block
    BY Zenon, <1>4, <2>1 DEF LoadDiscontiguous, chains, SearchInv
  <2>3. start_block' \in Nat /\ start_block' <= start_block /\ fork <= start_block' + B - 1 + B * errors
    BY <1>1, <2>1, <2>2 DEF SearchInv, SaturatingSub
  <2>4. B * (errors' - 1) = B * errors
    BY <2>1
  <2>5. Overlooked'
    BY Zenon, <2>2, <2>3, <2>4 DEF Overlooked
  <2>. QED
    BY <1>4, <2>1, <2>3, <2>5 DEF LoadDiscontiguous, chains, SearchInv, AnswerIsCommon
<1>5. CASE LoadFails
  BY Zenon, <1>5 DEF LoadFails, chains, SearchInv, AnswerIsCommon
<1>6. CASE FoundAncestor
  <2>1. PICK i \in Common : (\A j \in Common : j <= i) /\ new_tip' = i
    BY Zenon, <1>6 DEF FoundAncestor
  <2>2. i \in Int /\ i \in Nat /\ i <= fork /\ i < start_block + B
    BY <1>1, <1>6, <2>1, CommonRange DEF FoundAncestor, Common, Compared, SearchInv
  <2>3. i = fork \/ i = start_block + B - 1
    BY <1>1, <1>6, <2>1, <2>2, CommonRange DEF FoundAncestor, SearchInv
  <2>4. fork - i <= 1 \/ fork - i <= B * (errors - 1)
    <3>1. errors \in Nat /\ B * (errors - 1) \in Int
      BY <1>1 DEF SearchInv
    <3>. QED
      BY <1>1, <1>6, <2>2, <2>3, <3>1 DEF FoundAncestor, SearchInv, Overlooked
  <2>. QED
    BY Zenon, <1>6, <2>1, <2>2, <2>4 DEF FoundAncestor, chains, SearchInv, AnswerIsCommon
<1>7. CASE NoAncestor
  <2>1. fork <= start_block
    <3>1. start_block + 1 \notin Common
      BY Zenon, <1>7 DEF NoAncestor
    <3>. QED
      BY <1>1, <1>7, <3>1, CommonRange DEF NoAncestor, SearchInv
  <2>2. start_block' \in Nat /\ start_block' <= start_block /\ fork <= start_block' + B
    BY <1>1, <1>7, <2>1 DEF NoAncestor, SaturatingSub, SearchInv
  <2>3. Overlooked'
    BY Zenon, <1>7, <2>2 DEF NoAncestor, chains, Overlooked
  <2>4. AnswerIsCommon'
    BY <1>7, <2>1 DEF NoAncestor, chains, AnswerIsCommon, SearchInv
  <2>. QED
    BY <1>7, <2>2, <2>3, <2>4 DEF NoAncestor, chains, SearchInv
<1>. QED
  BY Zenon, <1>2, <1>3, <1>4, <1>5, <1>6, <1>7 DEF SearchNext

\* Whatever the two chains and the size of the batches, find_bitcoin_reorg answers with a header
\* both have, and misses the highest such by no more than one, or than the batches it skipped.
THEOREM ReorgAnswerIsCommon == SearchSpec => []AnswerIsCommon
<1>1. SearchInv => AnswerIsCommon
  BY Zenon DEF SearchInv
<1>. QED
  BY <1>1, SearchStarts, SearchStep, PTL DEF SearchSpec

-----------------------------------------------------------------------------
(* The connections of the network thread. *)

\* What is known of sockets and conversations.
Targets == \A e \in DOMAIN connecting : connecting[e] \in Listening
Convos == \A e \in DOMAIN peers : peers[e] \in [nk : Neighbors, key : BOOLEAN]

PeerInv == Targets /\ Convos /\ MapsAgree /\ ScansCanFinish /\ DeniedNotConnected

-----------------------------------------------------------------------------
\* Disconnecting any set of event ids keeps the maps in step and drops the inventories
\* of the neighbors behind them (deregister_peer).
LEMMA Deregistered ==
    ASSUME Targets, Convos, MapsAgree,
           NEW S, NEW inventories,
           DOMAIN inventories \subseteq get_outbound_sync_peers,
           deregister_peers(S, inventories)
    PROVE  /\ Targets' /\ Convos' /\ MapsAgree' /\ ScansCanFinish'
           /\ DOMAIN events' = {nk \in DOMAIN events : events[nk] \notin S}
  <1>1. /\ DOMAIN events' = {nk \in DOMAIN events : events[nk] \notin S}
        /\ \A nk \in DOMAIN events' : events'[nk] = events[nk]
        /\ DOMAIN peers' = DOMAIN peers \ S
        /\ \A e \in DOMAIN peers' : peers'[e] = peers[e]
        /\ DOMAIN connecting' = DOMAIN connecting \ S
        /\ \A e \in DOMAIN connecting' : connecting'[e] = connecting[e]
    BY DEF deregister_peers, Without, Restrict
  <1>2. Targets' /\ Convos'
    BY Zenon, <1>1 DEF Targets, Convos
  <1>3. MapsAgree'
    <2>1. polled' = polled \ (S \cap (DOMAIN peers \cup DOMAIN connecting))
      BY Zenon DEF deregister_peers
    <2>2. polled' = DOMAIN peers' \cup DOMAIN connecting'
      BY Zenon, <1>1, <2>1 DEF MapsAgree
    <2>3. \A nk \in DOMAIN events' : events'[nk] \in DOMAIN peers' /\ peers'[events'[nk]].nk = nk
      BY <1>1 DEF MapsAgree
    <2>4. \A e \in DOMAIN peers' : peers'[e].nk \in DOMAIN events' /\ events'[peers'[e].nk] = e
      BY <1>1 DEF MapsAgree
    <2>5. DOMAIN peers' \cap DOMAIN connecting' = {}
      BY Zenon, <1>1 DEF MapsAgree
    <2> QED
      BY Zenon, <2>2, <2>3, <2>4, <2>5 DEF MapsAgree
  <1>4. ScansCanFinish'
    <2>1. DOMAIN stats' = {nk \in DOMAIN inventories : ~(nk \in DOMAIN events /\ events[nk] \in S)}
      BY DEF deregister_peers, Without, Restrict
    <2> SUFFICES ASSUME NEW nk \in DOMAIN stats'
                 PROVE  nk \in get_outbound_sync_peers'
      BY Zenon DEF ScansCanFinish
    <2>2. PICK e \in DOMAIN peers : peers[e].nk = nk /\ Outbound(e) /\ peers[e].key
      BY Zenon, <2>1 DEF get_outbound_sync_peers, Outbounds
    <2>3. e \notin S
      BY Zenon, <2>1, <2>2 DEF MapsAgree
    <2>4. e \in DOMAIN peers' /\ peers'[e] = peers[e]
      BY Zenon, <1>1, <2>3
    <2> QED
      BY Zenon, <2>2, <2>4 DEF get_outbound_sync_peers, Outbounds, Outbound
  <1> QED
    BY Zenon, <1>1, <1>2, <1>3, <1>4

\* A new conversation extends the maps in step, and only where the neighbor is neither
\* connected nor denied (register_peer).
LEMMA Registered ==
    ASSUME PeerInv,
           NEW e, NEW nk \in Neighbors,
           e \notin DOMAIN peers,
           e \notin DOMAIN connecting',
           DOMAIN connecting' = DOMAIN connecting \ {e},
           \A f \in DOMAIN connecting' : connecting'[f] = connecting[f],
           register_peer(e, nk),
           UNCHANGED <<stats, denied>>
    PROVE  PeerInv'
  <1>1. CASE /\ can_register_peer(nk)
             /\ \E key \in BOOLEAN : peers' = With(peers, e, [nk |-> nk, key |-> key])
             /\ events' = With(events, nk, e)
             /\ polled' = polled \cup {e}
    <2>1. PICK key \in BOOLEAN : peers' = With(peers, e, [nk |-> nk, key |-> key])
      BY Zenon, <1>1
    <2>2. /\ DOMAIN peers' = DOMAIN peers \cup {e}
          /\ peers'[e] = [nk |-> nk, key |-> key]
          /\ \A f \in DOMAIN peers : peers'[f] = peers[f]
      BY Zenon, <2>1 DEF With
    <2>3. /\ DOMAIN events' = DOMAIN events \cup {nk}
          /\ events'[nk] = e
          /\ nk \notin DOMAIN events /\ nk \notin denied
          /\ \A m \in DOMAIN events : events'[m] = events[m]
      BY Zenon, <1>1 DEF With, can_register_peer
    <2>4. Targets' /\ Convos'
      BY <2>2 DEF PeerInv, Targets, Convos
    <2>5. MapsAgree'
      <3>0. \A m \in DOMAIN events : events[m] \in DOMAIN peers /\ peers[events[m]].nk = m
        BY Zenon DEF PeerInv, MapsAgree
      <3>1. \A m \in DOMAIN events' : events'[m] \in DOMAIN peers' /\ peers'[events'[m]].nk = m
        BY <2>2, <2>3, <3>0
      <3>2. \A f \in DOMAIN peers' : peers'[f].nk \in DOMAIN events' /\ events'[peers'[f].nk] = f
        BY <2>2, <2>3 DEF PeerInv, MapsAgree
      <3>3. DOMAIN peers' \cap DOMAIN connecting' = {}
        BY Zenon, <2>2 DEF PeerInv, MapsAgree
      <3>4. polled' = DOMAIN peers' \cup DOMAIN connecting'
        BY Zenon, <1>1, <2>2 DEF PeerInv, MapsAgree
      <3> QED
        BY Zenon, <3>1, <3>2, <3>3, <3>4 DEF MapsAgree
    <2>6. ScansCanFinish'
      BY <2>2 DEF PeerInv, ScansCanFinish, get_outbound_sync_peers, Outbounds, Outbound
    <2>7. DeniedNotConnected'
      BY Zenon, <2>3 DEF PeerInv, DeniedNotConnected
    <2> QED
      BY <2>4, <2>5, <2>6, <2>7 DEF PeerInv
  <1>2. CASE polled' = polled \ {e} /\ UNCHANGED <<peers, events>>
    <2>1. MapsAgree'
      BY <1>2 DEF PeerInv, MapsAgree
    <2>2. Targets' /\ Convos' /\ ScansCanFinish' /\ DeniedNotConnected'
      BY Zenon, <1>2 DEF PeerInv, Targets, Convos, ScansCanFinish, DeniedNotConnected, get_outbound_sync_peers,
                  Outbounds, Outbound
    <2> QED
      BY Zenon, <2>1, <2>2 DEF PeerInv
  <1> QED
    BY Zenon, <1>1, <1>2 DEF register_peer

-----------------------------------------------------------------------------
\* Steps that leave the connections and the denials alone.
LEMMA Kept ==
    ASSUME PeerInv, UNCHANGED <<session, denied>>
    PROVE  PeerInv'
  BY DEF PeerInv, session, Targets, Convos, MapsAgree, ScansCanFinish, DeniedNotConnected,
         get_outbound_sync_peers, Outbounds, Outbound

\* Steps that only disconnect: denied may shrink, or gain addresses that go.
LEMMA Dropped ==
    ASSUME PeerInv, NEW S, deregister_peers(S, stats),
           \A nk \in denied' : nk \in denied \/ (nk \in DOMAIN events => events[nk] \in S)
    PROVE  PeerInv'
  <1>1. DOMAIN stats \subseteq get_outbound_sync_peers
    BY Zenon DEF PeerInv, ScansCanFinish
  <1>2. /\ Targets' /\ Convos' /\ MapsAgree' /\ ScansCanFinish'
        /\ DOMAIN events' = {nk \in DOMAIN events : events[nk] \notin S}
    BY Zenon, <1>1, Deregistered DEF PeerInv
  <1>3. DeniedNotConnected'
    BY <1>2 DEF PeerInv, DeniedNotConnected
  <1> QED
    BY <1>2, <1>3 DEF PeerInv

\* PeerNetwork::new starts without connections.
LEMMA Initially == PeerInit => PeerInv
  BY DEF PeerInit, PeerInv, Targets, Convos, MapsAgree, ScansCanFinish, DeniedNotConnected

\* Every step of dispatch_network preserves the invariant.
LEMMA Inductive == PeerInv /\ [PeerNext]_peer_vars => PeerInv'
  <1> SUFFICES ASSUME PeerInv, [PeerNext]_peer_vars PROVE PeerInv'
    OBVIOUS
  <1>1. ASSUME NEW nk \in Calling, Accept(nk) PROVE PeerInv'
    <2>1. PICK e \in EventIds : IsNextEventId(e) /\ register_peer(e, nk)
      BY Zenon, <1>1 DEF Accept
    <2>2. e \notin DOMAIN peers /\ e \notin DOMAIN connecting
      BY <2>1 DEF IsNextEventId, PeerInv, MapsAgree
    <2>3. connecting' = connecting /\ UNCHANGED <<stats, denied>>
      BY <1>1 DEF Accept
    <2>4. /\ DOMAIN connecting' = DOMAIN connecting \ {e} /\ e \notin DOMAIN connecting'
          /\ \A f \in DOMAIN connecting' : connecting'[f] = connecting[f]
      BY <2>2, <2>3
    <2>5. nk \in Neighbors
      BY DEF Neighbors
    <2> QED
      BY Zenon, <2>1, <2>2, <2>3, <2>4, <2>5, Registered
  <1>2. ASSUME NEW nk \in Listening, ConnectPeer(nk) PROVE PeerInv'
    <2>1. PICK e \in EventIds : /\ IsNextEventId(e)
                               /\ polled' = polled \cup {e}
                               /\ connecting' = With(connecting, e, nk)
      BY <1>2 DEF ConnectPeer
    <2>2. e \notin polled /\ DOMAIN connecting' = DOMAIN connecting \cup {e}
      BY <2>1 DEF IsNextEventId, With
    <2>3. UNCHANGED <<peers, events, denied, stats>>
      BY Zenon, <1>2 DEF ConnectPeer
    <2>4. MapsAgree'
      BY <2>1, <2>2, <2>3 DEF PeerInv, MapsAgree
    <2>5. Targets'
      BY Zenon, <2>1 DEF PeerInv, Targets, With
    <2>6. Convos' /\ DeniedNotConnected'
      BY Zenon, <2>3 DEF PeerInv, Convos, DeniedNotConnected
    <2>7. ScansCanFinish'
      BY <2>3 DEF PeerInv, ScansCanFinish, get_outbound_sync_peers, Outbounds, Outbound
    <2> QED
      BY Zenon, <2>4, <2>5, <2>6, <2>7 DEF PeerInv
  <1>3. ASSUME NEW nk \in Neighbors, RequestBan(nk) PROVE PeerInv'
    BY Zenon, <1>3, Kept DEF RequestBan
  <1>4. ASSUME NEW nk \in Neighbors, DenialEnds(nk) PROVE PeerInv'
    BY <1>4 DEF DenialEnds, session, PeerInv, Targets, Convos, MapsAgree, ScansCanFinish,
                DeniedNotConnected, get_outbound_sync_peers, Outbounds, Outbound
  <1>5. ASSUME NEW e \in EventIds, Connected(e) PROVE PeerInv'
    <2>1. e \in DOMAIN connecting /\ e \notin DOMAIN peers
      BY <1>5 DEF Connected, PeerInv, MapsAgree
    <2>2. /\ DOMAIN connecting' = DOMAIN connecting \ {e} /\ e \notin DOMAIN connecting'
          /\ \A f \in DOMAIN connecting' : connecting'[f] = connecting[f]
      BY <1>5 DEF Connected, Without, Restrict
    <2>3. register_peer(e, connecting[e]) /\ UNCHANGED <<stats, denied>>
      BY Zenon, <1>5 DEF Connected
    <2>4. connecting[e] \in Neighbors
      BY <2>1 DEF PeerInv, Targets, Neighbors
    <2> QED
      BY Zenon, <2>1, <2>2, <2>3, <2>4, Registered
  <1>6. ASSUME NEW e \in EventIds, Handshake(e) PROVE PeerInv'
    <2>1. /\ e \in DOMAIN peers
          /\ peers' = [peers EXCEPT ![e].key = TRUE]
          /\ UNCHANGED <<polled, connecting, events, denied, stats>>
      BY <1>6 DEF Handshake
    <2>2. /\ DOMAIN peers' = DOMAIN peers
          /\ \A f \in DOMAIN peers : /\ peers'[f] \in [nk : Neighbors, key : BOOLEAN]
                                    /\ peers'[f].nk = peers[f].nk
                                    /\ peers[f].key => peers'[f].key
      BY <2>1 DEF PeerInv, Convos
    <2>3. Targets' /\ Convos' /\ DeniedNotConnected'
      BY Zenon, <2>1, <2>2 DEF PeerInv, Targets, Convos, DeniedNotConnected
    <2>5. MapsAgree'
      BY <2>1, <2>2 DEF PeerInv, MapsAgree
    <2>4. ScansCanFinish'
      BY <2>1, <2>2 DEF PeerInv, ScansCanFinish, get_outbound_sync_peers, Outbounds, Outbound
    <2> QED
      BY <2>3, <2>4, <2>5 DEF PeerInv
  <1>7. ASSUME NEW e \in EventIds, ConversationFails(e) PROVE PeerInv'
    BY Zenon, <1>7, Dropped DEF ConversationFails
  <1>8. ASSUME NEW e \in EventIds, InvalidUpdate(e) PROVE PeerInv'
    BY Zenon, <1>8, Kept DEF InvalidUpdate
  <1>9. ASSUME NEW e \in EventIds, Disconnect(e) PROVE PeerInv'
    BY Zenon, <1>9, Dropped DEF Disconnect
  <1>10. ASSUME GetPublicIP PROVE PeerInv'
    <2>1. UNCHANGED denied
      BY <1>10 DEF GetPublicIP
    <2>2. UNCHANGED session \/ deregister_peers(DOMAIN peers, stats)
      BY Zenon, <1>10 DEF GetPublicIP
    <2> QED
      BY Zenon, <2>1, <2>2, Kept, Dropped
  <1>11. ASSUME SyncInventories PROVE PeerInv'
    <2> DEFINE In(scans, T) == {nk \in DOMAIN stats : scans[nk] \in T}
               Fresh(scans) == [nk \in In(scans, {"done"}) \cup get_outbound_sync_peers |-> "scanning"]
    <2>1. UNCHANGED denied
      BY <1>11 DEF SyncInventories
    <2>2. PICK scans \in ScanResults :
            \/ deregister_neighbors(In(scans, {"Broken", "Dead"}), Fresh(scans))
            \/ stats' = scans /\ UNCHANGED <<polled, connecting, peers, events>>
      BY Zenon, <1>11 DEF SyncInventories
    <2>3. DOMAIN stats \subseteq get_outbound_sync_peers
      BY Zenon DEF PeerInv, ScansCanFinish
    <2>4. CASE deregister_neighbors(In(scans, {"Broken", "Dead"}), Fresh(scans))
      <3>1. DOMAIN Fresh(scans) \subseteq get_outbound_sync_peers
        BY Zenon, <2>3
      <3>2. deregister_peers(EventsOf(In(scans, {"Broken", "Dead"})), Fresh(scans))
        BY <2>4 DEF deregister_neighbors
      <3> HIDE DEF Fresh, In
      <3>3. /\ Targets' /\ Convos' /\ MapsAgree' /\ ScansCanFinish'
            /\ DOMAIN events' \subseteq DOMAIN events
        BY Zenon, <3>1, <3>2, Deregistered DEF PeerInv
      <3> QED
        BY <2>1, <3>3 DEF PeerInv, DeniedNotConnected
    <2>5. CASE stats' = scans /\ UNCHANGED <<polled, connecting, peers, events>>
      <3>1. DOMAIN stats' = DOMAIN stats
        BY Zenon, <2>5 DEF ScanResults
      <3> QED
        BY <2>1, <2>5, <3>1 DEF PeerInv, Targets, Convos, MapsAgree, ScansCanFinish, DeniedNotConnected,
                                get_outbound_sync_peers, Outbounds, Outbound
    <2> QED
      BY Zenon, <2>2, <2>4, <2>5
  <1>12. ASSUME DownloadBlocks PROVE PeerInv'
    <2>1. PICK broken \in SUBSET Listening : deregister_peers(EventsOf(broken), stats)
      BY <1>12 DEF DownloadBlocks, deregister_and_ban, deregister_neighbors
    <2>2. UNCHANGED denied
      BY <1>12 DEF DownloadBlocks
    <2> QED
      BY <2>1, <2>2, Dropped
  <1>13. ASSUME FinishCycle PROVE PeerInv'
    <2>1. CASE do_prune
      <3>1. PICK by_ip \in prune_frontier_inbound_ip, by_org \in prune_frontier_outbound_orgs :
              deregister_peers(Punished \cup by_ip \cup by_org, stats)
        BY Zenon, <1>13, <2>1 DEF FinishCycle
      <3>2. denied' = denied \cup {peers[e].nk : e \in Punished}
        BY Zenon, <1>13, <2>1 DEF FinishCycle
      <3>3. \A e \in Punished : events[peers[e].nk] = e
        BY Zenon DEF Punished, PeerInv, MapsAgree
      <3>4. \A nk \in denied' : nk \in denied
                              \/ (nk \in DOMAIN events => events[nk] \in Punished \cup by_ip \cup by_org)
        BY Zenon, <3>2, <3>3
      <3> QED
        BY Zenon, <3>1, <3>4, Dropped
    <2>2. CASE ~do_prune
      BY Zenon, <1>13, <2>2, Kept DEF FinishCycle
    <2> QED
      BY <2>1, <2>2 
  <1>14. ASSUME FinishWalk PROVE PeerInv'
    <2>1. PICK broken \in SUBSET Listening, dropped \in SUBSET Listening :
            deregister_peers(EventsOf(broken \cup dropped), stats)
      BY Zenon, <1>14 DEF FinishWalk, deregister_neighbors
    <2>2. UNCHANGED denied
      BY <1>14 DEF FinishWalk
    <2> QED
      BY <2>1, <2>2, Dropped
  <1>15. ASSUME Proceed \/ SyncThrottled PROVE PeerInv'
    BY <1>15, Kept DEF Proceed, SyncThrottled
  <1>16. ASSUME UNCHANGED peer_vars PROVE PeerInv'
    BY <1>16, Kept DEF peer_vars, session
  <1> QED
    BY Zenon, <1>1, <1>2, <1>3, <1>4, <1>5, <1>6, <1>7, <1>8, <1>9, <1>10, <1>11, <1>12, <1>13,
       <1>14, <1>15, <1>16 DEF PeerNext

\* The conjunction holds at all times.
THEOREM PeerInvHolds == PeerSpec => []PeerInv
  BY Initially, Inductive, PTL DEF PeerSpec

-----------------------------------------------------------------------------
\* Conversations, event ids, addresses and the poller's ids agree at all times, so that
\* the assertions of register_peer and of the poller cannot fail.
THEOREM ConnectionsAgree == PeerSpec => []MapsAgree
  <1>1. PeerInv => MapsAgree
    BY DEF PeerInv
  <1> QED
    BY <1>1, PeerInvHolds, PTL

\* Inventories are kept only for neighbors that the next round scans (sync_inventories).
THEOREM RoundsCanFinish == PeerSpec => []ScansCanFinish
  <1>1. PeerInv => ScansCanFinish
    BY DEF PeerInv
  <1> QED
    BY <1>1, PeerInvHolds, PTL

\* No peer the database denies is connected, whatever was under way when it was denied.
THEOREM DeniedStayOut == PeerSpec => []DeniedNotConnected
  <1>1. PeerInv => DeniedNotConnected
    BY DEF PeerInv
  <1> QED
    BY <1>1, PeerInvHolds, PTL

-----------------------------------------------------------------------------
(* The signals of the coordinator thread. *)

CommInv == CommTypeOK /\ SleepsOnlyUnsignalled /\ ProcessedWasStored /\ NoLostWork

-----------------------------------------------------------------------------
(* Facts about receive_signal. *)

\* receive_signal returns an event whose bool was set, or TIMEOUT when none
\* was, and prefers STOP.
LEMMA ReceivedEventCases ==
    ASSUME NEW b \in SignalStruct
    PROVE  /\ ReceivedEvent(b) \in CoordinatorEvents
           /\ ReceivedEvent(b) = "STOP" <=> b.stop
           /\ ReceivedEvent(b) = "NEW_BURN_BLOCK" => b.new_burn_block
           /\ ReceivedEvent(b) = "NEW_STACKS_BLOCK" => b.new_stacks_block
           /\ ReceivedEvent(b) = "TIMEOUT" => ~activated_signal(b)
  BY DEF SignalStruct, ReceivedEvent, CoordinatorEvents, activated_signal

\* receive_signal clears the bool of the event it returns and no other.
LEMMA AfterReceiveClearsOne ==
    ASSUME NEW b \in SignalStruct
    PROVE  /\ AfterReceive(b) \in SignalStruct
           /\ AfterReceive(b).stop = b.stop
           /\ b.new_burn_block /\ ReceivedEvent(b) /= "NEW_BURN_BLOCK"
                 => AfterReceive(b).new_burn_block
           /\ b.new_stacks_block /\ ReceivedEvent(b) /= "NEW_STACKS_BLOCK"
                 => AfterReceive(b).new_stacks_block
  BY Zenon DEF SignalStruct, AfterReceive

\* run dispatches every event to a place of the coordinator thread.
LEMMA DispatchCases ==
    ASSUME NEW e \in CoordinatorEvents
    PROVE  /\ Dispatch(e) \in {"run", "burn", "stacks", "stopped"}
           /\ Dispatch(e) = "burn" <=> e = "NEW_BURN_BLOCK"
           /\ Dispatch(e) = "stacks" <=> e = "NEW_STACKS_BLOCK"
           /\ Dispatch(e) = "stopped" <=> e = "STOP"
  BY Zenon DEF CoordinatorEvents, Dispatch

-----------------------------------------------------------------------------
(* Type correctness. *)

\* CoordinatorCommunication::instantiate starts from well-typed state.
LEMMA CommTypeInit == CommInit => CommTypeOK
  BY CommAssumption DEF CommInit, CommTypeOK, NoSignal, SignalStruct, ReceiverPC, AnnouncerPC, Announcers

\* Every announcement, wake-up and handler step keeps the types.
LEMMA CommTypeNext == CommTypeOK /\ [CommNext]_comm_vars => CommTypeOK'
  <1> SUFFICES ASSUME CommTypeOK, [CommNext]_comm_vars PROVE CommTypeOK'
    OBVIOUS
  <1> USE CommAssumption DEF CommTypeOK, Announcers, ReceiverPC, AnnouncerPC
  <1>1. ASSUME NEW a \in Announcers, GetStacksBlocksProcessed(a) PROVE CommTypeOK'
    BY Zenon, <1>1 DEF GetStacksBlocksProcessed, handlerVars
  <1>2. ASSUME NEW a \in Announcers, Store(a) PROVE CommTypeOK'
    BY <1>2 DEF Store, handlerVars
  <1>3. ASSUME NEW a \in Announcers, announce_new_burn_block(a) PROVE CommTypeOK'
    BY Zenon, <1>3 DEF announce_new_burn_block, handlerVars, AfterAnnounce, NotifyAll, SignalStruct
  <1>4. ASSUME NEW a \in Announcers, announce_new_stacks_block(a) PROVE CommTypeOK'
    BY Zenon, <1>4 DEF announce_new_stacks_block, handlerVars, AfterAnnounce, NotifyAll, SignalStruct
  <1>5. ASSUME NEW a \in Announcers, WaitReturnsTrue(a) \/ WaitTimesOut(a) PROVE CommTypeOK'
    BY <1>5 DEF WaitReturnsTrue, WaitTimesOut, handlerVars
  <1>6. CASE stop_chains_coordinator
    BY Zenon, <1>6 DEF stop_chains_coordinator, handlerVars, announcerVars, NotifyAll, SignalStruct
  <1>7. ASSUME ReceiveSignal PROVE CommTypeOK'
    BY Zenon, <1>7, ReceivedEventCases, AfterReceiveClearsOne, DispatchCases
       DEF ReceiveSignal, handlerVars, announcerVars
  <1>8. CASE WaitOn
    BY Zenon, <1>7, <1>8 DEF WaitOn, WaitOnActivated, WaitOnResumes, WaitOnBlocks, handlerVars, announcerVars
  <1>9. CASE SpuriousWakeup
    BY Zenon, <1>9 DEF SpuriousWakeup, handlerVars, announcerVars
  <1>10. CASE WalkBurnchain
    BY Zenon, <1>10 DEF WalkBurnchain, announcerVars
  <1>11. CASE ProcessSortition
    BY <1>11 DEF ProcessSortition, announcerVars
  <1>12. CASE BurnHandlerReturns
    BY Zenon, <1>12 DEF BurnHandlerReturns, announcerVars, handlerVars
  <1>13. CASE ProcessReadyBlock
    BY <1>13 DEF ProcessReadyBlock, announcerVars
  <1>14. CASE NoReadyBlock
    BY Zenon, <1>14 DEF NoReadyBlock, announcerVars, handlerVars
  <1>15. CASE UNCHANGED comm_vars
    BY <1>15 DEF comm_vars
  <1> QED
    BY Zenon, <1>1, <1>2, <1>3, <1>4, <1>5, <1>6, <1>8, <1>9, <1>10, <1>11, <1>12, <1>13, <1>14, <1>15
       DEF CommNext, AnnouncerStep, Handle

\* The type invariant holds for any sets of announcers and any bound.
THEOREM CommTypeCorrect == CommSpec => []CommTypeOK
  BY CommTypeInit, CommTypeNext, PTL DEF CommSpec

-----------------------------------------------------------------------------
(* No lost wake-up and no lost work. *)

\* No signal is set and no block stored when the channels are set up.
LEMMA CommInvInit == CommInit => CommInv
  BY CommTypeInit
     DEF CommInit, CommInv, CommTypeOK, SleepsOnlyUnsignalled, ProcessedWasStored, NoLostWork, Announcers

\* Announcements: the bool is set before the announcer leaves "stored".
LEMMA AnnouncerKeepsInv ==
    ASSUME CommInv, CommTypeOK', NEW a \in Announcers, AnnouncerStep(a)
    PROVE  SleepsOnlyUnsignalled' /\ ProcessedWasStored' /\ NoLostWork'
  <1> USE CommAssumption DEF CommInv, CommTypeOK, SleepsOnlyUnsignalled, ProcessedWasStored, NoLostWork,
                             InView, Announcers, handlerVars
  <1>1. CASE GetStacksBlocksProcessed(a)
    BY Zenon, <1>1 DEF GetStacksBlocksProcessed
  <1>2. CASE Store(a)
    BY <1>2 DEF Store
  <1>3. CASE announce_new_burn_block(a)
    BY <1>3 DEF announce_new_burn_block, NotifyAll, AfterAnnounce, SignalStruct, activated_signal
  <1>4. CASE announce_new_stacks_block(a)
    BY <1>4 DEF announce_new_stacks_block, NotifyAll, AfterAnnounce, SignalStruct, activated_signal
  <1>5. CASE WaitReturnsTrue(a) \/ WaitTimesOut(a)
    BY Zenon, <1>5 DEF WaitReturnsTrue, WaitTimesOut
  <1> QED
    BY Zenon, <1>1, <1>2, <1>3, <1>4, <1>5 DEF AnnouncerStep

\* Taking an event: the bool that is cleared is the one whose handler starts.
LEMMA ReceiveSignalKeepsInv ==
    ASSUME CommInv, rpc \in {"run", "woken"}, ReceiveSignal
    PROVE  SleepsOnlyUnsignalled' /\ ProcessedWasStored' /\ NoLostWork'
  <1> DEFINE event == ReceivedEvent(signal_bools)
  <1> USE DEF CommInv, CommTypeOK, ReceiveSignal, announcerVars, handlerVars
  <1>1. /\ event \in CoordinatorEvents
        /\ event = "TIMEOUT" => ~activated_signal(signal_bools)
        /\ signal_bools' \in SignalStruct
        /\ signal_bools.new_burn_block => signal_bools'.new_burn_block \/ rpc' = "burn"
        /\ signal_bools.new_stacks_block => signal_bools'.new_stacks_block \/ rpc' = "stacks"
        /\ rpc' \in {"run", "burn", "stacks", "stopped"}
    BY Zenon, ReceivedEventCases, AfterReceiveClearsOne, DispatchCases
  <1>2. SleepsOnlyUnsignalled' /\ ProcessedWasStored'
    BY Zenon, <1>1 DEF SleepsOnlyUnsignalled, ProcessedWasStored
  <1>3. NoLostWork'
    BY <1>1 DEF NoLostWork, InView
  <1> QED
    BY Zenon, <1>2, <1>3

\* Handlers: each returns only when what it looks for has been processed.
LEMMA HandleKeepsInv ==
    ASSUME CommInv, CommTypeOK', Handle
    PROVE  SleepsOnlyUnsignalled' /\ ProcessedWasStored' /\ NoLostWork'
  <1> USE CommAssumption DEF CommInv, CommTypeOK, SleepsOnlyUnsignalled, ProcessedWasStored, NoLostWork,
                             InView, Announcers, handlerVars, announcerVars
  <1>1. CASE WalkBurnchain
    BY SMTT(30), <1>1 DEF WalkBurnchain
  <1>2. CASE ProcessSortition
    BY SMTT(30), <1>2 DEF ProcessSortition
  <1>3. CASE BurnHandlerReturns
    BY SMTT(30), <1>3 DEF BurnHandlerReturns
  <1>4. CASE ProcessReadyBlock
    BY SMTT(30), <1>4 DEF ProcessReadyBlock
  <1>5. CASE NoReadyBlock
    BY <1>5 DEF NoReadyBlock
  <1> QED
    BY Zenon, <1>1, <1>2, <1>3, <1>4, <1>5 DEF Handle

\* Announcers, the condition variable and the handlers keep the invariant.
LEMMA CommInvNext == CommInv /\ [CommNext]_comm_vars => CommInv'
  <1> SUFFICES ASSUME CommInv, [CommNext]_comm_vars PROVE CommInv'
    OBVIOUS
  <1>1. CommTypeOK'
    BY CommTypeNext DEF CommInv
  <1>2. CASE \E a \in Announcers : AnnouncerStep(a)
    BY <1>1, <1>2, AnnouncerKeepsInv DEF CommInv
  <1>3. CASE stop_chains_coordinator
    BY <1>1, <1>3 DEF CommInv, CommTypeOK, stop_chains_coordinator, NotifyAll, announcerVars, handlerVars,
        SleepsOnlyUnsignalled, ProcessedWasStored, NoLostWork, InView, SignalStruct
  <1>4. CASE WaitOnActivated \/ WaitOnResumes
    BY Zenon, <1>1, <1>4, ReceiveSignalKeepsInv DEF CommInv, WaitOnActivated, WaitOnResumes
  <1>5. CASE WaitOnBlocks \/ SpuriousWakeup
    BY Zenon, <1>1, <1>5 DEF CommInv, WaitOnBlocks, SpuriousWakeup, announcerVars, handlerVars,
        SleepsOnlyUnsignalled, ProcessedWasStored, NoLostWork, InView
  <1>6. CASE Handle
    BY SMTT(30), <1>1, <1>6, HandleKeepsInv DEF CommInv
  <1>7. CASE UNCHANGED comm_vars
    BY <1>1, <1>7 DEF comm_vars, CommInv, SleepsOnlyUnsignalled, ProcessedWasStored, NoLostWork, InView
  <1> QED
    BY Zenon, <1>2, <1>3, <1>4, <1>5, <1>6, <1>7 DEF CommNext, WaitOn

\* wait_on never sleeps through a signal, and coalesced announcements lose no
\* block, for any number of announcing threads.
THEOREM NoWorkIsLost == CommSpec => [](SleepsOnlyUnsignalled /\ ProcessedWasStored /\ NoLostWork)
  <1>1. CommInv => SleepsOnlyUnsignalled /\ ProcessedWasStored /\ NoLostWork
    BY Zenon DEF CommInv
  <1> QED
    BY <1>1, CommInvInit, CommInvNext, PTL DEF CommSpec

\* A sleeping coordinator has processed every announced block.
THEOREM QuiescenceCorrect == CommSpec => []QuiescentMeansDone
  <1>1. CommInv => QuiescentMeansDone
    BY CommAssumption
       DEF CommInv, CommTypeOK, SleepsOnlyUnsignalled, ProcessedWasStored, NoLostWork, InView,
           QuiescentMeansDone, activated_signal, Announcers
  <1> QED
    BY <1>1, CommInvInit, CommInvNext, PTL DEF CommSpec

\* No handler starts once stop is set.
THEOREM StopIsFirst == CommSpec => StopPreemptsWork
  <1> DEFINE Step == signal_bools.stop /\ rpc \in {"run", "woken"} => rpc' \notin {"burn", "stacks"}
  <1>1. CommTypeOK /\ [CommNext]_comm_vars => [Step]_comm_vars
    <2> SUFFICES ASSUME CommTypeOK, CommNext, signal_bools.stop, rpc \in {"run", "woken"}
                 PROVE  rpc' \notin {"burn", "stacks"}
      OBVIOUS
    <2>1. CASE \E a \in Announcers : AnnouncerStep(a)
      BY <2>1 DEF AnnouncerStep, GetStacksBlocksProcessed, Store, announce_new_burn_block,
          announce_new_stacks_block, WaitReturnsTrue, WaitTimesOut, NotifyAll
    <2>2. CASE stop_chains_coordinator
      BY Zenon, <2>2 DEF stop_chains_coordinator
    <2>3. CASE WaitOn \/ SpuriousWakeup
      BY Zenon, <2>3, ReceivedEventCases, DispatchCases
         DEF CommTypeOK, WaitOn, WaitOnActivated, WaitOnResumes, WaitOnBlocks, SpuriousWakeup, ReceiveSignal
    <2>4. CASE Handle
      BY <2>4 DEF Handle, WalkBurnchain, ProcessSortition, BurnHandlerReturns, ProcessReadyBlock, NoReadyBlock
    <2> QED
      BY <2>1, <2>2, <2>3, <2>4 DEF CommNext
  <1> QED
    BY <1>1, CommTypeCorrect, PTL DEF CommSpec, StopPreemptsWork

=============================================================================
