---------------------------- MODULE DatabaseProofs --------------------------
(***************************************************************************)
(* The databases of the chains coordinator: the sortition database         *)
(* (Sortitions and RewardCycles) and the staging area of the blocks        *)
(* (StagingBlocks).                                                        *)
(*                                                                         *)
(* The five safety properties of the staging area, for any tree of blocks, *)
(* any number of crashes and any order of arrivals.  That an accepted      *)
(* block is never rejected rests on the outcome of a block being the same  *)
(* each time it runs; that the databases agree rests on what the thread is *)
(* in the middle of.                                                       *)
(*                                                                         *)
(* The histories of the forks are sound, for any operations, any number of *)
(* forks and any burns.  ForksAreSound speaks of the rows of all snapshots *)
(* of a fork, and the checks of process_block_ops of the index of its last *)
(* one.  IndexOK joins the two: the index of a snapshot leads to the       *)
(* snapshots of its fork, and has every public key and every winning block *)
(* of their rows.  With it ForkInv is inductive: what passes the checks is *)
(* not in the index, so not in the rows, and the filters of a block see to *)
(* the rest.                                                               *)
(*                                                                         *)
(* The reward cycles keep their reward sets, for every first height, cycle *)
(* length, prepare length and threshold that PoxConstants::new admits,     *)
(* every reward set and every history of sortitions.                       *)
(***************************************************************************)
EXTENDS RewardCycles, Sortitions, StagingBlocks, FiniteSetTheorems, TLAPS

-----------------------------------------------------------------------------
(* The staging area. *)

\* The coordinator thread has a transaction on the staging database open only while the relayer
\* stages nothing, and what is being staged has no row.
OneWriter == storing /= NoBlock => Unlocked /\ row[storing] = "none"

\* A block that ran once runs each time.
RunsAgain == \A b \in clarity : b \notin invalid /\ ~MicroblockFails(b)

HasParent(b) == Parent[b] = Genesis \/ Parent[b] \in headers

\* What the thread knows of the block it is processing.
AtWork ==
    /\ pc = "reject" => cur \in invalid
    /\ pc = "drop" => MicroblockFails(cur)
    /\ pc \in {"stream", "headers", "blocks"} => cur \in clarity /\ row[cur] = "staged" /\ HasParent(cur)
    /\ pc \in {"blocks", "sort"} => cur \in headers

SafeInv == TypeOK /\ OneWriter /\ RunsAgain /\ AtWork /\ AcceptedIsSafe

\* Without a crash, a block that some database lacks is the one at work.
Complete ==
    /\ \A b \in clarity : b \in headers \/ (pc \in {"stream", "headers"} /\ cur = b)
    /\ \A b \in headers : row[b] = "processed" \/ (pc = "blocks" /\ cur = b)
    /\ \A b \in headers : b \in in_sortdb \/ (pc \in {"blocks", "sort"} /\ cur = b)
    /\ \A b \in Blocks : row[b] = "processed" => b \in headers

\* The blocks of the Clarity store whose streams have been written.
Written == {b \in clarity : pc /= "stream" \/ cur /= b}

\* The stream in the chunk store is the longest that one of them confirms.
Longest ==
    \A b \in Blocks :
        /\ stream[b] = 0 \/ \E c \in Written : Parent[c] = b /\ stream[b] = Confirms[c]
        /\ \A c \in Written : Parent[c] = b => Confirms[c] <= stream[b]

\* The microblocks that are confirmed are those that processed blocks confirm, and those of the
\* block at work are there.
ConfirmedStreams ==
    /\ \A b \in Blocks, i \in Seqs :
        mrow[<<b, i>>] = "confirmed" <=> \E c \in Blocks : row[c] = "processed" /\ Parent[c] = b /\ i < Confirms[c]
    /\ pc \in {"stream", "headers", "blocks"} =>
        \A i \in Seqs : i < Confirms[cur] => mrow[<<Parent[cur], i>>] \in {"staged", "confirmed"}

Attachables ==
    \A b \in Blocks :
        row[b] = "staged" /\ ~ParentHasTwin(b) /\ (Parent[b] = Genesis \/ row[Parent[b]] = "processed") => b \in attachable

Clean == Complete /\ Longest /\ ConfirmedStreams /\ Attachables

\* What holds until the node crashes.
StagingInv == SafeInv /\ (crashes = 0 => Clean)

-----------------------------------------------------------------------------
(* The tree. *)

\* What StagingAssumption says of the tree in use.
LEMMA TreeFacts ==
    ASSUME tree \in Trees
    PROVE  /\ Genesis \notin Blocks /\ NoBlock \notin Blocks /\ NoBlock /= Genesis
           /\ Parent \in [Blocks -> Blocks \cup {Genesis}]
           /\ BlockHash \in [Blocks -> Blocks]
           /\ PoxFork \in [Blocks -> {1, 2}]
           /\ Confirms \in [Blocks -> Nat]
           /\ StreamLength \in Nat
           /\ tree.crashes \in Nat
           /\ \A b \in Blocks : Confirms[b] <= StreamLength /\ (Parent[b] = Genesis => Confirms[b] = 0)
<1>1. tree \in Tree(Blocks) /\ Blocks \subseteq AllBlocks
  BY Zenon, StagingAssumption DEF Blocks
<1>2. /\ Parent \in [Blocks -> Blocks \cup {Genesis}]
      /\ BlockHash \in [Blocks -> Blocks]
      /\ PoxFork \in [Blocks -> {1, 2}]
      /\ Confirms \in [Blocks -> Nat]
      /\ StreamLength \in Nat
      /\ tree.crashes \in Nat
  BY Zenon, <1>1 DEF Tree, Parent, BlockHash, PoxFork, Confirms, StreamLength
<1>3. \A b \in Blocks : Confirms[b] <= IF Parent[b] = Genesis THEN 0 ELSE StreamLength
  BY Zenon, StagingAssumption DEF Blocks, Confirms, Parent, StreamLength
<1> QED
  BY <1>1, <1>2, <1>3, StagingAssumption

\* No step changes the tree or what running a block does.
LEMMA TruthIsFixed ==
    ASSUME [Next]_vars
    PROVE  UNCHANGED truth
<1>1. UNCHANGED vars => UNCHANGED truth
  BY Zenon DEF vars
<1>2. ASSUME NEW b \in Blocks, Process(b) PROVE UNCHANGED truth
  BY Zenon, <1>2 DEF Process, NoBlockData, UnreadableStream, Discontiguous, Poison, Returns, RejectBlock,
              RejectMicroblock, AppendBlock, MarfExists
<1>3. Work => UNCHANGED truth
  BY Zenon DEF Work, Wake, CommitRejectedBlock, CommitDrop, StoreStream, CommitHeaders, CommitBlocks, CommitSortition,
         NoneReady, CollectOrphan, NoOrphans, Resume
<1> QED
  BY Zenon, <1>1, <1>2, <1>3 DEF Next, WriteBlock, CommitStagingBlock, StageMicroblock, NewBurnBlock, UnwindPox, Crash

LEMMA FixedOperators ==
    ASSUME UNCHANGED truth
    PROVE  /\ tree' = tree /\ invalid' = invalid /\ bad_seq' = bad_seq
           /\ Blocks' = Blocks /\ Parent' = Parent /\ BlockHash' = BlockHash /\ PoxFork' = PoxFork
           /\ Confirms' = Confirms /\ StreamLength' = StreamLength /\ Seqs' = Seqs
           /\ Microblocks' = Microblocks
           /\ \A b : MicroblockFails(b)' <=> MicroblockFails(b)
BY Zenon DEF truth, Blocks, Parent, BlockHash, PoxFork, Confirms, StreamLength, Seqs, Microblocks, MicroblockFails, Offender

-----------------------------------------------------------------------------
(* Accepted blocks are safe, wherever the node crashes. *)

LEMMA SafeInit == Init => SafeInv
<1> SUFFICES ASSUME Init PROVE SafeInv
  OBVIOUS
<1>1. tree \in Trees
  BY Zenon DEF Init
<1>2. TypeOK
  <2>1. 0 \in 0..StreamLength /\ 0 \in 0..tree.crashes
    BY <1>1, TreeFacts
  <2> QED
    BY Zenon, <1>1, <2>1 DEF Init, TypeOK, RowStatus
<1> QED
  BY Zenon, <1>2 DEF Init, SafeInv, OneWriter, RunsAgain, AtWork, AcceptedIsSafe, Unlocked

\* The types are kept.
LEMMA TypeStep ==
    ASSUME TypeOK, AtWork, [Next]_vars
    PROVE  TypeOK'
<1> USE DEF TypeOK, RowStatus
<1>1. tree \in Trees
  OBVIOUS
<1>2. UNCHANGED truth
  BY Zenon, TruthIsFixed
<1>3. /\ tree' = tree /\ invalid' = invalid /\ bad_seq' = bad_seq
      /\ Blocks' = Blocks /\ Parent' = Parent /\ BlockHash' = BlockHash /\ PoxFork' = PoxFork
      /\ Confirms' = Confirms /\ StreamLength' = StreamLength /\ Seqs' = Seqs
      /\ Microblocks' = Microblocks
  BY Zenon, <1>2, FixedOperators
<1>4. CASE UNCHANGED vars
  BY ZenonT(30), <1>3, <1>4 DEF vars, staging_db, chunks, others, thread
<1>5. ASSUME NEW b \in Blocks, WriteBlock(b) PROVE TypeOK'
  BY Zenon, <1>3, <1>5 DEF WriteBlock, staging_db, others, thread
<1>6. CASE CommitStagingBlock
  BY <1>3, <1>6 DEF CommitStagingBlock, chunks, others, thread
<1>7. ASSUME NEW b \in Blocks, NEW i \in Seqs, StageMicroblock(b, i) PROVE TypeOK'
  <2>1. <<BlockHash[b], i>> \in Range(BlockHash) \X Seqs
    BY Zenon, <1>1, TreeFacts DEF Range
  <2> QED
    BY Zenon, <1>3, <1>7, <2>1 DEF StageMicroblock, chunks, others, thread
<1>8. CASE NewBurnBlock
  BY Zenon, <1>3, <1>8 DEF NewBurnBlock, staging_db, chunks, others, thread
<1>9. ASSUME NEW f \in valid_pox, UnwindPox(f) PROVE TypeOK'
  BY Zenon, <1>3, <1>9 DEF UnwindPox, staging_db, chunks, others, thread
<1>10. ASSUME NEW b \in Blocks, Process(b) PROVE TypeOK'
  <2>1. CASE NoBlockData(b)
    BY Zenon, <1>3, <2>1 DEF NoBlockData, staging_db, chunks, others
  <2>2. ASSUME NEW again \in BOOLEAN, Returns(again) PROVE TypeOK'
    BY Zenon, <1>3, <2>2 DEF Returns, staging_db, chunks, others
  <2>3. CASE UnreadableStream(b) \/ Discontiguous(b) \/ Poison(b)
    BY Zenon, <2>2, <2>3 DEF UnreadableStream, Discontiguous, Poison
  <2>4. CASE RejectBlock(b)
    BY Zenon, <1>1, <1>3, <2>4, TreeFacts DEF RejectBlock, Emptied, staging_db, others
  <2>5. CASE RejectMicroblock(b)
    BY Zenon, <1>1, <1>3, <2>5, TreeFacts DEF RejectMicroblock, Emptied, staging_db, others
  <2>6. CASE AppendBlock(b)
    <3>1. clarity' \subseteq Blocks /\ headers' \subseteq clarity' /\ b /= NoBlock
      BY Zenon, <1>1, <2>6, TreeFacts DEF AppendBlock
    <3> QED
      BY Zenon, <1>3, <2>6, <3>1 DEF AppendBlock, staging_db, chunks
  <2>7. CASE MarfExists(b)
    BY Zenon, <1>3, <2>7 DEF MarfExists, staging_db, chunks, others
  <2> QED
    BY Zenon, <1>10, <2>1, <2>3, <2>4, <2>5, <2>6, <2>7 DEF Process
<1>11. CASE Work
  <2>1. CASE Wake
    BY Zenon, <1>3, <2>1 DEF Wake, staging_db, chunks, others
  <2>2. CASE CommitRejectedBlock
    BY Zenon, <1>3, <2>2 DEF CommitRejectedBlock, RowsWithout, Children, MicroblocksWithout, DataWithout, chunks, others
  <2>3. CASE CommitDrop
    BY Zenon, <1>3, <2>3 DEF CommitDrop, RowsWithout, Children, MicroblocksWithout, DataWithout, chunks, others
  <2>4. CASE CommitHeaders
    BY Zenon, <1>3, <2>4 DEF CommitHeaders, AtWork, staging_db, chunks
  <2>5. CASE CommitBlocks
    BY Zenon, <1>3, <2>5 DEF CommitBlocks, ChildrenByHash, chunks, others
  <2>6. CASE CommitSortition
    BY Zenon, <1>3, <2>6 DEF CommitSortition, AtWork, staging_db, chunks
  <2>7. CASE NoneReady
    BY Zenon, <1>3, <2>7 DEF NoneReady, Emptied, staging_db, others
  <2>8. ASSUME NEW b \in Blocks, CollectOrphan(b) PROVE TypeOK'
    BY Zenon, <1>3, <2>8 DEF CollectOrphan, Resume, RowsWithout, Children, MicroblocksWithout, DataWithout, Emptied, others
  <2>9. CASE NoOrphans
    BY Zenon, <1>3, <2>9 DEF NoOrphans, Resume, staging_db, others
  <2>10. CASE StoreStream
    <3>1. stream' \in [Blocks -> 0..StreamLength]
      BY <1>1, <2>10, TreeFacts DEF StoreStream, NeedsStream
    <3> QED
      BY Zenon, <1>3, <2>10, <3>1 DEF StoreStream, staging_db, others
  <2> QED
    BY Zenon, <1>11, <2>1, <2>2, <2>3, <2>4, <2>5, <2>6, <2>7, <2>8, <2>9, <2>10 DEF Work
<1>12. CASE Crash
  <2>1. crashes' \in 0..tree.crashes
    BY <1>1, <1>12, TreeFacts DEF Crash
  <2> QED
    BY Zenon, <1>3, <1>12, <2>1 DEF Crash, staging_db, chunks, others
<1> QED
  BY Zenon, <1>4, <1>5, <1>6, <1>7, <1>8, <1>9, <1>10, <1>11, <1>12 DEF Next

\* The row of a block that some block without a header orphans is that of a block without a header.
LEMMA RejectionSpares ==
    ASSUME TypeOK, AcceptedIsSafe, NEW b \in Blocks, b \notin headers, NEW c \in Blocks,
           RowsWithout(b)[c] /= row[c]
    PROVE  RowsWithout(b)[c] \in Gone /\ c \notin headers
<1>1. Genesis \notin Blocks
  BY Zenon, TreeFacts DEF TypeOK
<1> QED
  BY Zenon, <1>1 DEF TypeOK, AcceptedIsSafe, RowsWithout, Children, Gone

\* The blocks that build on what is dropped confirm the same microblock.
LEMMA DroppedFails ==
    ASSUME TypeOK, NEW b \in Blocks, NEW c \in BuildOn(Dropped(b))
    PROVE  c \in Blocks /\ MicroblockFails(c)
<1>1. c \in Blocks /\ Confirms[c] > 0
  BY Zenon DEF BuildOn, NeedsStream
<1>2. PICK m \in Dropped(b) : BlockHash[m[1]] = BlockHash[Parent[c]] /\ m[2] = Confirms[c] - 1
  BY Zenon DEF BuildOn
<1>3. MicroblockFails(b) /\ m \in Microblocks /\ BlockHash[m[1]] = BlockHash[Parent[b]] /\ m[2] >= Offender(b)
  BY Zenon, <1>2 DEF Dropped
<1>4. /\ Parent \in [Blocks -> Blocks \cup {Genesis}] /\ Confirms \in [Blocks -> Nat] /\ StreamLength \in Nat
      /\ \A d \in Blocks : Confirms[d] <= StreamLength /\ (Parent[d] = Genesis => Confirms[d] = 0)
      /\ BlockHash \in [Blocks -> Blocks]
  BY Zenon, TreeFacts DEF TypeOK
<1>5. Parent[b] /= Genesis /\ Parent[c] /= Genesis
  BY <1>1, <1>3, <1>4 DEF MicroblockFails, Offender
<1>6. Offender(c) = Offender(b)
  BY Zenon, <1>2, <1>3, <1>5 DEF Offender
<1>7. Offender(b) \in Nat
  BY <1>4, <1>5 DEF Offender, TypeOK, Range
<1> QED
  BY <1>1, <1>2, <1>3, <1>4, <1>6, <1>7 DEF MicroblockFails

\* How a row may change.
RowChange(b) ==
    \/ row[b] = "none" /\ row'[b] = "staged"
    \/ pc = "blocks" /\ cur = b /\ row[b] = "staged" /\ row'[b] = "processed"
    \/ b \notin headers /\ row'[b] \in Gone

LEMMA RowStep ==
    ASSUME SafeInv, [Next]_vars, NEW c \in Blocks, row'[c] /= row[c]
    PROVE  RowChange(c)
<1> USE DEF SafeInv
<1>1. CASE UNCHANGED row
  BY Zenon, <1>1
<1>2. CASE CommitStagingBlock
  BY Zenon, <1>2 DEF CommitStagingBlock, OneWriter, TypeOK, RowChange
<1>3. CASE CommitRejectedBlock
  <2>1. cur \in Blocks /\ cur \notin headers
    BY Zenon, <1>3 DEF CommitRejectedBlock, AtWork, TypeOK, RunsAgain
  <2> QED
    BY Zenon, <1>3, <2>1, RejectionSpares DEF CommitRejectedBlock, RowChange
<1>4. CASE CommitDrop
  <2>1. cur \in Blocks /\ cur \notin headers
    BY Zenon, <1>4 DEF CommitDrop, AtWork, TypeOK, RunsAgain
  <2>2. CASE c \in BuildOn(Dropped(cur))
    <3>1. c \notin headers
      BY Zenon, <2>1, <2>2, DroppedFails DEF TypeOK, RunsAgain
    <3> QED
      BY Zenon, <1>4, <2>2, <3>1 DEF CommitDrop, RowChange, Gone
  <2>3. CASE c \notin BuildOn(Dropped(cur))
    <3>1. row'[c] = RowsWithout(cur)[c]
      BY Zenon, <1>4, <2>3 DEF CommitDrop
    <3> QED
      BY Zenon, <2>1, <3>1, RejectionSpares DEF RowChange
  <2> QED
    BY Zenon, <2>2, <2>3
<1>5. CASE CommitBlocks
  BY Zenon, <1>5 DEF CommitBlocks, AtWork, TypeOK, RowChange
<1>6. ASSUME NEW b \in Blocks, CollectOrphan(b) PROVE RowChange(c)
  <2>1. b \notin headers
    BY Zenon, <1>6 DEF CollectOrphan, AcceptedIsSafe, Gone
  <2> QED
    BY Zenon, <1>6, <2>1, RejectionSpares DEF CollectOrphan, RowChange
<1>7. ASSUME NEW b \in Blocks, Process(b) PROVE UNCHANGED row
  BY Zenon, <1>7 DEF Process, NoBlockData, UnreadableStream, Discontiguous, Poison, Returns, RejectBlock,
              RejectMicroblock, AppendBlock, MarfExists, staging_db
<1>8. Wake \/ StoreStream \/ CommitHeaders \/ CommitSortition \/ NoneReady \/ NoOrphans => UNCHANGED row
  BY Zenon DEF Wake, StoreStream, CommitHeaders, CommitSortition, NoneReady, NoOrphans, staging_db
<1>9. Work => RowChange(c)
  BY Zenon, <1>1, <1>3, <1>4, <1>5, <1>6, <1>8 DEF Work
<1>10. UNCHANGED vars => UNCHANGED row
  BY Zenon DEF vars, staging_db
<1>11. (\E b \in Blocks : WriteBlock(b)) \/ (\E b \in Blocks, i \in Seqs : StageMicroblock(b, i))
       \/ NewBurnBlock \/ (\E f \in valid_pox : UnwindPox(f)) \/ Crash => UNCHANGED row
  BY Zenon DEF WriteBlock, StageMicroblock, NewBurnBlock, UnwindPox, Crash, staging_db
<1> QED
  BY Zenon, <1>1, <1>2, <1>7, <1>9, <1>10, <1>11 DEF Next

LEMMA SafeStep == SafeInv /\ [Next]_vars => SafeInv'
<1> SUFFICES ASSUME SafeInv, [Next]_vars PROVE SafeInv'
  OBVIOUS
<1> USE DEF SafeInv
<1>1. TypeOK'
  BY Zenon, TypeStep
<1>2. /\ tree' = tree /\ invalid' = invalid
      /\ Blocks' = Blocks /\ Parent' = Parent
      /\ \A b : MicroblockFails(b)' <=> MicroblockFails(b)
  BY Zenon, TruthIsFixed, FixedOperators
<1>3. Genesis \notin Blocks /\ NoBlock \notin Blocks
  BY Zenon, TreeFacts DEF TypeOK
<1>5. CASE UNCHANGED vars
  BY Zenon, <1>1, <1>2, <1>5 DEF vars, staging_db, others, thread, OneWriter, Unlocked, RunsAgain, AtWork, HasParent, AcceptedIsSafe
<1>6. headers' = headers /\ UNCHANGED Parent => AcceptedIsSafe'
  BY Zenon, <1>2, RowStep DEF AcceptedIsSafe, RowChange, TypeOK, Gone
<1>7. clarity' = clarity => RunsAgain'
  BY Zenon, <1>2 DEF RunsAgain
<1> USE DEF OneWriter, AtWork, HasParent, Unlocked
<1>8. ASSUME NEW b \in Blocks, WriteBlock(b) PROVE SafeInv'
  BY Zenon, <1>1, <1>2, <1>6, <1>7, <1>8 DEF WriteBlock, staging_db, others, thread
<1>9. CASE CommitStagingBlock
  BY Zenon, <1>1, <1>2, <1>6, <1>7, <1>9 DEF CommitStagingBlock, others, thread
<1>10. ASSUME NEW b \in Blocks, NEW i \in Seqs, StageMicroblock(b, i) PROVE SafeInv'
  BY Zenon, <1>1, <1>2, <1>6, <1>7, <1>10 DEF StageMicroblock, others, thread
<1>11. CASE NewBurnBlock
  BY Zenon, <1>1, <1>2, <1>6, <1>7, <1>11 DEF NewBurnBlock, staging_db, others, thread
<1>12. ASSUME NEW f \in valid_pox, UnwindPox(f) PROVE SafeInv'
  BY Zenon, <1>1, <1>2, <1>6, <1>7, <1>12 DEF UnwindPox, staging_db, others, thread
<1>13. ASSUME NEW b \in Blocks, Process(b) PROVE SafeInv'
  <2>1. CASE NoBlockData(b) \/ MarfExists(b)
    BY Zenon, <1>1, <1>2, <1>6, <1>7, <2>1 DEF NoBlockData, MarfExists, Accepts, Runs, Attaches, Readable, Finds, others
  <2>2. CASE UnreadableStream(b) \/ Discontiguous(b) \/ Poison(b)
    BY Zenon, <1>1, <1>2, <1>6, <1>7, <2>2 DEF UnreadableStream, Discontiguous, Poison, Returns, Attaches, Readable, Finds, others
  <2>3. CASE RejectBlock(b)
    BY Zenon, <1>1, <1>2, <1>6, <1>7, <2>3 DEF RejectBlock, Runs, Attaches, Readable, Finds, others
  <2>4. CASE RejectMicroblock(b)
    BY Zenon, <1>1, <1>2, <1>6, <1>7, <2>4 DEF RejectMicroblock, Runs, Attaches, Readable, Finds, others
  <2>5. CASE AppendBlock(b)
    <3>1. storing = NoBlock /\ b \in CanAttach /\ b \notin invalid /\ ~MicroblockFails(b)
      BY Zenon, <2>5 DEF AppendBlock, Accepts, Runs, Attaches, Readable, Finds
    <3>2. row[b] = "staged" /\ HasParent(b)
      BY Zenon, <3>1 DEF CanAttach, Candidates
    <3>3. RunsAgain'
      BY Zenon, <1>2, <2>5, <3>1 DEF RunsAgain, AppendBlock
    <3> QED
      BY Zenon, <1>1, <1>2, <1>6, <2>5, <3>1, <3>2, <3>3 DEF AppendBlock, staging_db
  <2> QED
    BY Zenon, <1>13, <2>1, <2>2, <2>3, <2>4, <2>5 DEF Process
<1>14. CASE Work
  <2>1. CASE Wake
    BY Zenon, <1>1, <1>2, <1>6, <1>7, <2>1 DEF Wake, staging_db, others
  <2>2. CASE CommitRejectedBlock
    BY Zenon, <1>1, <1>2, <1>6, <1>7, <2>2 DEF CommitRejectedBlock, others, TypeOK
  <2>3. CASE CommitDrop
    BY Zenon, <1>1, <1>2, <1>6, <1>7, <2>3 DEF CommitDrop, others, TypeOK
  <2>4. CASE CommitHeaders
    <3>1. AcceptedIsSafe'
      BY Zenon, <1>2, <2>4 DEF CommitHeaders, staging_db, AcceptedIsSafe, Gone
    <3> QED
      BY Zenon, <1>1, <1>2, <1>7, <2>4, <3>1 DEF CommitHeaders, staging_db
  <2>5. CASE CommitBlocks
    BY Zenon, <1>1, <1>2, <1>6, <1>7, <2>5 DEF CommitBlocks, others, TypeOK
  <2>6. CASE CommitSortition
    BY Zenon, <1>1, <1>2, <1>6, <1>7, <2>6 DEF CommitSortition, staging_db
  <2>7. CASE NoneReady
    BY Zenon, <1>1, <1>2, <1>6, <1>7, <2>7 DEF NoneReady, staging_db, others
  <2>8. ASSUME NEW b \in Blocks, CollectOrphan(b) PROVE SafeInv'
    BY Zenon, <1>1, <1>2, <1>6, <1>7, <2>8 DEF CollectOrphan, Resume, others
  <2>9. CASE NoOrphans
    BY Zenon, <1>1, <1>2, <1>6, <1>7, <2>9 DEF NoOrphans, Resume, others
  <2>10. CASE StoreStream
    BY Zenon, <1>1, <1>2, <1>6, <1>7, <2>10 DEF StoreStream, staging_db, others
  <2> QED
    BY Zenon, <1>14, <2>1, <2>2, <2>3, <2>4, <2>5, <2>6, <2>7, <2>8, <2>9, <2>10 DEF Work
<1>15. CASE Crash
  BY Zenon, <1>1, <1>2, <1>6, <1>7, <1>15 DEF Crash, staging_db, others
<1> QED
  BY Zenon, <1>5, <1>8, <1>9, <1>10, <1>11, <1>12, <1>13, <1>14, <1>15 DEF Next

LEMMA AlwaysSafe == Spec => []SafeInv
BY SafeInit, SafeStep, PTL DEF Spec

\* Headers form a tree from genesis and none is ever rejected, orphaned or collected, whatever the
\* tree of blocks, the order they come in, and wherever process_blocks is cut short.
THEOREM AcceptedIsNeverLost == Spec => []AcceptedIsSafe
<1>1. SafeInv => AcceptedIsSafe
  BY Zenon DEF SafeInv
<1> QED
  BY <1>1, AlwaysSafe, PTL

\* No step of any thread, and no crash, takes back a rejection: set_block_processed and
\* delete_orphaned_epoch_data are final.
THEOREM RejectionIsFinal == Spec => OrphansStayOrphaned
<1>1. SafeInv /\ [Next]_vars => [\A b \in Blocks : row[b] \in Gone => row'[b] \in Gone]_vars
  BY Zenon, RowStep DEF RowChange, Gone
<1> QED
  BY <1>1, AlwaysSafe, PTL DEF Spec, OrphansStayOrphaned

-----------------------------------------------------------------------------
(* The databases agree, without a crash. *)

LEMMA CleanInit == Init => Clean
<1> SUFFICES ASSUME Init PROVE Clean
  OBVIOUS
<1>1. Genesis \notin Blocks /\ Confirms \in [Blocks -> Nat] /\ StreamLength \in Nat
  BY Zenon, TreeFacts DEF Init
<1>2. Complete /\ Longest
  BY Zenon DEF Init, Complete, Longest, Written
<1>3. ConfirmedStreams
  BY Zenon DEF Init, ConfirmedStreams, Microblocks
<1>4. Attachables
  BY Zenon DEF Init, Attachables
<1> QED
  BY Zenon, <1>2, <1>3, <1>4 DEF Clean

\* Each database takes what the one before it took.
LEMMA CompleteStep ==
    ASSUME SafeInv, Complete, [Next]_vars, crashes' = crashes
    PROVE  Complete'
<1> USE DEF SafeInv, Complete
<1>1. Blocks' = Blocks
  BY Zenon, TruthIsFixed, FixedOperators
<1>2. \A b \in Blocks : row'[b] /= row[b] => RowChange(b)
  BY Zenon, RowStep
<1>3. TypeOK /\ headers \subseteq clarity /\ clarity \subseteq Blocks
  BY Zenon DEF TypeOK
<1>4. ASSUME UNCHANGED others, pc \notin {"stream", "headers", "blocks", "sort"} \/ UNCHANGED <<pc, cur, row>>
      PROVE  Complete'
  BY Zenon, <1>1, <1>2, <1>3, <1>4 DEF RowChange, Gone, others
<1>5. CASE UNCHANGED vars
  BY Zenon, <1>4, <1>5 DEF vars, thread, staging_db
<1>6. CASE CommitStagingBlock
  <2>1. storing \in Blocks /\ row[storing] = "none" /\ Unlocked
    BY Zenon, <1>6 DEF CommitStagingBlock, OneWriter, TypeOK
  <2>2. \A b \in headers : row'[b] = row[b] \/ b = storing
    BY Zenon, <1>3, <1>6, <2>1 DEF CommitStagingBlock, TypeOK
  <2>3. storing \notin headers
    BY Zenon, <2>1 DEF Unlocked
  <2> QED
    BY <1>1, <1>2, <1>3, <1>6, <2>2, <2>3 DEF CommitStagingBlock, RowChange, Gone, others, thread
<1>7. ASSUME NEW b \in Blocks, WriteBlock(b) PROVE Complete'
  BY Zenon, <1>4, <1>7 DEF WriteBlock, thread, staging_db
<1>8. ASSUME NEW b \in Blocks, NEW i \in Seqs, StageMicroblock(b, i) PROVE Complete'
  BY Zenon, <1>4, <1>8 DEF StageMicroblock, thread
<1>9. CASE NewBurnBlock
  BY Zenon, <1>4, <1>9 DEF NewBurnBlock, thread, staging_db
<1>10. ASSUME NEW f \in valid_pox, UnwindPox(f) PROVE Complete'
  BY Zenon, <1>4, <1>10 DEF UnwindPox, thread, staging_db
<1>11. ASSUME NEW b \in Blocks, Process(b) PROVE Complete'
  <2>1. pc = "find"
    BY Zenon, <1>11 DEF Process, NoBlockData, UnreadableStream, Discontiguous, Poison, RejectBlock, RejectMicroblock,
                 AppendBlock, MarfExists, Accepts, Runs, Attaches, Readable, Finds
  <2>2. CASE AppendBlock(b)
    BY Zenon, <1>1, <1>3, <2>1, <2>2 DEF AppendBlock, staging_db
  <2>3. CASE ~AppendBlock(b)
    <3>1. UNCHANGED others
      BY Zenon, <1>11, <2>3 DEF Process, NoBlockData, UnreadableStream, Discontiguous, Poison, Returns, RejectBlock,
                         RejectMicroblock, MarfExists
    <3> QED
      BY Zenon, <1>4, <2>1, <3>1
  <2> QED
    BY Zenon, <2>2, <2>3
<1>12. CASE Work
  <2>1. CASE Wake \/ CommitRejectedBlock \/ CommitDrop \/ NoneReady
    BY Zenon, <1>4, <2>1 DEF Wake, CommitRejectedBlock, CommitDrop, NoneReady
  <2>2. CASE CommitHeaders
    BY Zenon, <1>1, <1>3, <2>2 DEF CommitHeaders, AtWork, staging_db
  <2>3. CASE CommitBlocks
    BY Zenon, <1>1, <1>3, <2>3 DEF CommitBlocks, AtWork, TypeOK, others
  <2>4. CASE CommitSortition
    BY Zenon, <1>1, <1>3, <2>4 DEF CommitSortition, staging_db
  <2>5. CASE NoOrphans \/ \E b \in Blocks : CollectOrphan(b)
    BY Zenon, <1>4, <2>5 DEF NoOrphans, CollectOrphan, Resume
  <2>6. CASE StoreStream
    BY Zenon, <1>1, <1>3, <2>6 DEF StoreStream, staging_db, others
  <2> QED
    BY Zenon, <1>12, <2>1, <2>2, <2>3, <2>4, <2>5, <2>6 DEF Work
<1>13. CASE Crash
  BY <1>13 DEF Crash, TypeOK
<1> QED
  BY Zenon, <1>5, <1>6, <1>7, <1>8, <1>9, <1>10, <1>11, <1>12, <1>13 DEF Next

\* Only AppendBlock and StoreStream touch the Clarity store and the streams, and only a crash comes
\* between the two.
LEMMA AppendsOnly ==
    ASSUME [Next]_vars, \A b \in Blocks : ~AppendBlock(b), ~StoreStream, ~Crash
    PROVE  UNCHANGED <<clarity, stream>> /\ (UNCHANGED <<pc, cur>> \/ (pc /= "stream" /\ pc' /= "stream"))
<1>1. CASE UNCHANGED vars
  BY Zenon, <1>1 DEF vars, others, chunks, thread
<1>2. ASSUME NEW b \in Blocks, Process(b)
      PROVE  UNCHANGED <<clarity, stream>> /\ pc /= "stream" /\ pc' /= "stream"
  BY Zenon, <1>2 DEF Process, NoBlockData, UnreadableStream, Discontiguous, Poison, Returns, RejectBlock,
              RejectMicroblock, MarfExists, Accepts, Runs, Attaches, Readable, Finds, others, chunks
<1>3. Work => UNCHANGED <<clarity, stream>> /\ pc /= "stream" /\ pc' /= "stream"
  BY Zenon DEF Work, Wake, CommitRejectedBlock, CommitDrop, CommitHeaders, CommitBlocks, CommitSortition,
         NoneReady, CollectOrphan, NoOrphans, Resume, others, chunks
<1> QED
  BY Zenon, <1>1, <1>2, <1>3 DEF Next, WriteBlock, CommitStagingBlock, StageMicroblock, NewBurnBlock, UnwindPox,
                          others, chunks, thread

LEMMA LongestStep ==
    ASSUME SafeInv, Longest, [Next]_vars, ~Crash
    PROVE  Longest'
<1> USE DEF SafeInv
<1>1. Blocks' = Blocks /\ Parent' = Parent /\ Confirms' = Confirms
  BY Zenon, TruthIsFixed, FixedOperators
<1>2. CASE UNCHANGED stream /\ Written' = Written
  BY Zenon, <1>1, <1>2 DEF Longest
<1>3. CASE StoreStream
  <2> DEFINE a == cur
  <2>1. /\ Parent \in [Blocks -> Blocks \cup {Genesis}] /\ Confirms \in [Blocks -> Nat] /\ Genesis \notin Blocks
        /\ StreamLength \in Nat /\ a \in clarity /\ clarity \subseteq Blocks
    BY Zenon, <1>3, TreeFacts DEF StoreStream, TypeOK, AtWork
  <2>2. stream \in [Blocks -> Nat] /\ (Parent[a] = Genesis => Confirms[a] = 0)
    BY <2>1, TreeFacts DEF TypeOK
  <2>3. Written' = Written \cup {a} /\ Written \subseteq Blocks
    BY Zenon, <1>3, <2>1 DEF StoreStream, Written, others
  <2>4. CASE Confirms[a] > 0 /\ stream[Parent[a]] < Confirms[a]
    <3>1. Parent[a] \in Blocks /\ stream' = [stream EXCEPT ![Parent[a]] = Confirms[a]]
      BY <1>3, <2>1, <2>2, <2>4 DEF StoreStream, NeedsStream
    <3> SUFFICES ASSUME NEW b \in Blocks
                 PROVE  /\ stream'[b] = 0 \/ \E c \in Written' : Parent[c] = b /\ stream'[b] = Confirms[c]
                        /\ \A c \in Written' : Parent[c] = b => Confirms[c] <= stream'[b]
      BY Zenon, <1>1 DEF Longest
    <3> HIDE DEF a
    <3>2. CASE b = Parent[a]
      BY <2>1, <2>2, <2>3, <2>4, <3>1, <3>2 DEF Longest
    <3>3. CASE b /= Parent[a]
      BY Zenon, <2>1, <2>2, <2>3, <2>4, <3>1, <3>3 DEF Longest
    <3> QED
      BY Zenon, <3>2, <3>3
  <2>5. CASE ~(Confirms[a] > 0 /\ stream[Parent[a]] < Confirms[a])
    <3>1. stream' = stream
      BY Zenon, <1>3, <2>5 DEF StoreStream, NeedsStream
    <3>2. \A b \in Blocks : Parent[a] = b => Confirms[a] <= stream[b]
      BY <2>1, <2>2, <2>5
    <3> QED
      BY ZenonT(30), <1>1, <2>3, <3>1, <3>2 DEF Longest
  <2> QED
    BY Zenon, <2>4, <2>5
<1>4. ASSUME NEW a \in Blocks, AppendBlock(a) PROVE UNCHANGED stream /\ Written' = Written
  BY Zenon, <1>4 DEF AppendBlock, Accepts, Runs, Attaches, Readable, Finds, Written, chunks
<1>5. CASE ~StoreStream /\ \A b \in Blocks : ~AppendBlock(b)
  BY Zenon, <1>2, <1>5, AppendsOnly DEF Written
<1> QED
  BY Zenon, <1>2, <1>3, <1>4, <1>5

\* Which rows are processed changes in CommitBlocks only.
LEMMA ProcessedStep ==
    ASSUME SafeInv, Complete, [Next]_vars, NEW c \in Blocks
    PROVE  row'[c] = "processed" <=> row[c] = "processed" \/ (pc = "blocks" /\ cur = c /\ row'[c] = "processed")
BY Zenon, RowStep DEF RowChange, Gone, Complete, SafeInv, TypeOK

\* A staged block stays staged or was staged before, unless it is new.
LEMMA AttachablesStep ==
    ASSUME SafeInv, Complete, Attachables, [Next]_vars
    PROVE  Attachables'
<1> USE DEF SafeInv
<1>1. Blocks' = Blocks /\ Parent' = Parent /\ BlockHash' = BlockHash
  BY Zenon, TruthIsFixed, FixedOperators
<1>2. Genesis \notin Blocks /\ Parent \in [Blocks -> Blocks \cup {Genesis}]
  BY Zenon, TreeFacts DEF TypeOK
<1> SUFFICES ASSUME NEW b \in Blocks, row'[b] = "staged", ~ParentHasTwin(b), Parent[b] = Genesis \/ row'[Parent[b]] = "processed"
             PROVE  b \in attachable'
  BY Zenon, <1>1 DEF Attachables, ParentHasTwin
<1>3. row[b] \in {"none", "staged"}
  BY Zenon, RowStep DEF RowChange, Gone
<1>4. Parent[b] = Genesis \/ row[Parent[b]] = "processed" \/ (pc = "blocks" /\ cur = Parent[b])
  BY Zenon, <1>2, ProcessedStep
<1>5. CASE UNCHANGED <<row, attachable>>
  BY Zenon, <1>5 DEF Attachables
<1>6. CASE CommitStagingBlock
  <2>1. storing \in Blocks /\ row[storing] = "none" /\ Unlocked
    BY Zenon, <1>6 DEF CommitStagingBlock, OneWriter, TypeOK
  <2>2. row' = [row EXCEPT ![storing] = "staged"] /\ row \in [Blocks -> RowStatus]
    BY Zenon, <1>6 DEF CommitStagingBlock, TypeOK
  <2>3. Parent[b] = Genesis \/ (Parent[b] /= storing /\ row[Parent[b]] = "processed")
    BY Zenon, <1>2, <2>1, <2>2
  <2>4. b \notin ChildrenByHash(storing)
    BY Zenon, <2>1, <2>3 DEF ChildrenByHash, ParentHasTwin
  <2>5. CASE b = storing
    BY Zenon, <1>6, <2>3, <2>4, <2>5 DEF CommitStagingBlock
  <2>6. CASE b /= storing
    <3>1. row[b] = "staged"
      BY Zenon, <2>2, <2>6
    <3>2. b \in attachable
      BY Zenon, <2>3, <3>1 DEF Attachables
    <3> QED
      BY Zenon, <1>6, <2>4, <3>2 DEF CommitStagingBlock
  <2> QED
    BY Zenon, <2>5, <2>6
<1>7. CASE CommitBlocks
  <2>1. cur \in Blocks /\ row' = [row EXCEPT ![cur] = "processed"] /\ row \in [Blocks -> RowStatus]
    BY Zenon, <1>7 DEF CommitBlocks, TypeOK
  <2>2. b /= cur /\ row[b] = "staged"
    BY Zenon, <2>1
  <2>3. CASE Parent[b] = cur
    BY Zenon, <1>2, <1>7, <2>1, <2>2, <2>3 DEF CommitBlocks, ChildrenByHash
  <2>4. CASE Parent[b] /= cur
    BY Zenon, <1>2, <1>7, <2>1, <2>2, <2>4 DEF CommitBlocks, Attachables
  <2> QED
    BY Zenon, <2>3, <2>4
<1>8. ASSUME NEW a \in Blocks, pc /= "blocks", row'[b] = RowsWithout(a)[b]
      PROVE  b \in attachable \ ({a} \cup Children(a))
  <2>1. b /= a /\ b \notin Children(a) /\ row[b] = "staged"
    BY Zenon, <1>8 DEF RowsWithout
  <2> QED
    BY Zenon, <1>4, <1>8, <2>1 DEF Attachables
<1>9. CASE CommitRejectedBlock
  <2>1. cur \in Blocks /\ pc /= "blocks" /\ row'[b] = RowsWithout(cur)[b]
    BY Zenon, <1>9 DEF CommitRejectedBlock, TypeOK
  <2> QED
    BY Zenon, <1>8, <1>9, <2>1 DEF CommitRejectedBlock
<1>10. CASE CommitDrop
  <2>1. b \notin BuildOn(Dropped(cur))
    BY Zenon, <1>10 DEF CommitDrop
  <2>2. cur \in Blocks /\ pc /= "blocks" /\ row'[b] = RowsWithout(cur)[b]
    BY Zenon, <1>10, <2>1 DEF CommitDrop, TypeOK
  <2> QED
    BY Zenon, <1>8, <1>10, <2>1, <2>2 DEF CommitDrop
<1>11. ASSUME NEW a \in Blocks, CollectOrphan(a) PROVE b \in attachable'
  <2>1. pc /= "blocks" /\ row'[b] = RowsWithout(a)[b]
    BY Zenon, <1>11 DEF CollectOrphan
  <2> QED
    BY Zenon, <1>8, <1>11, <2>1 DEF CollectOrphan
<1>12. ASSUME NEW a \in Blocks, Process(a) PROVE UNCHANGED <<row, attachable>>
  BY Zenon, <1>12 DEF Process, NoBlockData, UnreadableStream, Discontiguous, Poison, Returns, RejectBlock,
               RejectMicroblock, AppendBlock, MarfExists, staging_db
<1>13. Wake \/ StoreStream \/ CommitHeaders \/ CommitSortition \/ NoneReady \/ NoOrphans => UNCHANGED <<row, attachable>>
  BY Zenon DEF Wake, StoreStream, CommitHeaders, CommitSortition, NoneReady, NoOrphans, staging_db
<1>14. UNCHANGED vars => UNCHANGED <<row, attachable>>
  BY Zenon DEF vars, staging_db
<1>15. (\E a \in Blocks : WriteBlock(a)) \/ (\E a \in Blocks, i \in Seqs : StageMicroblock(a, i))
       \/ NewBurnBlock \/ (\E f \in valid_pox : UnwindPox(f)) \/ Crash => UNCHANGED <<row, attachable>>
  BY Zenon DEF WriteBlock, StageMicroblock, NewBurnBlock, UnwindPox, Crash, staging_db
<1> QED
  BY Zenon, <1>5, <1>6, <1>7, <1>9, <1>10, <1>11, <1>12, <1>13, <1>14, <1>15 DEF Next, Work

\* A microblock that a processed block confirms.
ConfirmedBy(b, i) == \E c \in Blocks : row[c] = "processed" /\ Parent[c] = b /\ i < Confirms[c]

\* Collecting b and dropping what does not run leaves confirmed microblocks as they are.
LEMMA CollectionSpares ==
    ASSUME SafeInv, Complete, NEW a \in Blocks, a \notin headers, NEW b \in Blocks, NEW i, ConfirmedBy(b, i)
    PROVE  b /= a
<1>1. Genesis \notin Blocks
  BY Zenon, TreeFacts DEF SafeInv, TypeOK
<1> QED
  BY Zenon, <1>1 DEF ConfirmedBy, Complete, SafeInv, AcceptedIsSafe

LEMMA DropSpares ==
    ASSUME SafeInv, Complete, NEW a \in Blocks, NEW b \in Blocks, NEW i \in Seqs, ConfirmedBy(b, i)
    PROVE  <<b, i>> \notin Dropped(a)
<1> SUFFICES ASSUME <<b, i>> \in Dropped(a) PROVE FALSE
  BY Zenon
<1>1. PICK c \in Blocks : row[c] = "processed" /\ Parent[c] = b /\ i < Confirms[c]
  BY Zenon DEF ConfirmedBy
<1>2. ~MicroblockFails(c)
  BY Zenon, <1>1 DEF Complete, SafeInv, RunsAgain, TypeOK
<1>3. /\ Genesis \notin Blocks /\ Confirms \in [Blocks -> Nat] /\ Parent \in [Blocks -> Blocks \cup {Genesis}]
      /\ BlockHash \in [Blocks -> Blocks] /\ StreamLength \in Nat
      /\ \A d \in Blocks : Confirms[d] <= StreamLength /\ (Parent[d] = Genesis => Confirms[d] = 0)
  BY Zenon, TreeFacts DEF SafeInv, TypeOK
<1>4. MicroblockFails(a) /\ BlockHash[b] = BlockHash[Parent[a]] /\ i >= Offender(a)
  BY Zenon DEF Dropped
<1>5. Parent[a] /= Genesis
  BY <1>3, <1>4 DEF MicroblockFails, Offender
<1>6. Offender(a) = Offender(c) /\ Offender(a) = bad_seq[BlockHash[b]]
  BY Zenon, <1>1, <1>3, <1>4, <1>5 DEF Offender
<1>7. Offender(a) \in Nat /\ i \in Nat
  BY <1>3, <1>6 DEF SafeInv, TypeOK, Range, Seqs
<1> QED
  BY <1>1, <1>2, <1>3, <1>4, <1>6, <1>7 DEF MicroblockFails

LEMMA ConfirmedStreamsStep ==
    ASSUME SafeInv, Complete, ConfirmedStreams, [Next]_vars
    PROVE  ConfirmedStreams'
<1> USE DEF SafeInv
<1>1. Blocks' = Blocks /\ Parent' = Parent /\ Confirms' = Confirms /\ Seqs' = Seqs /\ Microblocks' = Microblocks
  BY Zenon, TruthIsFixed, FixedOperators
<1>2. /\ Genesis \notin Blocks /\ Parent \in [Blocks -> Blocks \cup {Genesis}] /\ Confirms \in [Blocks -> Nat]
      /\ StreamLength \in Nat
      /\ \A d \in Blocks : Confirms[d] <= StreamLength /\ (Parent[d] = Genesis => Confirms[d] = 0)
  BY Zenon, TreeFacts DEF TypeOK
<1>3. \A b \in Blocks, i \in Seqs : <<b, i>> \in Microblocks
  BY Zenon DEF Microblocks
<1>4. \A b \in Blocks, i \in Seqs : mrow[<<b, i>>] = "confirmed" <=> ConfirmedBy(b, i)
  BY Zenon DEF ConfirmedStreams, ConfirmedBy
<1>5. ASSUME pc /= "blocks" \/ UNCHANGED row,
             \A b \in Blocks, i \in Seqs : mrow'[<<b, i>>] = "confirmed" <=> mrow[<<b, i>>] = "confirmed",
             pc' \in {"stream", "headers", "blocks"} =>
                 /\ cur' = cur /\ UNCHANGED mrow /\ pc \in {"stream", "headers", "blocks"}
      PROVE  ConfirmedStreams'
  <2>1. \A c \in Blocks : row'[c] = "processed" <=> row[c] = "processed"
    BY Zenon, <1>5, ProcessedStep
  <2> QED
    BY <1>1, <1>5, <2>1 DEF ConfirmedStreams
<1>6. CASE UNCHANGED vars
  BY Zenon, <1>5, <1>6 DEF vars, staging_db, thread
<1>7. ASSUME NEW b \in Blocks, WriteBlock(b) PROVE ConfirmedStreams'
  BY Zenon, <1>5, <1>7 DEF WriteBlock, staging_db, thread
<1>8. CASE CommitStagingBlock
  <2>1. Unlocked
    BY Zenon, <1>8 DEF CommitStagingBlock, OneWriter
  <2> QED
    BY Zenon, <1>5, <1>8, <2>1 DEF CommitStagingBlock, thread, Unlocked
<1>9. ASSUME NEW b \in Blocks, NEW i \in Seqs, StageMicroblock(b, i) PROVE ConfirmedStreams'
  <2>1. \A a \in Blocks, j \in Seqs : mrow'[<<a, j>>] = "confirmed" <=> mrow[<<a, j>>] = "confirmed"
    BY Zenon, <1>3, <1>9 DEF StageMicroblock, TypeOK
  <2> QED
    BY Zenon, <1>5, <1>9, <2>1 DEF StageMicroblock, thread, Unlocked
<1>10. CASE NewBurnBlock
  BY Zenon, <1>5, <1>10 DEF NewBurnBlock, staging_db, thread
<1>11. ASSUME NEW f \in valid_pox, UnwindPox(f) PROVE ConfirmedStreams'
  BY Zenon, <1>5, <1>11 DEF UnwindPox, staging_db, thread
<1>12. ASSUME NEW b \in Blocks, Process(b) PROVE ConfirmedStreams'
  <2>1. CASE AppendBlock(b)
    <3>1. StreamConnects(b) /\ pc = "find" /\ UNCHANGED <<row, mrow>> /\ cur' = b
      BY Zenon, <2>1 DEF AppendBlock, Accepts, Runs, Attaches, Readable, Finds, staging_db
    <3>2. \A i \in Seqs : i < Confirms[b] => i \in StreamSeqs(b)
      BY <1>2, <3>1 DEF StreamConnects, NeedsStream, Seqs
    <3>3. \A i \in Seqs : i < Confirms[b] => mrow[<<Parent[b], i>>] \in {"staged", "confirmed"}
      BY Zenon, <3>2 DEF StreamSeqs
    <3> QED
      BY <1>1, <3>1, <3>3 DEF ConfirmedStreams
  <2>2. CASE ~AppendBlock(b)
    BY Zenon, <1>5, <1>12, <2>2 DEF Process, NoBlockData, UnreadableStream, Discontiguous, Poison, Returns, RejectBlock,
                             RejectMicroblock, MarfExists, staging_db
  <2> QED
    BY Zenon, <2>1, <2>2
<1>13. ASSUME NEW a \in Blocks, a \notin headers, NEW b \in Blocks, NEW i \in Seqs
       PROVE  MicroblocksWithout(a)[<<b, i>>] = "confirmed" <=> mrow[<<b, i>>] = "confirmed"
  BY Zenon, <1>3, <1>4, <1>13, CollectionSpares DEF MicroblocksWithout
<1>14. CASE CommitRejectedBlock
  <2>1. cur \in Blocks /\ cur \notin headers
    BY Zenon, <1>14 DEF CommitRejectedBlock, AtWork, TypeOK, RunsAgain
  <2> QED
    BY Zenon, <1>5, <1>13, <1>14, <2>1 DEF CommitRejectedBlock
<1>15. CASE CommitDrop
  <2>1. cur \in Blocks /\ cur \notin headers
    BY Zenon, <1>15 DEF CommitDrop, AtWork, TypeOK, RunsAgain
  <2>2. ASSUME NEW b \in Blocks, NEW i \in Seqs
        PROVE  mrow'[<<b, i>>] = "confirmed" <=> mrow[<<b, i>>] = "confirmed"
    <3>1. mrow'[<<b, i>>] = IF <<b, i>> \in Dropped(cur) THEN "orphaned" ELSE MicroblocksWithout(cur)[<<b, i>>]
      BY Zenon, <1>3, <1>15 DEF CommitDrop
    <3> QED
      BY Zenon, <1>4, <1>13, <2>1, <3>1, DropSpares
  <2> QED
    BY Zenon, <1>5, <1>15, <2>2 DEF CommitDrop
<1>16. CASE CommitBlocks
  <2>1. cur \in Blocks /\ row' = [row EXCEPT ![cur] = "processed"] /\ row \in [Blocks -> RowStatus] /\ pc' = "sort"
    BY Zenon, <1>16 DEF CommitBlocks, TypeOK
  <2>2. \A i \in Seqs : i < Confirms[cur] => mrow[<<Parent[cur], i>>] \in {"staged", "confirmed"}
    BY Zenon, <1>16 DEF CommitBlocks, ConfirmedStreams
  <2>3. ASSUME NEW b \in Blocks, NEW i \in Seqs
        PROVE  mrow'[<<b, i>>] = "confirmed" <=> ConfirmedBy(b, i) \/ (Parent[cur] = b /\ i < Confirms[cur])
    <3>1. mrow'[<<b, i>>] = IF <<b, i>> \in Confirmed /\ mrow[<<b, i>>] = "staged" THEN "confirmed" ELSE mrow[<<b, i>>]
      BY Zenon, <1>3, <1>16 DEF CommitBlocks
    <3>2. <<b, i>> \in Confirmed <=> Parent[cur] = b /\ i < Confirms[cur]
      BY <1>2, <1>3, <2>1 DEF Confirmed, NeedsStream, Seqs
    <3> QED
      BY Zenon, <1>4, <2>2, <3>1, <3>2
  <2>4. ASSUME NEW b \in Blocks, NEW i \in Seqs
        PROVE  ConfirmedBy(b, i) \/ (Parent[cur] = b /\ i < Confirms[cur])
                   <=> \E c \in Blocks : row'[c] = "processed" /\ Parent[c] = b /\ i < Confirms[c]
    BY Zenon, <2>1 DEF ConfirmedBy
  <2> QED
    BY <1>1, <2>1, <2>3, <2>4 DEF ConfirmedStreams
<1>17. ASSUME NEW a \in Blocks, CollectOrphan(a) PROVE ConfirmedStreams'
  <2>1. a \notin headers
    BY Zenon, <1>17 DEF CollectOrphan, AcceptedIsSafe, Gone
  <2> QED
    BY Zenon, <1>5, <1>13, <1>17, <2>1 DEF CollectOrphan, Resume
<1>18. CASE Wake \/ CommitSortition \/ NoneReady \/ NoOrphans
  BY Zenon, <1>5, <1>18 DEF Wake, CommitSortition, NoneReady, NoOrphans, Resume, staging_db
<1>19. CASE StoreStream \/ CommitHeaders
  BY Zenon, <1>5, <1>19 DEF StoreStream, CommitHeaders, staging_db
<1>20. CASE Crash
  <2>1. UNCHANGED row /\ UNCHANGED mrow /\ pc' = "idle"
    BY Zenon, <1>20 DEF Crash, staging_db
  <2> QED
    BY Zenon, <1>5, <2>1
<1> QED
  BY Zenon, <1>6, <1>7, <1>8, <1>9, <1>10, <1>11, <1>12, <1>14, <1>15, <1>16, <1>17, <1>18, <1>19, <1>20 DEF Next, Work

\* A node that has not crashed had not crashed before.
LEMMA CrashesCounted ==
    ASSUME TypeOK, [Next]_vars, crashes' = 0
    PROVE  crashes = 0 /\ crashes' = crashes /\ ~Crash
<1>1. crashes \in Nat
  BY TreeFacts DEF TypeOK
<1>2. UNCHANGED vars => UNCHANGED crashes
  BY Zenon DEF vars
<1>3. ASSUME NEW b \in Blocks, Process(b) PROVE UNCHANGED crashes
  BY Zenon, <1>3 DEF Process, NoBlockData, UnreadableStream, Discontiguous, Poison, Returns, RejectBlock,
              RejectMicroblock, AppendBlock, MarfExists
<1>4. Work => UNCHANGED crashes
  BY Zenon DEF Work, Wake, CommitRejectedBlock, CommitDrop, StoreStream, CommitHeaders, CommitBlocks, CommitSortition,
         NoneReady, CollectOrphan, NoOrphans, Resume
<1>5. ~Crash
  BY <1>1 DEF Crash
<1> QED
  BY Zenon, <1>2, <1>3, <1>4, <1>5 DEF Next, WriteBlock, CommitStagingBlock, StageMicroblock, NewBurnBlock, UnwindPox

LEMMA StagingInvHolds == Spec => []StagingInv
<1>1. Init => StagingInv
  BY Zenon, SafeInit, CleanInit DEF StagingInv
<1>2. StagingInv /\ [Next]_vars => StagingInv'
  <2> SUFFICES ASSUME StagingInv, [Next]_vars PROVE StagingInv'
    OBVIOUS
  <2>1. SafeInv /\ SafeInv'
    BY Zenon, SafeStep DEF StagingInv
  <2>2. ASSUME crashes' = 0 PROVE Clean'
    <3>1. crashes' = crashes /\ ~Crash /\ Complete /\ Longest /\ ConfirmedStreams /\ Attachables
      BY Zenon, <2>1, <2>2, CrashesCounted DEF StagingInv, SafeInv, Clean
    <3> QED
      BY Zenon, <2>1, <3>1, CompleteStep, LongestStep, ConfirmedStreamsStep, AttachablesStep DEF Clean
  <2> QED
    BY Zenon, <2>1, <2>2 DEF StagingInv
<1> QED
  BY <1>1, <1>2, PTL DEF Spec

\* Between two calls of process_next_staging_block the databases have the same blocks.
LEMMA SettledAgree ==
    ASSUME StagingInv, Settled, crashes = 0, NEW b \in Blocks
    PROVE  /\ b \in clarity <=> b \in headers
           /\ b \in headers <=> row[b] = "processed"
           /\ b \in headers <=> b \in in_sortdb
BY Zenon DEF StagingInv, SafeInv, TypeOK, Clean, Complete, Settled

\* Without a crash, the headers, the staging rows and the sortition database agree on which blocks
\* were accepted whenever process_blocks is between two blocks, for every tree and every order.
THEOREM AcceptanceAgrees == Spec => []AcceptanceIsComplete
<1>1. StagingInv => AcceptanceIsComplete
  BY Zenon, SettledAgree DEF AcceptanceIsComplete, AcceptanceIsAtomic
<1> QED
  BY <1>1, StagingInvHolds, PTL

\* Without a crash, set_microblocks_confirmed keeps in the chunk store the longest stream that an
\* accepted block confirms, and the rows mark that stream and no more as processed.
THEOREM LongestStreamKept == Spec => []ConfirmedStreamKept
<1>1. ASSUME StagingInv, Settled, crashes = 0, NEW b \in Blocks
      PROVE  LET confirming == {Confirms[c] : c \in {d \in headers : Parent[d] = b}} \cup {0}
             IN  /\ stream[b] \in confirming /\ \A n \in confirming : n <= stream[b]
                 /\ {i \in Seqs : mrow[<<b, i>>] = "confirmed"} = 0..(stream[b] - 1)
  <2>1. StreamLength \in Nat /\ Confirms \in [Blocks -> Nat] /\ stream[b] \in 0..StreamLength
    BY Zenon, <1>1, TreeFacts DEF StagingInv, SafeInv, TypeOK
  <2>2. clarity = headers /\ headers \subseteq Blocks /\ \A c \in Blocks : c \in headers <=> row[c] = "processed"
    BY Zenon, <1>1, SettledAgree DEF StagingInv, SafeInv, TypeOK
  <2>3. /\ stream[b] = 0 \/ \E c \in headers : Parent[c] = b /\ stream[b] = Confirms[c]
        /\ \A c \in headers : Parent[c] = b => Confirms[c] <= stream[b]
    BY Zenon, <1>1, <2>2 DEF StagingInv, Clean, Longest, Written, Settled
  <2>4. \A i \in Seqs : mrow[<<b, i>>] = "confirmed" <=> \E c \in headers : Parent[c] = b /\ i < Confirms[c]
    BY <1>1, <2>2 DEF StagingInv, Clean, ConfirmedStreams
  <2>5. \A i \in Seqs : mrow[<<b, i>>] = "confirmed" <=> i < stream[b]
    BY <2>1, <2>2, <2>3, <2>4 DEF Seqs
  <2>6. {i \in Seqs : mrow[<<b, i>>] = "confirmed"} = 0..(stream[b] - 1)
    BY <2>1, <2>5 DEF Seqs
  <2> QED
    BY <2>1, <2>2, <2>3, <2>6
<1>2. StagingInv => ConfirmedStreamKept
  BY Zenon, <1>1 DEF ConfirmedStreamKept
<1> QED
  BY <1>2, StagingInvHolds, PTL

\* Without a crash, a staged block whose parent was accepted is in the rows find_next_staging_block
\* reads, unless a block of another PoX fork has the parent's hash.
THEOREM ReadyIsFound == Spec => []ReadyIsAttachable
<1>1. ASSUME StagingInv, Settled, crashes = 0, NEW b \in Blocks, row[b] = "staged",
             Parent[b] = Genesis \/ Parent[b] \in headers, ~ParentHasTwin(b)
      PROVE  b \in attachable
  <2>1. Parent[b] = Genesis \/ row[Parent[b]] = "processed"
    BY Zenon, <1>1, SettledAgree DEF StagingInv, SafeInv, TypeOK
  <2> QED
    BY Zenon, <1>1, <2>1 DEF StagingInv, Clean, Attachables
<1>2. StagingInv => ReadyIsAttachable
  BY Zenon, <1>1 DEF ReadyIsAttachable
<1> QED
  BY <1>2, StagingInvHolds, PTL

-----------------------------------------------------------------------------
(* The histories of the forks. *)

\* What the proofs ask of the constants: heights, places in a block and burns are numbers, and
\* a location is a pair of them.
ConstantsOK ==
    /\ FirstHeight \in Nat
    /\ \A op \in Txs : op.vtxindex \in Nat
    /\ \A op \in OfType(Txs, "commit") : op.burn_fee \in Nat /\ op.key \in Nat \X Nat

IndexOK(n) ==
    /\ snap[n].height \in Nat
    /\ snap[n].height >= FirstHeight
    /\ DOMAIN snap[n].at = FirstHeight..snap[n].height
    /\ \A h \in DOMAIN snap[n].at :
        /\ snap[n].at[h] \in DOMAIN snap
        /\ \A k \in snap[snap[n].at[h]].leader_keys : k.public_key \in snap[n].vrf_keys
        /\ snap[snap[n].at[h]].winner # NoWinner => snap[snap[n].at[h]].winner.block \in snap[n].blocks

\* The three parts of ForksAreSound, for one snapshot.
KeysOnce(n) ==
    \A g, h \in DOMAIN snap[n].at :
        \A k \in snap[snap[n].at[g]].leader_keys, l \in snap[snap[n].at[h]].leader_keys :
            k.public_key = l.public_key => g = h /\ k = l

WinsOnce(n) ==
    \A g, h \in DOMAIN snap[n].at :
        /\ snap[snap[n].at[g]].winner # NoWinner
        /\ snap[snap[n].at[h]].winner # NoWinner
        /\ snap[snap[n].at[g]].winner.block = snap[snap[n].at[h]].winner.block
        => g = h

CommitsGrounded(n) ==
    \A c \in snap[n].block_commits :
        /\ c.key[1] \in DOMAIN snap[n].at \ {snap[n].height}
        /\ \E k \in snap[snap[n].at[c.key[1]]].leader_keys : k.vtxindex = c.key[2] /\ k.address = c.address
        /\ \/ c.parent = <<0, 0>>
           \/ /\ c.parent[1] \in DOMAIN snap[n].at \ {snap[n].height}
              /\ \E p \in snap[snap[n].at[c.parent[1]]].block_commits : p.vtxindex = c.parent[2]

\* select_winning_block finds the commit that won.
WinnerStored(n) == snap[n].winner # NoWinner => snap[n].winner \in snap[n].block_commits

\* snap is a sequence, of whatever snapshots.
IsSequence == \E S : snap \in Seq(S)

ForkInv ==
    /\ IsSequence
    /\ \A n \in DOMAIN snap :
        IndexOK(n) /\ KeysOnce(n) /\ WinsOnce(n) /\ CommitsGrounded(n) /\ WinnerStored(n)

-----------------------------------------------------------------------------
(* What passes the checks of a block. *)

\* Each key of the block is new to the fork, and no other key of the block equals it.
LEMMA KeysChecked ==
  ASSUME ConstantsOK, NEW n, NEW txs \in BurnBlocks,
         NEW k \in OfType(check_block_ops(txs, n), "key")
  PROVE  /\ k.public_key \notin snap[n].vrf_keys
         /\ \A l \in OfType(check_block_ops(txs, n), "key") : k.public_key = l.public_key => k = l
  <1> DEFINE passed == {op \in txs : check_transaction(op, n)}
             unique == filter_block_VRF_dups(passed)
  <1>1. \A op \in OfType(check_block_ops(txs, n), "key") : op \in unique /\ op.type = "key"
    BY Zenon DEF check_block_ops, filter_block_commits_with_same_VRF_key, OfType
  <1>2. \A op \in unique : op \in txs /\ check_transaction(op, n)
    BY Zenon DEF filter_block_VRF_dups
  <1>3. txs \subseteq Txs /\ \A a, b \in txs : a.vtxindex = b.vtxindex => a = b
    BY Zenon DEF BurnBlocks, kSubset
  <1>4. k.public_key \notin snap[n].vrf_keys
    <2>1. check_transaction(k, n) /\ k.type = "key"
      BY Zenon, <1>1, <1>2
    <2>2. CheckKey(k, n)
      BY Zenon, <2>1 DEF check_transaction
    <2> QED BY Zenon, <2>2 DEF CheckKey, has_VRF_public_key
  <1>5. ASSUME NEW l \in OfType(check_block_ops(txs, n), "key"), k.public_key = l.public_key
        PROVE  k = l
    <2>1. /\ k \in passed /\ l \in passed /\ k.type = "key" /\ l.type = "key"
          /\ ~(k.vtxindex < l.vtxindex) /\ ~(l.vtxindex < k.vtxindex)
      BY Zenon, <1>1, <1>5 DEF filter_block_VRF_dups, OfType
    <2>2. k.vtxindex \in Nat /\ l.vtxindex \in Nat
      BY Zenon, <2>1, <1>3 DEF ConstantsOK
    <2> QED BY <2>1, <2>2, <1>3
  <1> QED BY Zenon, <1>4, <1>5

\* Each commit of the block passed its own check.
LEMMA CommitsChecked ==
  ASSUME NEW n, NEW txs, NEW c \in OfType(check_block_ops(txs, n), "commit")
  PROVE  CheckCommit(c, n)
  <1>1. c \in txs /\ check_transaction(c, n) /\ c.type = "commit"
    BY Zenon DEF check_block_ops, filter_block_commits_with_same_VRF_key, filter_block_VRF_dups, OfType
  <1> QED BY Zenon, <1>1 DEF check_transaction

\* The candidates of the burn distribution are the commits of the block.
LEMMA CandidateFacts ==
  ASSUME NEW ops, NEW n
  PROVE  {p.candidate : p \in BurnSample(ops, n)} = OfType(ops, "commit")
  <1>1. ASSUME NEW p \in BurnSample(ops, n) PROVE p.candidate \in OfType(ops, "commit")
    BY DEF BurnSample
  <1>2. ASSUME NEW c \in OfType(ops, "commit") PROVE \E p \in BurnSample(ops, n) : p.candidate = c
    <2> DEFINE users == SupportOf(c, OfType(ops, "user"), n)
               point == [candidate |-> c, burns |-> c.burn_fee + Burns(users), user_burns |-> users]
    <2>1. point \in BurnSample(ops, n)
      BY Zenon DEF BurnSample
    <2> QED BY Zenon, <2>1
  <1> QED BY Zenon, <1>1, <1>2

-----------------------------------------------------------------------------
(* The step. *)

\* A snapshot that was there keeps what ForkInv says of it.
LEMMA OldSnapshots ==
  ASSUME ForkInv, NEW x, snap' = Append(snap, x), NEW m \in DOMAIN snap
  PROVE  IndexOK(m)' /\ KeysOnce(m)' /\ WinsOnce(m)' /\ CommitsGrounded(m)' /\ WinnerStored(m)'
  <1>1. PICK S : snap \in Seq(S)
    BY Zenon DEF ForkInv, IsSequence
  <1>2. DOMAIN snap \subseteq DOMAIN snap' /\ \A i \in DOMAIN snap : snap'[i] = snap[i]
    BY <1>1
  <1>3. IndexOK(m) /\ KeysOnce(m) /\ WinsOnce(m) /\ CommitsGrounded(m)
    BY Zenon DEF ForkInv
  <1>4. \A h \in DOMAIN snap[m].at : snap[m].at[h] \in DOMAIN snap /\ snap'[snap[m].at[h]] = snap[snap[m].at[h]]
    BY Zenon, <1>2, <1>3 DEF IndexOK
  <1>5. IndexOK(m)'
    <2>1. /\ snap'[m].height \in Nat /\ snap'[m].height >= FirstHeight
          /\ DOMAIN snap'[m].at = FirstHeight..snap'[m].height
      BY Zenon, <1>2, <1>3 DEF IndexOK
    <2>2. \A h \in DOMAIN snap'[m].at :
            /\ snap'[m].at[h] \in DOMAIN snap'
            /\ \A k \in snap'[snap'[m].at[h]].leader_keys : k.public_key \in snap'[m].vrf_keys
            /\ snap'[snap'[m].at[h]].winner # NoWinner => snap'[snap'[m].at[h]].winner.block \in snap'[m].blocks
      <3>1. snap'[m] = snap[m]
        BY Zenon, <1>2
      <3> QED BY <3>1, <1>2, <1>3, <1>4 DEF IndexOK
    <2> QED BY Zenon, <2>1, <2>2 DEF IndexOK
  <1>6. snap'[m].at = snap[m].at
    BY Zenon, <1>2
  <1>7. KeysOnce(m)' /\ WinsOnce(m)'
    <2>1. \A h \in DOMAIN snap'[m].at : snap'[snap'[m].at[h]] = snap[snap[m].at[h]]
      BY Zenon, <1>4, <1>6
    <2>2. KeysOnce(m)'
      <3> SUFFICES ASSUME NEW g \in DOMAIN snap'[m].at, NEW h \in DOMAIN snap'[m].at,
                          NEW k \in snap'[snap'[m].at[g]].leader_keys,
                          NEW l \in snap'[snap'[m].at[h]].leader_keys,
                          k.public_key = l.public_key
                   PROVE  g = h /\ k = l
        BY Zenon DEF KeysOnce
      <3>1. /\ g \in DOMAIN snap[m].at /\ k \in snap[snap[m].at[g]].leader_keys
            /\ h \in DOMAIN snap[m].at /\ l \in snap[snap[m].at[h]].leader_keys
        BY Zenon, <1>6, <2>1
      <3> QED BY <1>3, <3>1 DEF KeysOnce
    <2>3. WinsOnce(m)'
      <3> SUFFICES ASSUME NEW g \in DOMAIN snap'[m].at, NEW h \in DOMAIN snap'[m].at,
                          snap'[snap'[m].at[g]].winner # NoWinner,
                          snap'[snap'[m].at[h]].winner # NoWinner,
                          snap'[snap'[m].at[g]].winner.block = snap'[snap'[m].at[h]].winner.block
                   PROVE  g = h
        BY Zenon DEF WinsOnce
      <3>1. /\ g \in DOMAIN snap[m].at /\ snap'[snap'[m].at[g]] = snap[snap[m].at[g]]
            /\ h \in DOMAIN snap[m].at /\ snap'[snap'[m].at[h]] = snap[snap[m].at[h]]
        BY Zenon, <1>6, <2>1
      <3> QED BY Zenon, <1>3, <3>1 DEF WinsOnce
    <2> QED BY Zenon, <2>2, <2>3
  <1>8. CommitsGrounded(m)'
    <2> SUFFICES ASSUME NEW c \in snap[m].block_commits
                 PROVE  /\ c.key[1] \in DOMAIN snap[m].at \ {snap[m].height}
                        /\ \E k \in snap'[snap[m].at[c.key[1]]].leader_keys :
                               k.vtxindex = c.key[2] /\ k.address = c.address
                        /\ \/ c.parent = <<0, 0>>
                           \/ /\ c.parent[1] \in DOMAIN snap[m].at \ {snap[m].height}
                              /\ \E p \in snap'[snap[m].at[c.parent[1]]].block_commits :
                                     p.vtxindex = c.parent[2]
      <3>1. snap'[m] = snap[m]
        BY Zenon, <1>2
      <3> QED BY Zenon, <3>1 DEF CommitsGrounded
    <2>1. /\ c.key[1] \in DOMAIN snap[m].at \ {snap[m].height}
          /\ \E k \in snap[snap[m].at[c.key[1]]].leader_keys :
                 k.vtxindex = c.key[2] /\ k.address = c.address
          /\ \/ c.parent = <<0, 0>>
             \/ /\ c.parent[1] \in DOMAIN snap[m].at \ {snap[m].height}
                /\ \E p \in snap[snap[m].at[c.parent[1]]].block_commits : p.vtxindex = c.parent[2]
      BY Zenon, <1>3 DEF CommitsGrounded
    <2>2. snap'[snap[m].at[c.key[1]]] = snap[snap[m].at[c.key[1]]]
      BY Zenon, <2>1, <1>4
    <2>3. c.parent[1] \in DOMAIN snap[m].at => snap'[snap[m].at[c.parent[1]]] = snap[snap[m].at[c.parent[1]]]
      BY Zenon, <1>4
    <2> QED BY Zenon, <2>1, <2>2, <2>3
  <1>9. WinnerStored(m)'
    BY Zenon, <1>2 DEF ForkInv, WinnerStored
  <1> QED BY Zenon, <1>5, <1>6, <1>7, <1>8, <1>9

\* The new snapshot, of a block whose operations passed the checks.
LEMMA NewSnapshot ==
  ASSUME ConstantsOK, ForkInv, NEW n \in DOMAIN snap, NEW txs \in BurnBlocks, NEW winner,
         winner # NoWinner => winner \in OfType(check_block_ops(txs, n), "commit"),
         snap' = Append(snap, Appended(n, check_block_ops(txs, n),
                                   BurnSample(check_block_ops(txs, n), n), winner))
  PROVE  ForkInv'
  <1> DEFINE ops == check_block_ops(txs, n)
             dist == BurnSample(ops, n)
             x == Appended(n, ops, dist, winner)
             height == snap[n].height + 1
  <1>0. PICK top : top = Len(snap) + 1
    OBVIOUS
  <1>1. PICK S : snap \in Seq(S)
    BY Zenon DEF ForkInv, IsSequence
  <1>2. /\ snap' \in Seq(S \cup {x})
        /\ top \in Nat
        /\ DOMAIN snap' = DOMAIN snap \cup {top}
        /\ top \notin DOMAIN snap
        /\ snap'[top] = x
        /\ \A i \in DOMAIN snap : snap'[i] = snap[i]
    <2> HIDE DEF x
    <2>1. snap \in Seq(S \cup {x}) /\ x \in S \cup {x} /\ snap' = Append(snap, x)
      BY <1>1 DEF x
    <2> QED BY <1>0, <2>1
  <1>3. IndexOK(n) /\ KeysOnce(n) /\ WinsOnce(n)
    BY Zenon DEF ForkInv
  <1>4. /\ x.height = height
        /\ x.at = [h \in FirstHeight..height |-> IF h = height THEN top ELSE snap[n].at[h]]
        /\ x.winner = winner
        /\ x.vrf_keys = snap[n].vrf_keys \cup {k.public_key : k \in OfType(ops, "key")}
        /\ x.blocks = snap[n].blocks \cup (IF winner # NoWinner THEN {winner.block} ELSE {})
        /\ x.leader_keys = OfType(ops, "key")
        /\ x.block_commits = {p.candidate : p \in dist}
    BY Zenon, <1>0 DEF Appended
  <1> HIDE DEF ops, dist, x
  <1>5. /\ height \in Nat /\ FirstHeight \in Nat /\ FirstHeight <= height
        /\ DOMAIN x.at = FirstHeight..height
        /\ DOMAIN x.at = DOMAIN snap[n].at \cup {height}
        /\ height \notin DOMAIN snap[n].at
        /\ x.at[height] = top
        /\ \A h \in DOMAIN snap[n].at : x.at[h] = snap[n].at[h] /\ snap[n].at[h] \in DOMAIN snap
    <2>1. /\ snap[n].height \in Nat /\ FirstHeight \in Nat /\ snap[n].height >= FirstHeight
          /\ DOMAIN snap[n].at = FirstHeight..snap[n].height
          /\ \A h \in DOMAIN snap[n].at : snap[n].at[h] \in DOMAIN snap
      BY Zenon, <1>3 DEF IndexOK, ConstantsOK
    <2>2. /\ FirstHeight..height = (FirstHeight..snap[n].height) \cup {height}
          /\ height \notin FirstHeight..snap[n].height
      BY <2>1
    <2>3. DOMAIN x.at = FirstHeight..height
      BY Zenon, <1>4
    <2> HIDE DEF height
    <2> QED BY <1>4, <2>1, <2>2, <2>3 DEF height
  <1>6. /\ snap'[top] = x
        /\ snap'[x.at[height]] = x
        /\ \A h \in DOMAIN snap[n].at : snap'[x.at[h]] = snap[snap[n].at[h]]
    BY Zenon, <1>2, <1>5
  <1> HIDE DEF height
  <1>7. \A k \in x.leader_keys : /\ k.public_key \notin snap[n].vrf_keys
                                 /\ \A l \in x.leader_keys : k.public_key = l.public_key => k = l
    BY <1>4, KeysChecked DEF ops
  <1>8. x.winner # NoWinner => x.winner.block \notin snap[n].blocks
    BY Zenon, <1>4, CommitsChecked DEF ops, CheckCommit, expects_stacks_block_in_fork
  <1>9. IndexOK(top)'
    <2>1. /\ snap'[top].height \in Nat
          /\ snap'[top].height >= FirstHeight
          /\ DOMAIN snap'[top].at = FirstHeight..snap'[top].height
      BY Zenon, <1>4, <1>5, <1>6
    <2>2. ASSUME NEW h \in DOMAIN x.at
          PROVE  /\ x.at[h] \in DOMAIN snap'
                 /\ \A k \in snap'[x.at[h]].leader_keys : k.public_key \in x.vrf_keys
                 /\ snap'[x.at[h]].winner # NoWinner => snap'[x.at[h]].winner.block \in x.blocks
      <3>1. CASE h = height
        BY <3>1, <1>2, <1>4, <1>5, <1>6
      <3>2. CASE h \in DOMAIN snap[n].at
        <4>1. /\ \A k \in snap[snap[n].at[h]].leader_keys : k.public_key \in snap[n].vrf_keys
              /\ snap[snap[n].at[h]].winner # NoWinner => snap[snap[n].at[h]].winner.block \in snap[n].blocks
          BY Zenon, <3>2, <1>3 DEF IndexOK
        <4>2. snap[n].vrf_keys \subseteq x.vrf_keys /\ snap[n].blocks \subseteq x.blocks
          BY Zenon, <1>4
        <4> QED BY Zenon, <3>2, <4>1, <4>2, <1>2, <1>5, <1>6
      <3> QED BY Zenon, <3>1, <3>2, <1>5
    <2> QED BY Zenon, <2>1, <2>2, <1>6 DEF IndexOK
  <1>10. KeysOnce(top)'
    <2> DEFINE keys(h) == snap'[snap'[top].at[h]].leader_keys
    <2>1. SUFFICES ASSUME NEW g \in DOMAIN snap'[top].at, NEW h \in DOMAIN snap'[top].at,
                          NEW k \in keys(g), NEW l \in keys(h), k.public_key = l.public_key
                   PROVE  g = h /\ k = l
      BY Zenon DEF KeysOnce
    <2>2. CASE g = height /\ h = height
      <3>1. keys(g) = x.leader_keys /\ keys(h) = x.leader_keys
        BY Zenon, <2>2, <1>6
      <3> QED BY Zenon, <3>1, <2>1, <2>2, <1>7
    <2>3. CASE g \in DOMAIN snap[n].at /\ h \in DOMAIN snap[n].at
      <3>1. k \in snap[snap[n].at[g]].leader_keys /\ l \in snap[snap[n].at[h]].leader_keys
        BY Zenon, <2>3, <1>6
      <3>2. \A k1 \in snap[snap[n].at[g]].leader_keys, l1 \in snap[snap[n].at[h]].leader_keys :
              k1.public_key = l1.public_key => g = h /\ k1 = l1
        BY Zenon, <2>3, <1>3 DEF KeysOnce
      <3> QED BY Zenon, <3>1, <3>2, <2>1
    <2>4. CASE g = height /\ h \in DOMAIN snap[n].at
      <3>1. l.public_key \in snap[n].vrf_keys
        BY Zenon, <2>4, <1>6, <1>3 DEF IndexOK
      <3> QED BY Zenon, <3>1, <2>1, <2>4, <1>6, <1>7
    <2>5. CASE g \in DOMAIN snap[n].at /\ h = height
      <3>1. k.public_key \in snap[n].vrf_keys
        BY Zenon, <2>5, <1>6, <1>3 DEF IndexOK
      <3> QED BY Zenon, <3>1, <2>1, <2>5, <1>6, <1>7
    <2> QED BY Zenon, <2>2, <2>3, <2>4, <2>5, <1>5, <1>6
  <1>11. WinsOnce(top)'
    <2>1. SUFFICES ASSUME NEW g \in DOMAIN x.at, NEW h \in DOMAIN x.at,
                          snap'[x.at[g]].winner # NoWinner, snap'[x.at[h]].winner # NoWinner,
                          snap'[x.at[g]].winner.block = snap'[x.at[h]].winner.block
                   PROVE  g = h
      BY Zenon, <1>6 DEF WinsOnce
    <2>2. CASE g = height /\ h = height
      BY Zenon, <2>2
    <2>3. CASE g \in DOMAIN snap[n].at /\ h \in DOMAIN snap[n].at
      BY <2>1, <2>3, <1>6, <1>3, ZenonT(30) DEF WinsOnce
    <2>4. CASE g = height /\ h \in DOMAIN snap[n].at
      <3>1. snap'[x.at[h]].winner.block \in snap[n].blocks
        BY Zenon, <2>1, <2>4, <1>6, <1>3 DEF IndexOK
      <3> QED BY Zenon, <3>1, <2>1, <2>4, <1>6, <1>8
    <2>5. CASE g \in DOMAIN snap[n].at /\ h = height
      <3>1. snap'[x.at[g]].winner.block \in snap[n].blocks
        BY Zenon, <2>1, <2>5, <1>6, <1>3 DEF IndexOK
      <3> QED BY Zenon, <3>1, <2>1, <2>5, <1>6, <1>8
    <2> QED BY Zenon, <2>2, <2>3, <2>4, <2>5, <1>5
  <1>12. CommitsGrounded(top)'
    <2>1. SUFFICES ASSUME NEW c \in x.block_commits
                   PROVE  /\ c.key[1] \in DOMAIN x.at \ {x.height}
                          /\ \E k \in snap'[x.at[c.key[1]]].leader_keys :
                                 k.vtxindex = c.key[2] /\ k.address = c.address
                          /\ \/ c.parent = <<0, 0>>
                             \/ /\ c.parent[1] \in DOMAIN x.at \ {x.height}
                                /\ \E p \in snap'[x.at[c.parent[1]]].block_commits :
                                       p.vtxindex = c.parent[2]
      BY Zenon, <1>6 DEF CommitsGrounded
    <2>2. c \in OfType(ops, "commit")
      BY Zenon, <1>4, CandidateFacts DEF dist
    <2>3. CheckCommit(c, n)
      BY Zenon, <2>2, CommitsChecked DEF ops
    <2>4. /\ c.key[1] \in DOMAIN snap[n].at
          /\ \E k \in snap[snap[n].at[c.key[1]]].leader_keys :
                 k.vtxindex = c.key[2] /\ k.address = c.address
      BY Zenon, <2>3 DEF CheckCommit, get_leader_key_at, Rows
    <2>5. \/ c.parent = <<0, 0>>
          \/ /\ c.parent[1] \in DOMAIN snap[n].at
             /\ \E p \in snap[snap[n].at[c.parent[1]]].block_commits : p.vtxindex = c.parent[2]
      BY Zenon, <2>3 DEF CheckCommit, get_block_commit_parent, Rows
    <2> QED BY Zenon, <2>4, <2>5, <1>4, <1>5, <1>6
  <1>13. ASSUME NEW m \in DOMAIN snap
         PROVE  IndexOK(m)' /\ KeysOnce(m)' /\ WinsOnce(m)' /\ CommitsGrounded(m)' /\ WinnerStored(m)'
    BY Zenon, OldSnapshots DEF x, ops, dist
  <1>14. WinnerStored(top)'
    <2>1. x.winner # NoWinner => x.winner \in {p.candidate : p \in dist}
      BY ZenonT(30), <1>4, CandidateFacts DEF ops, dist
    <2> QED BY Zenon, <2>1, <1>4, <1>6 DEF WinnerStored
  <1>15. IsSequence'
    BY Zenon, <1>2 DEF IsSequence
  <1> QED BY Zenon, <1>2, <1>9, <1>10, <1>11, <1>12, <1>13, <1>14, <1>15 DEF ForkInv

LEMMA Singleton == ASSUME NEW x PROVE <<x>> \in Seq({x}) /\ DOMAIN <<x>> = {1} /\ <<x>>[1] = x
  OBVIOUS

\* ForkInv is inductive.
LEMMA ForkInvInit == ASSUME ConstantsOK PROVE ForkInit => ForkInv
  <1> SUFFICES ASSUME ForkInit PROVE ForkInv
    OBVIOUS
  <1>1. /\ snap \in Seq({Initial}) /\ DOMAIN snap = {1} /\ snap[1] = Initial
    BY Zenon, Singleton DEF ForkInit
  <1>2. /\ snap[1].height = FirstHeight /\ FirstHeight \in Nat
        /\ snap[1].at = [h \in {FirstHeight} |-> 1] /\ DOMAIN snap[1].at = {FirstHeight}
        /\ snap[1].winner = NoWinner
        /\ snap[1].leader_keys = {} /\ snap[1].block_commits = {}
    BY <1>1 DEF Initial, ConstantsOK
  <1>3. FirstHeight..FirstHeight = {FirstHeight}
    BY <1>2
  <1>4. snap[1].at[FirstHeight] = 1
    BY Zenon, <1>2
  <1>5. IndexOK(1)
    BY <1>1, <1>2, <1>3, <1>4 DEF IndexOK
  <1>6. KeysOnce(1) /\ WinsOnce(1) /\ CommitsGrounded(1) /\ WinnerStored(1)
    BY ZenonT(30), <1>2, <1>4 DEF KeysOnce, WinsOnce, CommitsGrounded, WinnerStored
  <1> QED BY Zenon, <1>1, <1>5, <1>6 DEF ForkInv, IsSequence

LEMMA ForkInvNext == ASSUME ConstantsOK PROVE ForkInv /\ [ForkNext]_fork_vars => ForkInv'
  <1> SUFFICES ASSUME ForkInv, [ForkNext]_fork_vars PROVE ForkInv'
    BY Zenon
  <1>1. CASE UNCHANGED snap
    <2>1. \A n \in DOMAIN snap : IndexOK(n)'
      BY Zenon, <1>1 DEF ForkInv, IndexOK
    <2>2. \A n \in DOMAIN snap : KeysOnce(n)'
      <3>1. \A n \in DOMAIN snap : KeysOnce(n)
        BY Zenon DEF ForkInv
      <3> QED BY <3>1, <1>1 DEF KeysOnce
    <2>3. \A n \in DOMAIN snap : WinsOnce(n)'
      BY <1>1 DEF ForkInv, WinsOnce
    <2>4. \A n \in DOMAIN snap : CommitsGrounded(n)' /\ WinnerStored(n)'
      BY Zenon, <1>1 DEF ForkInv, CommitsGrounded, WinnerStored
    <2> QED
      BY Zenon, <1>1, <2>1, <2>2, <2>3, <2>4 DEF ForkInv, IsSequence
  <1>2. CASE ForkNext
    <2>1. PICK n \in DOMAIN snap, txs \in BurnBlocks : process_block_ops(n, txs)
      BY Zenon, <1>2 DEF ForkNext
    <2> DEFINE ops == check_block_ops(txs, n)
               dist == BurnSample(ops, n)
    <2>2. \/ UNCHANGED snap \/ NothingDrawn(n, ops, dist) \/ Sortition(n, ops, dist)
      BY Zenon, <2>1 DEF process_block_ops, SortitionPanics
    <2>3. CASE NothingDrawn(n, ops, dist)
      BY Zenon, <2>3, NewSnapshot DEF NothingDrawn
    <2>4. CASE Sortition(n, ops, dist)
      <3>1. PICK p \in dist : snap' = Append(snap, Appended(n, ops, dist, p.candidate))
        BY Zenon, <2>4 DEF Sortition, sample_burn_distribution
      <3>2. p.candidate \in OfType(ops, "commit")
        BY CandidateFacts
      <3> QED BY Zenon, <3>1, <3>2, NewSnapshot
    <2> QED BY Zenon, <2>2, <2>3, <2>4, <1>1
  <1> QED BY Zenon, <1>1, <1>2 DEF fork_vars

-----------------------------------------------------------------------------
\* Whatever operations the burn blocks of however many forks hold, and whichever hash draws the
\* winners: on every fork a public key is registered once, a Stacks block wins one sortition at
\* most, and every accepted commit has its key and its parent in earlier blocks of that fork.
\* process_block_ops relies on the first for the assertion in apply_user_burns.
THEOREM HistoriesAreSound == ASSUME ConstantsOK PROVE ForkSpec => []ForksAreSound
  <1>1. ForkInit => ForkInv
    BY Zenon, ForkInvInit
  <1>2. ForkInv /\ [ForkNext]_fork_vars => ForkInv'
    BY Zenon, ForkInvNext
  <1>3. ForkInv => ForksAreSound
    BY ZenonT(30) DEF ForkInv, ForksAreSound, KeysOnce, WinsOnce, CommitsGrounded
  <1> QED BY <1>1, <1>2, <1>3, PTL DEF ForkSpec

-----------------------------------------------------------------------------
(* The assertions on the way to a snapshot. *)

\* Two commits that pass the filters of a block have different keys.
LEMMA CommitsDiffer ==
  ASSUME ConstantsOK, NEW n, NEW txs \in BurnBlocks,
         NEW c \in OfType(check_block_ops(txs, n), "commit"),
         NEW d \in OfType(check_block_ops(txs, n), "commit"),
         c.key = d.key
  PROVE  c = d
  <1> DEFINE unique == filter_block_VRF_dups({op \in txs : check_transaction(op, n)})
  <1>1. /\ c \in unique /\ d \in unique /\ c.type = "commit" /\ d.type = "commit"
        /\ ~(c.burn_fee > d.burn_fee) /\ ~(c.burn_fee = d.burn_fee /\ c.vtxindex < d.vtxindex)
        /\ ~(d.burn_fee > c.burn_fee) /\ ~(d.burn_fee = c.burn_fee /\ d.vtxindex < c.vtxindex)
    BY Zenon DEF check_block_ops, filter_block_commits_with_same_VRF_key, OfType
  <1>2. c \in txs /\ d \in txs
    BY Zenon, <1>1 DEF filter_block_VRF_dups
  <1>3. txs \subseteq Txs /\ \A a, b \in txs : a.vtxindex = b.vtxindex => a = b
    BY Zenon DEF BurnBlocks, kSubset
  <1>4. /\ c.burn_fee \in Nat /\ d.burn_fee \in Nat
        /\ c.vtxindex \in Nat /\ d.vtxindex \in Nat
    BY Zenon, <1>1, <1>2, <1>3 DEF ConstantsOK, OfType
  <1>5. c.vtxindex = d.vtxindex
    BY <1>1, <1>4
  <1> QED BY Zenon, <1>2, <1>3, <1>5

\* get_consumed_leader_keys, make_distribution and apply_user_burns meet no failure.
LEMMA DistributionIsMade ==
  ASSUME ConstantsOK, ForkInv, NEW n \in DOMAIN snap, NEW txs \in BurnBlocks
  PROVE  DistributionPanic(check_block_ops(txs, n), n) \in {"none", "total burns"}
  <1> DEFINE ops == check_block_ops(txs, n)
             commits == OfType(ops, "commit")
  <1>1. \A c \in commits : get_leader_key_at(n, c.key) # {}
    BY Zenon, CommitsChecked DEF CheckCommit
  <1>2. \A c, d \in commits : c.key = d.key => c = d
    BY Zenon, CommitsDiffer
  <1>3. ASSUME NEW c \in commits, NEW d \in commits,
               ConsumedKey(c, n).public_key = ConsumedKey(d, n).public_key
        PROVE  c = d
    <2> DEFINE k == ConsumedKey(c, n)
               l == ConsumedKey(d, n)
    <2>1. k \in get_leader_key_at(n, c.key) /\ l \in get_leader_key_at(n, d.key)
      BY Zenon, <1>1 DEF ConsumedKey
    <2> HIDE DEF k, l
    <2>2. /\ c.key[1] \in DOMAIN snap[n].at /\ d.key[1] \in DOMAIN snap[n].at
          /\ k \in snap[snap[n].at[c.key[1]]].leader_keys /\ k.vtxindex = c.key[2]
          /\ l \in snap[snap[n].at[d.key[1]]].leader_keys /\ l.vtxindex = d.key[2]
      BY Zenon, <2>1 DEF get_leader_key_at, Rows
    <2>3. c.key[1] = d.key[1] /\ k = l
      <3>1. KeysOnce(n) /\ k.public_key = l.public_key
        BY Zenon, <1>3 DEF ForkInv, k, l
      <3> QED BY <3>1, <2>2 DEF KeysOnce
    <2>4. c.key \in Nat \X Nat /\ d.key \in Nat \X Nat
      <3>1. c \in txs /\ d \in txs /\ c.type = "commit" /\ d.type = "commit"
        BY Zenon DEF check_block_ops, filter_block_commits_with_same_VRF_key, filter_block_VRF_dups, OfType
      <3>2. txs \subseteq Txs
        BY Zenon DEF BurnBlocks, kSubset
      <3> QED BY Zenon, <3>1, <3>2 DEF ConstantsOK, OfType
    <2>5. c.key = d.key
      BY <2>2, <2>3, <2>4
    <2> QED BY Zenon, <2>5, <1>2
  <1> QED BY Zenon, <1>1, <1>2, <1>3 DEF DistributionPanic

LEMMA PanicNext == ASSUME ConstantsOK PROVE ForkInv /\ PanicsAreKnown /\ [ForkNext]_fork_vars => PanicsAreKnown'
  <1> SUFFICES ASSUME ForkInv, PanicsAreKnown, [ForkNext]_fork_vars PROVE PanicsAreKnown'
    OBVIOUS
  <1>1. CASE UNCHANGED panic
    BY Zenon, <1>1 DEF PanicsAreKnown
  <1>2. CASE ForkNext
    <2>1. PICK n \in DOMAIN snap, txs \in BurnBlocks : process_block_ops(n, txs)
      BY Zenon, <1>2 DEF ForkNext
    <2> DEFINE ops == check_block_ops(txs, n)
               dist == BurnSample(ops, n)
    <2>2. \/ UNCHANGED panic
          \/ panic' = DistributionPanic(ops, n) /\ panic' # "none"
          \/ SortitionPanics(n, dist)
      BY Zenon, <2>1 DEF process_block_ops, NothingDrawn, Sortition
    <2>3. CASE panic' = DistributionPanic(ops, n)
      BY Zenon, <2>3, DistributionIsMade DEF PanicsAreKnown
    <2>4. CASE SortitionPanics(n, dist)
      <3>1. LastWinnerStored(n)
        BY Zenon DEF ForkInv, IndexOK, WinnerStored, LastWinnerStored
      <3> QED BY Zenon, <3>1, <2>4 DEF SortitionPanics, PanicsAreKnown
    <2> QED BY Zenon, <2>2, <2>3, <2>4, <1>1
  <1> QED BY Zenon, <1>1, <1>2 DEF fork_vars

\* Whatever a burn block holds: there is a leader key for every commit that is accepted, no two
\* of them share a key or a pair of public key and block, and the last winner's commit is in the
\* database, so the assertions of get_consumed_leader_keys, make_distribution, apply_user_burns
\* and select_winning_block cannot fail.  Two panics remain: see PanicsAreKnown.
THEOREM AssertionsHold == ASSUME ConstantsOK PROVE ForkSpec => []PanicsAreKnown
  <1>1. ForkInit => ForkInv /\ PanicsAreKnown
    BY Zenon, ForkInvInit DEF ForkInit, PanicsAreKnown
  <1>2. ForkInv /\ PanicsAreKnown /\ [ForkNext]_fork_vars => ForkInv' /\ PanicsAreKnown'
    BY Zenon, ForkInvNext, PanicNext
  <1> QED BY <1>1, <1>2, PTL DEF ForkSpec

-----------------------------------------------------------------------------
(* The reward cycles. *)

(* The anchor block is unique. *)

\* Confirmations lie in the prepare phase, so there are at most PrepareLength
\* of them for any two different candidates together.
LEMMA TwoCandidates ==
    ASSUME NEW s, NEW end \in Int, NEW a, NEW b, a /= b
    PROVE  LET begin == end - PrepareLength
               ca == Confirmations(s, begin, end, a)
               cb == Confirmations(s, begin, end, b)
           IN  /\ IsFiniteSet(ca) /\ IsFiniteSet(cb)
               /\ Cardinality(ca) \in Nat /\ Cardinality(cb) \in Nat
               /\ Cardinality(ca) + Cardinality(cb) <= PrepareLength
  <1> DEFINE begin == end - PrepareLength
  <1> DEFINE ca == Confirmations(s, begin, end, a)
  <1> DEFINE cb == Confirmations(s, begin, end, b)
  <1> DEFINE phase == (begin + 1)..end
  <1>1. PrepareLength \in Nat /\ begin \in Int
    BY PoxConstants
  <1>2. ca \subseteq phase /\ cb \subseteq phase
    BY DEF Confirmations, Winners
  <1>3. ca \cap cb = {}
    BY DEF Confirmations
  <1>4. IsFiniteSet(phase) /\ Cardinality(phase) = PrepareLength
    <2>1. begin + 1 \in Int
      BY <1>1
    <2>2. /\ IsFiniteSet(phase)
          /\ Cardinality(phase) = IF begin + 1 > end THEN 0 ELSE end - (begin + 1) + 1
      BY <2>1, FS_Interval
    <2>3. (IF begin + 1 > end THEN 0 ELSE end - (begin + 1) + 1) = PrepareLength
      BY <1>1
    <2> QED BY <2>2, <2>3
  <1>5. IsFiniteSet(ca) /\ IsFiniteSet(cb)
    BY Zenon, <1>2, <1>4, FS_Subset
  <1>6. Cardinality(ca) \in Nat /\ Cardinality(cb) \in Nat
    BY <1>5, FS_CardinalityType
  <1>7. IsFiniteSet(ca \cup cb) /\ Cardinality(ca \cup cb) <= PrepareLength
    <2>1. ca \cup cb \subseteq phase
      BY Zenon, <1>2
    <2> QED BY Zenon, <2>1, <1>4, FS_Subset
  <1>8. Cardinality(ca \cup cb) = Cardinality(ca) + Cardinality(cb)
    <2>1. Cardinality(ca \cup cb) = Cardinality(ca) + Cardinality(cb) - Cardinality(ca \cap cb)
      BY Zenon, <1>5, FS_Union
    <2>2. Cardinality(ca \cap cb) = 0
      BY <1>3, FS_EmptySet
    <2> QED BY <2>1, <2>2, <1>6
  <1> QED BY Zenon, <1>5, <1>6, <1>7, <1>8

\* get_chosen_pox_anchor finds at most one block with enough confirmations,
\* whatever the fork looks like: its assertion never fails.
THEOREM AnchorUnique ==
    ASSUME NEW s, NEW end \in Int,
           NEW a \in ChosenAnchors(s, end - PrepareLength, end),
           NEW b \in ChosenAnchors(s, end - PrepareLength, end)
    PROVE  a = b
  <1> SUFFICES ASSUME a /= b PROVE FALSE
    BY Zenon
  <1> DEFINE na == Cardinality(Confirmations(s, end - PrepareLength, end, a))
  <1> DEFINE nb == Cardinality(Confirmations(s, end - PrepareLength, end, b))
  <1>1. na \in Nat /\ nb \in Nat /\ na + nb <= PrepareLength
    BY TwoCandidates
  <1>2. na >= AnchorThreshold /\ nb >= AnchorThreshold
    BY DEF ChosenAnchors
  <1>3. AnchorThreshold > PrepareLength \div 2 /\ AnchorThreshold \in Nat /\ PrepareLength \in Nat
    BY PoxConstants
  <1> HIDE DEF na, nb
  <1> QED BY <1>1, <1>2, <1>3

-----------------------------------------------------------------------------
(* The inductive invariant.  RewardSetConserved is what keeps a drawn entry *)
(* inside Slots, so the types cannot be proved without it; a cycle without  *)
(* an anchor has an empty set, which is why NoRecipient skips no entry.     *)

AnchorlessIsEmpty == last_anchor = NoAnchor => set_size = 0

CycleInv ==
    /\ CycleTypeOK
    /\ RewardSetConserved
    /\ NoDoubleDraw
    /\ NoEntrySkipped
    /\ AnchorlessIsEmpty
    /\ IsFiniteSet(consumed)

\* The first snapshot has an empty reward set.
LEMMA CycleInvInit == CycleInit => CycleInv
  <1> SUFFICES ASSUME CycleInit PROVE CycleInv
    OBVIOUS
  <1> USE PoxConstants, RewardAssumption DEF CycleInit
  <1>1. CycleTypeOK
    BY DEF CycleTypeOK, Heights, Indexes, Snapshot, InitialSnapshot, NoAnchor
  <1>2. RewardSetConserved
    BY DEF RewardSetConserved, LiveEntries
  <1>3. NoDoubleDraw /\ IsFiniteSet(consumed)
    BY FS_EmptySet DEF NoDoubleDraw
  <1>4. NoEntrySkipped /\ AnchorlessIsEmpty
    BY DEF NoEntrySkipped, AnchorlessIsEmpty
  <1> QED BY Zenon, <1>1, <1>2, <1>3, <1>4 DEF CycleInv

\* A new snapshot extends the fork by one block.
LEMMA AppendType ==
    ASSUME CycleTypeOK, tip < MaxHeight, NEW r, NEW a, AppendSnapshot(r, a)
    PROVE  /\ tip' = tip + 1
           /\ tip' \in Heights
           /\ sn' \in [FirstBlockHeight..tip' -> Snapshot]
  <1> USE PoxConstants, RewardAssumption
  <1>1. PICK x \in {NoSortition} \cup {c \in Commits(tip + 1) : ValidCommit(c, r, a)} :
            /\ sn' = [h \in FirstBlockHeight..(tip + 1) |-> IF h = tip + 1 THEN x ELSE sn[h]]
            /\ tip' = tip + 1
    BY DEF AppendSnapshot
  <1>2. tip \in Nat /\ tip + 1 \in Heights
    BY DEF CycleTypeOK, Heights
  <1>3. x \in Snapshot
    <2>1. NoSortition \in Snapshot
      BY DEF NoSortition, Snapshot
    <2>2. ASSUME NEW c \in Commits(tip + 1)
          PROVE  c \in Snapshot
      <3>1. 0..((tip + 1) - 1) \subseteq Nat
        BY <1>2
      <3>2. /\ c = [sortition |-> c.sortition, parent_block_ptr |-> c.parent_block_ptr,
                     parent_won |-> c.parent_won, pox |-> c.pox]
            /\ c.sortition \in BOOLEAN /\ c.parent_block_ptr \in Nat
            /\ c.parent_won \in BOOLEAN /\ c.pox \in BOOLEAN
        BY <3>1, Zenon DEF Commits
      <3> QED BY <3>2, Zenon DEF Snapshot
    <2> QED BY Zenon, <2>1, <2>2
  <1>4. sn' \in [FirstBlockHeight..tip' -> Snapshot]
    BY <1>1, <1>2, <1>3 DEF CycleTypeOK
  <1> QED BY Zenon, <1>1, <1>2, <1>4

\* The anchor of a cycle was chosen in this fork.
LEMMA AnchorType ==
    ASSUME CycleTypeOK, NEW a \in Anchors
    PROVE  a \in Heights /\ a /= NoAnchor
  BY PoxConstants, RewardAssumption DEF Anchors, ChosenAnchors, CycleTypeOK, Heights, NoAnchor

LEMMA IndexBelow == ASSUME NEW n \in Nat \ {0}, NEW i \in Indexes, i < n - 1 PROVE i \in 0..(n - 2)
  BY RewardAssumption DEF Indexes

\* A cycle adds one bit to the PoX id.
LEMMA AppendBit ==
    ASSUME NEW bits \in Seq(BOOLEAN), NEW bit \in BOOLEAN
    PROVE  Append(bits, bit) \in Seq(BOOLEAN)
  OBVIOUS

\* A cycle without a known anchor starts with an empty reward set.
LEMMA StartWithoutRecipientsInv ==
    ASSUME CycleInv, AnchorFound, NEW bit \in BOOLEAN, NEW a \in Heights \cup {NoAnchor},
           StartWithoutRecipients(bit, a)
    PROVE  CycleInv'
  <1>1. CycleTypeOK /\ tip < MaxHeight /\ tip \in Nat /\ MaxRewardSet \in Nat
    BY PoxConstants, RewardAssumption DEF CycleInv, AnchorFound, StartsCycle, CycleTypeOK, Heights
  <1>2. /\ tip' = tip + 1
        /\ tip' \in Heights
        /\ sn' \in [FirstBlockHeight..tip' -> Snapshot]
    BY Zenon, <1>1, AppendType DEF StartWithoutRecipients
  <1>3. pox_id' \in Seq(BOOLEAN)
    BY Zenon, <1>1, AppendBit DEF StartWithoutRecipients, CycleTypeOK
  <1>4. CycleTypeOK'
    BY <1>1, <1>2, <1>3 DEF StartWithoutRecipients, CycleTypeOK
  <1>5. RewardSetConserved'
    BY DEF StartWithoutRecipients, RewardSetConserved, LiveEntries
  <1>6. NoDoubleDraw' /\ IsFiniteSet(consumed)'
    BY Zenon, FS_EmptySet DEF StartWithoutRecipients, NoDoubleDraw
  <1>7. NoEntrySkipped' /\ AnchorlessIsEmpty'
    BY Zenon DEF StartWithoutRecipients, NoEntrySkipped, AnchorlessIsEmpty
  <1> QED BY Zenon, <1>4, <1>5, <1>6, <1>7 DEF CycleInv

\* What Vec::remove leaves of a reward set: the other entries, each once.
LEMMA RemoveEntryKeepsOthers ==
    ASSUME NEW n \in Nat \ {0}, NEW set \in RewardSets(n), NEW ix \in 0..(n - 1)
    PROVE  LET rest == RemoveEntry(n, set, ix)
           IN  /\ \A i \in 0..(n - 2) : rest[i] \in Slots /\ rest[i] /= set[ix]
               /\ \A i, j \in 0..(n - 2) : rest[i] = rest[j] => i = j
               /\ {rest[i] : i \in 0..(n - 2)} \cup {set[ix]} = {set[i] : i \in 0..(n - 1)}
  <1> DEFINE rest == RemoveEntry(n, set, ix)
  <1>1. /\ set \in [0..(n - 1) -> Slots]
        /\ \A i, j \in 0..(n - 1) : set[i] = set[j] => i = j
    BY DEF RewardSets
  <1>2. \A i \in 0..(n - 2) : rest[i] = IF i < ix THEN set[i] ELSE set[i + 1]
    BY Zenon DEF RemoveEntry
  <1>3. \A i \in 0..(n - 2) : rest[i] \in Slots /\ rest[i] /= set[ix]
    BY <1>1, <1>2
  <1>4. \A i, j \in 0..(n - 2) : rest[i] = rest[j] => i = j
    BY <1>1, <1>2
  <1>5. \A i \in 0..(n - 2) : \E j \in 0..(n - 1) : rest[i] = set[j]
    <2> TAKE i \in 0..(n - 2)
    <2>1. CASE i < ix
      BY <2>1, <1>2
    <2>2. CASE ~(i < ix)
      BY <2>2, <1>2
    <2> QED BY Zenon, <2>1, <2>2
  <1>6. \A j \in 0..(n - 1) : j /= ix => \E i \in 0..(n - 2) : rest[i] = set[j]
    <2> TAKE j \in 0..(n - 1)
    <2>1. CASE j < ix
      <3>1. j \in 0..(n - 2)
        BY <2>1
      <3> QED BY Zenon, <3>1, <2>1, <1>2
    <2>2. CASE j > ix
      <3>1. j - 1 \in 0..(n - 2) /\ ~(j - 1 < ix) /\ (j - 1) + 1 = j
        BY <2>2
      <3>2. rest[j - 1] = set[j]
        BY Zenon, <3>1, <1>2
      <3> QED BY Zenon, <3>1, <3>2
    <2>3. j /= ix => j < ix \/ j > ix
      OBVIOUS
    <2> QED BY Zenon, <2>1, <2>2, <2>3
  <1> HIDE DEF rest
  <1>7. {rest[i] : i \in 0..(n - 2)} \cup {set[ix]} = {set[i] : i \in 0..(n - 1)}
    BY <1>5, <1>6
  <1> QED BY Zenon, <1>3, <1>4, <1>7 DEF rest

\* A cycle with a known anchor replaces what the last cycle left in the index and
\* draws its first recipient.
LEMMA StartCycleAnchorKnownInv == CycleInv /\ StartCycleAnchorKnown => CycleInv'
  <1> SUFFICES ASSUME CycleInv, StartCycleAnchorKnown PROVE CycleInv'
    BY Zenon
  <1>1. CycleTypeOK /\ tip < MaxHeight /\ tip \in Nat /\ MaxRewardSet \in Nat
    BY SMTT(30), PoxConstants, RewardAssumption DEF CycleInv, StartCycleAnchorKnown, AnchorFound, StartsCycle, CycleTypeOK, Heights
  <1>2. PICK a \in Anchors, n \in 1..MaxRewardSet : \E set \in RewardSets(n), ix \in 0..(n - 1) :
          /\ last_anchor' = a
          /\ set_size' = n - 1
          /\ set_entry' = WriteEntries(n - 1, RemoveEntry(n, set, ix))
          /\ AppendSnapshot(set[ix], a)
          /\ cycle_set' = {set[i] : i \in 0..(n - 1)}
          /\ consumed' = {set[ix]}
    BY Zenon DEF StartCycleAnchorKnown
  <1>3. PICK set \in RewardSets(n), ix \in 0..(n - 1) :
          /\ last_anchor' = a
          /\ set_size' = n - 1
          /\ set_entry' = WriteEntries(n - 1, RemoveEntry(n, set, ix))
          /\ AppendSnapshot(set[ix], a)
          /\ cycle_set' = {set[i] : i \in 0..(n - 1)}
          /\ consumed' = {set[ix]}
    BY Zenon, <1>2
  <1> DEFINE rest == RemoveEntry(n, set, ix)
  <1>4. n \in Nat \ {0} /\ (n - 1) - 1 = n - 2 /\ n - 1 \in 0..MaxRewardSet
    BY <1>1
  <1>5. /\ \A i \in 0..(n - 2) : rest[i] \in Slots /\ rest[i] /= set[ix]
        /\ \A i, j \in 0..(n - 2) : rest[i] = rest[j] => i = j
        /\ {rest[i] : i \in 0..(n - 2)} \cup {set[ix]} = {set[i] : i \in 0..(n - 1)}
    BY Zenon, <1>4, RemoveEntryKeepsOthers
  <1>a. set_size' = n - 1 /\ consumed' = {set[ix]} /\ cycle_set' = {set[i] : i \in 0..(n - 1)}
    BY Zenon, <1>3
  <1>6. set \in [0..(n - 1) -> Slots]
    BY Zenon DEF RewardSets
  <1>7. /\ tip' = tip + 1
        /\ tip' \in Heights
        /\ sn' \in [FirstBlockHeight..tip' -> Snapshot]
    BY Zenon, <1>1, <1>3, AppendType
  <1> HIDE DEF rest
  <1>8. set_entry' = [i \in Indexes |-> IF i < n - 1 THEN rest[i] ELSE set_entry[i]]
    BY Zenon, <1>3 DEF WriteEntries, rest
  <1>9. \A i \in 0..(n - 2) : i \in Indexes /\ set_entry'[i] = rest[i]
    BY SMTT(30), <1>1, <1>8 DEF Indexes
  <1>10. CycleTypeOK'
    <2>1. set_entry' \in [Indexes -> Slots \cup {NoSlot}]
      <3>1. \A i \in Indexes : set_entry[i] \in Slots \cup {NoSlot}
        BY Zenon, <1>1 DEF CycleTypeOK
      <3>2. \A i \in Indexes : i < n - 1 => rest[i] \in Slots
        <4>1. \A i \in Indexes : i < n - 1 => i \in 0..(n - 2)
          BY Zenon, <1>4, IndexBelow
        <4> QED BY Zenon, <4>1, <1>5
      <3> QED BY Zenon, <1>8, <3>1, <3>2
    <2>2. last_anchor' \in Heights \cup {NoAnchor}
      BY <1>1, <1>3, AnchorType
    <2>3. cycle_set' \subseteq Slots /\ consumed' \subseteq Slots
      BY Zenon, <1>3, <1>6
    <2>4. pox_id' \in Seq(BOOLEAN)
      BY Zenon, <1>1, AppendBit DEF StartCycleAnchorKnown, CycleTypeOK
    <2> QED BY Zenon, <1>1, <1>3, <1>4, <1>7, <2>1, <2>2, <2>3, <2>4 DEF CycleTypeOK, StartCycleAnchorKnown
  <1>11. RewardSetConserved'
    <2>1. LiveEntries' = {rest[i] : i \in 0..(n - 2)}
      BY Zenon, <1>a, <1>4, <1>9 DEF LiveEntries
    <2>2. \A i, j \in 0..(set_size' - 1) : set_entry'[i] = set_entry'[j] => i = j
      BY <1>a, <1>4, <1>5, <1>9
    <2>3. LiveEntries' \cap consumed' = {}
      BY Zenon, <2>1, <1>a, <1>5
    <2>4. LiveEntries' \cup consumed' = cycle_set'
      BY Zenon, <2>1, <1>a, <1>5
    <2> QED BY Zenon, <2>2, <2>3, <2>4 DEF RewardSetConserved
  <1>12. NoDoubleDraw' /\ IsFiniteSet(consumed)'
    BY Zenon, <1>3, FS_Singleton DEF NoDoubleDraw, StartCycleAnchorKnown
  <1>13. NoEntrySkipped' /\ AnchorlessIsEmpty'
    BY <1>1, <1>3, <1>7, AnchorType DEF NoEntrySkipped, AnchorlessIsEmpty, StartCycleAnchorKnown
  <1> QED BY Zenon, <1>10, <1>11, <1>12, <1>13 DEF CycleInv

\* Inside a cycle the entry drawn is moved out of the index.
LEMMA DrawRecipientInv == CycleInv /\ DrawRecipient => CycleInv'
  <1> SUFFICES ASSUME CycleInv, DrawRecipient PROVE CycleInv'
    OBVIOUS
  <1>1. CycleTypeOK /\ tip < MaxHeight /\ tip \in Nat /\ MaxRewardSet \in Nat /\ FirstBlockHeight \in Nat
    BY PoxConstants, RewardAssumption DEF CycleInv, DrawRecipient, InCycle, CycleTypeOK, Heights
  <1>2. PICK ix \in PickIndex :
          /\ set_entry' = [set_entry EXCEPT ![ix] = set_entry[set_size - 1]]
          /\ AppendSnapshot(set_entry[ix], last_anchor)
          /\ consumed' = consumed \cup {set_entry[ix]}
    BY Zenon DEF DrawRecipient
  <1> DEFINE last == set_size - 1
  <1>3. /\ set_size > 0 /\ ix \in 0..last /\ last \in 0..last
        /\ last \in 0..MaxRewardSet /\ 0..last \subseteq Indexes
        /\ set_size' = last /\ last - 1 < last
    BY <1>1, <1>2 DEF PickIndex, CycleTypeOK, Indexes, DrawRecipient
  <1>4. \A i \in 0..(last - 1) :
            /\ i \in 0..last /\ i /= last
            /\ set_entry'[i] = IF i = ix THEN set_entry[last] ELSE set_entry[i]
    BY <1>1, <1>2, <1>3 DEF CycleTypeOK
  <1>5. /\ \A i, j \in 0..last : set_entry[i] = set_entry[j] => i = j
        /\ LiveEntries \cap consumed = {}
        /\ LiveEntries \cup consumed = cycle_set
        /\ LiveEntries = {set_entry[i] : i \in 0..last}
    BY Zenon DEF CycleInv, RewardSetConserved, LiveEntries
  <1>6. /\ tip' = tip + 1
        /\ tip' \in Heights
        /\ sn' \in [FirstBlockHeight..tip' -> Snapshot]
    BY Zenon, <1>1, <1>2, AppendType
  <1>7. set_entry[ix] \in LiveEntries /\ set_entry[ix] \notin consumed /\ set_entry[ix] \in Slots
    BY Zenon, <1>1, <1>3, <1>5 DEF CycleTypeOK
  <1>8. LiveEntries' = LiveEntries \ {set_entry[ix]}
    <2>1. LiveEntries' = {set_entry'[i] : i \in 0..(last - 1)}
      BY Zenon, <1>3 DEF LiveEntries
    <2>2. \A i \in 0..(last - 1) : set_entry'[i] \in LiveEntries /\ set_entry'[i] /= set_entry[ix]
      BY Zenon, <1>3, <1>4, <1>5
    <2>3. \A e \in LiveEntries \ {set_entry[ix]} : \E i \in 0..(last - 1) : set_entry'[i] = e
      <3> TAKE e \in LiveEntries \ {set_entry[ix]}
      <3>1. PICK k \in 0..last : e = set_entry[k] /\ k /= ix
        BY Zenon, <1>5
      <3>2. CASE k = last
        <4>1. ix \in 0..(last - 1)
          BY <1>3, <3>1, <3>2
        <4> QED BY Zenon, <4>1, <1>4, <3>1, <3>2
      <3>3. CASE k /= last
        <4>1. k \in 0..(last - 1)
          BY SMTT(30), <1>3, <3>3
        <4> QED BY Zenon, <4>1, <1>4, <3>1
      <3> QED BY Zenon, <3>2, <3>3
    <2> QED BY Zenon, <2>1, <2>2, <2>3
  <1>9. CycleTypeOK'
    <2>1. set_entry' \in [Indexes -> Slots \cup {NoSlot}]
      BY Zenon, <1>1, <1>2, <1>3 DEF CycleTypeOK
    <2>2. draws' \in Nat /\ consumed' \subseteq Slots
      BY <1>1, <1>2, <1>7 DEF CycleTypeOK, DrawRecipient
    <2> QED BY Zenon, <1>1, <1>3, <1>6, <2>1, <2>2 DEF CycleTypeOK, DrawRecipient
  <1>10. RewardSetConserved'
    <2>1. \A i, j \in 0..(set_size' - 1) : set_entry'[i] = set_entry'[j] => i = j
      BY Zenon, <1>3, <1>4, <1>5
    <2>2. cycle_set' = cycle_set
      BY Zenon DEF DrawRecipient
    <2>3. LiveEntries' \cap consumed' = {} /\ LiveEntries' \cup consumed' = cycle_set'
      BY Zenon, <1>2, <1>5, <1>7, <1>8, <2>2
    <2> QED BY Zenon, <2>1, <2>3 DEF RewardSetConserved
  <1>11. NoDoubleDraw' /\ IsFiniteSet(consumed)'
    <2>1. IsFiniteSet(consumed) /\ Cardinality(consumed) = draws /\ draws' = draws + 1
      BY DEF CycleInv, NoDoubleDraw, DrawRecipient
    <2> QED BY Zenon, <1>2, <1>7, <2>1, FS_AddElement DEF NoDoubleDraw
  <1>12. NoEntrySkipped' /\ AnchorlessIsEmpty'
    <2>1. cycle_start' = cycle_start /\ draws' = draws + 1 /\ last_anchor' = last_anchor
      BY Zenon DEF DrawRecipient
    <2>2. draws \in Nat /\ cycle_start \in Nat /\ last_anchor /= NoAnchor
      BY <1>1, <1>2 DEF CycleTypeOK, Heights, PickIndex
    <2>3. ~(draws < tip - cycle_start + 1)
      BY <1>3 DEF CycleInv, NoEntrySkipped
    <2> QED BY <1>1, <1>6, <2>1, <2>2, <2>3 DEF NoEntrySkipped, AnchorlessIsEmpty
  <1> QED BY Zenon, <1>9, <1>10, <1>11, <1>12 DEF CycleInv

\* A block after the last recipient, or in a cycle without any, keeps the set.
LEMMA NoRecipientInv == CycleInv /\ NoRecipient => CycleInv'
  <1> SUFFICES ASSUME CycleInv, NoRecipient PROVE CycleInv'
    OBVIOUS
  <1>1. CycleTypeOK /\ tip < MaxHeight
    BY Zenon DEF CycleInv, NoRecipient, InCycle
  <1>2. /\ tip' = tip + 1
        /\ tip' \in Heights
        /\ sn' \in [FirstBlockHeight..tip' -> Snapshot]
    BY Zenon, <1>1, AppendType DEF NoRecipient
  <1>3. CycleTypeOK'
    BY Zenon, <1>1, <1>2 DEF CycleTypeOK, NoRecipient, history
  <1>4. set_size = 0
    BY <1>1 DEF CycleInv, NoRecipient, PickIndex, AnchorlessIsEmpty, CycleTypeOK
  <1>5. UNCHANGED <<last_anchor, set_size, set_entry, history>>
    BY Zenon DEF NoRecipient
  <1>6. RewardSetConserved' /\ NoDoubleDraw' /\ IsFiniteSet(consumed)'
    BY <1>5 DEF CycleInv, RewardSetConserved, LiveEntries, NoDoubleDraw, history
  <1>7. NoEntrySkipped' /\ AnchorlessIsEmpty'
    BY Zenon, <1>4, <1>5 DEF NoEntrySkipped, AnchorlessIsEmpty
  <1> QED BY Zenon, <1>3, <1>6, <1>7 DEF CycleInv

\* A failed get_reward_cycle_info writes nothing.
LEMMA AnchorLookupFailsInv == CycleInv /\ AnchorLookupFails => CycleInv'
  <1> SUFFICES ASSUME CycleInv, AnchorLookupFails PROVE CycleInv'
    OBVIOUS
  <1>1. UNCHANGED <<sn, tip, pox_id, last_anchor, set_size, set_entry, history>>
    BY Zenon DEF AnchorLookupFails
  <1>2. anchor_failure' \in {"none", "NotPrepareEndBlock", "MissingParentBlock", "panic"}
    BY Zenon DEF AnchorLookupFails, AnchorLookup
  <1>3. CycleTypeOK'
    BY Zenon, <1>1, <1>2 DEF CycleInv, CycleTypeOK, history
  <1>4. RewardSetConserved' /\ NoDoubleDraw' /\ IsFiniteSet(consumed)'
    BY Zenon, <1>1 DEF CycleInv, RewardSetConserved, LiveEntries, NoDoubleDraw, history
  <1>5. NoEntrySkipped' /\ AnchorlessIsEmpty'
    BY Zenon, <1>1 DEF CycleInv, NoEntrySkipped, AnchorlessIsEmpty, history
  <1> QED BY <1>3, <1>4, <1>5 DEF CycleInv

\* The invariant depends on nothing outside the variables.
LEMMA CycleStutter == CycleInv /\ UNCHANGED cycle_vars => CycleInv'
  BY DEF CycleInv, cycle_vars, history, CycleTypeOK, RewardSetConserved, LiveEntries, NoDoubleDraw,
         NoEntrySkipped, AnchorlessIsEmpty

\* Every burn block keeps the inductive invariant.
LEMMA CycleInvNext == CycleInv /\ [CycleNext]_cycle_vars => CycleInv'
  <1> SUFFICES ASSUME CycleInv, [CycleNext]_cycle_vars PROVE CycleInv'
    OBVIOUS
  <1>1. CASE AnchorLookupFails
    BY Zenon, <1>1, AnchorLookupFailsInv
  <1>2. CASE StartCycleWithoutAnchor
    BY Zenon, <1>2, StartWithoutRecipientsInv DEF StartCycleWithoutAnchor
  <1>3. CASE StartCycleAnchorUnknown
    <2>1. PICK a \in Anchors : StartWithoutRecipients(FALSE, a)
      BY Zenon, <1>3 DEF StartCycleAnchorUnknown
    <2>2. a \in Heights /\ AnchorFound
      BY Zenon, <1>3, AnchorType DEF CycleInv, StartCycleAnchorUnknown
    <2> QED BY Zenon, <2>1, <2>2, StartWithoutRecipientsInv
  <1>4. CASE StartCycleEmptySet
    <2>1. PICK a \in Anchors : StartWithoutRecipients(TRUE, a)
      BY Zenon, <1>4 DEF StartCycleEmptySet
    <2>2. a \in Heights /\ AnchorFound
      BY Zenon, <1>4, AnchorType DEF CycleInv, StartCycleEmptySet
    <2> QED BY Zenon, <2>1, <2>2, StartWithoutRecipientsInv
  <1>5. CASE StartCycleAnchorKnown
    BY <1>5, StartCycleAnchorKnownInv
  <1>6. CASE DrawRecipient
    BY <1>6, DrawRecipientInv
  <1>7. CASE NoRecipient
    BY <1>7, NoRecipientInv
  <1>8. CASE UNCHANGED cycle_vars
    BY Zenon, <1>8, CycleStutter
  <1> QED BY Zenon, <1>1, <1>2, <1>3, <1>4, <1>5, <1>6, <1>7, <1>8 DEF CycleNext

\* The inductive invariant holds on every fork.
LEMMA InvHolds == CycleSpec => []CycleInv
  BY CycleInvInit, CycleInvNext, PTL DEF CycleSpec

-----------------------------------------------------------------------------
(* The theorems. *)

\* CycleTypeOK: in particular pick_recipient's index stays below the size of the
\* set and every recipient drawn is an entry of a reward set, never a missing
\* one ("CORRUPTION: expected reward set entry").
THEOREM CycleTypeCorrect == CycleSpec => []CycleTypeOK
  BY InvHolds, PTL DEF CycleInv

\* The reward set kept in the sortition index is conserved by the removals of
\* index_add_fork_info, in any fork and for any draws.
THEOREM RewardSetIsConserved == CycleSpec => []RewardSetConserved
  BY InvHolds, PTL DEF CycleInv

\* pick_recipient draws no entry twice in a cycle, and leaves none behind while blocks of
\* the cycle remain.
THEOREM RecipientsAreFair == CycleSpec => []DrawsAreFair
  BY InvHolds, PTL DEF CycleInv, DrawsAreFair

\* The assertion of get_chosen_pox_anchor holds in every reachable state.
THEOREM AnchorIsUnique == CycleSpec => []AtMostOneAnchor
  <1>1. CycleInv => AtMostOneAnchor
    <2> SUFFICES ASSUME CycleInv, NEW a \in Anchors, NEW b \in Anchors PROVE a = b
      BY Zenon DEF AtMostOneAnchor
    <2>1. tip \in Int
      BY PoxConstants, RewardAssumption DEF CycleInv, CycleTypeOK, Heights
    <2> QED BY Zenon, <2>1, AnchorUnique DEF Anchors
  <1> QED BY <1>1, InvHolds, PTL

=============================================================================
