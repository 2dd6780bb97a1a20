-------------------------- MODULE NodeThreadsProofs --------------------------
(***************************************************************************)
(* What the relayer does with what the two other threads send it, for any  *)
(* size of the channel, any burn chain and any number of restarts: network *)
(* results are kept and stay in order, and the blocks this node mined are  *)
(* matched with the sortitions they won.  The second rests on the order of *)
(* the directives: a tenure is asked for once on a burn block, before the  *)
(* sortition of the next block is announced, and nothing the relayer gets  *)
(* in between makes it give up the block.                                  *)
(***************************************************************************)
EXTENDS NodeThreads, SequenceTheorems, WellFoundedInduction, TLAPS

IsSequence(s) == \E S : s \in Seq(S)
Id == Nat \X Nat

-----------------------------------------------------------------------------
(* The inductive invariant. *)

\* The tenures in the commits of this node are among the first n.
Grounded(ops, n) == \A o \in ops : o.op = "commit" => o.block \in 1..n

IsBurnBlock(b, h, n) ==
    /\ b.id \in Id /\ b.id[1] = h /\ b.parent \in Id /\ b.parent[1] = h - 1
    /\ b.winner \in {NoSortition, AnotherMiner} \cup 1..n
    /\ Grounded(b.ops, n)

IsChain(ch, n) == IsSequence(ch) /\ Len(ch) > 0 /\ \A h \in 1..Len(ch) : IsBurnBlock(ch[h], h, n)

\* The burn chain and what the node has of it.
ChainsOK ==
    /\ IsChain(chain, Len(built)) /\ IsChain(view, Len(built)) /\ Len(view) <= Len(chain)
    /\ IsChain(stored, Len(built)) /\ Len(stored) <= Len(chain)
    /\ Grounded(mempool, Len(built)) /\ reorgs \in Nat
    /\ \A b \in seen : b.id[1] \in 1..height /\ IsBurnBlock(b, b.id[1], Len(built))
    /\ \A b, c \in seen : b.id[1] = c.id[1] => b = c

RunLoopOK ==
    /\ scenario \in Scenarios /\ target \in Nat
    /\ pc \in {"start", "sync", "wait", "blocks", "done"}
    /\ height \in 1..Len(view) /\ last.id \in Id /\ last.id[1] = height
    /\ built \in Seq(Id) /\ first_own \in 1..Len(built) + 1
    /\ last_mined_block = <<>> \/ \E t \in first_own..Len(built) : last_mined_block = <<t>>

\* What the run loop sends when it went through the given blocks.
IsNotice(d, blocks) ==
    \/ d.kind = "process" /\ \E b \in blocks : d = ProcessTenure(b)
    \/ d.kind \in {"run", "register"} /\ d.burn \in Id

DirectivesOK ==
    /\ IsSequence(channel) /\ IsSequence(results) /\ IsSequence(sending) /\ Len(sending) <= 1
    /\ fetched \in Nat /\ handled \in Nat
    /\ \A i \in 1..Len(channel) : (channel[i].kind = "net" /\ channel[i].result \in Nat) \/ IsNotice(channel[i], seen)
    /\ \A i \in 1..Len(results) : results[i].kind = "net" /\ results[i].result \in Nat
    /\ \A i \in 1..Len(sending) : IsNotice(sending[i], seen)

\* A burn block's sortition is announced before a tenure is asked for on it.
Time(d) == IF d.kind = "process" THEN 2 * d.id[1] ELSE 2 * d.burn[1] + 1
TenureTime(t) == 2 * built[t][1] + 1

\* How far the run loop is.
Now == IF pc = "blocks" /\ height = Len(view) THEN 2 * height ELSE 2 * height + 1

\* The notices in a sequence of directives, and those the relayer has not heard of.
NoticesIn(s) == {s[i] : i \in {k \in 1..Len(s) : s[k].kind /= "net"}}
Pending == NoticesIn(channel) \cup NoticesIn(sending)

Before(S, T) == \A d \in S, e \in T : Time(d) < Time(e)
Increasing(s) ==
    \A i, j \in 1..Len(s) : i < j /\ s[i].kind /= "net" /\ s[j].kind /= "net" => Time(s[i]) < Time(s[j])

\* Notices come in the order of the burn chain, each once.
NoticesInOrder ==
    /\ Increasing(channel) /\ Before(NoticesIn(channel), NoticesIn(sending))
    /\ \A d \in Pending : Time(d) <= Now

\* They come after the tenures that were run.
TenuresInOrder ==
    \A t \in first_own..Len(built) :
        /\ TenureTime(t) <= Now
        /\ \A d \in Pending : TenureTime(t) < Time(d)
        /\ \A u \in first_own..Len(built) : t < u => TenureTime(t) < TenureTime(u)

\* The block of a tenure is given up when the relayer hears of a later burn block.
GivenUpLate == \A t \in first_own..Len(built) : last_mined_block = <<t>> \/ height > built[t][1]

\* A win that the relayer has not heard of is one of the block it mined last.
WinsAwaited == \A b \in seen : OwnWin(b) /\ ~Notified(b) => last_mined_block = <<b.winner>>

WinsReal == \A id \in won : \E b \in seen : b.id = id /\ OwnWin(b)

BaseInv == ChainsOK /\ RunLoopOK /\ DirectivesOK

OrderInv == NoticesInOrder /\ TenuresInOrder /\ GivenUpLate

Inv == BaseInv /\ OrderInv /\ WinsAwaited /\ WinsReal /\ TenuresMatchWins

-----------------------------------------------------------------------------
(* Sequences of whatever elements. *)

LEMMA SequenceFacts ==
    ASSUME NEW s, IsSequence(s)
    PROVE  Len(s) \in Nat /\ DOMAIN s = 1..Len(s) /\ (s /= <<>> <=> Len(s) > 0)
<1>1. PICK S : s \in Seq(S)
  BY DEF IsSequence
<1> QED
  BY <1>1, LenProperties, EmptySeq

LEMMA SingleFacts ==
    ASSUME NEW x
    PROVE  /\ IsSequence(<<>>) /\ Len(<<>>) = 0
           /\ IsSequence(<<x>>) /\ Len(<<x>>) = 1 /\ <<x>>[1] = x /\ <<x>> /= <<>>
<1>1. <<x>> \in Seq({x}) /\ <<>> \in Seq({x})
  OBVIOUS
<1> QED
  BY Zenon, <1>1 DEF IsSequence

LEMMA AppendFacts ==
    ASSUME NEW s, IsSequence(s), NEW x
    PROVE  /\ IsSequence(Append(s, x)) /\ Len(Append(s, x)) = Len(s) + 1
           /\ \A i \in 1..Len(s) : Append(s, x)[i] = s[i]
           /\ Append(s, x)[Len(s) + 1] = x
<1>1. PICK S : s \in Seq(S)
  BY DEF IsSequence
<1>2. s \in Seq(S \cup {x}) /\ x \in S \cup {x}
  BY <1>1, SeqMonotonic
<1>3. Append(s, x) \in Seq(S \cup {x})
  BY <1>2, AppendProperties
<1> QED
  BY <1>2, <1>3, AppendProperties DEF IsSequence

LEMMA ConcatFacts ==
    ASSUME NEW s, IsSequence(s), NEW t, IsSequence(t)
    PROVE  /\ IsSequence(s \o t) /\ Len(s \o t) = Len(s) + Len(t)
           /\ \A i \in 1..Len(s) : (s \o t)[i] = s[i]
           /\ \A i \in 1..Len(t) : (s \o t)[Len(s) + i] = t[i]
<1>1. PICK S : s \in Seq(S)
  BY DEF IsSequence
<1>2. PICK T : t \in Seq(T)
  BY DEF IsSequence
<1>3. s \in Seq(S \cup T) /\ t \in Seq(S \cup T)
  BY <1>1, <1>2, SeqMonotonic
<1>4. /\ s \o t \in Seq(S \cup T) /\ Len(s \o t) = Len(s) + Len(t)
      /\ \A i \in 1..Len(s) + Len(t) : (s \o t)[i] = IF i <= Len(s) THEN s[i] ELSE t[i - Len(s)]
  BY <1>3, ConcatProperties
<1>5. Len(s) \in Nat /\ Len(t) \in Nat
  BY <1>3, LenProperties
<1>6. \A i \in 1..Len(s) : (s \o t)[i] = s[i]
  BY <1>4, <1>5
<1>7. \A i \in 1..Len(t) : (s \o t)[Len(s) + i] = t[i]
  <2> TAKE i \in 1..Len(t)
  <2>1. Len(s) + i \in 1..Len(s) + Len(t) /\ ~(Len(s) + i <= Len(s)) /\ Len(s) + i - Len(s) = i
    BY <1>5
  <2> QED
    BY <1>4, <2>1
<1> QED
  BY <1>4, <1>6, <1>7 DEF IsSequence

LEMMA TailFacts ==
    ASSUME NEW s, IsSequence(s), s /= <<>>
    PROVE  /\ IsSequence(Tail(s)) /\ Len(Tail(s)) = Len(s) - 1 /\ Len(s) \in Nat \ {0} /\ Head(s) = s[1]
           /\ \A i \in 1..Len(s) - 1 : Tail(s)[i] = s[i + 1]
<1>1. PICK S : s \in Seq(S)
  BY DEF IsSequence
<1>2. /\ Tail(s) \in Seq(S) /\ Len(Tail(s)) = Len(s) - 1
      /\ \A i \in 1..Len(s) - 1 : Tail(s)[i] = s[i + 1]
  BY <1>1, HeadTailProperties
<1>3. Len(s) \in Nat \ {0} /\ Head(s) = s[1]
  BY <1>1, EmptySeq
<1> QED
  BY <1>2, <1>3 DEF IsSequence

LEMMA PrefixFacts ==
    ASSUME NEW s, IsSequence(s), NEW n \in 0..Len(s)
    PROVE  /\ IsSequence(SubSeq(s, 1, n)) /\ Len(SubSeq(s, 1, n)) = n
           /\ \A i \in 1..n : SubSeq(s, 1, n)[i] = s[i]
<1>1. PICK S : s \in Seq(S)
  BY DEF IsSequence
<1>2. Len(s) \in Nat /\ \A i \in 1..n : s[i] \in S
  BY <1>1, LenProperties
<1>3. /\ SubSeq(s, 1, n) \in Seq(S) /\ Len(SubSeq(s, 1, n)) = IF 1 <= n THEN n - 1 + 1 ELSE 0
      /\ \A i \in 1..n - 1 + 1 : SubSeq(s, 1, n)[i] = s[1 + i - 1]
  BY <1>2, SubSeqProperties
<1> QED
  BY <1>2, <1>3 DEF IsSequence

LEMMA SequenceEqual ==
    ASSUME NEW s, IsSequence(s), NEW t, IsSequence(t), Len(s) = Len(t), \A i \in 1..Len(s) : s[i] = t[i]
    PROVE  s = t
<1>1. PICK S : s \in Seq(S)
  BY DEF IsSequence
<1>2. PICK T : t \in Seq(T)
  BY DEF IsSequence
<1>3. s \in Seq(S \cup T) /\ t \in Seq(S \cup T)
  BY <1>1, <1>2, SeqMonotonic
<1> QED
  BY <1>3, SeqEqual

-----------------------------------------------------------------------------
(* Chains. *)

LEMMA MoreBuilt ==
    ASSUME NEW n \in Nat, NEW m \in Nat, n <= m
    PROVE  /\ \A ops : Grounded(ops, n) => Grounded(ops, m)
           /\ \A b, h : IsBurnBlock(b, h, n) => IsBurnBlock(b, h, m)
           /\ \A ch : IsChain(ch, n) => IsChain(ch, m)
<1>1. 1..n \subseteq 1..m
  OBVIOUS
<1>2. \A ops : Grounded(ops, n) => Grounded(ops, m)
  BY Zenon, <1>1 DEF Grounded
<1>3. \A b, h : IsBurnBlock(b, h, n) => IsBurnBlock(b, h, m)
  BY Zenon, <1>1, <1>2 DEF IsBurnBlock
<1>4. \A ch : IsChain(ch, n) => IsChain(ch, m)
  BY Zenon, <1>3 DEF IsChain
<1> QED
  BY Zenon, <1>2, <1>3, <1>4

LEMMA ChainPrefix ==
    ASSUME NEW n \in Nat, NEW ch, IsChain(ch, n), NEW k \in 1..Len(ch)
    PROVE  IsChain(SubSeq(ch, 1, k), n) /\ Len(SubSeq(ch, 1, k)) = k
<1>1. Len(ch) \in Nat /\ k \in 0..Len(ch) /\ k > 0 /\ 1..k \subseteq 1..Len(ch)
  BY SequenceFacts DEF IsChain
<1>2. /\ IsSequence(SubSeq(ch, 1, k)) /\ Len(SubSeq(ch, 1, k)) = k
      /\ \A i \in 1..k : SubSeq(ch, 1, k)[i] = ch[i]
  BY <1>1, PrefixFacts DEF IsChain
<1>3. \A h \in 1..k : IsBurnBlock(ch[h], h, n)
  BY Zenon, <1>1 DEF IsChain
<1>4. \A h \in 1..k : IsBurnBlock(SubSeq(ch, 1, k)[h], h, n)
  BY Zenon, <1>2, <1>3
<1> QED
  BY Zenon, <1>1, <1>2, <1>4 DEF IsChain

LEMMA ChainExtends ==
    ASSUME NEW n \in Nat, NEW ch, IsChain(ch, n), NEW ops, Grounded(ops, n), NEW branch \in Nat,
           NEW ext \in Extensions(ch, branch, ops)
    PROVE  IsChain(ext, n) /\ Len(ext) = Len(ch) + 1
<1>1. PICK winner \in {op.block : op \in {o \in ops : o.op = "commit"}} \cup {NoSortition, AnotherMiner} :
        ext = Append(ch, BurnBlock(Len(ch) + 1, branch, Last(ch).id, ops, winner))
  BY DEF Extensions
<1> DEFINE b == BurnBlock(Len(ch) + 1, branch, Last(ch).id, ops, winner)
           top == Len(ch) + 1
<1>2. winner \in {NoSortition, AnotherMiner} \cup 1..n
  BY DEF Grounded
<1>3. Len(ch) \in Nat /\ Len(ch) \in 1..Len(ch)
  BY SequenceFacts DEF IsChain
<1>4. Last(ch).id \in Id /\ Last(ch).id[1] = Len(ch)
  BY <1>3 DEF IsChain, IsBurnBlock, Last
<1>5. b.id = <<top, branch>> /\ b.parent = Last(ch).id /\ b.ops = ops /\ b.winner = winner
  BY DEF BurnBlock
<1> HIDE DEF b
<1>6. b.id \in Id /\ b.id[1] = top /\ Len(ch) = top - 1
  <2>1. top \in Nat /\ Len(ch) = top - 1
    BY <1>3
  <2> QED
    BY <1>5, <2>1 DEF Id
<1> HIDE DEF top
<1>7. IsBurnBlock(b, top, n)
  <2>1. b.parent \in Id /\ b.parent[1] = top - 1 /\ Grounded(b.ops, n) /\ b.winner \in {NoSortition, AnotherMiner} \cup 1..n
    BY Zenon, <1>2, <1>4, <1>5, <1>6
  <2> QED
    BY Zenon, <1>6, <2>1 DEF IsBurnBlock
<1>8. /\ IsSequence(ext) /\ Len(ext) = top /\ ext[top] = b
      /\ \A i \in 1..Len(ch) : ext[i] = ch[i]
  BY <1>1, AppendFacts DEF IsChain, b, top
<1>9. ASSUME NEW h \in 1..Len(ext) PROVE IsBurnBlock(ext[h], h, n)
  <2>1. CASE h \in 1..Len(ch)
    BY Zenon, <1>8, <2>1 DEF IsChain
  <2>2. CASE h \notin 1..Len(ch)
    <3>1. h = top
      BY <1>3, <1>8, <2>2 DEF top
    <3> QED
      BY Zenon, <1>7, <1>8, <3>1
  <2> QED
    BY Zenon, <2>1, <2>2
<1>10. top > 0
  BY <1>3 DEF top
<1> QED
  BY Zenon, <1>8, <1>9, <1>10 DEF IsChain, top

\* How far the stored blocks and the burn chain agree.
LEMMA CommonPrefix ==
    ASSUME NEW n, IsChain(chain, n), IsChain(stored, n), Len(stored) <= Len(chain)
    PROVE  \E k \in 0..Len(stored) :
             /\ \A i \in 1..k : i <= Len(chain) /\ stored[i] = chain[i]
             /\ k = Len(stored) \/ stored[k + 1] /= chain[k + 1]
<1> DEFINE T == {k \in Nat : k = Len(stored) \/ stored[k + 1] /= chain[k + 1]}
<1>1. Len(stored) \in Nat /\ Len(chain) \in Nat
  BY SequenceFacts DEF IsChain
<1>2. T \subseteq Nat /\ Len(stored) \in T
  BY <1>1
<1> HIDE DEF T
<1>3. \E x \in T : \A y \in T : ~(<<y, x>> \in OpToRel(<, Nat))
  BY Zenon, <1>2, WFMin, NatLessThanWellFounded
<1>4. PICK k \in T : \A y \in T : ~(<<y, k>> \in OpToRel(<, Nat))
  BY Zenon, <1>3
<1>5. k \in Nat /\ \A y \in T : ~(y < k)
  BY Zenon, <1>2, <1>4 DEF OpToRel
<1>6. k \in 0..Len(stored)
  BY <1>1, <1>2, <1>5
<1>7. ASSUME NEW i \in 1..k PROVE i <= Len(chain) /\ stored[i] = chain[i]
  <2>1. i - 1 \in Nat /\ i - 1 < k /\ (i - 1) + 1 = i /\ i <= Len(chain)
    BY <1>1, <1>6
  <2>2. i - 1 \notin T
    BY <1>5, <2>1
  <2> QED
    BY <2>1, <2>2 DEF T
<1> QED
  BY Zenon, <1>4, <1>6, <1>7 DEF T

LEMMA SyncBounds ==
    ASSUME NEW n, IsChain(chain, n), IsChain(stored, n), Len(stored) <= Len(chain), target \in Nat
    PROVE  /\ SyncEnd \in Nat /\ SyncEnd <= Len(chain) /\ SyncStart \in Nat
           /\ SyncEnd > SyncStart => SyncEnd \in 1..Len(chain) /\ SyncStart + 1 \in 1..Len(chain)
<1>1. SyncStart \in 0..Len(stored)
  BY CommonPrefix DEF SyncStart
<1>2. Len(stored) \in Nat /\ Len(chain) \in Nat /\ CycleLength \in Nat
  BY SequenceFacts, NodeAssumption DEF IsChain
<1> QED
  BY <1>1, <1>2 DEF Least, SyncEnd

-----------------------------------------------------------------------------
(* What a step leaves alone. *)

LEMMA BuiltGrows ==
    ASSUME BaseInv, [Next]_vars
    PROVE  /\ Len(built) \in Nat /\ Len(built') \in Nat /\ Len(built) <= Len(built')
           /\ built' \in Seq(Id) /\ \A t \in 1..Len(built) : built'[t] = built[t]
<1> USE DEF BaseInv
<1>1. built \in Seq(Id) /\ Len(built) \in Nat
  BY Zenon, LenProperties DEF RunLoopOK
<1>2. CASE RelayRunTenure
  <2>1. channel /= <<>> /\ Head(channel).kind = "run" /\ built' \in {built, Append(built, Head(channel).burn)}
    BY <1>2 DEF RelayRunTenure, Receives
  <2>2. Head(channel) = channel[1] /\ 1 \in 1..Len(channel)
    BY <2>1, SequenceFacts DEF DirectivesOK
  <2>3. Head(channel).burn \in Id
    BY <2>1, <2>2 DEF DirectivesOK, IsNotice
  <2>4. CASE built' = built
    BY <1>1, <2>4
  <2>5. CASE built' = Append(built, Head(channel).burn)
    BY <1>1, <2>3, <2>5, AppendProperties
  <2> QED
    BY Zenon, <2>1, <2>4, <2>5
<1>3. CASE built' = built
  BY <1>1, <1>3
<1>4. CASE ~RelayRunTenure
  <2>1. CASE UNCHANGED vars
    BY Zenon, <1>3, <2>1 DEF vars, miner
  <2>2. CASE NewBurnBlock \/ Reorg \/ Restart \/ StopCoordinator
    BY Zenon, <1>3, <2>2 DEF NewBurnBlock, Reorg, Restart, StopCoordinator, miner
  <2>3. CASE RunLoop \/ Poll \/ Dispatch
    BY Zenon, <1>3, <2>3 DEF RunLoop, Sync, WaitForSortitions, ProcessBurnchainState, IssueTenure, Send, Poll, Dispatch, miner
  <2>4. CASE Relayer
    BY Zenon, <1>3, <1>4, <2>4 DEF Relayer, RelayNetResult, RelayProcessTenure, RelayRegisterKey, miner
  <2> QED
    BY Zenon, <2>1, <2>2, <2>3, <2>4 DEF Next
<1> QED
  BY Zenon, <1>2, <1>4

\* Everything the burn chain and what the node has of it depend on.
ChainVars == <<chain, stored, view, mempool, reorgs, seen, height>>

LEMMA ChainFrame ==
    ASSUME [Next]_vars
    PROVE  \/ UNCHANGED ChainVars
           \/ NewBurnBlock \/ Reorg \/ Restart \/ Sync \/ WaitForSortitions \/ ProcessBurnchainState
           \/ RelayRunTenure \/ RelayRegisterKey
<1>1. CASE UNCHANGED vars
  BY Zenon, <1>1 DEF vars, ChainVars, burnchain, run_loop
<1>2. CASE StopCoordinator
  BY Zenon, <1>2 DEF StopCoordinator, ChainVars, burnchain, run_loop
<1>3. CASE IssueTenure
  BY Zenon, <1>3 DEF IssueTenure, ChainVars, burnchain
<1>4. CASE Send
  BY Zenon, <1>4 DEF Send, ChainVars, burnchain
<1>5. CASE Poll \/ Dispatch
  BY Zenon, <1>5 DEF Poll, Dispatch, ChainVars, burnchain, run_loop
<1>6. CASE RelayNetResult \/ RelayProcessTenure
  BY Zenon, <1>6 DEF RelayNetResult, RelayProcessTenure, ChainVars, burnchain, run_loop
<1> QED
  BY Zenon, <1>1, <1>2, <1>3, <1>4, <1>5, <1>6 DEF Next, RunLoop, Relayer

LEMMA RestartChains ==
    ASSUME Restart, NEW n \in Nat, IsChain(stored, n), IsChain(view, n),
           Len(view) <= Len(chain), Len(stored) <= Len(chain), Len(chain) \in Nat
    PROVE  /\ IsChain(view', n) /\ Len(view') <= Len(chain)
           /\ IsChain(stored', n) /\ Len(stored') <= Len(chain)
<1>1. Len(view) \in Nat /\ Len(view) > 0 /\ Len(stored) \in Nat
  BY SequenceFacts DEF IsChain
<1>2. ASSUME NEW k \in 1..Len(stored)
      PROVE  IsChain(SubSeq(stored, 1, k), n) /\ Len(SubSeq(stored, 1, k)) <= Len(chain)
  <2>1. k <= Len(chain)
    BY <1>1
  <2> QED
    BY Zenon, <2>1, ChainPrefix
<1>3. IsChain(view', n) /\ Len(view') <= Len(chain)
  <2>1. view' \in {view} \cup {SubSeq(stored, 1, k) : k \in Len(view)..Len(stored)}
    BY DEF Restart, Sortitions
  <2>2. Len(view)..Len(stored) \subseteq 1..Len(stored)
    BY <1>1
  <2> QED
    BY Zenon, <1>2, <2>1, <2>2
<1>4. IsChain(stored', n) /\ Len(stored') <= Len(chain)
  <2>1. stored' = stored \/ \E k \in Len(view')..Len(stored) : stored' = SubSeq(stored, 1, k)
    BY Zenon DEF Restart
  <2>2. Len(view') \in Nat /\ Len(view') > 0
    BY Zenon, <1>3, SequenceFacts DEF IsChain
  <2>3. Len(view')..Len(stored) \subseteq 1..Len(stored)
    BY <1>1, <2>2
  <2> QED
    BY Zenon, <1>2, <2>1, <2>3
<1> QED
  BY Zenon, <1>3, <1>4

LEMMA ChainsStep ==
    ASSUME BaseInv, [Next]_vars
    PROVE  ChainsOK'
<1> DEFINE n == Len(built)
           m == Len(built')
           SeenOK(S, h) == /\ \A b \in S : b.id[1] \in 1..h /\ IsBurnBlock(b, b.id[1], m)
                           /\ \A b, c \in S : b.id[1] = c.id[1] => b = c
<1>1. n \in Nat /\ m \in Nat /\ n <= m
  BY Zenon, BuiltGrows
<1>2. /\ IsChain(chain, m) /\ IsChain(view, m) /\ Len(view) <= Len(chain)
      /\ IsChain(stored, m) /\ Len(stored) <= Len(chain)
      /\ Grounded(mempool, m) /\ reorgs \in Nat
  BY Zenon, <1>1, MoreBuilt DEF BaseInv, ChainsOK
<1>3. SeenOK(seen, height)
  BY Zenon, <1>1, MoreBuilt DEF BaseInv, ChainsOK
<1>4. Len(chain) \in Nat /\ Len(view) \in Nat /\ Len(stored) \in Nat /\ height \in 1..Len(view) /\ target \in Nat
  BY Zenon, <1>2, SequenceFacts DEF IsChain, BaseInv, RunLoopOK
<1> SUFFICES /\ IsChain(chain', m) /\ IsChain(view', m) /\ Len(view') <= Len(chain')
             /\ IsChain(stored', m) /\ Len(stored') <= Len(chain')
             /\ Grounded(mempool', m) /\ reorgs' \in Nat /\ SeenOK(seen', height')
  BY Zenon DEF ChainsOK
<1> HIDE DEF m, SeenOK
<1>5. CASE UNCHANGED ChainVars
  BY Zenon, <1>2, <1>3, <1>5 DEF ChainVars
<1>6. CASE NewBurnBlock
  <2>1. UNCHANGED <<stored, view, reorgs, seen, height>>
    BY Zenon, <1>6 DEF NewBurnBlock, run_loop
  <2>2. PICK ops \in SUBSET mempool : chain' \in Extensions(chain, reorgs, ops) /\ mempool' = mempool \ ops
    BY Zenon, <1>6 DEF NewBurnBlock
  <2>3. Grounded(ops, m) /\ Grounded(mempool', m)
    BY Zenon, <1>2, <2>2 DEF Grounded
  <2>4. IsChain(chain', m) /\ Len(chain') = Len(chain) + 1
    BY Zenon, <1>1, <1>2, <2>2, <2>3, ChainExtends
  <2>5. Len(view) <= Len(chain) + 1 /\ Len(stored) <= Len(chain) + 1
    BY <1>2, <1>4
  <2> QED
    BY Zenon, <1>2, <1>3, <2>1, <2>3, <2>4, <2>5
<1>7. CASE Reorg
  <2> DEFINE pending == mempool \cup Last(chain).ops
             front == Front(chain)
  <2>1. UNCHANGED <<stored, view, seen, height>> /\ reorgs' = reorgs + 1 /\ Len(chain) > StartHeight
    BY Zenon, <1>7 DEF Reorg, run_loop
  <2>2. PICK ops \in SUBSET pending :
          /\ \E ch \in Extensions(front, reorgs', ops) : chain' \in Extensions(ch, reorgs', {})
          /\ mempool' = pending \ ops
    BY Zenon, <1>7 DEF Reorg
  <2>3. PICK ch \in Extensions(front, reorgs', ops) : chain' \in Extensions(ch, reorgs', {})
    BY Zenon, <2>2
  <2>4. Len(chain) \in 1..Len(chain) /\ Len(chain) - 1 \in 1..Len(chain) /\ reorgs' \in Nat
    BY <1>2, <1>4, <2>1, NodeAssumption
  <2>5. Grounded(Last(chain).ops, m)
    BY Zenon, <1>2, <2>4 DEF IsChain, IsBurnBlock, Last
  <2>6. Grounded(pending, m)
    BY Zenon, <1>2, <2>5 DEF Grounded
  <2>7. Grounded(ops, m) /\ Grounded(mempool', m) /\ Grounded({}, m)
    BY Zenon, <2>2, <2>6 DEF Grounded
  <2>8. IsChain(front, m) /\ Len(front) = Len(chain) - 1
    BY Zenon, <1>1, <1>2, <2>4, ChainPrefix DEF Front
  <2> HIDE DEF front
  <2>9. IsChain(ch, m) /\ Len(ch) = Len(front) + 1
    BY <1>1, <2>3, <2>4, <2>7, <2>8, ChainExtends
  <2>10. IsChain(chain', m) /\ Len(chain') = Len(ch) + 1
    BY <1>1, <2>3, <2>4, <2>7, <2>9, ChainExtends
  <2>11. Len(view) <= Len(chain') /\ Len(stored) <= Len(chain')
    BY <1>2, <1>4, <2>8, <2>9, <2>10
  <2> QED
    BY Zenon, <1>2, <1>3, <2>1, <2>4, <2>7, <2>10, <2>11
<1>8. CASE Restart
  <2>1. UNCHANGED <<chain, mempool, reorgs>> /\ seen' = {}
    BY Zenon, <1>8 DEF Restart, Boot, burnchain
  <2>2. SeenOK({}, height')
    BY Zenon DEF SeenOK
  <2>3. IsChain(view', m) /\ Len(view') <= Len(chain) /\ IsChain(stored', m) /\ Len(stored') <= Len(chain)
    BY Zenon, <1>1, <1>2, <1>4, <1>8, RestartChains
  <2> QED
    BY Zenon, <1>2, <2>1, <2>2, <2>3
<1>9. CASE Sync
  <2>1. UNCHANGED <<chain, mempool, reorgs, seen, height>> /\ view' = view
    BY Zenon, <1>9 DEF Sync, Synced, burnchain
  <2>2. \/ stored' = stored
        \/ SyncEnd > SyncStart /\ (stored' = SubSeq(chain, 1, SyncEnd) \/ stored' = SubSeq(chain, 1, SyncStart + 1))
    BY Zenon, <1>9 DEF Sync
  <2>3. ASSUME NEW k \in 1..Len(chain), stored' = SubSeq(chain, 1, k)
        PROVE  IsChain(stored', m) /\ Len(stored') <= Len(chain)
    <3>1. k <= Len(chain)
      BY <1>4
    <3> QED
      BY Zenon, <1>1, <1>2, <2>3, <3>1, ChainPrefix
  <2>4. SyncEnd > SyncStart => SyncEnd \in 1..Len(chain) /\ SyncStart + 1 \in 1..Len(chain)
    BY Zenon, <1>2, <1>4, SyncBounds
  <2> QED
    BY Zenon, <1>2, <1>3, <2>1, <2>2, <2>3, <2>4
<1>13. CASE WaitForSortitions
  <2>1. UNCHANGED <<chain, stored, mempool, reorgs, seen, height>> /\ (view' = view \/ view' = stored)
    BY Zenon, <1>13 DEF WaitForSortitions, Synced, burnchain
  <2> QED
    BY Zenon, <1>2, <1>3, <2>1
<1>10. CASE ProcessBurnchainState
  <2> DEFINE b == view[height + 1]
  <2>1. /\ UNCHANGED <<chain, stored, mempool, reorgs, view>>
        /\ height < Len(view) /\ height' = height + 1 /\ seen' = seen \cup {b}
    BY Zenon, <1>10 DEF ProcessBurnchainState, burnchain
  <2>2. height + 1 \in 1..Len(view) /\ 1..height \subseteq 1..(height + 1) /\ height + 1 \notin 1..height
        /\ height + 1 \in 1..(height + 1)
    BY <1>4, <2>1
  <2>3. IsBurnBlock(b, height + 1, m) /\ b.id[1] = height + 1
    BY Zenon, <1>2, <2>2 DEF IsChain, IsBurnBlock
  <2> HIDE DEF b
  <2>4. SeenOK(seen \cup {b}, height + 1)
    BY <1>3, <2>2, <2>3 DEF SeenOK
  <2> QED
    BY Zenon, <1>2, <2>1, <2>4
<1>11. CASE RelayRunTenure
  <2>1. UNCHANGED <<chain, stored, reorgs, view, seen, height>>
    BY Zenon, <1>11 DEF RelayRunTenure, run_loop
  <2>2. \/ mempool' = mempool
        \/ built' = Append(built, Head(channel).burn) /\ mempool' = mempool \cup {BlockCommit(n + 1)}
    BY ZenonT(30), <1>11 DEF RelayRunTenure, Submit
  <2>3. ASSUME built' = Append(built, Head(channel).burn), mempool' = mempool \cup {BlockCommit(n + 1)}
        PROVE  Grounded(mempool', m)
    <3>1. IsSequence(built)
      BY Zenon DEF BaseInv, RunLoopOK, IsSequence
    <3>2. m = n + 1
      BY Zenon, <2>3, <3>1, AppendFacts DEF m
    <3>3. n + 1 \in 1..m
      BY <1>1, <3>2
    <3>4. BlockCommit(n + 1).block = n + 1
      BY DEF BlockCommit
    <3> QED
      BY Zenon, <1>2, <2>3, <3>3, <3>4 DEF Grounded
  <2> QED
    BY Zenon, <1>2, <1>3, <2>1, <2>2, <2>3
<1>12. CASE RelayRegisterKey
  <2>1. UNCHANGED <<chain, stored, reorgs, view, seen, height>>
    BY Zenon, <1>12 DEF RelayRegisterKey, run_loop
  <2>2. PICK key : mempool' = mempool \/ mempool' = mempool \cup {KeyRegister(key)}
    BY Zenon, <1>12 DEF RelayRegisterKey, Submit
  <2>3. KeyRegister(key).op = "key"
    BY DEF KeyRegister
  <2>4. Grounded(mempool', m)
    BY <1>2, <2>2, <2>3 DEF Grounded
  <2> QED
    BY Zenon, <1>2, <1>3, <2>1, <2>4
<1> QED
  BY Zenon, <1>5, <1>6, <1>7, <1>8, <1>9, <1>10, <1>11, <1>12, <1>13, ChainFrame

RunLoopVars == <<scenario, target, pc, height, view, last, built, first_own, last_mined_block>>

LEMMA RunLoopFrame ==
    ASSUME [Next]_vars
    PROVE  \/ UNCHANGED RunLoopVars
           \/ Sync \/ WaitForSortitions \/ ProcessBurnchainState \/ IssueTenure \/ Send \/ Restart
           \/ RelayProcessTenure \/ RelayRunTenure
<1> USE DEF RunLoopVars
<1>1. CASE UNCHANGED vars
  BY Zenon, <1>1 DEF vars, run_loop, miner, lives
<1>2. CASE NewBurnBlock
  BY Zenon, <1>2 DEF NewBurnBlock, run_loop, miner, lives
<1>3. CASE Reorg
  BY Zenon, <1>3 DEF Reorg, run_loop, miner, lives
<1>4. CASE StopCoordinator
  BY Zenon, <1>4 DEF StopCoordinator, run_loop, miner, lives
<1>5. CASE Poll \/ Dispatch
  BY Zenon, <1>5 DEF Poll, Dispatch, run_loop, miner, lives
<1>6. CASE RelayNetResult \/ RelayRegisterKey
  BY Zenon, <1>6 DEF RelayNetResult, RelayRegisterKey, run_loop, miner, lives
<1> QED
  BY Zenon, <1>1, <1>2, <1>3, <1>4, <1>5, <1>6 DEF Next, RunLoop, Relayer

LEMMA RunLoopStep ==
    ASSUME BaseInv, [Next]_vars
    PROVE  RunLoopOK'
<1> DEFINE n == Len(built)
           m == Len(built')
           Mined(l, first, top) == l = <<>> \/ \E t \in first..top : l = <<t>>
<1>1. /\ scenario \in Scenarios /\ target \in Nat /\ pc \in {"start", "sync", "wait", "blocks", "done"}
      /\ height \in 1..Len(view) /\ last.id \in Id /\ last.id[1] = height
      /\ first_own \in 1..n + 1 /\ Mined(last_mined_block, first_own, n)
  BY Zenon DEF BaseInv, RunLoopOK
<1>2. n \in Nat /\ m \in Nat /\ n <= m /\ built' \in Seq(Id)
  BY Zenon, BuiltGrows
<1>3. /\ IsChain(chain, n) /\ IsChain(view, n) /\ Len(view) <= Len(chain)
      /\ IsChain(stored, n) /\ Len(stored) <= Len(chain)
  BY Zenon DEF BaseInv, ChainsOK
<1>4. Len(chain) \in Nat /\ Len(view) \in Nat /\ Len(view) > 0
  BY Zenon, <1>3, SequenceFacts DEF IsChain
<1>5. first_own \in 1..m + 1 /\ first_own..n \subseteq first_own..m
  BY <1>1, <1>2
<1>6. Mined(last_mined_block, first_own, m)
  BY Zenon, <1>1, <1>5
<1> HIDE DEF Mined
<1> SUFFICES /\ scenario' \in Scenarios /\ target' \in Nat /\ pc' \in {"start", "sync", "wait", "blocks", "done"}
             /\ height' \in 1..Len(view') /\ last'.id \in Id /\ last'.id[1] = height'
             /\ first_own' \in 1..m + 1 /\ Mined(last_mined_block', first_own', m)
  BY Zenon, <1>2 DEF RunLoopOK, Mined
<1> HIDE DEF m, n
<1>7. CASE UNCHANGED RunLoopVars
  BY Zenon, <1>1, <1>5, <1>6, <1>7 DEF RunLoopVars
<1>8. CASE Sync \/ WaitForSortitions
  <2>1. UNCHANGED <<scenario, height, last, first_own, last_mined_block>>
    BY Zenon, <1>8 DEF Sync, WaitForSortitions, miner, lives
  <2>2. target' = target \/ target' = Least(target + CycleLength, scenario.height)
    BY Zenon, <1>8 DEF Sync, WaitForSortitions, Synced
  <2>3. target' \in Nat
    BY <1>1, <2>2, NodeAssumption DEF Least
  <2>4. pc' \in {"sync", "wait", "blocks", "done"}
    BY Zenon, <1>8 DEF Sync, WaitForSortitions, Synced
  <2>5. view' = view \/ (view' = stored /\ Len(stored) > Len(view))
    BY Zenon, <1>8 DEF Sync, WaitForSortitions, Synced
  <2>6. Len(stored) \in Nat
    BY Zenon, <1>3, SequenceFacts DEF IsChain
  <2>7. height \in 1..Len(view')
    BY <1>1, <1>4, <2>5, <2>6
  <2> QED
    BY Zenon, <1>1, <1>5, <1>6, <2>1, <2>3, <2>4, <2>7
<1>9. CASE ProcessBurnchainState
  <2>1. /\ UNCHANGED <<scenario, target, pc, view, first_own, last_mined_block>>
        /\ height < Len(view) /\ height' = height + 1 /\ last' = view[height + 1]
    BY Zenon, <1>9 DEF ProcessBurnchainState, miner, lives
  <2>2. height + 1 \in 1..Len(view)
    BY <1>1, <1>4, <2>1
  <2>3. last'.id \in Id /\ last'.id[1] = height + 1
    BY Zenon, <1>3, <2>1, <2>2 DEF IsChain, IsBurnBlock
  <2> QED
    BY Zenon, <1>1, <1>5, <1>6, <2>1, <2>2, <2>3
<1>10. CASE IssueTenure \/ Send
  <2>1. /\ UNCHANGED <<scenario, target, height, view, last, first_own, last_mined_block>>
        /\ pc' \in {"sync", "done", pc}
    BY ZenonT(30), <1>10 DEF IssueTenure, Send, miner, lives
  <2> QED
    BY Zenon, <1>1, <1>5, <1>6, <2>1
<1>11. CASE Restart
  <2>1. /\ UNCHANGED <<scenario, built>> /\ first_own' = n + 1 /\ last_mined_block' = <<>>
        /\ target' = CycleLength /\ height' = Len(view') /\ last' = Last(view')
    BY Zenon, <1>11 DEF Restart, Boot, n
  <2>2. pc' \in {"start", "sync"}
    BY Zenon, <1>11 DEF Restart, Boot
  <2>3. IsChain(view', n)
    BY Zenon, <1>2, <1>3, <1>4, <1>11, RestartChains
  <2>4. Len(view') \in Nat /\ Len(view') > 0
    BY Zenon, <2>3, SequenceFacts DEF IsChain
  <2>5. Len(view') \in 1..Len(view') /\ CycleLength \in Nat /\ n + 1 \in 1..n + 1
    BY <1>2, <2>4, NodeAssumption
  <2>6. last'.id \in Id /\ last'.id[1] = Len(view')
    BY Zenon, <2>1, <2>3, <2>5 DEF IsChain, IsBurnBlock, Last
  <2>7. m = n
    BY Zenon, <2>1 DEF m, n
  <2> QED
    BY Zenon, <1>1, <2>1, <2>2, <2>5, <2>6, <2>7 DEF Mined
<1>12. CASE RelayProcessTenure
  <2>1. /\ UNCHANGED <<scenario, target, pc, height, view, last, first_own>> /\ last_mined_block' = <<>>
    BY Zenon, <1>12 DEF RelayProcessTenure, run_loop, lives
  <2> QED
    BY Zenon, <1>1, <1>5, <2>1 DEF Mined
<1>13. CASE RelayRunTenure
  <2>1. UNCHANGED <<scenario, target, pc, height, view, last, first_own>>
    BY Zenon, <1>13 DEF RelayRunTenure, run_loop, lives
  <2>2. \/ last_mined_block' = <<>>
        \/ built' = Append(built, Head(channel).burn) /\ last_mined_block' = <<n + 1>>
    BY Zenon, <1>13 DEF RelayRunTenure, n
  <2>3. ASSUME built' = Append(built, Head(channel).burn) PROVE n + 1 \in first_own..m
    <3>1. IsSequence(built)
      BY Zenon DEF BaseInv, RunLoopOK, IsSequence
    <3>2. m = n + 1
      BY Zenon, <2>3, <3>1, AppendFacts DEF m, n
    <3> QED
      BY <1>1, <1>2, <3>2
  <2> QED
    BY Zenon, <1>1, <1>5, <2>1, <2>2, <2>3 DEF Mined
<1> QED
  BY Zenon, <1>7, <1>8, <1>9, <1>10, <1>11, <1>12, <1>13, RunLoopFrame

DirectiveVars == <<channel, results, sending, fetched, handled, seen>>

LEMMA DirectivesFrame ==
    ASSUME [Next]_vars
    PROVE  \/ UNCHANGED DirectiveVars
           \/ ProcessBurnchainState \/ IssueTenure \/ Send \/ Restart
           \/ Poll \/ Dispatch \/ Relayer
<1> USE DEF DirectiveVars
<1>1. CASE UNCHANGED vars
  BY Zenon, <1>1 DEF vars, run_loop, p2p_thread
<1>2. CASE NewBurnBlock
  BY Zenon, <1>2 DEF NewBurnBlock, run_loop, p2p_thread
<1>3. CASE Reorg
  BY Zenon, <1>3 DEF Reorg, run_loop, p2p_thread
<1>4. CASE StopCoordinator
  BY Zenon, <1>4 DEF StopCoordinator, run_loop, p2p_thread
<1>5. CASE Sync \/ WaitForSortitions
  BY Zenon, <1>5 DEF Sync, WaitForSortitions, p2p_thread
<1> QED
  BY Zenon, <1>1, <1>2, <1>3, <1>4, <1>5 DEF Next, RunLoop

\* What the relayer takes from the channel.
LEMMA RelayerReceives ==
    ASSUME BaseInv, Relayer
    PROVE  /\ channel /= <<>> /\ channel' = Tail(channel) /\ Head(channel) = channel[1] /\ relayer
           /\ IsSequence(channel') /\ Len(channel') = Len(channel) - 1 /\ Len(channel) \in Nat \ {0}
           /\ \A i \in 1..Len(channel') : channel'[i] = channel[i + 1] /\ i + 1 \in 1..Len(channel)
           /\ Head(channel).kind = "net" => RelayNetResult
           /\ Head(channel).kind = "process" => RelayProcessTenure
           /\ Head(channel).kind = "run" => RelayRunTenure
           /\ Head(channel).kind = "register" => RelayRegisterKey
           /\ UNCHANGED <<chain, reorgs, view, coordinator, run_loop, p2p_thread, lives>>
           /\ ~RelayNetResult => UNCHANGED handled
<1>1. channel /= <<>> /\ channel' = Tail(channel) /\ relayer
  BY Zenon DEF Relayer, RelayNetResult, RelayProcessTenure, RelayRunTenure, RelayRegisterKey, Receives
<1>2. IsSequence(channel)
  BY Zenon DEF BaseInv, DirectivesOK
<1>3. /\ Head(channel) = channel[1] /\ IsSequence(channel') /\ Len(channel') = Len(channel) - 1
      /\ \A i \in 1..Len(channel') : channel'[i] = channel[i + 1]
  BY Zenon, <1>1, <1>2, TailFacts
<1>4. Len(channel) \in Nat \ {0}
  BY <1>1, <1>2, SequenceFacts
<1>5. \A i \in 1..Len(channel') : i + 1 \in 1..Len(channel)
  BY <1>3, <1>4
<1>6. /\ Head(channel).kind = "net" => RelayNetResult
      /\ Head(channel).kind = "process" => RelayProcessTenure
      /\ Head(channel).kind = "run" => RelayRunTenure
      /\ Head(channel).kind = "register" => RelayRegisterKey
  BY DEF Relayer, RelayNetResult, RelayProcessTenure, RelayRunTenure, RelayRegisterKey, Receives
<1>7. UNCHANGED <<chain, reorgs, view, coordinator, run_loop, p2p_thread, lives>>
  <2>1. CASE RelayNetResult
    BY Zenon, <2>1 DEF RelayNetResult, burnchain
  <2>2. CASE RelayProcessTenure
    BY Zenon, <2>2 DEF RelayProcessTenure, burnchain
  <2>3. CASE RelayRunTenure
    BY Zenon, <2>3 DEF RelayRunTenure
  <2>4. CASE RelayRegisterKey
    BY Zenon, <2>4 DEF RelayRegisterKey
  <2> QED
    BY Zenon, <2>1, <2>2, <2>3, <2>4 DEF Relayer
<1>8. ~RelayNetResult => UNCHANGED handled
  BY Zenon DEF Relayer, RelayProcessTenure, RelayRunTenure, RelayRegisterKey
<1> QED
  BY Zenon, <1>1, <1>3, <1>4, <1>5, <1>6, <1>7, <1>8

LEMMA MoreSeen ==
    ASSUME NEW S, NEW T, S \subseteq T, NEW d, IsNotice(d, S)
    PROVE  IsNotice(d, T)
  BY Zenon DEF IsNotice

LEMMA HeadAndTail ==
    ASSUME NEW s, IsSequence(s), s /= <<>>
    PROVE  <<Head(s)>> \o Tail(s) = s
<1> DEFINE t == <<Head(s)>> \o Tail(s)
<1>1. /\ IsSequence(Tail(s)) /\ Len(Tail(s)) = Len(s) - 1 /\ Len(s) \in Nat \ {0}
      /\ Head(s) = s[1] /\ \A i \in 1..Len(s) - 1 : Tail(s)[i] = s[i + 1]
  BY Zenon, TailFacts
<1>2. IsSequence(<<Head(s)>>) /\ Len(<<Head(s)>>) = 1 /\ <<Head(s)>>[1] = Head(s)
  BY Zenon, SingleFacts
<1>3. /\ IsSequence(t) /\ Len(t) = 1 + Len(Tail(s))
      /\ \A i \in 1..1 : t[i] = <<Head(s)>>[i]
      /\ \A i \in 1..Len(Tail(s)) : t[1 + i] = Tail(s)[i]
  BY <1>1, <1>2, ConcatFacts
<1> HIDE DEF t
<1>4. Len(t) = Len(s)
  BY <1>1, <1>3
<1>5. ASSUME NEW i \in 1..Len(t) PROVE t[i] = s[i]
  <2>1. CASE i = 1
    BY <1>1, <1>2, <1>3, <2>1
  <2>2. CASE i /= 1
    <3>1. i - 1 \in 1..Len(Tail(s)) /\ i - 1 \in 1..Len(s) - 1 /\ 1 + (i - 1) = i /\ (i - 1) + 1 = i
      BY <1>1, <1>4, <2>2
    <3> QED
      BY <1>1, <1>3, <3>1
  <2> QED
    BY <2>1, <2>2
<1> QED
  BY Zenon, <1>3, <1>4, <1>5, SequenceEqual DEF t

LEMMA DirectivesStep ==
    ASSUME BaseInv, [Next]_vars
    PROVE  DirectivesOK'
<1> DEFINE IsNet(d) == d.kind = "net" /\ d.result \in Nat
           Channel(s, S) == IsSequence(s) /\ \A i \in 1..Len(s) : IsNet(s[i]) \/ IsNotice(s[i], S)
           Results(s) == IsSequence(s) /\ \A i \in 1..Len(s) : IsNet(s[i])
           Sending(s, S) == IsSequence(s) /\ Len(s) <= 1 /\ \A i \in 1..Len(s) : IsNotice(s[i], S)
<1>1. Channel(channel, seen) /\ Results(results) /\ Sending(sending, seen) /\ fetched \in Nat /\ handled \in Nat
  BY Zenon DEF BaseInv, DirectivesOK
<1> SUFFICES /\ Channel(channel', seen') /\ Results(results') /\ Sending(sending', seen')
             /\ fetched' \in Nat /\ handled' \in Nat
  BY Zenon DEF DirectivesOK
<1>2. /\ \A S : Channel(<<>>, S) /\ Sending(<<>>, S)
      /\ Results(<<>>)
      /\ \A d, S : IsNotice(d, S) => Sending(<<d>>, S)
  <2>1. 1..Len(<<>>) = {} /\ IsSequence(<<>>) /\ Len(<<>>) <= 1
    <3>1. IsSequence(<<>>) /\ Len(<<>>) = 0
      BY Zenon, SingleFacts
    <3>2. 1..0 = {} /\ 0 <= 1
      OBVIOUS
    <3> QED
      BY Zenon, <3>1, <3>2
  <2>2. ASSUME NEW d PROVE IsSequence(<<d>>) /\ Len(<<d>>) <= 1 /\ \A i \in 1..Len(<<d>>) : <<d>>[i] = d
    BY SingleFacts
  <2> QED
    BY <2>1, <2>2
<1>3. last.id \in Id
  BY Zenon DEF BaseInv, RunLoopOK
<1>4. CASE UNCHANGED DirectiveVars
  BY Zenon, <1>1, <1>4 DEF DirectiveVars
<1>5. CASE ProcessBurnchainState
  <2> DEFINE b == view[height + 1]
  <2>1. /\ UNCHANGED <<results, fetched, handled, channel>> /\ seen' = seen \cup {b}
        /\ sending' = <<>> \/ sending' = <<ProcessTenure(b)>>
    BY Zenon, <1>5 DEF ProcessBurnchainState, p2p_thread
  <2>2. IsNotice(ProcessTenure(b), seen')
    BY <2>1 DEF IsNotice, ProcessTenure
  <2> HIDE DEF b
  <2>3. Channel(channel, seen')
    BY Zenon, <1>1, <2>1, MoreSeen
  <2> HIDE DEF Channel, Sending, Results
  <2> QED
    BY Zenon, <1>1, <1>2, <2>1, <2>2, <2>3
<1>6. CASE IssueTenure
  <2>1. /\ UNCHANGED <<results, fetched, handled, channel, seen>>
        /\ \/ sending' = <<>> \/ sending' = <<RegisterKey(last)>>
           \/ sending' = <<RunTenure(Head(active_keys), last)>>
    BY Zenon, <1>6 DEF IssueTenure, p2p_thread
  <2>2. IsNotice(RegisterKey(last), seen) /\ IsNotice(RunTenure(Head(active_keys), last), seen)
    BY <1>3 DEF IsNotice, RegisterKey, RunTenure
  <2> HIDE DEF Channel, Sending, Results
  <2> QED
    BY Zenon, <1>1, <1>2, <2>1, <2>2
<1>7. CASE Send
  <2>1. /\ UNCHANGED <<results, fetched, handled, seen>> /\ sending' = <<>>
        /\ channel' = channel \/ channel' = channel \o sending
    BY Zenon, <1>7 DEF Send, p2p_thread
  <2>2. Channel(channel \o sending, seen)
    <3>1. /\ IsSequence(channel \o sending) /\ Len(channel \o sending) = Len(channel) + Len(sending)
          /\ \A i \in 1..Len(channel) : (channel \o sending)[i] = channel[i]
          /\ \A i \in 1..Len(sending) : (channel \o sending)[Len(channel) + i] = sending[i]
      <4>1. IsSequence(channel) /\ IsSequence(sending)
        BY Zenon, <1>1
      <4> QED
        BY <4>1, ConcatFacts
    <3>2. Len(channel) \in Nat /\ Len(sending) \in Nat
      BY Zenon, <1>1, SequenceFacts
    <3>3. ASSUME NEW i \in 1..Len(channel \o sending)
          PROVE  i \in 1..Len(channel) \/ \E j \in 1..Len(sending) : i = Len(channel) + j
      <4>1. ASSUME i \notin 1..Len(channel)
            PROVE  i - Len(channel) \in 1..Len(sending) /\ i = Len(channel) + (i - Len(channel))
        BY <3>1, <3>2, <4>1
      <4> QED
        BY Zenon, <4>1
    <3> QED
      BY Zenon, <1>1, <3>1, <3>3
  <2> HIDE DEF Channel, Sending, Results
  <2> QED
    BY Zenon, <1>1, <1>2, <2>1, <2>2
<1>8. CASE Restart
  <2>1. /\ channel' = <<>> /\ results' = <<>> /\ sending' = <<>> /\ fetched' = 0 /\ handled' = 0
    BY Zenon, <1>8 DEF Restart, Boot
  <2>2. 0 \in Nat
    OBVIOUS
  <2> HIDE DEF Channel, Sending, Results
  <2> QED
    BY Zenon, <1>2, <2>1, <2>2
<1>9. CASE Poll
  <2>1. /\ UNCHANGED <<channel, sending, seen, handled>>
        /\ \/ UNCHANGED <<results, fetched>>
           \/ fetched' = fetched + 1 /\ results' = Append(results, HandleNetResult(fetched + 1))
    BY Zenon, <1>9 DEF Poll, run_loop
  <2>2. Results(Append(results, HandleNetResult(fetched + 1))) /\ fetched + 1 \in Nat
    <3>1. IsNet(HandleNetResult(fetched + 1)) /\ fetched + 1 \in Nat
      BY <1>1 DEF HandleNetResult
    <3>2. /\ IsSequence(Append(results, HandleNetResult(fetched + 1))) 
          /\ Len(Append(results, HandleNetResult(fetched + 1))) = Len(results) + 1
          /\ \A i \in 1..Len(results) : Append(results, HandleNetResult(fetched + 1))[i] = results[i]
          /\ Append(results, HandleNetResult(fetched + 1))[Len(results) + 1] = HandleNetResult(fetched + 1)
      BY <1>1, AppendFacts
    <3>3. \A i \in 1..Len(results) + 1 : i \in 1..Len(results) \/ i = Len(results) + 1
      BY <1>1, SequenceFacts
    <3> HIDE DEF IsNet
    <3> QED
      BY Zenon, <1>1, <3>1, <3>2, <3>3
  <2> HIDE DEF Channel, Sending, Results
  <2> QED
    BY Zenon, <1>1, <2>1, <2>2
<1>10. CASE Dispatch
  <2>1. UNCHANGED <<sending, seen, handled, fetched>>
    BY Zenon, <1>10 DEF Dispatch, run_loop
  <2>2. \/ UNCHANGED <<results, channel>>
        \/ results /= <<>> /\ results' = KeptResults /\ UNCHANGED channel
        \/ results /= <<>> /\ results' = Tail(results) /\ channel' \in {channel, Append(channel, Head(results))}
    BY Zenon, <1>10 DEF Dispatch
  <2>3. ASSUME results /= <<>> PROVE Results(Tail(results)) /\ Channel(Append(channel, Head(results)), seen)
    <3>1. /\ IsSequence(Tail(results)) /\ Len(Tail(results)) = Len(results) - 1 /\ Len(results) \in Nat \ {0}
          /\ Head(results) = results[1] /\ \A i \in 1..Len(results) - 1 : Tail(results)[i] = results[i + 1]
      BY Zenon, <1>1, <2>3, TailFacts
    <3>2. 1 \in 1..Len(results) /\ \A i \in 1..Len(results) - 1 : i + 1 \in 1..Len(results)
      BY <3>1
    <3>3. IsNet(Head(results)) /\ Results(Tail(results))
      BY <1>1, <3>1, <3>2
    <3>4. /\ IsSequence(Append(channel, Head(results))) 
          /\ Len(Append(channel, Head(results))) = Len(channel) + 1
          /\ \A i \in 1..Len(channel) : Append(channel, Head(results))[i] = channel[i]
          /\ Append(channel, Head(results))[Len(channel) + 1] = Head(results)
      BY <1>1, AppendFacts
    <3>5. \A i \in 1..Len(channel) + 1 : i \in 1..Len(channel) \/ i = Len(channel) + 1
      BY <1>1, SequenceFacts
    <3> HIDE DEF IsNet
    <3> QED
      BY Zenon, <1>1, <3>3, <3>4, <3>5
  <2>4. ASSUME results /= <<>> PROVE KeptResults = results
    BY Zenon, <1>1, <2>4, HeadAndTail DEF KeptResults
  <2> HIDE DEF Channel, Sending, Results
  <2> QED
    BY Zenon, <1>1, <2>1, <2>2, <2>3, <2>4
<1>11. CASE Relayer
  <2>1. /\ UNCHANGED <<results, sending, seen, fetched>> /\ IsSequence(channel')
        /\ \A i \in 1..Len(channel') : channel'[i] = channel[i + 1] /\ i + 1 \in 1..Len(channel)
    BY Zenon, <1>11, RelayerReceives DEF run_loop, p2p_thread
  <2>2. Channel(channel', seen)
    BY Zenon, <1>1, <2>1
  <2>3. handled' \in Nat
    <3>1. CASE RelayNetResult
      <4>1. Head(channel).kind = "net" /\ handled' = Head(channel).result
        BY Zenon, <3>1 DEF RelayNetResult, Receives
      <4>2. Head(channel) = channel[1] /\ 1 \in 1..Len(channel)
        BY <1>11, RelayerReceives
      <4>3. ~IsNotice(channel[1], seen)
        BY <4>1, <4>2 DEF IsNotice
      <4> QED
        BY Zenon, <1>1, <4>1, <4>2, <4>3
    <3>2. CASE ~RelayNetResult
      BY Zenon, <1>1, <1>11, <3>2, RelayerReceives
    <3> QED
      BY Zenon, <3>1, <3>2
  <2> HIDE DEF Channel, Sending, Results
  <2> QED
    BY Zenon, <1>1, <2>1, <2>2, <2>3
<1> QED
  BY Zenon, <1>4, <1>5, <1>6, <1>7, <1>8, <1>9, <1>10, <1>11, DirectivesFrame

LEMMA BaseInit == Init => BaseInv
<1> SUFFICES ASSUME Init PROVE BaseInv
  OBVIOUS
<1>1. PICK old \in 0..StartHeight :
        chain = [h \in 1..StartHeight |->
            BurnBlock(h, 0, <<h - 1, 0>>, IF h = old THEN {KeyRegister(OldKey)} ELSE {}, NoSortition)]
  BY DEF Init
<1>2. StartHeight \in Nat \ {0} /\ 1 \in 1..StartHeight
  BY NodeAssumption
<1>3. built = <<>> /\ Len(built) = 0 /\ built \in Seq(Id) /\ 0 \in Nat
  BY DEF Init
<1>4. IsChain(chain, 0) /\ Len(chain) = StartHeight
  <2>1. chain \in Seq({chain[h] : h \in 1..StartHeight}) /\ Len(chain) = StartHeight
    <3> DEFINE S == {chain[h] : h \in 1..StartHeight}
    <3>1. DOMAIN chain = 1..StartHeight /\ chain = [h \in 1..StartHeight |-> chain[h]]
      BY Zenon, <1>1
    <3>2. chain \in [1..StartHeight -> S]
      BY Zenon, <3>1
    <3> HIDE DEF S
    <3>3. chain \in Seq(S)
      BY <1>2, <3>2
    <3>4. Len(chain) = StartHeight
      BY <1>2, <3>1, <3>3, LenProperties
    <3> QED
      BY Zenon, <3>3, <3>4 DEF S
  <2>2. ASSUME NEW h \in 1..StartHeight PROVE IsBurnBlock(chain[h], h, 0)
    <3> DEFINE ops == IF h = old THEN {KeyRegister(OldKey)} ELSE {}
    <3>1. chain[h] = BurnBlock(h, 0, <<h - 1, 0>>, ops, NoSortition)
      BY Zenon, <1>1
    <3>2. \A o \in ops : o.op /= "commit"
      BY DEF KeyRegister
    <3> HIDE DEF ops
    <3>3. /\ chain[h].id = <<h, 0>> /\ chain[h].parent = <<h - 1, 0>> /\ chain[h].ops = ops
          /\ chain[h].winner = NoSortition
      BY <3>1 DEF BurnBlock
    <3>4. <<h, 0>> \in Id /\ <<h - 1, 0>> \in Id /\ <<h, 0>>[1] = h /\ <<h - 1, 0>>[1] = h - 1
      BY <1>2 DEF Id
    <3>5. Grounded(ops, 0)
      BY Zenon, <3>2 DEF Grounded
    <3> QED
      BY Zenon, <3>3, <3>4, <3>5 DEF IsBurnBlock
  <2>3. StartHeight > 0
    BY <1>2
  <2> QED
    BY Zenon, <2>1, <2>2, <2>3 DEF IsChain, IsSequence
<1>5. IsChain(view, 0) /\ Len(view) = 1
  <2>1. view = SubSeq(chain, 1, 1) /\ 1 \in 1..Len(chain)
    BY Zenon, <1>2, <1>4 DEF Init
  <2> QED
    BY <1>3, <1>4, <2>1, ChainPrefix
<1>6. 1 <= StartHeight
  BY <1>2
<1>7. ChainsOK
  BY Zenon, <1>3, <1>4, <1>5, <1>6 DEF Init, ChainsOK, Grounded
<1>8. RunLoopOK
  <2>1. last.id \in Id /\ last.id[1] = 1
    BY Zenon, <1>2, <1>4 DEF Init, IsChain, IsBurnBlock
  <2>2. CycleLength \in Nat /\ 1 \in 1..1 /\ 1 \in 1..0 + 1
    BY NodeAssumption
  <2> QED
    BY Zenon, <1>3, <1>5, <2>1, <2>2 DEF Init, RunLoopOK
<1>9. DirectivesOK
  <2>1. IsSequence(<<>>) /\ Len(<<>>) = 0
    BY Zenon, SingleFacts
  <2>2. 1..0 = {} /\ 0 <= 1
    OBVIOUS
  <2> QED
    BY Zenon, <1>3, <2>1, <2>2 DEF Init, DirectivesOK
<1> QED
  BY Zenon, <1>7, <1>8, <1>9 DEF BaseInv

LEMMA BaseStep ==
    ASSUME BaseInv, [Next]_vars
    PROVE  BaseInv'
  BY Zenon, ChainsStep, RunLoopStep, DirectivesStep DEF BaseInv

-----------------------------------------------------------------------------
(* The notices. *)

LEMMA PendingFacts ==
    ASSUME BaseInv
    PROVE  /\ \A d \in Pending : IsNotice(d, seen) /\ Time(d) \in Int
           /\ \A b : Notified(b) <=> \A d \in Pending : d.kind = "process" => d.id /= b.id
<1>1. \A d \in Pending : IsNotice(d, seen)
  BY Zenon DEF Pending, NoticesIn, BaseInv, DirectivesOK
<1>2. ASSUME NEW d \in Pending PROVE Time(d) \in Int
  <2>1. CASE d.kind = "process"
    <3>1. PICK b \in seen : d = ProcessTenure(b)
      BY <1>1, <2>1 DEF IsNotice
    <3>2. d.id = b.id
      BY <3>1 DEF ProcessTenure
    <3>3. d.id \in Id
      BY Zenon, <3>2 DEF BaseInv, ChainsOK, IsBurnBlock
    <3> QED
      BY <2>1, <3>3 DEF Time, Id
  <2>2. CASE d.kind /= "process"
    <3>1. d.burn \in Id
      BY Zenon, <1>1, <2>2 DEF IsNotice
    <3> QED
      BY <2>2, <3>1 DEF Time, Id
  <2> QED
    BY Zenon, <2>1, <2>2
<1>3. ASSUME NEW b
      PROVE  Notified(b) <=> \A d \in Pending : d.kind = "process" => d.id /= b.id
  <2> DEFINE both == channel \o sending
  <2>1. IsSequence(channel) /\ IsSequence(sending)
    BY Zenon DEF BaseInv, DirectivesOK
  <2>2. /\ Len(both) = Len(channel) + Len(sending)
        /\ \A i \in 1..Len(channel) : both[i] = channel[i]
        /\ \A i \in 1..Len(sending) : both[Len(channel) + i] = sending[i]
    BY <2>1, ConcatFacts
  <2>3. Len(channel) \in Nat /\ Len(sending) \in Nat
    BY Zenon, <2>1, SequenceFacts
  <2>4. Notified(b) <=> \A i \in 1..Len(both) : both[i].kind = "process" => both[i].id /= b.id
    BY Zenon DEF Notified
  <2> HIDE DEF both
  <2>5. ASSUME NEW i \in 1..Len(both), both[i].kind = "process" PROVE both[i] \in Pending
    <3>1. CASE i \in 1..Len(channel)
      <4>1. both[i] = channel[i] /\ channel[i].kind /= "net"
        BY <2>2, <2>5, <3>1
      <4> QED
        BY Zenon, <3>1, <4>1 DEF Pending, NoticesIn
    <3>2. CASE i \notin 1..Len(channel)
      <4>1. i - Len(channel) \in 1..Len(sending) /\ i = Len(channel) + (i - Len(channel))
        BY <2>2, <2>3, <3>2
      <4>2. both[i] = sending[i - Len(channel)] /\ sending[i - Len(channel)].kind /= "net"
        BY <2>2, <2>5, <4>1
      <4> QED
        BY Zenon, <4>1, <4>2 DEF Pending, NoticesIn
    <3> QED
      BY Zenon, <3>1, <3>2
  <2>6. ASSUME NEW d \in Pending PROVE \E i \in 1..Len(both) : both[i] = d
    <3>1. CASE \E i \in 1..Len(channel) : d = channel[i]
      <4>1. PICK i \in 1..Len(channel) : d = channel[i]
        BY <3>1
      <4>2. i \in 1..Len(both)
        BY <2>2, <2>3
      <4> QED
        BY Zenon, <2>2, <4>1, <4>2
    <3>2. CASE \E i \in 1..Len(sending) : d = sending[i]
      <4>1. PICK i \in 1..Len(sending) : d = sending[i]
        BY <3>2
      <4>2. Len(channel) + i \in 1..Len(both)
        BY <2>2, <2>3
      <4> QED
        BY Zenon, <2>2, <4>1, <4>2
    <3> QED
      BY Zenon, <3>1, <3>2 DEF Pending, NoticesIn
  <2> QED
    BY Zenon, <2>4, <2>5, <2>6
<1> QED
  BY Zenon, <1>1, <1>2, <1>3

LEMMA FewNotices ==
    /\ NoticesIn(<<>>) = {} /\ Increasing(<<>>)
    /\ \A x : x.kind /= "net" => NoticesIn(<<x>>) = {x}
<1>1. 1..Len(<<>>) = {}
  OBVIOUS
<1>2. ASSUME NEW x, x.kind /= "net" PROVE NoticesIn(<<x>>) = {x}
  <2>1. 1..Len(<<x>>) = {1} /\ <<x>>[1] = x
    OBVIOUS
  <2> QED
    BY Zenon, <1>2, <2>1 DEF NoticesIn
<1> QED
  BY Zenon, <1>1, <1>2 DEF NoticesIn, Increasing

LEMMA AppendNotices ==
    ASSUME NEW s, IsSequence(s), NEW x
    PROVE  /\ NoticesIn(Append(s, x)) = NoticesIn(s) \cup (IF x.kind = "net" THEN {} ELSE {x})
           /\ Increasing(s) /\ (x.kind = "net" \/ Before(NoticesIn(s), {x})) => Increasing(Append(s, x))
<1> DEFINE t == Append(s, x)
           last_one == Len(s) + 1
<1>1. Len(s) \in Nat
  BY Zenon, SequenceFacts
<1>2. Len(t) = last_one /\ t[last_one] = x /\ \A i \in 1..Len(s) : t[i] = s[i]
  BY AppendFacts
<1>3. /\ 1..Len(s) \subseteq 1..last_one /\ last_one \in 1..last_one
      /\ \A i \in 1..last_one : i \in 1..Len(s) \/ i = last_one
      /\ \A i, j \in 1..last_one : i < j => i \in 1..Len(s)
  BY <1>1
<1> HIDE DEF t, last_one
<1>4. NoticesIn(t) = NoticesIn(s) \cup (IF x.kind = "net" THEN {} ELSE {x})
  <2>1. ASSUME NEW d \in NoticesIn(t) PROVE d \in NoticesIn(s) \/ (d = x /\ x.kind /= "net")
    BY Zenon, <1>2, <1>3, <2>1 DEF NoticesIn
  <2>2. NoticesIn(s) \subseteq NoticesIn(t)
    BY Zenon, <1>2, <1>3 DEF NoticesIn
  <2>3. x.kind /= "net" => x \in NoticesIn(t)
    BY Zenon, <1>2, <1>3 DEF NoticesIn
  <2>4. CASE x.kind = "net"
    BY Zenon, <2>1, <2>2, <2>4
  <2>5. CASE x.kind /= "net"
    BY Zenon, <2>1, <2>2, <2>3, <2>5
  <2> QED
    BY Zenon, <2>4, <2>5
<1>5. ASSUME Increasing(s), x.kind = "net" \/ Before(NoticesIn(s), {x}) PROVE Increasing(t)
  <2> SUFFICES ASSUME NEW i \in 1..last_one, NEW j \in 1..last_one, i < j, t[i].kind /= "net", t[j].kind /= "net"
               PROVE  Time(t[i]) < Time(t[j])
    BY Zenon, <1>2 DEF Increasing
  <2>1. i \in 1..Len(s) /\ t[i] = s[i] /\ s[i].kind /= "net"
    BY Zenon, <1>2, <1>3
  <2>2. CASE j \in 1..Len(s)
    BY Zenon, <1>2, <1>5, <2>1, <2>2 DEF Increasing
  <2>3. CASE j = last_one
    BY Zenon, <1>2, <1>5, <2>1, <2>3 DEF Before, NoticesIn
  <2> QED
    BY Zenon, <1>3, <2>2, <2>3
<1> QED
  BY Zenon, <1>4, <1>5 DEF t

LEMMA TailNotices ==
    ASSUME NEW s, IsSequence(s), s /= <<>>
    PROVE  /\ s[1].kind = "net" => NoticesIn(Tail(s)) = NoticesIn(s)
           /\ s[1].kind /= "net" => NoticesIn(s) = NoticesIn(Tail(s)) \cup {s[1]}
           /\ Increasing(s) => Increasing(Tail(s)) /\ (s[1].kind /= "net" => Before({s[1]}, NoticesIn(Tail(s))))
<1> DEFINE t == Tail(s)
<1>1. Len(t) = Len(s) - 1 /\ Len(s) \in Nat \ {0} /\ \A i \in 1..Len(s) - 1 : t[i] = s[i + 1]
  BY Zenon, TailFacts
<1> HIDE DEF t
<1>2. /\ \A i \in 1..Len(t) : t[i] = s[i + 1] /\ i + 1 \in 1..Len(s) /\ 1 < i + 1
      /\ \A i, j \in 1..Len(t) : i < j => i + 1 < j + 1
      /\ 1 \in 1..Len(s)
  BY <1>1
<1>3. \A i \in 1..Len(s) : i = 1 \/ \E j \in 1..Len(t) : i = j + 1
  <2> TAKE i \in 1..Len(s)
  <2>1. ASSUME i /= 1 PROVE i - 1 \in 1..Len(t) /\ i = (i - 1) + 1
    BY <1>1, <2>1
  <2> QED
    BY Zenon, <2>1
<1>4. NoticesIn(t) \subseteq NoticesIn(s)
  BY Zenon, <1>2 DEF NoticesIn
<1>5. \A d \in NoticesIn(s) : d \in NoticesIn(t) \/ (d = s[1] /\ s[1].kind /= "net")
  <2> TAKE d \in NoticesIn(s)
  <2>1. PICK i \in 1..Len(s) : s[i].kind /= "net" /\ d = s[i]
    BY Zenon DEF NoticesIn
  <2>2. CASE i = 1
    BY Zenon, <2>1, <2>2
  <2>3. CASE i /= 1
    <3>1. PICK j \in 1..Len(t) : i = j + 1
      BY Zenon, <1>3, <2>3
    <3>2. t[j] = d /\ t[j].kind /= "net"
      BY Zenon, <1>2, <2>1, <3>1
    <3> QED
      BY Zenon, <3>2 DEF NoticesIn
  <2> QED
    BY Zenon, <2>2, <2>3
<1>6. s[1].kind /= "net" => s[1] \in NoticesIn(s)
  BY Zenon, <1>2 DEF NoticesIn
<1>7. ASSUME Increasing(s) PROVE Increasing(t)
  <2> SUFFICES ASSUME NEW i \in 1..Len(t), NEW j \in 1..Len(t), i < j, t[i].kind /= "net", t[j].kind /= "net"
               PROVE  Time(t[i]) < Time(t[j])
    BY Zenon DEF Increasing
  <2>1. t[i] = s[i + 1] /\ t[j] = s[j + 1] /\ i + 1 < j + 1 /\ i + 1 \in 1..Len(s) /\ j + 1 \in 1..Len(s)
    BY Zenon, <1>2
  <2>2. s[i + 1].kind /= "net" /\ s[j + 1].kind /= "net"
    BY Zenon, <2>1
  <2>3. Time(s[i + 1]) < Time(s[j + 1])
    BY Zenon, <1>7, <2>1, <2>2 DEF Increasing
  <2> QED
    BY Zenon, <2>1, <2>3
<1>8. ASSUME Increasing(s), s[1].kind /= "net" PROVE Before({s[1]}, NoticesIn(t))
  <2> SUFFICES ASSUME NEW d \in NoticesIn(t) PROVE Time(s[1]) < Time(d)
    BY Zenon DEF Before
  <2>1. PICK i \in 1..Len(t) : t[i].kind /= "net" /\ d = t[i]
    BY Zenon DEF NoticesIn
  <2>2. d = s[i + 1] /\ s[i + 1].kind /= "net" /\ i + 1 \in 1..Len(s) /\ 1 < i + 1
    BY Zenon, <1>2, <2>1
  <2>3. Time(s[1]) < Time(s[i + 1])
    BY Zenon, <1>2, <1>8, <2>2 DEF Increasing
  <2> QED
    BY Zenon, <2>2, <2>3
<1>9. s[1].kind = "net" => NoticesIn(t) = NoticesIn(s)
  BY Zenon, <1>4, <1>5
<1>10. s[1].kind /= "net" => NoticesIn(s) = NoticesIn(t) \cup {s[1]}
  BY Zenon, <1>4, <1>5, <1>6
<1> QED
  BY Zenon, <1>7, <1>8, <1>9, <1>10 DEF t

\* The channel and what is being sent are in order.
QueueInOrder == Increasing(channel) /\ Before(NoticesIn(channel), NoticesIn(sending))

\* The run loop has one more notice to send, or none.
LEMMA NewNotice ==
    ASSUME NoticesInOrder, sending = <<>>, channel' = channel, NEW d,
           sending' = <<>> \/ (sending' = <<d>> /\ d.kind /= "net" /\ \A e \in Pending : Time(e) < Time(d))
    PROVE  /\ QueueInOrder'
           /\ sending' = <<>> => Pending' = Pending
           /\ sending' = <<d>> => Pending' = Pending \cup {d}
<1>1. Pending = NoticesIn(channel) /\ Pending' = NoticesIn(channel) \cup NoticesIn(sending')
  BY Zenon, FewNotices DEF Pending
<1>2. Increasing(channel')
  BY Zenon DEF NoticesInOrder
<1>3. <<d>> /= <<>>
  BY Zenon, SingleFacts
<1>4. CASE sending' = <<>>
  <2>1. NoticesIn(sending') = {}
    BY Zenon, <1>4, FewNotices
  <2>2. Before(NoticesIn(channel'), NoticesIn(sending'))
    BY Zenon, <2>1 DEF Before
  <2> QED
    BY Zenon, <1>1, <1>2, <1>3, <1>4, <2>1, <2>2 DEF QueueInOrder
<1>5. CASE sending' = <<d>> /\ d.kind /= "net" /\ \A e \in Pending : Time(e) < Time(d)
  <2>1. NoticesIn(sending') = {d}
    BY Zenon, <1>5, FewNotices
  <2>2. Before(NoticesIn(channel'), NoticesIn(sending'))
    BY Zenon, <1>1, <1>5, <2>1 DEF Before
  <2> QED
    BY Zenon, <1>1, <1>2, <1>3, <1>5, <2>1, <2>2 DEF QueueInOrder
<1> QED
  BY Zenon, <1>4, <1>5

LEMMA SentNotice ==
    ASSUME BaseInv, sending /= <<>>
    PROVE  \E d : d.kind /= "net" /\ sending = <<d>> /\ channel \o sending = Append(channel, d)
<1> DEFINE d == sending[1]
<1>1. IsSequence(channel) /\ IsSequence(sending) /\ Len(sending) <= 1
  BY Zenon DEF BaseInv, DirectivesOK
<1>2. Len(sending) = 1 /\ 1 \in 1..Len(sending)
  <2>1. Len(sending) \in Nat /\ Len(sending) > 0
    BY Zenon, <1>1, SequenceFacts
  <2>2. \A n \in Nat : n > 0 /\ n <= 1 => n = 1 /\ 1 \in 1..n
    OBVIOUS
  <2> QED
    BY Zenon, <1>1, <2>1, <2>2
<1>3. IsNotice(d, seen)
  BY Zenon, <1>2 DEF BaseInv, DirectivesOK
<1>4. d.kind /= "net"
  BY <1>3 DEF IsNotice
<1> HIDE DEF d
<1>5. sending = <<d>>
  <2>1. IsSequence(<<d>>) /\ Len(<<d>>) = 1 /\ <<d>>[1] = d
    BY Zenon, SingleFacts
  <2>2. \A i \in 1..1 : i = 1
    OBVIOUS
  <2>3. \A i \in 1..Len(sending) : sending[i] = <<d>>[i]
    BY Zenon, <1>2, <2>1, <2>2 DEF d
  <2> QED
    BY <1>1, <1>2, <2>1, <2>3, SequenceEqual
<1>6. channel \o sending = Append(channel, d)
  BY <1>1, <1>5 DEF IsSequence
<1> QED
  BY Zenon, <1>4, <1>5, <1>6

LEMMA SendPending ==
    ASSUME BaseInv, NoticesInOrder, Send
    PROVE  QueueInOrder' /\ Pending' \subseteq Pending /\ (relayer => Pending' = Pending)
<1>1. /\ sending /= <<>> /\ sending' = <<>>
      /\ (relayer /\ channel' = channel \o sending) \/ (~relayer /\ channel' = channel)
  BY Zenon DEF Send
<1>2. NoticesIn(sending') = {} /\ Pending' = NoticesIn(channel')
  BY Zenon, <1>1, FewNotices DEF Pending
<1>3. CASE ~relayer /\ channel' = channel
  BY Zenon, <1>2, <1>3 DEF QueueInOrder, NoticesInOrder, Before, Pending
<1>4. CASE relayer /\ channel' = channel \o sending
  <2>1. PICK d : d.kind /= "net" /\ sending = <<d>> /\ channel \o sending = Append(channel, d)
    BY Zenon, <1>1, SentNotice
  <2>2. IsSequence(channel)
    BY Zenon DEF BaseInv, DirectivesOK
  <2>3. NoticesIn(sending) = {d}
    BY Zenon, <2>1, FewNotices
  <2>4. Increasing(channel) /\ Before(NoticesIn(channel), {d})
    BY Zenon, <2>3 DEF NoticesInOrder
  <2>5. NoticesIn(channel') = NoticesIn(channel) \cup {d} /\ Increasing(channel')
    <3>1. channel' = Append(channel, d)
      BY Zenon, <1>4, <2>1
    <3> QED
      BY Zenon, <2>1, <2>2, <2>4, <3>1, AppendNotices
  <2> QED
    BY Zenon, <1>2, <2>3, <2>5 DEF QueueInOrder, Pending, Before
<1> QED
  BY Zenon, <1>1, <1>3, <1>4

LEMMA DispatchPending ==
    ASSUME BaseInv, NoticesInOrder, Dispatch
    PROVE  QueueInOrder' /\ Pending' = Pending
<1>1. sending' = sending
  BY Zenon DEF Dispatch, run_loop
<1>2. channel' = channel \/ (results /= <<>> /\ channel' = Append(channel, Head(results)))
  BY Zenon DEF Dispatch
<1>3. CASE channel' = channel
  BY Zenon, <1>1, <1>3 DEF QueueInOrder, NoticesInOrder, Pending
<1>4. CASE results /= <<>> /\ channel' = Append(channel, Head(results))
  <2>1. IsSequence(channel) /\ IsSequence(results)
    BY Zenon DEF BaseInv, DirectivesOK
  <2>2. Head(results) = results[1] /\ Len(results) \in Nat \ {0}
    BY <1>4, <2>1, TailFacts
  <2>3. 1 \in 1..Len(results)
    BY <2>2
  <2>4. Head(results).kind = "net"
    BY Zenon, <2>2, <2>3 DEF BaseInv, DirectivesOK
  <2>5. NoticesIn(channel') = NoticesIn(channel) /\ Increasing(channel')
    <3>1. NoticesIn(channel') = NoticesIn(channel) \cup {} /\ Increasing(channel')
      BY Zenon, <1>4, <2>1, <2>4, AppendNotices DEF NoticesInOrder
    <3> QED
      BY Zenon, <3>1
  <2> QED
    BY Zenon, <1>1, <2>5 DEF QueueInOrder, NoticesInOrder, Pending
<1> QED
  BY Zenon, <1>2, <1>3, <1>4

LEMMA RelayerPending ==
    ASSUME BaseInv, NoticesInOrder, Relayer
    PROVE  /\ QueueInOrder' /\ Pending' \subseteq Pending
           /\ Head(channel).kind = "net" => Pending' = Pending
           /\ Head(channel).kind /= "net" =>
                Pending = Pending' \cup {Head(channel)} /\ Before({Head(channel)}, Pending')
<1> DEFINE d == Head(channel)
<1>1. channel /= <<>> /\ channel' = Tail(channel) /\ Head(channel) = channel[1] /\ sending' = sending
  BY Zenon, RelayerReceives DEF run_loop
<1>2. IsSequence(channel)
  BY Zenon DEF BaseInv, DirectivesOK
<1>3. /\ d.kind = "net" => NoticesIn(channel') = NoticesIn(channel)
      /\ d.kind /= "net" => NoticesIn(channel) = NoticesIn(channel') \cup {d}
      /\ Increasing(channel') /\ (d.kind /= "net" => Before({d}, NoticesIn(channel')))
  BY Zenon, <1>1, <1>2, TailNotices DEF NoticesInOrder
<1> HIDE DEF d
<1>4. NoticesIn(channel') \subseteq NoticesIn(channel)
  BY Zenon, <1>3
<1>5. QueueInOrder'
  BY Zenon, <1>1, <1>3, <1>4 DEF QueueInOrder, NoticesInOrder, Before
<1>6. ASSUME d.kind /= "net" PROVE Pending = Pending' \cup {d} /\ Before({d}, Pending')
  BY ZenonT(30), <1>1, <1>3, <1>6 DEF NoticesInOrder, Before, Pending
<1>7. d.kind = "net" => Pending' = Pending
  BY Zenon, <1>1, <1>3 DEF Pending
<1> QED
  BY Zenon, <1>1, <1>4, <1>5, <1>6, <1>7 DEF d, Pending

LEMMA NowFacts ==
    ASSUME BaseInv
    PROVE  /\ height \in Nat /\ Len(view) \in Nat /\ Now \in Int /\ 2 * height <= Now /\ Now <= 2 * height + 1
           /\ pc /= "blocks" \/ height /= Len(view) => Now = 2 * height + 1
           /\ pc = "blocks" /\ height = Len(view) => Now = 2 * height
<1>1. IsSequence(view) /\ height \in 1..Len(view)
  BY Zenon DEF BaseInv, ChainsOK, IsChain, RunLoopOK
<1>2. Len(view) \in Nat
  BY Zenon, <1>1, SequenceFacts
<1>3. height \in Nat
  BY <1>1, <1>2
<1> QED
  BY <1>2, <1>3 DEF Now

\* The steps that neither add a notice nor run or give up a tenure.
Quiet == ~ProcessBurnchainState /\ ~IssueTenure /\ ~RelayProcessTenure /\ ~RelayRunTenure /\ ~Restart
TenureVars == <<built, first_own, last_mined_block, height, seen, won>>

LEMMA QuietStep ==
    ASSUME BaseInv, BaseInv', NoticesInOrder, [Next]_vars, Quiet
    PROVE  /\ QueueInOrder' /\ Pending' \subseteq Pending /\ Now <= Now' /\ UNCHANGED TenureVars
           /\ relayer' => relayer /\ \A d \in Pending : d.kind = "process" => d \in Pending'
<1> DEFINE Same == UNCHANGED <<channel, sending, relayer>>
           Still == UNCHANGED <<pc, height, view>>
<1> USE DEF TenureVars, Quiet
<1>1. ASSUME Same PROVE QueueInOrder' /\ Pending' = Pending
  BY Zenon, <1>1 DEF QueueInOrder, NoticesInOrder, Pending
<1>2. ASSUME Still PROVE Now <= Now'
  <2>1. Now' = Now
    BY Zenon, <1>2 DEF Now
  <2> QED
    BY <2>1, NowFacts
<1>3. CASE UNCHANGED vars \/ StopCoordinator \/ NewBurnBlock \/ Reorg
  <2>1. Same /\ Still /\ UNCHANGED TenureVars
    <3>1. CASE UNCHANGED vars
      BY Zenon, <3>1 DEF vars, run_loop, miner, lives
    <3>2. CASE StopCoordinator
      BY Zenon, <3>2 DEF StopCoordinator, run_loop, miner, lives
    <3>3. CASE NewBurnBlock
      BY Zenon, <3>3 DEF NewBurnBlock, run_loop, miner, lives
    <3>4. CASE Reorg
      BY Zenon, <3>4 DEF Reorg, run_loop, miner, lives
    <3> QED
      BY Zenon, <1>3, <3>1, <3>2, <3>3, <3>4
  <2> QED
    BY Zenon, <1>1, <1>2, <2>1
<1>4. CASE Sync \/ WaitForSortitions
  <2>1. Same /\ UNCHANGED TenureVars
    BY Zenon, <1>4 DEF Sync, WaitForSortitions, miner, lives
  <2>2. pc \in {"sync", "wait"} /\ (pc' = "blocks" => ~(Len(view') <= height))
    BY Zenon, <1>4 DEF Sync, WaitForSortitions, Synced
  <2>3. height' = height
    BY Zenon, <2>1
  <2>4. Now = 2 * height + 1 /\ height \in Nat
    BY <2>2, NowFacts
  <2>5. Now' = 2 * height' + 1
    <3>1. IsSequence(view')
      BY Zenon DEF BaseInv, ChainsOK, IsChain
    <3>2. Len(view') \in Nat
      BY Zenon, <3>1, SequenceFacts
    <3> QED
      BY <2>2, <2>3, <2>4, <3>2 DEF Now
  <2>6. Now <= Now'
    BY <2>3, <2>4, <2>5
  <2> QED
    BY Zenon, <1>1, <2>1, <2>6
<1>5. CASE Send
  <2>1. UNCHANGED TenureVars /\ UNCHANGED <<view, relayer>>
    BY Zenon, <1>5 DEF Send, miner, lives
  <2>2. pc' = pc \/ pc' = "done"
    BY Zenon, <1>5 DEF Send
  <2>3. Now <= Now'
    BY <2>1, <2>2, NowFacts DEF Now
  <2> QED
    BY Zenon, <1>5, <2>1, <2>3, SendPending
<1>6. CASE Poll
  <2>1. Same /\ Still /\ UNCHANGED TenureVars
    BY Zenon, <1>6 DEF Poll, run_loop, miner, lives
  <2> QED
    BY Zenon, <1>1, <1>2, <2>1
<1>7. CASE Dispatch
  <2>1. Still /\ UNCHANGED TenureVars /\ UNCHANGED relayer
    BY Zenon, <1>7 DEF Dispatch, run_loop, miner, lives
  <2> QED
    BY Zenon, <1>2, <1>7, <2>1, DispatchPending
<1>8. CASE RelayNetResult
  <2>1. Relayer /\ Head(channel).kind = "net" /\ relayer
    BY Zenon, <1>8 DEF RelayNetResult, Receives, Relayer
  <2>2. Still /\ UNCHANGED TenureVars
    BY Zenon, <1>8 DEF RelayNetResult, run_loop, miner, lives
  <2> QED
    BY Zenon, <1>2, <2>1, <2>2, RelayerPending
<1>9. CASE RelayRegisterKey
  <2>1. Relayer /\ Head(channel).kind = "register" /\ relayer
    BY Zenon, <1>9 DEF RelayRegisterKey, Receives, Relayer
  <2>2. Still /\ UNCHANGED TenureVars
    BY Zenon, <1>9 DEF RelayRegisterKey, run_loop, lives
  <2>3. Head(channel).kind /= "net" /\ Head(channel).kind /= "process"
    BY <2>1
  <2>4. QueueInOrder' /\ Pending = Pending' \cup {Head(channel)}
    BY Zenon, <2>1, <2>3, RelayerPending
  <2> QED
    BY Zenon, <1>2, <2>1, <2>2, <2>3, <2>4
<1> QED
  BY Zenon, <1>3, <1>4, <1>5, <1>6, <1>7, <1>8, <1>9 DEF Next, RunLoop, Relayer

LEMMA TenureFacts ==
    ASSUME BaseInv, NEW t \in first_own..Len(built)
    PROVE  t \in 1..Len(built) /\ built[t][1] \in Nat /\ TenureTime(t) \in Int
<1>1. built \in Seq(Id) /\ first_own \in 1..Len(built) + 1
  BY Zenon DEF BaseInv, RunLoopOK
<1>2. Len(built) \in Nat
  BY Zenon, <1>1, LenProperties
<1>3. t \in 1..Len(built)
  BY <1>1, <1>2
<1>4. built[t] \in Id
  BY <1>1, <1>3, ElementOfSeq
<1>5. built[t][1] \in Nat
  BY <1>4 DEF Id
<1> QED
  BY <1>3, <1>5 DEF TenureTime

LEMMA OrderQuiet ==
    ASSUME BaseInv, BaseInv', OrderInv, [Next]_vars, Quiet
    PROVE  OrderInv'
<1>1. QueueInOrder' /\ Pending' \subseteq Pending /\ Now <= Now' /\ UNCHANGED TenureVars
  BY Zenon, QuietStep DEF OrderInv
<1>2. Now \in Int /\ Now' \in Int
  <2>1. Now \in Int /\ height \in Nat
    BY Zenon, NowFacts
  <2>2. height' = height
    BY Zenon, <1>1 DEF TenureVars
  <2> QED
    BY <2>1, <2>2 DEF Now
<1>3. NoticesInOrder'
  <2>1. ASSUME NEW d \in Pending' PROVE Time(d) <= Now'
    <3>1. Time(d) \in Int /\ Time(d) <= Now
      BY Zenon, <1>1, PendingFacts DEF OrderInv, NoticesInOrder
    <3> QED
      BY <1>1, <1>2, <3>1
  <2> QED
    BY Zenon, <1>1, <2>1 DEF NoticesInOrder, QueueInOrder
<1>4. built' = built /\ first_own' = first_own /\ last_mined_block' = last_mined_block /\ height' = height
  BY Zenon, <1>1 DEF TenureVars
<1>5. ASSUME NEW t \in first_own..Len(built) PROVE TenureTime(t) <= Now'
  <2>1. TenureTime(t) \in Int /\ TenureTime(t) <= Now
    BY Zenon, TenureFacts DEF OrderInv, TenuresInOrder
  <2> QED
    BY <1>1, <1>2, <2>1
<1>6. TenuresInOrder'
  BY ZenonT(30), <1>1, <1>4, <1>5 DEF OrderInv, TenuresInOrder, TenureTime
<1>7. GivenUpLate'
  BY Zenon, <1>4 DEF OrderInv, GivenUpLate
<1> QED
  BY Zenon, <1>3, <1>6, <1>7 DEF OrderInv

\* The run loop goes on to the next burn block.
LEMMA ProcessPending ==
    ASSUME BaseInv, NoticesInOrder, ProcessBurnchainState,
           NEW b, b = view[height + 1], NEW d, d = ProcessTenure(b)
    PROVE  /\ QueueInOrder' /\ Time(d) = 2 * (height + 1) /\ height \in Nat /\ height' = height + 1
           /\ \A e \in Pending : Time(e) \in Int /\ Time(e) <= 2 * height + 1
           /\ b.winner = NoSortition => Pending' = Pending
           /\ b.winner /= NoSortition => Pending' = Pending \cup {d}
           /\ Now = 2 * height + 1 /\ Now' \in Int /\ 2 * (height + 1) <= Now'
           /\ b.id[1] = height + 1 /\ IsBurnBlock(b, height + 1, Len(built))
           /\ seen' = seen \cup {b} /\ d.kind = "process" /\ d.id = b.id
           /\ UNCHANGED <<built, first_own, last_mined_block, won, relayer>>
<1>1. /\ UNCHANGED <<view, channel, built, first_own, last_mined_block, won, relayer>>
      /\ sending = <<>> /\ height < Len(view) /\ height' = height + 1 /\ seen' = seen \cup {b}
      /\ sending' = IF b.winner = NoSortition THEN <<>> ELSE <<d>>
  BY Zenon DEF ProcessBurnchainState, miner, lives
<1>2. height \in 1..Len(view) /\ IsChain(view, Len(built))
  BY Zenon DEF BaseInv, RunLoopOK, ChainsOK
<1>3. height \in Nat /\ Len(view) \in Nat
  BY Zenon, NowFacts
<1>4. height + 1 \in 1..Len(view)
  BY <1>1, <1>2, <1>3
<1>5. IsBurnBlock(b, height + 1, Len(built)) /\ b.id[1] = height + 1
  BY Zenon, <1>2, <1>4 DEF IsChain, IsBurnBlock
<1>6. d.kind = "process" /\ d.id = b.id
  BY DEF ProcessTenure
<1>7. Time(d) = 2 * (height + 1)
  BY Zenon, <1>5, <1>6 DEF Time
<1>8. Now = 2 * height + 1 /\ Now' \in Int /\ 2 * (height + 1) <= Now'
  BY <1>1, <1>3 DEF Now
<1>9. \A e \in Pending : Time(e) \in Int /\ Time(e) <= 2 * height + 1
  BY Zenon, <1>8, PendingFacts DEF NoticesInOrder
<1>10. \A e \in Pending : Time(e) < Time(d)
  BY <1>3, <1>7, <1>9
<1>11. d.kind /= "net" /\ <<d>> /= <<>>
  BY <1>6
<1>12. sending' = <<>> \/ (sending' = <<d>> /\ d.kind /= "net" /\ \A e \in Pending : Time(e) < Time(d))
  BY Zenon, <1>1, <1>10, <1>11
<1>13. /\ QueueInOrder'
       /\ sending' = <<>> => Pending' = Pending
       /\ sending' = <<d>> => Pending' = Pending \cup {d}
  BY Zenon, <1>1, <1>12, NewNotice
<1> QED
  BY Zenon, <1>1, <1>3, <1>5, <1>6, <1>7, <1>8, <1>9, <1>13

LEMMA OrderProcess ==
    ASSUME BaseInv, BaseInv', OrderInv, ProcessBurnchainState
    PROVE  OrderInv'
<1>1. PICK b : b = view[height + 1]
  OBVIOUS
<1>2. PICK d : d = ProcessTenure(b)
  OBVIOUS
<1>3. /\ QueueInOrder' /\ Time(d) = 2 * (height + 1) /\ height \in Nat /\ height' = height + 1
      /\ \A e \in Pending : Time(e) \in Int /\ Time(e) <= 2 * height + 1
      /\ Pending' \subseteq Pending \cup {d}
      /\ Now = 2 * height + 1 /\ Now' \in Int /\ 2 * (height + 1) <= Now'
      /\ UNCHANGED <<built, first_own, last_mined_block>>
  BY Zenon, <1>1, <1>2, ProcessPending DEF OrderInv
<1>4. ASSUME NEW e \in Pending' PROVE Time(e) <= Now'
  BY <1>3
<1>5. NoticesInOrder'
  BY Zenon, <1>3, <1>4 DEF NoticesInOrder, QueueInOrder
<1>6. ASSUME NEW t \in first_own..Len(built)
      PROVE  TenureTime(t) <= Now' /\ TenureTime(t) < Time(d)
  <2>1. TenureTime(t) \in Int /\ TenureTime(t) <= 2 * height + 1
    BY Zenon, <1>3, TenureFacts DEF OrderInv, TenuresInOrder
  <2> QED
    BY <1>3, <2>1
<1>7. TenuresInOrder'
  BY ZenonT(30), <1>3, <1>6 DEF OrderInv, TenuresInOrder, TenureTime
<1>8. ASSUME NEW t \in first_own..Len(built) PROVE last_mined_block = <<t>> \/ height + 1 > built[t][1]
  <2>1. built[t][1] \in Nat /\ (last_mined_block = <<t>> \/ height > built[t][1])
    BY Zenon, TenureFacts DEF OrderInv, GivenUpLate
  <2> QED
    BY <1>3, <2>1
<1>9. GivenUpLate'
  BY Zenon, <1>3, <1>8 DEF GivenUpLate
<1> QED
  BY Zenon, <1>5, <1>7, <1>9 DEF OrderInv

\* At the tip the run loop asks for a tenure or for a key.
LEMMA IssuePending ==
    ASSUME BaseInv, NoticesInOrder, IssueTenure
    PROVE  /\ QueueInOrder' /\ height \in Nat /\ Now = 2 * height /\ Now' = 2 * height + 1
           /\ \A e \in Pending : Time(e) \in Int /\ Time(e) <= 2 * height
           /\ Pending \subseteq Pending'
           /\ \A e \in Pending' : e \in Pending \/ (e.kind /= "process" /\ Time(e) = 2 * height + 1)
           /\ UNCHANGED <<built, first_own, last_mined_block, height, seen, won, relayer>>
<1>1. /\ UNCHANGED <<view, channel, built, first_own, last_mined_block, height, seen, won, relayer>>
      /\ pc = "blocks" /\ pc' = "sync" /\ sending = <<>> /\ height = Len(view)
  BY Zenon DEF IssueTenure, miner, lives
<1>2. PICK d : /\ d \in {RegisterKey(last), RunTenure(Head(active_keys), last)}
               /\ sending' = <<>> \/ sending' = <<d>>
  BY Zenon DEF IssueTenure
<1>3. height \in Nat /\ Now = 2 * height
  BY Zenon, <1>1, NowFacts
<1>4. Now' = 2 * height + 1
  BY <1>1, <1>3 DEF Now
<1>5. last.id \in Id /\ last.id[1] = height
  BY Zenon DEF BaseInv, RunLoopOK
<1>6. d.kind /= "process" /\ d.kind /= "net" /\ d.burn = last.id
  BY <1>2 DEF RegisterKey, RunTenure
<1>7. Time(d) = 2 * height + 1
  BY Zenon, <1>5, <1>6 DEF Time
<1>8. \A e \in Pending : Time(e) \in Int /\ Time(e) <= 2 * height
  BY Zenon, <1>3, PendingFacts DEF NoticesInOrder
<1>9. \A e \in Pending : Time(e) < Time(d)
  BY <1>3, <1>7, <1>8
<1>10. /\ QueueInOrder'
       /\ sending' = <<>> => Pending' = Pending
       /\ sending' = <<d>> => Pending' = Pending \cup {d}
  <2>1. channel' = channel /\ (sending' = <<>> \/ (sending' = <<d>> /\ d.kind /= "net" /\ \A e \in Pending : Time(e) < Time(d)))
    BY Zenon, <1>1, <1>2, <1>6, <1>9
  <2> QED
    BY Zenon, <1>1, <2>1, NewNotice
<1> QED
  BY <1>1, <1>2, <1>3, <1>4, <1>6, <1>7, <1>8, <1>10

LEMMA OrderIssue ==
    ASSUME BaseInv, OrderInv, IssueTenure
    PROVE  OrderInv'
<1>1. /\ QueueInOrder' /\ height \in Nat /\ Now = 2 * height /\ Now' = 2 * height + 1
      /\ \A e \in Pending : Time(e) \in Int /\ Time(e) <= 2 * height
      /\ \A e \in Pending' : e \in Pending \/ (e.kind /= "process" /\ Time(e) = 2 * height + 1)
      /\ UNCHANGED <<built, first_own, last_mined_block, height>>
  BY Zenon, IssuePending DEF OrderInv
<1>2. ASSUME NEW e \in Pending' PROVE Time(e) <= Now'
  BY <1>1
<1>3. NoticesInOrder'
  BY Zenon, <1>1, <1>2 DEF NoticesInOrder, QueueInOrder
<1>4. ASSUME NEW t \in first_own..Len(built)
      PROVE  TenureTime(t) <= Now' /\ \A e \in Pending' : TenureTime(t) < Time(e)
  <2>1. TenureTime(t) \in Int /\ TenureTime(t) <= 2 * height /\ \A e \in Pending : TenureTime(t) < Time(e)
    BY Zenon, <1>1, TenureFacts DEF OrderInv, TenuresInOrder
  <2>2. TenureTime(t) <= Now' /\ TenureTime(t) < 2 * height + 1
    BY <1>1, <2>1
  <2> QED
    BY Zenon, <1>1, <2>1, <2>2
<1>5. TenuresInOrder'
  BY ZenonT(30), <1>1, <1>4 DEF OrderInv, TenuresInOrder, TenureTime
<1>6. GivenUpLate'
  BY Zenon, <1>1 DEF OrderInv, GivenUpLate
<1> QED
  BY Zenon, <1>3, <1>5, <1>6 DEF OrderInv

\* The relayer takes a notice: it is later than the tenures run so far and earlier than
\* what is left, and of a burn block the run loop has reached.
LEMMA RelayedPending ==
    ASSUME BaseInv, OrderInv, RelayProcessTenure \/ RelayRunTenure, NEW d, d = Head(channel)
    PROVE  /\ QueueInOrder' /\ d \in Pending /\ Pending' \subseteq Pending /\ Pending = Pending' \cup {d}
           /\ \A e \in Pending' : Time(d) < Time(e)
           /\ \A t \in first_own..Len(built) : TenureTime(t) < Time(d) /\ height > built[t][1]
           /\ Time(d) \in Int /\ Time(d) <= Now /\ Now' = Now
           /\ UNCHANGED <<first_own, height, seen>> /\ relayer
<1>1. Relayer /\ d.kind \in {"process", "run"} /\ relayer
  BY Zenon DEF Relayer, RelayProcessTenure, RelayRunTenure, Receives
<1>2. d.kind /= "net"
  BY <1>1
<1>3. /\ QueueInOrder' /\ Pending' \subseteq Pending /\ Pending = Pending' \cup {d}
      /\ \A e \in Pending' : Time(d) < Time(e)
  BY Zenon, <1>1, <1>2, RelayerPending DEF OrderInv, Before
<1>4. UNCHANGED <<first_own, height, seen, view, pc>>
  BY Zenon, <1>1, RelayerReceives DEF run_loop, lives
<1>5. Now' = Now
  BY Zenon, <1>4 DEF Now
<1>6. Time(d) \in Int /\ Time(d) <= Now
  BY Zenon, <1>3, PendingFacts DEF OrderInv, NoticesInOrder
<1>7. ASSUME NEW t \in first_own..Len(built) PROVE TenureTime(t) < Time(d) /\ height > built[t][1]
  <2>1. TenureTime(t) < Time(d) /\ built[t][1] \in Nat
    BY Zenon, <1>3, TenureFacts DEF OrderInv, TenuresInOrder
  <2>2. height \in Nat /\ Now \in Int /\ Now <= 2 * height + 1
    BY Zenon, NowFacts
  <2>3. 2 * built[t][1] + 1 < Time(d)
    BY Zenon, <2>1 DEF TenureTime
  <2>4. height > built[t][1]
    BY <1>6, <2>1, <2>2, <2>3
  <2> QED
    BY Zenon, <2>1, <2>4
<1> QED
  BY Zenon, <1>1, <1>3, <1>4, <1>5, <1>6, <1>7

LEMMA OrderRelayed ==
    ASSUME BaseInv, OrderInv, RelayProcessTenure \/ RelayRunTenure
    PROVE  OrderInv'
<1> DEFINE n == Len(built)
<1>1. PICK d : d = Head(channel)
  OBVIOUS
<1>2. /\ QueueInOrder' /\ d \in Pending /\ Pending' \subseteq Pending
      /\ \A e \in Pending' : Time(d) < Time(e)
      /\ \A t \in first_own..n : TenureTime(t) < Time(d) /\ height > built[t][1]
      /\ Time(d) \in Int /\ Time(d) <= Now /\ Now' = Now
      /\ UNCHANGED <<first_own, height>>
  BY Zenon, <1>1, RelayedPending
<1>3. NoticesInOrder'
  BY Zenon, <1>2 DEF OrderInv, NoticesInOrder, QueueInOrder
<1>4. CASE UNCHANGED built
  <2>1. TenuresInOrder'
    BY ZenonT(30), <1>2, <1>4 DEF OrderInv, TenuresInOrder, TenureTime
  <2>2. GivenUpLate'
    BY <1>2, <1>4 DEF GivenUpLate
  <2> QED
    BY Zenon, <1>3, <2>1, <2>2 DEF OrderInv
<1>5. CASE RelayRunTenure /\ ~UNCHANGED built
  <2>1. d.kind = "run" /\ built' = Append(built, d.burn) /\ last_mined_block' = <<n + 1>>
    BY Zenon, <1>1, <1>5 DEF RelayRunTenure, Receives
  <2>2. built \in Seq(Id) /\ first_own \in 1..n + 1 /\ IsSequence(built)
    BY Zenon DEF BaseInv, RunLoopOK, IsSequence
  <2>3. n \in Nat
    BY Zenon, <2>2, LenProperties
  <2>4. Len(built') = n + 1 /\ built'[n + 1] = d.burn /\ \A t \in 1..n : built'[t] = built[t]
    BY <2>1, <2>2, AppendFacts
  <2>5. Time(d) = 2 * d.burn[1] + 1
    BY <2>1 DEF Time
  <2>6. /\ \A t \in first_own'..Len(built') : t \in first_own..n \/ t = n + 1
        /\ \A t \in first_own..n : t \in 1..n /\ ~(n + 1 < t)
        /\ ~(n + 1 < n + 1)
    BY <1>2, <2>2, <2>3, <2>4
  <2> DEFINE T(t) == 2 * built'[t][1] + 1
  <2>7. \A t \in first_own..n : T(t) = TenureTime(t)
    BY Zenon, <2>4, <2>6 DEF TenureTime
  <2>8. T(n + 1) = Time(d)
    BY Zenon, <2>4, <2>5
  <2> HIDE DEF T
  <2>9. ASSUME NEW t \in first_own'..Len(built')
        PROVE  /\ T(t) <= Now /\ \A e \in Pending' : T(t) < Time(e)
               /\ \A u \in first_own'..Len(built') : t < u => T(t) < T(u)
    <3>1. CASE t \in first_own..n
      BY Zenon, <1>2, <2>6, <2>7, <2>8, <3>1 DEF OrderInv, TenuresInOrder
    <3>2. CASE t = n + 1
      BY Zenon, <1>2, <2>6, <2>8, <3>2
    <3> QED
      BY Zenon, <2>6, <3>1, <3>2
  <2>10. TenuresInOrder'
    BY Zenon, <1>2, <2>9 DEF TenuresInOrder, TenureTime, T
  <2>11. GivenUpLate'
    BY Zenon, <1>2, <2>1, <2>4, <2>6 DEF GivenUpLate
  <2> QED
    BY Zenon, <1>3, <2>10, <2>11 DEF OrderInv
<1>6. RelayRunTenure \/ UNCHANGED built
  BY Zenon DEF RelayProcessTenure
<1> QED
  BY Zenon, <1>4, <1>5, <1>6

LEMMA OrderRestart ==
    ASSUME BaseInv, Restart
    PROVE  OrderInv' /\ seen' = {} /\ won' = {}
<1>1. /\ channel' = <<>> /\ sending' = <<>> /\ first_own' = Len(built) + 1 /\ built' = built
      /\ seen' = {} /\ won' = {}
  BY Zenon DEF Restart, Boot
<1>2. Pending' = {} /\ NoticesIn(sending') = {} /\ Increasing(channel')
  BY Zenon, <1>1, FewNotices DEF Pending
<1>3. Len(built) \in Nat
  BY Zenon, LenProperties DEF BaseInv, RunLoopOK
<1>4. first_own'..Len(built') = {}
  BY <1>1, <1>3
<1> QED
  BY Zenon, <1>1, <1>2, <1>4 DEF OrderInv, NoticesInOrder, TenuresInOrder, GivenUpLate, Before

LEMMA OrderStep ==
    ASSUME BaseInv, BaseInv', OrderInv, [Next]_vars
    PROVE  OrderInv'
  BY OrderQuiet, OrderProcess, OrderIssue, OrderRelayed, OrderRestart DEF Quiet

LEMMA OrderInit == Init => OrderInv
<1> SUFFICES ASSUME Init PROVE OrderInv
  OBVIOUS
<1>1. channel = <<>> /\ sending = <<>> /\ first_own = 1 /\ built = <<>>
  BY Zenon DEF Init
<1>2. Pending = {} /\ NoticesIn(sending) = {} /\ Increasing(channel)
  BY Zenon, <1>1, FewNotices DEF Pending
<1>3. first_own..Len(built) = {}
  BY <1>1
<1> QED
  BY Zenon, <1>2, <1>3 DEF OrderInv, NoticesInOrder, TenuresInOrder, GivenUpLate, Before

NotifiedMeans == \A b : Notified(b) <=> \A d \in Pending : d.kind = "process" => d.id /= b.id

LEMMA NotifiedPending == BaseInv => NotifiedMeans
  BY Zenon, PendingFacts DEF NotifiedMeans

LEMMA NotifiedPendingNext ==
    ASSUME BaseInv'
    PROVE  \A b : Notified(b)' <=> \A d \in Pending' : d.kind = "process" => d.id /= b.id
<1>1. (BaseInv => NotifiedMeans)'
  BY NotifiedPending, PTL
<1>2. NotifiedMeans'
  BY Zenon, <1>1
<1> QED
  BY Zenon, <1>2 DEF NotifiedMeans

WinsInv == WinsAwaited /\ WinsReal /\ TenuresMatchWins

\* A block that won for this run of the node is one of its tenures, on the block before.
LEMMA WinTenure ==
    ASSUME BaseInv, NEW b, NEW h \in Nat, IsBurnBlock(b, h, Len(built)), OwnWin(b)
    PROVE  /\ b.winner \in first_own..Len(built) /\ b.winner /= NoSortition
           /\ built[b.winner][1] = h - 1
<1>1. built \in Seq(Id) /\ first_own \in 1..Len(built) + 1
  BY Zenon DEF BaseInv, RunLoopOK
<1>2. Len(built) \in Nat
  BY Zenon, <1>1, LenProperties
<1>3. b.winner \in {NoSortition, AnotherMiner} \cup 1..Len(built) /\ b.parent[1] = h - 1
  BY Zenon DEF IsBurnBlock
<1>4. b.winner >= first_own /\ built[b.winner] = b.parent
  BY Zenon DEF OwnWin
<1>5. b.winner \in first_own..Len(built) /\ b.winner /= NoSortition
  BY <1>1, <1>2, <1>3, <1>4 DEF NoSortition, AnotherMiner
<1> QED
  BY Zenon, <1>3, <1>4, <1>5

LEMMA WinKept ==
    ASSUME BaseInv, [Next]_vars, first_own' = first_own, NEW b \in seen
    PROVE  OwnWin(b)' <=> OwnWin(b)
<1>1. b.winner \in {NoSortition, AnotherMiner} \cup 1..Len(built)
  BY Zenon DEF BaseInv, ChainsOK, IsBurnBlock
<1>2. first_own \in 1..Len(built) + 1
  BY Zenon DEF BaseInv, RunLoopOK
<1>3. Len(built) \in Nat /\ \A t \in 1..Len(built) : built'[t] = built[t]
  BY Zenon, BuiltGrows
<1>4. b.winner >= first_own => b.winner \in 1..Len(built)
  BY <1>1, <1>2, <1>3 DEF NoSortition, AnotherMiner
<1> QED
  BY Zenon, <1>3, <1>4 DEF OwnWin

\* Steps after which the same sortitions wait to be heard of.
LEMMA NoNews ==
    ASSUME BaseInv, BaseInv', [Next]_vars, WinsInv,
           UNCHANGED <<first_own, last_mined_block, seen, won>>,
           \A d \in Pending' : d.kind = "process" => d \in Pending,
           relayer' => relayer /\ \A d \in Pending : d.kind = "process" => d \in Pending'
    PROVE  WinsInv'
<1>1. \A b : Notified(b) => Notified(b)'
  BY Zenon, NotifiedPending, NotifiedPendingNext DEF NotifiedMeans
<1>2. relayer' => \A b : Notified(b)' => Notified(b)
  BY Zenon, NotifiedPending, NotifiedPendingNext DEF NotifiedMeans
<1>3. \A b \in seen : OwnWin(b)' <=> OwnWin(b)
  BY Zenon, WinKept
<1>4. WinsAwaited'
  BY Zenon, <1>1, <1>3 DEF WinsInv, WinsAwaited
<1>5. WinsReal'
  BY Zenon, <1>3 DEF WinsInv, WinsReal
<1>6. TenuresMatchWins'
  BY Zenon, <1>2, <1>3 DEF WinsInv, TenuresMatchWins
<1> QED
  BY Zenon, <1>4, <1>5, <1>6 DEF WinsInv

LEMMA WinsProcess ==
    ASSUME BaseInv, BaseInv', OrderInv, WinsInv, [Next]_vars, ProcessBurnchainState
    PROVE  WinsInv'
<1>1. PICK b : b = view[height + 1]
  OBVIOUS
<1>2. PICK d : d = ProcessTenure(b)
  OBVIOUS
<1>3. /\ height \in Nat
      /\ b.winner = NoSortition => Pending' = Pending
      /\ b.winner /= NoSortition => Pending' = Pending \cup {d}
      /\ b.id[1] = height + 1 /\ IsBurnBlock(b, height + 1, Len(built))
      /\ seen' = seen \cup {b} /\ d.kind = "process" /\ d.id = b.id
      /\ UNCHANGED <<built, first_own, last_mined_block, won, relayer>>
  BY Zenon, <1>1, <1>2, ProcessPending DEF OrderInv
<1>4. \A c \in seen : c.id /= b.id
  <2>1. height + 1 \notin 1..height
    BY <1>3
  <2> QED
    BY Zenon, <1>3, <2>1 DEF BaseInv, ChainsOK
<1>5. \A c \in seen : Notified(c)' <=> Notified(c)
  BY Zenon, <1>3, <1>4, NotifiedPending, NotifiedPendingNext DEF NotifiedMeans
<1>6. \A c : OwnWin(c)' <=> OwnWin(c)
  BY Zenon, <1>3 DEF OwnWin
<1>7. ASSUME OwnWin(b) PROVE last_mined_block = <<b.winner>> /\ ~Notified(b)'
  <2>1. height + 1 \in Nat /\ (height + 1) - 1 = height
    BY <1>3
  <2>2. b.winner \in first_own..Len(built) /\ b.winner /= NoSortition /\ built[b.winner][1] = height
    BY Zenon, <1>3, <1>7, <2>1, WinTenure
  <2>3. ~(height > height)
    BY <1>3
  <2>4. last_mined_block = <<b.winner>>
    BY Zenon, <2>2, <2>3 DEF OrderInv, GivenUpLate
  <2>5. d \in Pending'
    BY Zenon, <1>3, <2>2
  <2> QED
    BY Zenon, <1>3, <2>4, <2>5, NotifiedPendingNext
<1>8. b.id \notin won
  BY Zenon, <1>4 DEF WinsInv, WinsReal
<1>9. WinsAwaited'
  BY Zenon, <1>3, <1>5, <1>6, <1>7 DEF WinsInv, WinsAwaited
<1>10. WinsReal'
  BY Zenon, <1>3, <1>6 DEF WinsInv, WinsReal
<1>11. TenuresMatchWins'
  BY <1>3, <1>5, <1>6, <1>7, <1>8 DEF WinsInv, TenuresMatchWins
<1> QED
  BY Zenon, <1>9, <1>10, <1>11 DEF WinsInv

\* A notice the relayer takes before that of a win cannot be there: it would have to come
\* between the tenure and the sortition it won.
LEMMA NothingBetween ==
    ASSUME BaseInv, OrderInv, RelayProcessTenure \/ RelayRunTenure, NEW b \in seen, OwnWin(b),
           NEW e \in Pending', e.kind = "process", e.id = b.id
    PROVE  FALSE
<1>1. PICK d : d = Head(channel)
  OBVIOUS
<1>2. /\ \A x \in Pending' : Time(d) < Time(x)
      /\ \A t \in first_own..Len(built) : TenureTime(t) < Time(d)
      /\ Time(d) \in Int
  BY Zenon, <1>1, RelayedPending
<1>3. b.id \in Id /\ IsBurnBlock(b, b.id[1], Len(built))
  BY Zenon DEF BaseInv, ChainsOK, IsBurnBlock
<1>4. b.id[1] \in Nat
  BY <1>3 DEF Id
<1>5. b.winner \in first_own..Len(built) /\ built[b.winner][1] = b.id[1] - 1
  BY Zenon, <1>3, <1>4, WinTenure
<1>6. 2 * (b.id[1] - 1) + 1 < Time(d)
  BY Zenon, <1>2, <1>5 DEF TenureTime
<1>7. Time(d) < 2 * b.id[1]
  BY Zenon, <1>2 DEF Time
<1> QED
  BY <1>2, <1>4, <1>6, <1>7

LEMMA WinsRunTenure ==
    ASSUME BaseInv, BaseInv', OrderInv, WinsInv, [Next]_vars, RelayRunTenure
    PROVE  WinsInv'
<1>1. PICK d : d = Head(channel)
  OBVIOUS
<1>2. d.kind = "run" /\ relayer /\ UNCHANGED won
  BY Zenon, <1>1 DEF RelayRunTenure, Receives
<1>3. /\ Pending' \subseteq Pending /\ Pending = Pending' \cup {d}
      /\ UNCHANGED <<first_own, seen>>
  BY Zenon, <1>1, RelayedPending
<1>4. \A e \in Pending : e.kind = "process" => e \in Pending'
  BY <1>2, <1>3
<1>5. \A b : Notified(b)' <=> Notified(b)
  BY Zenon, <1>3, <1>4, NotifiedPending, NotifiedPendingNext DEF NotifiedMeans
<1>6. \A b \in seen : OwnWin(b)' <=> OwnWin(b)
  BY Zenon, <1>3, WinKept
<1>7. ASSUME NEW b \in seen, OwnWin(b) PROVE Notified(b)'
  BY Zenon, <1>7, NothingBetween, NotifiedPendingNext
<1>8. WinsAwaited'
  BY Zenon, <1>3, <1>6, <1>7 DEF WinsAwaited
<1>9. WinsReal'
  BY Zenon, <1>2, <1>3, <1>6 DEF WinsInv, WinsReal
<1>10. TenuresMatchWins'
  BY Zenon, <1>2, <1>3, <1>5, <1>6 DEF WinsInv, TenuresMatchWins
<1> QED
  BY Zenon, <1>8, <1>9, <1>10 DEF WinsInv

LEMMA WinsProcessTenure ==
    ASSUME BaseInv, BaseInv', OrderInv, WinsInv, [Next]_vars, RelayProcessTenure
    PROVE  WinsInv'
<1>1. PICK d : d = Head(channel)
  OBVIOUS
<1>2. /\ d.kind = "process" /\ relayer
      /\ (Won(d) /\ won' = won \cup {d.id}) \/ (~Won(d) /\ won' = won)
  BY Zenon, <1>1 DEF RelayProcessTenure, Receives
<1>3. /\ d \in Pending /\ Pending' \subseteq Pending /\ Pending = Pending' \cup {d}
      /\ UNCHANGED <<first_own, seen>>
  BY Zenon, <1>1, RelayedPending
<1>4. PICK b \in seen : d = ProcessTenure(b)
  <2>1. IsNotice(d, seen)
    BY Zenon, <1>3, PendingFacts
  <2> QED
    BY <1>2, <2>1 DEF IsNotice
<1>5. d.id = b.id /\ d.burn = b.parent /\ d.block = b.winner
  BY <1>4 DEF ProcessTenure
<1>6. \A c, e \in seen : c.id = e.id => c = e
  BY Zenon DEF BaseInv, ChainsOK
<1>7. \A c \in seen : OwnWin(c)' <=> OwnWin(c)
  BY Zenon, <1>3, WinKept
<1>8. ~Notified(b)
  BY Zenon, <1>2, <1>3, <1>5, NotifiedPending DEF NotifiedMeans
<1>9. \A c \in seen : Notified(c)' => Notified(c) \/ c = b
  <2> SUFFICES ASSUME NEW c \in seen, Notified(c)', c /= b PROVE Notified(c)
    BY Zenon
  <2>1. \A e \in Pending' : e.kind = "process" => e.id /= c.id
    BY Zenon, NotifiedPendingNext
  <2>2. d.id /= c.id
    BY Zenon, <1>5, <1>6
  <2>3. \A e \in Pending : e.kind = "process" => e.id /= c.id
    BY Zenon, <1>3, <2>1, <2>2
  <2> QED
    BY Zenon, <2>3, NotifiedPending DEF NotifiedMeans
<1>10. Won(d) <=> OwnWin(b)
  <2>1. ASSUME OwnWin(b) PROVE Won(d)
    <3>1. last_mined_block = <<b.winner>>
      BY Zenon, <1>8, <2>1 DEF WinsInv, WinsAwaited
    <3>2. last_mined_block /= <<>> /\ last_mined_block[1] = b.winner
      BY Zenon, <3>1, SingleFacts
    <3> QED
      BY Zenon, <1>5, <2>1, <3>2 DEF Won, OwnWin
  <2>2. ASSUME Won(d) PROVE OwnWin(b)
    <3>1. last_mined_block /= <<>> /\ last_mined_block[1] = b.winner /\ built[b.winner] = b.parent
      BY Zenon, <1>5, <2>2 DEF Won
    <3>2. PICK t \in first_own..Len(built) : last_mined_block = <<t>>
      BY Zenon, <3>1 DEF BaseInv, RunLoopOK
    <3>3. b.winner = t
      BY Zenon, <3>1, <3>2, SingleFacts
    <3>4. first_own \in 1..Len(built) + 1 /\ Len(built) \in Nat
      BY Zenon, LenProperties DEF BaseInv, RunLoopOK
    <3>5. t >= first_own
      BY <3>4
    <3> QED
      BY Zenon, <3>1, <3>3, <3>5 DEF OwnWin
  <2> QED
    BY Zenon, <2>1, <2>2
<1>11. b.id \in won => OwnWin(b)
  BY Zenon, <1>6 DEF WinsInv, WinsReal
<1>12. OwnWin(b) <=> b.id \in won'
  BY Zenon, <1>2, <1>5, <1>10, <1>11
<1>13. \A c \in seen : c /= b => (c.id \in won' <=> c.id \in won)
  BY Zenon, <1>2, <1>5, <1>6
<1>14. ASSUME NEW c \in seen, OwnWin(c) PROVE Notified(c)'
  BY Zenon, <1>14, NothingBetween, NotifiedPendingNext
<1>15. WinsAwaited'
  BY Zenon, <1>3, <1>7, <1>14 DEF WinsAwaited
<1>16. WinsReal'
  BY Zenon, <1>2, <1>3, <1>5, <1>7, <1>10 DEF WinsInv, WinsReal
<1>17. TenuresMatchWins'
  BY Zenon, <1>2, <1>3, <1>7, <1>9, <1>12, <1>13 DEF WinsInv, TenuresMatchWins
<1> QED
  BY Zenon, <1>15, <1>16, <1>17 DEF WinsInv

LEMMA WinsStep ==
    ASSUME BaseInv, BaseInv', OrderInv, WinsInv, [Next]_vars
    PROVE  WinsInv'
<1>1. CASE Quiet
  <2>1. /\ Pending' \subseteq Pending /\ UNCHANGED TenureVars
        /\ relayer' => relayer /\ \A d \in Pending : d.kind = "process" => d \in Pending'
    BY Zenon, <1>1, QuietStep DEF OrderInv
  <2>2. UNCHANGED <<first_own, last_mined_block, seen, won>>
    BY Zenon, <2>1 DEF TenureVars
  <2> QED
    BY Zenon, <2>1, <2>2, NoNews
<1>2. CASE IssueTenure
  <2>1. /\ Pending \subseteq Pending'
        /\ \A e \in Pending' : e \in Pending \/ (e.kind /= "process" /\ Time(e) = 2 * height + 1)
        /\ UNCHANGED <<first_own, last_mined_block, seen, won, relayer>>
    BY Zenon, <1>2, IssuePending DEF OrderInv
  <2> QED
    BY Zenon, <2>1, NoNews
<1>3. CASE Restart
  BY Zenon, <1>3, OrderRestart DEF WinsInv, WinsAwaited, WinsReal, TenuresMatchWins
<1> QED
  BY <1>1, <1>2, <1>3, WinsProcess, WinsRunTenure, WinsProcessTenure DEF Quiet

LEMMA InvHolds == Spec => []Inv
<1>1. Init => Inv
  <2>1. ASSUME Init PROVE WinsInv
    <3>1. seen = {} /\ won = {}
      BY Zenon, <2>1 DEF Init
    <3> QED
      BY Zenon, <3>1 DEF WinsInv, WinsAwaited, WinsReal, TenuresMatchWins
  <2> QED
    BY Zenon, <2>1, BaseInit, OrderInit DEF Inv, WinsInv
<1>2. Inv /\ [Next]_vars => Inv'
  <2> SUFFICES ASSUME Inv, [Next]_vars PROVE Inv'
    BY Zenon
  <2>1. BaseInv /\ OrderInv /\ WinsInv
    BY Zenon DEF Inv, WinsInv
  <2>2. BaseInv'
    BY Zenon, <2>1, BaseStep
  <2>3. OrderInv' /\ WinsInv'
    BY Zenon, <2>1, <2>2, OrderStep, WinsStep
  <2> QED
    BY Zenon, <2>2, <2>3 DEF Inv, WinsInv
<1> QED
  BY <1>1, <1>2, PTL DEF Spec

\* For any burn chain, channel size and number of restarts: once the relayer has heard of
\* a sortition, it has processed the block it mined exactly when that block won on the
\* burn block it was built on (relayer_thread's ProcessTenure).
THEOREM WinsAreProcessed == Spec => []TenuresMatchWins
<1>1. Inv => TenuresMatchWins
  BY Zenon DEF Inv
<1> QED
  BY <1>1, InvHolds, PTL

-----------------------------------------------------------------------------
(* Network results. *)

\* Where the network results are in a sequence of directives; whether they are those
\* after the h-th up to the f-th.
Net(s) == {i \in DOMAIN s : s[i].kind = "net"}
Kept(s, h, f) ==
    /\ {s[i].result : i \in Net(s)} = h + 1..f
    /\ \A i, j \in Net(s) : i < j => s[i].result < s[j].result

\* The relayer has handled no result that was not fetched.
ResultsInv == relayer => handled <= fetched /\ Kept(channel \o results, handled, fetched)

LEMMA NetMoved ==
    ASSUME NEW s, NEW t, NEW h, NEW f, NEW m, Kept(s, h, f),
           \A i \in Net(s) : m[i] \in Net(t) /\ t[m[i]] = s[i],
           \A j \in Net(t) : \E i \in Net(s) : m[i] = j,
           \A i, j \in Net(s) : m[i] < m[j] => i < j
    PROVE  Kept(t, h, f)
<1>1. {t[j].result : j \in Net(t)} = {s[i].result : i \in Net(s)}
  <2>1. ASSUME NEW j \in Net(t) PROVE \E i \in Net(s) : t[j].result = s[i].result
    OBVIOUS
  <2>2. ASSUME NEW i \in Net(s) PROVE \E j \in Net(t) : t[j].result = s[i].result
    <3>1. m[i] \in Net(t) /\ t[m[i]].result = s[i].result
      BY Zenon
    <3> QED
      BY Zenon, <3>1
  <2> QED
    BY <2>1, <2>2
<1>2. ASSUME NEW i \in Net(t), NEW j \in Net(t), i < j PROVE t[i].result < t[j].result
  <2>1. PICK k \in Net(s) : m[k] = i
    BY Zenon
  <2>2. PICK l \in Net(s) : m[l] = j
    BY Zenon
  <2>3. k < l /\ t[i] = s[k] /\ t[j] = s[l]
    BY Zenon, <1>2, <2>1, <2>2
  <2> QED
    BY <2>3 DEF Kept
<1> QED
  BY <1>1, <1>2 DEF Kept

\* The first directive is taken.
LEMMA TailKept ==
    ASSUME NEW s, IsSequence(s), s /= <<>>, NEW h \in Nat, NEW f \in Nat, Kept(s, h, f)
    PROVE  /\ s[1].kind /= "net" => Kept(Tail(s), h, f)
           /\ s[1].kind = "net" => s[1].result = h + 1 /\ h + 1 <= f /\ Kept(Tail(s), h + 1, f)
<1> DEFINE t == Tail(s)
<1>1. /\ IsSequence(t) /\ Len(t) = Len(s) - 1 /\ Len(s) \in Nat \ {0}
      /\ \A i \in 1..Len(s) - 1 : t[i] = s[i + 1]
  BY Zenon, TailFacts
<1> HIDE DEF t
<1>2. DOMAIN t = 1..Len(t) /\ DOMAIN s = 1..Len(s)
  BY Zenon, <1>1, SequenceFacts
<1>3. /\ \A i \in DOMAIN s : i \in Int /\ (i /= 1 => i - 1 \in DOMAIN t /\ t[i - 1] = s[i] /\ 1 < i)
      /\ \A j \in DOMAIN t : j + 1 \in DOMAIN s /\ t[j] = s[j + 1] /\ j + 1 /= 1 /\ (j + 1) - 1 = j
      /\ \A i, j \in DOMAIN s : i - 1 < j - 1 => i < j
      /\ 1 \in DOMAIN s
  <2>1. \A i \in 1..Len(s) : i \in Int /\ (i /= 1 => i - 1 \in 1..Len(t) /\ t[i - 1] = s[i] /\ 1 < i)
    <3> TAKE i \in 1..Len(s)
    <3>1. ASSUME i /= 1 PROVE i - 1 \in 1..Len(t) /\ i - 1 \in 1..Len(s) - 1 /\ (i - 1) + 1 = i /\ 1 < i
      BY <1>1, <3>1
    <3>2. i \in Int
      BY <1>1
    <3> QED
      BY Zenon, <1>1, <3>1, <3>2
  <2>2. \A j \in 1..Len(t) : j + 1 \in 1..Len(s) /\ t[j] = s[j + 1] /\ j + 1 /= 1 /\ (j + 1) - 1 = j
    BY <1>1
  <2>3. \A i, j \in 1..Len(s) : i - 1 < j - 1 => i < j
    BY <1>1
  <2>4. 1 \in 1..Len(s)
    BY <1>1
  <2> QED
    BY Zenon, <1>2, <2>1, <2>2, <2>3, <2>4
<1>4. ASSUME s[1].kind /= "net" PROVE Kept(t, h, f)
  <2> DEFINE m == [i \in Net(s) |-> i - 1]
  <2>1. \A i \in Net(s) : m[i] = i - 1 /\ i /= 1 /\ i \in DOMAIN s /\ s[i].kind = "net"
    BY Zenon, <1>4 DEF Net
  <2> HIDE DEF m
  <2>2. ASSUME NEW i \in Net(s) PROVE m[i] \in Net(t) /\ t[m[i]] = s[i]
    <3>1. i - 1 \in DOMAIN t /\ t[i - 1] = s[i] /\ s[i].kind = "net"
      BY Zenon, <1>3, <2>1
    <3>2. i - 1 \in Net(t)
      BY Zenon, <3>1 DEF Net
    <3> QED
      BY Zenon, <2>1, <3>1, <3>2
  <2>3. ASSUME NEW j \in Net(t) PROVE \E i \in Net(s) : m[i] = j
    <3>1. j + 1 \in Net(s) /\ (j + 1) - 1 = j
      BY Zenon, <1>3 DEF Net
    <3> QED
      BY Zenon, <2>1, <3>1
  <2>4. ASSUME NEW i \in Net(s), NEW j \in Net(s), m[i] < m[j] PROVE i < j
    <3>1. i - 1 < j - 1 /\ i \in DOMAIN s /\ j \in DOMAIN s
      BY Zenon, <2>1, <2>4
    <3> QED
      BY Zenon, <1>3, <3>1
  <2> QED
    BY Zenon, <2>2, <2>3, <2>4, NetMoved
<1>5. ASSUME s[1].kind = "net" PROVE s[1].result = h + 1 /\ h + 1 <= f /\ Kept(t, h + 1, f)
  <2>1. 1 \in Net(s)
    BY Zenon, <1>3, <1>5 DEF Net
  <2>2. s[1].result \in h + 1..f
    BY Zenon, <2>1 DEF Kept
  <2>3. h + 1 \in h + 1..f /\ h + 1 <= f
    BY <2>2
  <2>4. PICK k \in Net(s) : s[k].result = h + 1
    BY Zenon, <2>3 DEF Kept
  <2>5. k = 1
    <3>1. ASSUME k /= 1 PROVE s[1].result < h + 1
      <4>1. 1 < k
        BY Zenon, <1>3, <3>1 DEF Net
      <4> QED
        BY Zenon, <2>1, <2>4, <4>1 DEF Kept
    <3> QED
      BY <2>2, <3>1
  <2>6. s[1].result = h + 1
    BY Zenon, <2>4, <2>5
  <2>7. ASSUME NEW j \in Net(t)
        PROVE  j + 1 \in Net(s) /\ t[j] = s[j + 1] /\ t[j].result \in (h + 1) + 1..f
    <3>1. j + 1 \in Net(s) /\ t[j] = s[j + 1] /\ j + 1 /= 1
      BY Zenon, <1>3 DEF Net
    <3>2. 1 < j + 1
      BY Zenon, <1>3, <3>1 DEF Net
    <3>3. s[1].result < s[j + 1].result /\ s[j + 1].result \in h + 1..f
      BY Zenon, <2>1, <3>1, <3>2 DEF Kept
    <3>4. s[j + 1].result \in (h + 1) + 1..f
      BY <2>6, <3>3
    <3> QED
      BY Zenon, <3>1, <3>4
  <2>8. ASSUME NEW n \in (h + 1) + 1..f PROVE \E j \in Net(t) : t[j].result = n
    <3>1. n \in h + 1..f /\ n /= h + 1
      OBVIOUS
    <3>2. PICK i \in Net(s) : s[i].result = n
      BY Zenon, <3>1 DEF Kept
    <3>3. i /= 1
      BY Zenon, <2>6, <3>1, <3>2
    <3>4. i - 1 \in Net(t) /\ t[i - 1] = s[i]
      BY Zenon, <1>3, <3>3 DEF Net
    <3> QED
      BY Zenon, <3>2, <3>4
  <2>9. ASSUME NEW i \in Net(t), NEW j \in Net(t), i < j PROVE t[i].result < t[j].result
    <3>1. i + 1 < j + 1
      BY <1>1, <1>2, <2>9 DEF Net
    <3> QED
      BY Zenon, <2>7, <3>1 DEF Kept
  <2>10. {t[j].result : j \in Net(t)} = (h + 1) + 1..f
    BY Zenon, <2>7, <2>8
  <2> QED
    BY Zenon, <2>3, <2>6, <2>9, <2>10 DEF Kept
<1> QED
  BY Zenon, <1>4, <1>5 DEF t

\* The next result comes in.
LEMMA AppendKept ==
    ASSUME NEW s, IsSequence(s), NEW h \in Nat, NEW f \in Nat, h <= f, Kept(s, h, f),
           NEW x, x.kind = "net", x.result = f + 1
    PROVE  Kept(Append(s, x), h, f + 1)
<1> DEFINE t == Append(s, x)
           top == Len(s) + 1
<1>1. /\ IsSequence(t) /\ Len(t) = top /\ t[top] = x
      /\ \A i \in 1..Len(s) : t[i] = s[i]
  BY AppendFacts
<1>2. Len(s) \in Nat /\ DOMAIN s = 1..Len(s)
  BY Zenon, SequenceFacts
<1> HIDE DEF t
<1>3. DOMAIN t = 1..top
  BY Zenon, <1>1, SequenceFacts
<1>4. /\ \A i \in 1..top : i \in 1..Len(s) \/ i = top
      /\ 1..Len(s) \subseteq 1..top /\ top \in 1..top /\ \A i \in 1..top : ~(top < i)
  BY <1>2
<1> HIDE DEF top
<1>5. /\ \A i \in Net(s) : i \in Net(t) /\ t[i] = s[i]
      /\ top \in Net(t) /\ t[top].result = f + 1
      /\ \A i \in Net(t) : (i \in Net(s) \/ i = top) /\ ~(top < i)
  BY Zenon, <1>1, <1>2, <1>3, <1>4 DEF Net
<1>6. \A i \in Net(s) : s[i].result \in h + 1..f
  BY Zenon DEF Kept
<1>7. /\ \A n \in h + 1..f : n \in h + 1..(f + 1) /\ n < f + 1
      /\ \A n \in h + 1..(f + 1) : n \in h + 1..f \/ n = f + 1
      /\ f + 1 \in h + 1..(f + 1)
  OBVIOUS
<1>8. {t[i].result : i \in Net(t)} = h + 1..(f + 1)
  <2>1. ASSUME NEW i \in Net(t) PROVE t[i].result \in h + 1..(f + 1)
    BY Zenon, <1>5, <1>6, <1>7
  <2>2. ASSUME NEW n \in h + 1..(f + 1) PROVE \E i \in Net(t) : t[i].result = n
    <3>1. CASE n \in h + 1..f
      <4>1. PICK i \in Net(s) : s[i].result = n
        BY Zenon, <3>1 DEF Kept
      <4> QED
        BY Zenon, <1>5, <4>1
    <3> QED
      BY Zenon, <1>5, <1>7, <3>1
  <2> QED
    BY Zenon, <2>1, <2>2
<1>9. ASSUME NEW i \in Net(t), NEW j \in Net(t), i < j PROVE t[i].result < t[j].result
  <2>1. i \in Net(s) /\ t[i] = s[i]
    BY Zenon, <1>5, <1>9
  <2>2. CASE j \in Net(s)
    BY Zenon, <1>5, <1>9, <2>1, <2>2 DEF Kept
  <2>3. CASE j = top
    BY Zenon, <1>5, <1>6, <1>7, <2>1, <2>3
  <2> QED
    BY Zenon, <1>5, <2>2, <2>3
<1> QED
  BY Zenon, <1>8, <1>9 DEF Kept, t

LEMMA ConcatElements ==
    ASSUME NEW c, IsSequence(c), NEW r, IsSequence(r)
    PROVE  /\ IsSequence(c \o r) /\ Len(c) \in Nat /\ Len(r) \in Nat /\ Len(c \o r) = Len(c) + Len(r)
           /\ DOMAIN (c \o r) = 1..Len(c) + Len(r)
           /\ \A i \in 1..Len(c) + Len(r) :
                /\ i <= Len(c) => i \in 1..Len(c) /\ (c \o r)[i] = c[i]
                /\ i > Len(c) => i - Len(c) \in 1..Len(r) /\ (c \o r)[i] = r[i - Len(c)]
<1>1. Len(c) \in Nat /\ Len(r) \in Nat
  BY Zenon, SequenceFacts
<1>2. /\ IsSequence(c \o r) /\ Len(c \o r) = Len(c) + Len(r)
      /\ \A i \in 1..Len(c) : (c \o r)[i] = c[i]
      /\ \A i \in 1..Len(r) : (c \o r)[Len(c) + i] = r[i]
  BY ConcatFacts
<1>3. DOMAIN (c \o r) = 1..Len(c) + Len(r)
  BY Zenon, <1>2, SequenceFacts
<1>4. ASSUME NEW i \in 1..Len(c) + Len(r), i <= Len(c) PROVE i \in 1..Len(c)
  BY <1>1, <1>4
<1>5. ASSUME NEW i \in 1..Len(c) + Len(r), i > Len(c)
      PROVE  i - Len(c) \in 1..Len(r) /\ Len(c) + (i - Len(c)) = i
  BY <1>1, <1>5
<1>6. ASSUME NEW i \in 1..Len(c) + Len(r), i > Len(c) PROVE (c \o r)[i] = r[i - Len(c)]
  BY Zenon, <1>2, <1>5, <1>6
<1> QED
  BY Zenon, <1>1, <1>2, <1>3, <1>4, <1>5, <1>6

\* A notice gets into the channel before the results that wait.
LEMMA InsertKept ==
    ASSUME NEW c, IsSequence(c), NEW r, IsSequence(r), NEW h, NEW f, Kept(c \o r, h, f),
           NEW x, x.kind /= "net"
    PROVE  Kept(Append(c, x) \o r, h, f)
<1> DEFINE s == c \o r
           t == Append(c, x) \o r
           n == Len(c)
           k == Len(r)
           m == [i \in Net(s) |-> IF i <= n THEN i ELSE i + 1]
<1>1. /\ n \in Nat /\ k \in Nat /\ DOMAIN s = 1..n + k
      /\ \A i \in 1..n + k : (i <= n => s[i] = c[i]) /\ (i > n => s[i] = r[i - n])
  BY ZenonT(30), ConcatElements
<1>2. /\ IsSequence(Append(c, x)) /\ Len(Append(c, x)) = n + 1
      /\ \A i \in 1..n : Append(c, x)[i] = c[i]
      /\ Append(c, x)[n + 1] = x
  BY Zenon, AppendFacts
<1>3. /\ DOMAIN t = 1..(n + 1) + k
      /\ \A i \in 1..(n + 1) + k : 
            /\ i <= n + 1 => t[i] = Append(c, x)[i]
            /\ i > n + 1 => t[i] = r[i - (n + 1)]
  <2> DEFINE a == Append(c, x)
  <2>0. IsSequence(a)
    BY Zenon, <1>2
  <2>1. Len(a) = n + 1 /\ Len(r) = k
    BY Zenon, <1>2
  <2> HIDE DEF a, n, k
  <2>2. /\ DOMAIN (a \o r) = 1..Len(a) + Len(r)
        /\ \A i \in 1..Len(a) + Len(r) :
            (i <= Len(a) => (a \o r)[i] = a[i]) /\ (i > Len(a) => (a \o r)[i] = r[i - Len(a)])
    BY ZenonT(30), <2>0, ConcatElements
  <2>3. /\ DOMAIN (a \o r) = 1..(n + 1) + k
        /\ \A i \in 1..(n + 1) + k :
            (i <= n + 1 => (a \o r)[i] = a[i]) /\ (i > n + 1 => (a \o r)[i] = r[i - (n + 1)])
    BY Zenon, <2>1, <2>2
  <2> QED
    BY Zenon, <2>3 DEF a
<1> HIDE DEF s, t, n, k
<1>4. ASSUME NEW i \in 1..n + k
      PROVE  /\ i <= n => i \in 1..(n + 1) + k /\ t[i] = s[i]
             /\ ~(i <= n) => i + 1 \in 1..(n + 1) + k /\ t[i + 1] = s[i]
  <2>1. ASSUME i <= n PROVE i \in 1..(n + 1) + k /\ t[i] = s[i]
    <3>1. i \in 1..(n + 1) + k /\ i <= n + 1 /\ i \in 1..n
      BY <1>1, <2>1
    <3> QED
      BY Zenon, <1>1, <1>2, <1>3, <2>1, <3>1
  <2>2. ASSUME ~(i <= n) PROVE i + 1 \in 1..(n + 1) + k /\ t[i + 1] = s[i]
    <3>1. i + 1 \in 1..(n + 1) + k /\ i + 1 > n + 1 /\ i > n /\ (i + 1) - (n + 1) = i - n
      BY <1>1, <2>2
    <3> QED
      BY <1>1, <1>3, <3>1
  <2> QED
    BY Zenon, <2>1, <2>2
<1>5. t[n + 1] = x
  <2>1. n + 1 \in 1..(n + 1) + k /\ n + 1 <= n + 1
    BY <1>1
  <2> QED
    BY Zenon, <1>2, <1>3, <2>1
<1>6. ASSUME NEW j \in 1..(n + 1) + k, j /= n + 1
      PROVE  (j <= n /\ j \in 1..n + k) \/ (~(j - 1 <= n) /\ j - 1 \in 1..n + k /\ (j - 1) + 1 = j)
  BY <1>1, <1>6
<1>7. \A i \in Net(s) : i \in 1..n + k /\ s[i].kind = "net"
  BY Zenon, <1>1 DEF Net
<1>8. ASSUME NEW i \in Net(s) PROVE m[i] \in Net(t) /\ t[m[i]] = s[i]
  <2>1. CASE i <= n
    BY Zenon, <1>3, <1>4, <1>7, <2>1 DEF Net
  <2>2. CASE ~(i <= n)
    BY Zenon, <1>3, <1>4, <1>7, <2>2 DEF Net
  <2> QED
    BY Zenon, <2>1, <2>2
<1>9. ASSUME NEW j \in Net(t) PROVE \E i \in Net(s) : m[i] = j
  <2>1. j \in 1..(n + 1) + k /\ t[j].kind = "net" /\ j /= n + 1
    BY Zenon, <1>3, <1>5 DEF Net
  <2>2. CASE j <= n /\ j \in 1..n + k
    <3>1. j \in Net(s)
      BY Zenon, <1>1, <1>4, <2>1, <2>2 DEF Net
    <3> QED
      BY Zenon, <2>2, <3>1
  <2>3. CASE ~(j - 1 <= n) /\ j - 1 \in 1..n + k /\ (j - 1) + 1 = j
    <3>1. t[j] = s[j - 1]
      BY Zenon, <1>4, <2>3
    <3>2. j - 1 \in Net(s)
      BY Zenon, <1>1, <2>1, <2>3, <3>1 DEF Net
    <3>3. m[j - 1] = j
      BY Zenon, <2>3, <3>2
    <3> QED
      BY Zenon, <3>2, <3>3
  <2> QED
    BY Zenon, <1>6, <2>1, <2>2, <2>3
<1>10. ASSUME NEW i \in Net(s), NEW j \in Net(s), m[i] < m[j] PROVE i < j
  <2>1. /\ i \in Int /\ j \in Int /\ n \in Int
        /\ m[i] = IF i <= n THEN i ELSE i + 1 
        /\ m[j] = IF j <= n THEN j ELSE j + 1
    BY <1>1, <1>7
  <2> HIDE DEF m
  <2> QED
    BY <1>10, <2>1
<1> HIDE DEF m
<1>11. Kept(s, h, f)
  BY Zenon DEF s
<1>12. Kept(t, h, f)
  BY <1>8, <1>9, <1>10, <1>11, NetMoved
<1> QED
  BY Zenon, <1>12 DEF t

\* The first of the results is moved to the channel.
LEMMA MoveHead ==
    ASSUME NEW c, IsSequence(c), NEW r, IsSequence(r), r /= <<>>
    PROVE  Append(c, Head(r)) \o Tail(r) = c \o r
<1>1. PICK S : c \in Seq(S)
  BY Zenon DEF IsSequence
<1>2. PICK T : r \in Seq(T)
  BY Zenon DEF IsSequence
<1> DEFINE U == S \cup T
<1>3. c \in Seq(U) /\ r \in Seq(U)
  BY <1>1, <1>2, SeqMonotonic
<1> HIDE DEF U
<1>4. Head(r) \in U /\ Tail(r) \in Seq(U)
  BY <1>3, HeadTailProperties
<1>5. <<Head(r)>> \in Seq(U)
  BY <1>4
<1>6. Append(c, Head(r)) = c \o <<Head(r)>>
  BY <1>3, <1>4, AppendIsConcat
<1>7. (c \o <<Head(r)>>) \o Tail(r) = c \o (<<Head(r)>> \o Tail(r))
  BY <1>3, <1>4, <1>5, ConcatAssociative
<1>8. <<Head(r)>> \o Tail(r) = r
  BY Zenon, HeadAndTail
<1> QED
  BY Zenon, <1>6, <1>7, <1>8

LEMMA AppendRight ==
    ASSUME NEW c, IsSequence(c), NEW r, IsSequence(r), NEW x
    PROVE  c \o Append(r, x) = Append(c \o r, x)
<1>1. PICK S : c \in Seq(S)
  BY Zenon DEF IsSequence
<1>2. PICK T : r \in Seq(T)
  BY Zenon DEF IsSequence
<1> DEFINE U == (S \cup T) \cup {x}
<1>3. c \in Seq(U) /\ r \in Seq(U) /\ x \in U
  BY <1>1, <1>2, SeqMonotonic
<1> HIDE DEF U
<1>4. c \o r \in Seq(U) /\ <<x>> \in Seq(U)
  BY <1>3, ConcatProperties
<1>5. Append(r, x) = r \o <<x>>
  BY <1>3, AppendIsConcat
<1>6. Append(c \o r, x) = (c \o r) \o <<x>>
  BY <1>3, <1>4, AppendIsConcat
<1>7. (c \o r) \o <<x>> = c \o (r \o <<x>>)
  BY <1>3, <1>4, ConcatAssociative
<1> QED
  BY Zenon, <1>5, <1>6, <1>7

LEMMA TailLeft ==
    ASSUME NEW c, IsSequence(c), c /= <<>>, NEW r, IsSequence(r)
    PROVE  Tail(c) \o r = Tail(c \o r) /\ IsSequence(c \o r) /\ c \o r /= <<>> /\ (c \o r)[1] = c[1]
<1> DEFINE s == c \o r
           u == Tail(c)
           n == Len(c)
           k == Len(r)
<1>1. /\ IsSequence(s) /\ n \in Nat /\ k \in Nat /\ Len(s) = n + k
      /\ \A i \in 1..n + k : (i <= n => s[i] = c[i]) /\ (i > n => s[i] = r[i - n])
  BY Zenon, ConcatElements
<1>2. IsSequence(u) /\ Len(u) = n - 1 /\ n \in Nat \ {0} /\ \A i \in 1..n - 1 : u[i] = c[i + 1]
  BY Zenon, TailFacts
<1> HIDE DEF u
<1>3. /\ IsSequence(u \o r) /\ Len(u \o r) = Len(u) + k
      /\ \A i \in 1..Len(u) + k : 
            (i <= Len(u) => (u \o r)[i] = u[i]) /\ (i > Len(u) => (u \o r)[i] = r[i - Len(u)])
  BY ZenonT(30), <1>2, ConcatElements
<1> HIDE DEF s
<1>4. Len(s) > 0
  BY <1>1, <1>2
<1>5. s /= <<>>
  BY Zenon, <1>1, <1>4, SequenceFacts
<1>6. IsSequence(Tail(s)) /\ Len(Tail(s)) = Len(s) - 1 /\ \A i \in 1..Len(s) - 1 : Tail(s)[i] = s[i + 1]
  BY <1>1, <1>5, TailFacts
<1> HIDE DEF n, k
<1>7. Len(Tail(s)) = Len(u) + k
  BY <1>1, <1>2, <1>6
<1>8. ASSUME NEW i \in 1..Len(u) + k PROVE Tail(s)[i] = (u \o r)[i]
  <2>1. i + 1 \in 1..n + k /\ i \in 1..Len(s) - 1
    BY <1>1, <1>2
  <2>2. Tail(s)[i] = s[i + 1]
    BY Zenon, <1>6, <2>1
  <2>3. CASE i <= Len(u)
    <3>1. i + 1 <= n /\ i \in 1..n - 1
      BY <1>2, <2>3
    <3> QED
      BY <1>1, <1>2, <1>3, <2>1, <2>2, <2>3, <3>1
  <2>4. CASE ~(i <= Len(u))
    <3>1. i + 1 > n /\ i > Len(u) /\ (i + 1) - n = i - Len(u)
      BY <1>1, <1>2, <2>4
    <3> QED
      BY Zenon, <1>1, <1>3, <2>1, <2>2, <3>1
  <2> QED
    BY Zenon, <2>3, <2>4
<1>9. Tail(s) = u \o r
  BY Zenon, <1>3, <1>6, <1>7, <1>8, SequenceEqual
<1>10. s[1] = c[1]
  <2>1. 1 \in 1..n + k /\ 1 <= n
    BY <1>1, <1>2
  <2> QED
    BY Zenon, <1>1, <2>1
<1> QED
  BY Zenon, <1>1, <1>5, <1>9, <1>10 DEF s, u

ResultVars == <<channel, results, handled, fetched, relayer>>

LEMMA ResultsFrame ==
    ASSUME [Next]_vars
    PROVE  UNCHANGED ResultVars \/ Send \/ Restart \/ Poll \/ Dispatch \/ Relayer
<1> USE DEF ResultVars
<1>1. CASE UNCHANGED vars
  BY Zenon, <1>1 DEF vars, p2p_thread
<1>2. CASE NewBurnBlock
  BY Zenon, <1>2 DEF NewBurnBlock, p2p_thread
<1>3. CASE Reorg
  BY Zenon, <1>3 DEF Reorg, p2p_thread
<1>4. CASE StopCoordinator
  BY Zenon, <1>4 DEF StopCoordinator, p2p_thread
<1>5. CASE Sync \/ WaitForSortitions
  BY Zenon, <1>5 DEF Sync, WaitForSortitions, p2p_thread
<1>6. CASE ProcessBurnchainState
  BY Zenon, <1>6 DEF ProcessBurnchainState, p2p_thread
<1>7. CASE IssueTenure
  BY Zenon, <1>7 DEF IssueTenure, p2p_thread
<1> QED
  BY <1>1, <1>2, <1>3, <1>4, <1>5, <1>6, <1>7 DEF Next, RunLoop

LEMMA ResultsStep ==
    ASSUME BaseInv, ResultsInv, [Next]_vars
    PROVE  ResultsInv'
<1>1. IsSequence(channel) /\ IsSequence(results) /\ handled \in Nat /\ fetched \in Nat
  BY Zenon DEF BaseInv, DirectivesOK
<1>2. relayer => handled <= fetched /\ Kept(channel \o results, handled, fetched)
  BY Zenon DEF ResultsInv
<1> SUFFICES relayer' => handled' <= fetched' /\ Kept(channel' \o results', handled', fetched')
  BY Zenon DEF ResultsInv
<1>3. CASE UNCHANGED ResultVars
  BY Zenon, <1>2, <1>3 DEF ResultVars
<1>4. CASE Send
  <2>1. /\ UNCHANGED <<results, handled, fetched, relayer>> /\ sending /= <<>>
        /\ relayer => channel' = channel \o sending
    BY Zenon, <1>4 DEF Send, p2p_thread
  <2>2. PICK d : d.kind /= "net" /\ channel \o sending = Append(channel, d)
    BY Zenon, <2>1, SentNotice
  <2>3. Kept(channel \o results, handled, fetched) => Kept(Append(channel, d) \o results, handled, fetched)
    BY Zenon, <1>1, <2>2, InsertKept
  <2> QED
    BY Zenon, <1>2, <2>1, <2>2, <2>3
<1>5. CASE Restart
  <2>1. channel' = <<>> /\ results' = <<>> /\ handled' = 0 /\ fetched' = 0
    BY Zenon, <1>5 DEF Restart, Boot
  <2>2. <<>> \o <<>> = <<>> /\ DOMAIN <<>> = {} /\ 0 + 1..0 = {} /\ 0 <= 0
    OBVIOUS
  <2>3. Kept(<<>>, 0, 0)
    BY Zenon, <2>2 DEF Kept, Net
  <2> QED
    BY Zenon, <2>1, <2>2, <2>3
<1>6. CASE Poll
  <2> DEFINE x == HandleNetResult(fetched + 1)
  <2>1. /\ UNCHANGED <<channel, handled, relayer>>
        /\ \/ UNCHANGED <<results, fetched>>
           \/ fetched' = fetched + 1 /\ results' = Append(results, x)
    BY Zenon, <1>6 DEF Poll
  <2>2. x.kind = "net" /\ x.result = fetched + 1
    BY DEF HandleNetResult
  <2> HIDE DEF x
  <2>3. ASSUME relayer PROVE handled <= fetched + 1 /\ Kept(channel \o Append(results, x), handled, fetched + 1)
    <3>1. handled <= fetched /\ Kept(channel \o results, handled, fetched)
      BY Zenon, <1>2, <2>3
    <3>2. handled <= fetched + 1
      BY <1>1, <3>1
    <3>3. IsSequence(channel \o results)
      BY Zenon, <1>1, ConcatElements
    <3>4. Kept(Append(channel \o results, x), handled, fetched + 1)
      BY <1>1, <2>2, <3>1, <3>3, AppendKept
    <3>5. channel \o Append(results, x) = Append(channel \o results, x)
      BY <1>1, AppendRight
    <3> QED
      BY Zenon, <3>2, <3>4, <3>5
  <2> QED
    BY Zenon, <1>2, <2>1, <2>3
<1>7. CASE Dispatch
  <2>1. UNCHANGED <<fetched, relayer, handled>>
    BY Zenon, <1>7 DEF Dispatch
  <2>2. \/ UNCHANGED <<results, channel>>
        \/ results /= <<>> /\ channel' = Append(channel, Head(results)) /\ results' = Tail(results)
        \/ results /= <<>> /\ results' = KeptResults /\ channel' = channel
        \/ ~relayer
    BY Zenon, <1>7 DEF Dispatch
  <2>3. ASSUME relayer PROVE channel' \o results' = channel \o results
    <3>1. results /= <<>> => KeptResults = results
      BY Zenon, <1>1, HeadAndTail DEF KeptResults
    <3>2. results /= <<>> => Append(channel, Head(results)) \o Tail(results) = channel \o results
      BY <1>1, MoveHead
    <3>3. CASE UNCHANGED <<results, channel>>
      BY Zenon, <3>3
    <3>4. CASE results /= <<>> /\ channel' = Append(channel, Head(results)) /\ results' = Tail(results)
      BY Zenon, <3>2, <3>4
    <3>5. CASE results /= <<>> /\ results' = KeptResults /\ channel' = channel
      BY Zenon, <3>1, <3>5
    <3> QED
      BY <2>2, <2>3, <3>3, <3>4, <3>5
  <2> QED
    BY Zenon, <1>2, <2>1, <2>3
<1>8. CASE Relayer
  <2> DEFINE s == channel \o results
  <2>1. /\ channel /= <<>> /\ channel' = Tail(channel) /\ Head(channel) = channel[1] /\ relayer
        /\ UNCHANGED <<results, fetched>> /\ (~RelayNetResult => handled' = handled)
    BY Zenon, <1>8, RelayerReceives DEF p2p_thread
  <2>2. channel' \o results' = Tail(s) /\ IsSequence(s) /\ s /= <<>> /\ s[1] = Head(channel)
    BY Zenon, <1>1, <2>1, TailLeft
  <2>3. handled <= fetched /\ Kept(s, handled, fetched)
    BY Zenon, <1>2, <2>1
  <2> HIDE DEF s
  <2>4. /\ s[1].kind /= "net" => Kept(Tail(s), handled, fetched)
        /\ s[1].kind = "net" =>
             s[1].result = handled + 1 /\ handled + 1 <= fetched /\ Kept(Tail(s), handled + 1, fetched)
    BY <1>1, <2>2, <2>3, TailKept
  <2>5. CASE RelayNetResult
    <3>1. s[1].kind = "net" /\ handled' = s[1].result
      BY Zenon, <2>2, <2>5 DEF RelayNetResult, Receives
    <3> QED
      BY Zenon, <2>1, <2>2, <2>4, <3>1
  <2>6. CASE ~RelayNetResult
    <3>1. s[1].kind /= "net"
      BY <1>8, <2>2, <2>6, RelayerReceives
    <3> QED
      BY Zenon, <2>1, <2>2, <2>3, <2>4, <2>6, <3>1
  <2> QED
    BY Zenon, <2>5, <2>6
<1> QED
  BY <1>3, <1>4, <1>5, <1>6, <1>7, <1>8, ResultsFrame

\* For any channel size, and whenever the channel is full: as long as the relayer runs,
\* the network results it has not handled are in the channel and in the p2p thread's
\* queue, each once and in the order in which they came (results_with_data).
THEOREM ResultsAreKept == Spec => []NetResultsKept
<1>1. Init => BaseInv /\ ResultsInv
  <2> SUFFICES ASSUME Init PROVE ResultsInv
    BY Zenon, BaseInit
  <2>1. channel = <<>> /\ results = <<>> /\ handled = 0 /\ fetched = 0
    BY Zenon DEF Init
  <2>2. <<>> \o <<>> = <<>> /\ DOMAIN <<>> = {} /\ 0 + 1..0 = {} /\ 0 <= 0
    OBVIOUS
  <2>3. Kept(<<>>, 0, 0)
    BY Zenon, <2>2 DEF Kept, Net
  <2> QED
    BY Zenon, <2>1, <2>2, <2>3 DEF ResultsInv
<1>2. (BaseInv /\ ResultsInv) /\ [Next]_vars => (BaseInv /\ ResultsInv)'
  BY Zenon, BaseStep, ResultsStep
<1>3. ResultsInv => NetResultsKept
  BY Zenon DEF ResultsInv, NetResultsKept, Kept, Net
<1> QED
  BY <1>1, <1>2, <1>3, PTL DEF Spec
=============================================================================
