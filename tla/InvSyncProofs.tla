---------------------------- MODULE InvSyncProofs ---------------------------
(***************************************************************************)
(* What inventories say of the neighbors is true, for any number of        *)
(* neighbors, any forks, any lengths of reward cycles, and any order of    *)
(* requests, answers, timeouts, announcements and refreshes.               *)
(*                                                                         *)
(* Between two refreshes our view of the sortitions may be old.  The       *)
(* invariant names the number d of PoX bits that the view and our own      *)
(* sortitions share (Level), and says that each bit of an inventory below  *)
(* that cycle is backed by a block the neighbor stored on our own fork     *)
(* (Backed).  The next refresh cuts the inventories at d or below, so the  *)
(* rest is forgotten before it counts.  An answer is about the fork its    *)
(* request named, and this may be our former one; RequestOK, ReplyOK and   *)
(* ScanOK keep track of which cycle was asked about.                       *)
(***************************************************************************)
EXTENDS InvSync, WellFoundedInduction, TLAPS

-----------------------------------------------------------------------------
(* Reward cycles *)

\* Division, from its quotient and remainder.
LEMMA Quotient ==
  ASSUME NEW x \in Nat, NEW r \in Nat \ {0}, NEW c \in Nat
  PROVE  /\ x \div r \in Nat
         /\ x < c * r <=> x \div r < c
         /\ x >= c * r /\ x < c * r + r => x \div r = c
<1>1. x \div r \in Nat /\ r * (x \div r) <= x /\ x < r * (x \div r) + r
  OBVIOUS
<1> DEFINE q == x \div r
<1>2. q \in Nat /\ r * q <= x /\ x < r * q + r
  BY <1>1
<1> HIDE DEF q
<1>3. q < c => x < c * r
  <2> SUFFICES ASSUME q < c PROVE x < c * r
    OBVIOUS
  <2>1. r * (q + 1) <= r * c
    BY <1>2, Z3
  <2> QED BY <2>1, <1>2, Z3
<1>4. q > c => x >= c * r + r
  <2> SUFFICES ASSUME q > c PROVE x >= c * r + r
    OBVIOUS
  <2>1. r * (c + 1) <= r * q
    BY <1>2, Z3
  <2> QED BY <2>1, <1>2, Z3
<1>5. q = c => x >= c * r
  BY <1>2, Z3
<1> QED BY <1>2, <1>3, <1>4, <1>5, Z3 DEF q

\* The reward cycle of a height: the heights below the first of cycle c are those of
\* earlier cycles, and the cycle's own heights are the next RewardCycleLength ones.
LEMMA Cycles ==
  ASSUME NEW h \in Nat \ {0}, NEW c \in Nat
  PROVE  /\ CycleOf(h) \in Nat
         /\ reward_cycle_to_block_height(c) \in Nat \ {0}
         /\ h < reward_cycle_to_block_height(c) <=> CycleOf(h) < c
         /\ h \in reward_cycle_to_block_height(c)..(reward_cycle_to_block_height(c) + RewardCycleLength - 1)
              => CycleOf(h) = c
<1>1. RewardCycleLength \in Nat \ {0}
  BY ScanAssumption
<1>2. h - 1 \in Nat
  OBVIOUS
<1> DEFINE x == h - 1
           r == RewardCycleLength
<1>3. /\ x \div r \in Nat
      /\ x < c * r <=> x \div r < c
      /\ x >= c * r /\ x < c * r + r => x \div r = c
  BY <1>1, <1>2, Quotient
<1>4. c * r \in Nat
  BY <1>1
<1> QED BY <1>1, <1>3, <1>4 DEF CycleOf, reward_cycle_to_block_height

\* The first height of a cycle is of that cycle.
LEMMA CycleOfFirst ==
  ASSUME NEW c \in Nat PROVE CycleOf(reward_cycle_to_block_height(c)) = c
<1>1. RewardCycleLength \in Nat \ {0}
  BY ScanAssumption
<1>2. reward_cycle_to_block_height(c) \in Nat \ {0}
  BY <1>1 DEF reward_cycle_to_block_height
<1> QED BY <1>1, <1>2, Cycles

\* The last height of the cycle before c.
LEMMA CycleOfLast ==
  ASSUME NEW c \in Nat \ {0}
  PROVE  c * RewardCycleLength \in Nat \ {0} /\ CycleOf(c * RewardCycleLength) = c - 1
<1>1. RewardCycleLength \in Nat \ {0}
  BY ScanAssumption
<1> DEFINE h == c * RewardCycleLength
<1>2. h \in Nat \ {0} /\ h = (c - 1) * RewardCycleLength + RewardCycleLength
  BY <1>1, Z3
<1>3. CycleOf(h) \in Nat /\ (h < reward_cycle_to_block_height(c) <=> CycleOf(h) < c)
      /\ (h < reward_cycle_to_block_height(c - 1) <=> CycleOf(h) < c - 1)
  BY <1>2, Cycles
<1> QED BY <1>1, <1>2, <1>3 DEF reward_cycle_to_block_height

\* Later heights are of the same or of later cycles.
LEMMA CycleMonotone ==
  ASSUME NEW h \in Nat \ {0}, NEW k \in Nat \ {0}, h <= k
  PROVE  CycleOf(h) <= CycleOf(k)
<1>1. CycleOf(k) \in Nat /\ CycleOf(k) + 1 \in Nat /\ CycleOf(h) \in Nat
  BY Cycles
<1>2. k < reward_cycle_to_block_height(CycleOf(k) + 1)
  BY <1>1, Cycles
<1>3. h < reward_cycle_to_block_height(CycleOf(k) + 1)
  BY <1>1, <1>2, Cycles
<1>4. CycleOf(h) < CycleOf(k) + 1
  BY <1>1, <1>3, Cycles
<1> QED BY <1>1, <1>4

\* A height and the next one are of the same cycle or of two that follow each other.
LEMMA CycleNext ==
  ASSUME NEW h \in Nat \ {0}
  PROVE  CycleOf(h + 1) \in {CycleOf(h), CycleOf(h) + 1}
<1>1. RewardCycleLength \in Nat \ {0} /\ CycleOf(h) \in Nat /\ CycleOf(h + 1) \in Nat
  BY ScanAssumption, Cycles
<1> DEFINE c == CycleOf(h)
<1>2. h < reward_cycle_to_block_height(c + 1)
  BY <1>1, Cycles
<1>3. reward_cycle_to_block_height(c + 2) = reward_cycle_to_block_height(c + 1) + RewardCycleLength
  BY <1>1, Z3 DEF reward_cycle_to_block_height
<1>4. h + 1 < reward_cycle_to_block_height(c + 2)
  <2>1. reward_cycle_to_block_height(c + 1) \in Nat
    BY <1>1, Cycles
  <2> QED BY <1>1, <1>2, <1>3, <2>1
<1>5. CycleOf(h + 1) < c + 2
  BY <1>1, <1>4, Cycles
<1>6. CycleOf(h) <= CycleOf(h + 1)
  BY CycleMonotone
<1> QED BY <1>1, <1>5, <1>6

\* Reward cycles count from zero.
LEMMA CycleNat ==
  ASSUME NEW h \in Nat \ {0} PROVE CycleOf(h) \in Nat
BY Cycles

\* A reward cycle begins at some height.
LEMMA FirstNat ==
  ASSUME NEW c \in Nat PROVE reward_cycle_to_block_height(c) \in Nat \ {0}
BY ScanAssumption DEF reward_cycle_to_block_height

-----------------------------------------------------------------------------
\* Least and greatest elements.
LEMMA MinOf ==
  ASSUME NEW S \in SUBSET Nat, S # {}
  PROVE  Min(S) \in S /\ \A x \in S : Min(S) <= x
<1>1. \E x \in S : \A y \in S : ~(<<y, x>> \in OpToRel(<, Nat))
  BY Zenon, WFMin, NatLessThanWellFounded
<1>2. PICK x \in S : \A y \in S : ~(<<y, x>> \in OpToRel(<, Nat))
  BY Zenon, <1>1
<1>3. \A y \in S : ~(y < x)
  BY Zenon, <1>2 DEF OpToRel
<1>4. \A y \in S : x <= y
  BY <1>3
<1> QED BY Zenon, <1>4 DEF Min

\* The least element is the one that no other is below.
LEMMA MinIs ==
  ASSUME NEW S \in SUBSET Nat, NEW d \in S, \A x \in S : d <= x
  PROVE  Min(S) = d
<1>1. Min(S) \in S /\ Min(S) <= d /\ d <= Min(S)
  BY MinOf
<1>2. Min(S) \in Nat /\ d \in Nat
  BY <1>1
<1> QED BY <1>1, <1>2

\* The greater of two numbers.
LEMMA MaxTwo ==
  ASSUME NEW a \in Int, NEW b \in Int
  PROVE  Max({a, b}) \in {a, b} /\ Max({a, b}) >= a /\ Max({a, b}) >= b
<1>1. \E x \in {a, b} : \A y \in {a, b} : x >= y
  OBVIOUS
<1> QED BY <1>1 DEF Max

\* The smaller of two numbers.
LEMMA MinTwo ==
  ASSUME NEW a \in Int, NEW b \in Int
  PROVE  Min({a, b}) \in {a, b} /\ Min({a, b}) <= a /\ Min({a, b}) <= b
<1>1. \E x \in {a, b} : \A y \in {a, b} : x <= y
  OBVIOUS
<1> QED BY <1>1 DEF Min

\* A sequence is what is left of another one that it begins.
LEMMA Cut ==
  ASSUME NEW s \in Seq(BOOLEAN), NEW t \in Seq(BOOLEAN), Len(s) <= Len(t),
         \A i \in 1..Len(s) : s[i] = t[i]
  PROVE  SubSeq(t, 1, Len(s)) = s
OBVIOUS

-----------------------------------------------------------------------------
(* The inductive invariant of the scans *)

States == {"GetPoxInvBegin", "GetPoxInvFinish", "GetBlocksInvBegin", "GetBlocksInvFinish", "Done"}
Statuses == {"Online", "Dead", "Diverged", "Stale", "Broken"}
Tip == [height : Nat \ {0}, pox : Seq(BOOLEAN)]
Inventory == [pox : Seq(BOOLEAN), blocks : SUBSET (Nat \ {0}), num_sortitions : Nat]
Scan == [inv : Inventory, state : States, status : Statuses, done : BOOLEAN, learned_data : BOOLEAN,
         pox_reward_cycle : Nat, block_reward_cycle : Nat, target : Nat]

\* num_sortitions counts every block an inventory has, and a PoX id has a bit for each cycle.
Below(inv) == \A h \in inv.blocks : h < inv.num_sortitions
Whole(s) == Len(s.pox) = CycleOf(s.height) + 1

ScanTypes ==
    /\ chain \in [Nodes -> Tip] /\ tip \in Tip /\ chain_view \in Nat
    /\ anchors \in [Nodes -> SUBSET Seq(BOOLEAN)]
    /\ stored \in [Peers -> SUBSET Tip]
    /\ connected \subseteq Peers /\ reported \in [Peers -> Nat]
    /\ DOMAIN block_stats \subseteq Peers /\ block_stats \in [DOMAIN block_stats -> Scan]
    /\ DOMAIN request = Peers /\ DOMAIN reply = Peers

ChainsWhole ==
    /\ \A n \in Nodes : Whole(chain[n])
    /\ \A p \in Peers : \A s \in stored[p] : Whole(s)

\* A bit of our PoX id says whether we have the anchor block.
Rooted ==
    \A i \in 2..Len(chain[Us].pox) :
        chain[Us].pox[i] <=> SubSeq(chain[Us].pox, 1, i - 1) \in anchors[Us]

\* Our view and our sortitions agree on the first d PoX bits.  If the view has more, then we
\* got the anchor block of the next reward cycle since, and the view's bit for it is wrong.
Level(d) ==
    /\ d \in 1..Len(tip.pox) /\ d <= Len(chain[Us].pox)
    /\ \A i \in 1..d : tip.pox[i] = chain[Us].pox[i]
    /\ d < Len(tip.pox) => /\ ~tip.pox[d + 1]
                           /\ SubSeq(tip.pox, 1, d) \in anchors[Us]
                           /\ d < Len(chain[Us].pox) => chain[Us].pox[d + 1]

\* A bit that the next refresh keeps is backed by a block the peer stored on our own fork.
Kept(d, h) == d = Len(tip.pox) \/ CycleOf(h) < d
Backed(d, p, blocks) ==
    \A h \in blocks : Kept(d, h) => CycleOf(h) < Len(chain[Us].pox) /\ Sortition(chain[Us], h) \in stored[p]

\* Requests ask about one reward cycle.
RequestOK(r) ==
    /\ r.type = "none" => r = NoRequest
    /\ r.type \in {"none", "GetPoxInv", "GetBlocksInv"}
    /\ r.type # "none" => r.base \in Tip /\ r.num \in Nat
    /\ r.type = "GetBlocksInv" =>
          /\ r.num <= RewardCycleLength
          /\ Whole(r.base)
          /\ r.base.height = reward_cycle_to_block_height(CycleOf(r.base.height))

\* Answers are to the request that waits, even when forks changed since.
ReplyOK(p, a, r) ==
    /\ a.type \in {"none", "failed", "Nack", "PoxInv", "BlocksInv"}
    /\ a.type = "none" => a = NoReply
    /\ a.type = "Nack" => a.code \in {"Throttled", "InvalidPoxFork", "NoSuchBurnchainBlock"}
    /\ a.type = "PoxInv" => r.type = "GetPoxInv" /\ a.bits \in Seq(BOOLEAN)
    /\ a.type = "BlocksInv" =>
          /\ r.type = "GetBlocksInv" /\ a.bitlen = r.num
          /\ a.blocks \subseteq r.base.height..(r.base.height + r.num - 1)
          /\ \A h \in a.blocks : [height |-> h, pox |-> r.base.pox] \in stored[p]

\* A scan that waits for blocks asked about a cycle of our view that its PoX bits cover.
ScanOK(s, r) ==
    /\ Below(s.inv)
    /\ ~s.done => s.state # "Done"
    /\ ~s.done /\ s.state = "GetPoxInvFinish" => r.type = "GetPoxInv" /\ s.target <= Len(s.inv.pox)
    /\ ~s.done /\ s.state = "GetBlocksInvFinish" =>
          /\ r.type = "GetBlocksInv" /\ r.base = Sortition(tip, reward_cycle_to_block_height(s.target))
          /\ s.target < Len(s.inv.pox) /\ s.target < Len(tip.pox)

Talks == \A p \in Peers : RequestOK(request[p]) /\ ReplyOK(p, reply[p], request[p])
Scans == \A p \in DOMAIN block_stats : ScanOK(block_stats[p], request[p])
Supported ==
    \E d \in 1..Len(tip.pox) :
        Level(d) /\ \A p \in DOMAIN block_stats : Backed(d, p, block_stats[p].inv.blocks)

Consistent == ScanTypes /\ ChainsWhole /\ Rooted /\ Talks /\ Scans /\ Supported
ScanInv == ~shrunk => Consistent

-----------------------------------------------------------------------------
\* truncate_block_inventories drops the bits from a reward cycle on.
LEMMA BlocksTruncated ==
  ASSUME NEW inv \in Inventory, Below(inv), NEW c \in Nat
  PROVE  LET cut == truncate_block_inventories(inv, c)
         IN  /\ cut \in Inventory /\ Below(cut) /\ cut.pox = inv.pox
             /\ cut.blocks \subseteq inv.blocks
             /\ \A h \in cut.blocks : CycleOf(h) < c
<1> DEFINE cut == truncate_block_inventories(inv, c)
           first == reward_cycle_to_block_height(c)
<1>1. first \in Nat \ {0} /\ \A h \in Nat \ {0} : h < first <=> CycleOf(h) < c
  BY Cycles, ScanAssumption
<1>2. inv.blocks \subseteq Nat \ {0} /\ inv.num_sortitions \in Nat
  BY DEF Inventory
<1> HIDE DEF first
<1>3. CASE inv.num_sortitions >= first
  <2>1. cut = [inv EXCEPT !.blocks = {h \in @ : h < first}, !.num_sortitions = first]
    BY <1>3 DEF truncate_block_inventories, first
  <2>2. cut = [pox |-> inv.pox, blocks |-> {h \in inv.blocks : h < first}, num_sortitions |-> first]
    BY <2>1 DEF Inventory
  <2> QED BY <1>1, <1>2, <2>2 DEF Inventory, Below
<1>4. CASE ~(inv.num_sortitions >= first)
  <2>1. cut = inv
    BY <1>4 DEF truncate_block_inventories, first
  <2>2. \A h \in inv.blocks : h < first
    BY <1>1, <1>2, <1>4 DEF Below
  <2> QED BY <1>1, <1>2, <2>1, <2>2
<1> QED BY <1>3, <1>4

\* So do both truncations together; they leave a shorter vector of PoX bits as it is.
LEMMA Truncated ==
  ASSUME NEW inv \in Inventory, Below(inv), NEW c \in Nat
  PROVE  LET cut == Truncate(inv, c)
         IN  /\ cut \in Inventory /\ Below(cut)
             /\ ~(c < Len(inv.pox)) => cut.pox = inv.pox
             /\ cut.blocks \subseteq inv.blocks
             /\ \A h \in cut.blocks : CycleOf(h) < c
<1> DEFINE short == truncate_pox_inventory(inv, c)
<1>1. /\ short \in Inventory /\ Below(short) /\ short.blocks = inv.blocks
      /\ ~(c < Len(inv.pox)) => short.pox = inv.pox
  <2>1. CASE c < Len(inv.pox)
    <3>1. short = [pox |-> SubSeq(inv.pox, 1, c), blocks |-> inv.blocks, num_sortitions |-> inv.num_sortitions]
      BY <2>1 DEF truncate_pox_inventory, Inventory
    <3>2. inv.pox \in Seq(BOOLEAN) /\ Len(inv.pox) \in Nat
      BY DEF Inventory
    <3>3. SubSeq(inv.pox, 1, c) \in Seq(BOOLEAN)
      BY <2>1, <3>2
    <3> QED BY <2>1, <3>1, <3>3 DEF Inventory, Below
  <2>2. CASE ~(c < Len(inv.pox))
    BY <2>2 DEF truncate_pox_inventory
  <2> QED BY <2>1, <2>2
<1> HIDE DEF short
<1>2. Truncate(inv, c) = truncate_block_inventories(short, c)
  BY DEF Truncate, short
<1> QED BY <1>1, <1>2, BlocksTruncated

\* merge_pox_inv adds no block.
LEMMA PoxMerged ==
  ASSUME NEW inv \in Inventory, Below(inv), NEW c \in Nat, c <= Len(inv.pox), NEW bits \in Seq(BOOLEAN)
  PROVE  LET merged == merge_pox_inv(inv, c, bits)
         IN  merged \in Inventory /\ Below(merged) /\ merged.blocks \subseteq inv.blocks
<1> DEFINE last == Max({Len(inv.pox), c + Len(bits)})
           pox == [i \in 1..last |-> IF i > c /\ i <= c + Len(bits) THEN bits[i - c] ELSE inv.pox[i]]
           flipped == {k \in c..(c + Len(bits) - 1) : Bit(pox, k) /\ ~Bit(inv.pox, k)}
           merged == [inv EXCEPT !.pox = pox]
<1>1. inv.pox \in Seq(BOOLEAN) /\ Len(inv.pox) \in Nat /\ Len(bits) \in Nat
  BY DEF Inventory
<1>2. last \in Nat /\ last \in {Len(inv.pox), c + Len(bits)}
  <2>1. Len(inv.pox) \in Int /\ c + Len(bits) \in Int
    BY <1>1
  <2>2. last \in {Len(inv.pox), c + Len(bits)}
    BY Zenon, <2>1, MaxTwo
  <2> QED BY <1>1, <2>2
<1>3. pox \in Seq(BOOLEAN)
  <2>1. ASSUME NEW i \in 1..last
        PROVE  (IF i > c /\ i <= c + Len(bits) THEN bits[i - c] ELSE inv.pox[i]) \in BOOLEAN
    <3>1. CASE i > c /\ i <= c + Len(bits)
      <4>1. i - c \in 1..Len(bits)
        BY <1>1, <1>2, <3>1
      <4> QED BY <3>1, <4>1
    <3>2. CASE ~(i > c /\ i <= c + Len(bits))
      <4>1. i \in 1..Len(inv.pox)
        BY <1>1, <1>2, <3>2
      <4> QED BY <1>1, <3>2, <4>1
    <3> QED BY <3>1, <3>2
  <2>2. pox \in [1..last -> BOOLEAN]
    BY Zenon, <2>1
  <2> HIDE DEF pox, last
  <2> QED BY <1>2, <2>2
<1> HIDE DEF pox, last
<1>4. merged = [pox |-> pox, blocks |-> inv.blocks, num_sortitions |-> inv.num_sortitions]
  BY DEF Inventory
<1>5. merged \in Inventory /\ Below(merged) /\ merged.blocks = inv.blocks
  BY <1>3, <1>4 DEF Inventory, Below
<1>6. flipped \in SUBSET Nat
  BY <1>1
<1> HIDE DEF flipped, merged
<1>7. merge_pox_inv(inv, c, bits) = IF flipped = {} THEN merged ELSE truncate_block_inventories(merged, Min(flipped))
  BY DEF merge_pox_inv, flipped, merged, pox, last
<1>8. CASE flipped = {}
  BY <1>5, <1>7, <1>8
<1>9. CASE flipped # {}
  <2>1. Min(flipped) \in Nat
    BY <1>6, <1>9, MinOf
  <2>2. merge_pox_inv(inv, c, bits) = truncate_block_inventories(merged, Min(flipped))
    BY Zenon, <1>7, <1>9
  <2> DEFINE cut == truncate_block_inventories(merged, Min(flipped))
  <2>3. cut \in Inventory /\ Below(cut) /\ cut.blocks \subseteq inv.blocks
    BY <1>5, <2>1, BlocksTruncated
  <2> QED BY Zenon, <2>2, <2>3
<1> QED BY <1>8, <1>9

\* merge_blocks_inv adds no other blocks than those it is given.
LEMMA BlocksMerged ==
  ASSUME NEW inv \in Inventory, Below(inv), NEW first \in Nat \ {0}, NEW bitlen \in Nat,
         NEW blocks \in SUBSET (first..(first + bitlen - 1))
  PROVE  LET merged == merge_blocks_inv(inv, first, bitlen, blocks)
         IN  /\ merged \in Inventory /\ Below(merged) /\ merged.pox = inv.pox
             /\ merged.blocks \subseteq inv.blocks \cup blocks
<1> DEFINE last == Max({inv.num_sortitions, first + bitlen})
           kept == {h \in inv.blocks : h \notin first..(first + bitlen - 1)}
<1>1. merge_blocks_inv(inv, first, bitlen, blocks)
        = [pox |-> inv.pox, blocks |-> kept \cup blocks, num_sortitions |-> last]
  <2>1. merge_blocks_inv(inv, first, bitlen, blocks)
          = [inv EXCEPT !.blocks = kept \cup blocks, !.num_sortitions = last]
    BY Zenon DEF merge_blocks_inv
  <2> HIDE DEF kept, last
  <2> QED BY <2>1 DEF Inventory
<1>2. inv.num_sortitions \in Nat /\ inv.blocks \subseteq Nat \ {0}
  BY DEF Inventory
<1>3. last \in Nat /\ last >= inv.num_sortitions /\ last >= first + bitlen
  <2>1. inv.num_sortitions \in Int /\ first + bitlen \in Int
    BY <1>2
  <2>2. last \in {inv.num_sortitions, first + bitlen} /\ last >= inv.num_sortitions /\ last >= first + bitlen
    BY Zenon, <2>1, MaxTwo
  <2> HIDE DEF last
  <2> QED BY <1>2, <2>2
<1> HIDE DEF last
<1>4. \A h \in kept : h \in Nat \ {0} /\ h < last
  BY <1>2, <1>3 DEF Below
<1>5. \A h \in blocks : h \in Nat \ {0} /\ h < last
  BY <1>3
<1>6. kept \subseteq inv.blocks
  OBVIOUS
<1> HIDE DEF kept
<1> DEFINE merged == [pox |-> inv.pox, blocks |-> kept \cup blocks, num_sortitions |-> last]
<1>7. kept \cup blocks \in SUBSET (Nat \ {0}) /\ inv.pox \in Seq(BOOLEAN)
  BY <1>4, <1>5 DEF Inventory
<1>8. merged \in Inventory /\ merged.pox = inv.pox
  BY <1>3, <1>7 DEF Inventory
<1>9. Below(merged) /\ merged.blocks \subseteq inv.blocks \cup blocks
  BY <1>4, <1>5, <1>6 DEF Below
<1> QED BY Zenon, <1>1, <1>8, <1>9


\* What a scan starts from, and what a pass over it leaves.
Sound(p, d, s) == s \in Scan /\ Below(s.inv) /\ Backed(d, p, s.inv.blocks)
RunOK(p, d, w) == Sound(p, d, w.scan) /\ RequestOK(w.request) /\ ScanOK(w.scan, w.request)

\* What a pass relies on of the rest of the state.
Viewed == tip \in Tip /\ chain_view \in Nat /\ reported \in [Peers -> Nat]

\* The sortition that a request names.
LEMMA FirstOfCycle ==
  ASSUME NEW c \in Nat, NEW t \in Tip, c < Len(t.pox)
  PROVE  LET s == Sortition(t, reward_cycle_to_block_height(c))
         IN  /\ s \in Tip /\ Whole(s) /\ s.height = reward_cycle_to_block_height(c)
             /\ CycleOf(s.height) = c /\ s.pox = SubSeq(t.pox, 1, c + 1)
<1> DEFINE h == reward_cycle_to_block_height(c)
<1>1. h \in Nat \ {0} /\ CycleOf(h) = c
  BY Cycles, CycleOfFirst
<1> HIDE DEF h
<1>2. t.pox \in Seq(BOOLEAN) /\ Len(t.pox) \in Nat
  BY DEF Tip
<1>3. SubSeq(t.pox, 1, c + 1) \in Seq(BOOLEAN) /\ Len(SubSeq(t.pox, 1, c + 1)) = c + 1
  BY <1>2
<1>4. Sortition(t, h) = [height |-> h, pox |-> SubSeq(t.pox, 1, c + 1)]
  BY <1>1 DEF Sortition
<1>5. Sortition(t, h) \in Tip /\ Whole(Sortition(t, h)) /\ Sortition(t, h).height = h
      /\ Sortition(t, h).pox = SubSeq(t.pox, 1, c + 1)
  BY <1>1, <1>3, <1>4 DEF Tip, Whole
<1> QED BY Zenon, <1>1, <1>5 DEF h

\* make_getblocksinv makes well-formed requests.
LEMMA AskBlocks ==
  ASSUME NEW c \in Nat, Viewed, c < Len(tip.pox), reward_cycle_to_block_height(c) <= chain_view
  PROVE  LET r == make_getblocksinv(c)
         IN  /\ RequestOK(r) /\ r.type = "GetBlocksInv"
             /\ r.base = Sortition(tip, reward_cycle_to_block_height(c))
<1> DEFINE first == reward_cycle_to_block_height(c)
           r == make_getblocksinv(c)
           num == IF first + RewardCycleLength <= chain_view THEN RewardCycleLength ELSE chain_view - first + 1
<1>1. first \in Nat \ {0} /\ RewardCycleLength \in Nat \ {0} /\ chain_view \in Nat
  BY Cycles, ScanAssumption DEF Viewed
<1>2. LET s == Sortition(tip, first)
      IN  s \in Tip /\ Whole(s) /\ s.height = first /\ CycleOf(s.height) = c
  BY FirstOfCycle DEF Viewed
<1>3. r = [type |-> "GetBlocksInv", base |-> Sortition(tip, first), num |-> num]
  BY DEF make_getblocksinv
<1>4. num \in Nat /\ num <= RewardCycleLength
  BY <1>1
<1> HIDE DEF num, r
<1>5. r.type = "GetBlocksInv" /\ r.base = Sortition(tip, first) /\ r.num = num
  BY <1>3
<1>6. r.base \in Tip /\ Whole(r.base) /\ r.base.height = reward_cycle_to_block_height(CycleOf(r.base.height))
  BY Zenon, <1>2, <1>5
<1>7. RequestOK(r)
  BY <1>4, <1>5, <1>6 DEF RequestOK
<1> QED BY Zenon, <1>5, <1>7 DEF r

\* make_getpoxinv makes well-formed requests.
LEMMA AskPox ==
  ASSUME NEW c \in Nat, NEW p \in Peers, Viewed, c < Len(tip.pox)
  PROVE  LET r == make_getpoxinv(p, c) IN RequestOK(r) /\ r.type = "GetPoxInv"
<1> DEFINE first == reward_cycle_to_block_height(c)
           max == Min({Len(tip.pox), block_height_to_reward_cycle(reported[p])})
           num == IF c + GETPOXINV_MAX_BITLEN <= max THEN GETPOXINV_MAX_BITLEN ELSE Max({1, max - c})
           r == make_getpoxinv(p, c)
<1>1. /\ Len(tip.pox) \in Int
      /\ reported[p] \in Nat /\ RewardCycleLength \in Nat \ {0} /\ GETPOXINV_MAX_BITLEN \in Nat
  BY ScanAssumption DEF Viewed, Tip
<1>2. block_height_to_reward_cycle(reported[p]) \in Int
  BY <1>1 DEF block_height_to_reward_cycle
<1>3. max \in Int
  <2>1. max \in {Len(tip.pox), block_height_to_reward_cycle(reported[p])}
    BY Zenon, <1>1, <1>2, MinTwo
  <2> QED BY Zenon, <1>1, <1>2, <2>1
<1> HIDE DEF max
<1>4. num \in Nat
  <2>1. 1 \in Int /\ max - c \in Int
    BY <1>3
  <2>2. Max({1, max - c}) \in {1, max - c} /\ Max({1, max - c}) >= 1
    BY Zenon, <2>1, MaxTwo
  <2>3. Max({1, max - c}) \in Nat
    BY <2>1, <2>2
  <2> QED BY Zenon, <1>1, <2>3
<1>5. r = [type |-> "GetPoxInv", base |-> Sortition(tip, first), num |-> num]
  BY Zenon DEF make_getpoxinv, max
<1>6. Sortition(tip, first) \in Tip
  BY FirstOfCycle DEF Viewed
<1> HIDE DEF num, r
<1>7. r.type = "GetPoxInv" /\ r.base \in Tip /\ r.num \in Nat
  BY <1>4, <1>5, <1>6
<1>8. RequestOK(r)
  BY <1>7 DEF RequestOK
<1> QED BY Zenon, <1>7, <1>8 DEF r

\* A scan that ends.
LEMMA EndedOK ==
  ASSUME NEW p, NEW d, NEW s, Sound(p, d, s)
  PROVE  RunOK(p, d, Stopped(s)) /\ RunOK(p, d, Stale(s))
<1> DEFINE e == [s EXCEPT !.done = TRUE]
<1>1. e \in Scan /\ e.inv = s.inv /\ e.done = TRUE
  BY DEF Sound, Scan
<1>2. NoRequest.type = "none"
  BY DEF NoRequest
<1> HIDE DEF e
<1>3. Sound(p, d, e) /\ ScanOK(e, NoRequest)
  BY <1>1 DEF Sound, ScanOK
<1>4. RequestOK(NoRequest)
  BY <1>2 DEF RequestOK
<1>5. Stopped(s).scan = e /\ Stopped(s).request = NoRequest /\ Stale(s).scan = e /\ Stale(s).request = NoRequest
  BY DEF Stopped, Stale, e
<1> QED BY Zenon, <1>3, <1>4, <1>5 DEF RunOK

\* A scan that waits.
LEMMA WaitingFields ==
  ASSUME NEW s, NEW r
  PROVE  Waiting(s, r).scan = s /\ Waiting(s, r).request = r
BY DEF Waiting

\* inv_getblocksinv_begin asks about the reward cycle, or the scan ends.
LEMMA BeginBlocksOK ==
  ASSUME NEW p \in Peers, NEW d, NEW s, Viewed, Sound(p, d, s)
  PROVE  RunOK(p, d, inv_getblocksinv_begin(p, s))
<1> DEFINE c == s.block_reward_cycle
           w == inv_getblocksinv_begin(p, s)
           next == [s EXCEPT !.state = "GetBlocksInvFinish", !.target = c]
           asked == /\ CanAskBlocks(p, s, c) /\ ViewValid
                    /\ ~(reward_cycle_to_block_height(c) > reported[p])
<1>1. c \in Nat
  BY DEF Sound, Scan
<1>2. CASE ~asked
  <2>1. w = Stopped(s) \/ w = Stale(s)
    BY Zenon, <1>2 DEF inv_getblocksinv_begin
  <2> QED BY Zenon, <2>1, EndedOK
<1>3. CASE asked
  <2>1. w = Waiting(next, make_getblocksinv(c))
    BY Zenon, <1>3 DEF inv_getblocksinv_begin
  <2>2. c < Len(s.inv.pox) /\ c < Len(tip.pox) /\ reward_cycle_to_block_height(c) <= chain_view
    BY <1>3 DEF CanAskBlocks
  <2>3. /\ next \in Scan /\ next.inv = s.inv /\ next.state = "GetBlocksInvFinish"
        /\ next.target = c /\ next.done = s.done
    BY <1>1 DEF Sound, Scan, States
  <2>4. /\ RequestOK(make_getblocksinv(c)) /\ make_getblocksinv(c).type = "GetBlocksInv"
        /\ make_getblocksinv(c).base = Sortition(tip, reward_cycle_to_block_height(c))
    BY Zenon, <1>1, <2>2, AskBlocks
  <2> HIDE DEF next, c
  <2>5. Sound(p, d, next)
    BY Zenon, <2>3 DEF Sound
  <2>6. ScanOK(next, make_getblocksinv(c))
    BY Zenon, <2>2, <2>3, <2>4, <2>5 DEF ScanOK, Sound
  <2> QED BY <2>1, <2>4, <2>5, <2>6, WaitingFields DEF RunOK
<1> QED BY Zenon, <1>2, <1>3

\* A scan goes on with the PoX bits, or with the blocks.
LEMMA BeginOK ==
  ASSUME NEW p \in Peers, NEW d, NEW s, Viewed, Sound(p, d, s)
  PROVE  RunOK(p, d, Begin(p, s))
<1> DEFINE c == IF Len(s.inv.pox) < Len(tip.pox) THEN Len(s.inv.pox) ELSE s.pox_reward_cycle
           w == inv_getpoxinv_begin(p, s)
           next == [s EXCEPT !.state = "GetPoxInvFinish", !.target = c]
<1>1. /\ s.inv.pox \in Seq(BOOLEAN) /\ s.pox_reward_cycle \in Nat /\ Len(tip.pox) \in Nat
      /\ Len(s.inv.pox) \in Nat
  BY DEF Sound, Scan, Inventory, Viewed, Tip
<1>2. c \in Nat /\ (c < Len(tip.pox) => c <= Len(s.inv.pox))
  BY <1>1
<1>3. CASE ~CanAskPox(p, c)
  <2> DEFINE b == reset_block_scan(s, 0)
  <2>1. b \in Scan /\ b.inv = s.inv
    BY DEF reset_block_scan, Sound, Scan, States
  <2>2. Sound(p, d, b)
    BY Zenon, <2>1 DEF Sound
  <2>3. w = inv_getblocksinv_begin(p, b)
    BY Zenon, <1>3 DEF inv_getpoxinv_begin
  <2> QED BY Zenon, <2>2, <2>3, BeginBlocksOK DEF Begin
<1>4. CASE CanAskPox(p, c) /\ ~ViewValid
  <2>1. w = Stale(s)
    BY Zenon, <1>4 DEF inv_getpoxinv_begin
  <2> QED BY Zenon, <2>1, EndedOK, BeginBlocksOK DEF Begin
<1>5. CASE CanAskPox(p, c) /\ ViewValid
  <2>1. w = Waiting(next, make_getpoxinv(p, c))
    BY Zenon, <1>5 DEF inv_getpoxinv_begin
  <2>2. c < Len(tip.pox) /\ c <= Len(s.inv.pox)
    BY Zenon, <1>2, <1>5 DEF CanAskPox
  <2>3. /\ next \in Scan /\ next.inv = s.inv /\ next.state = "GetPoxInvFinish"
        /\ next.target = c /\ next.done = s.done
    <3> HIDE DEF c
    <3> QED BY <1>2 DEF Sound, Scan, States
  <2>4. RequestOK(make_getpoxinv(p, c)) /\ make_getpoxinv(p, c).type = "GetPoxInv"
    BY Zenon, <1>2, <2>2, AskPox
  <2> HIDE DEF next, c
  <2>5. Sound(p, d, next)
    BY Zenon, <2>3 DEF Sound
  <2>6. ScanOK(next, make_getpoxinv(p, c))
    BY Zenon, <2>2, <2>3, <2>4, <2>5 DEF ScanOK, Sound
  <2>7. RunOK(p, d, w)
    BY <2>1, <2>4, <2>5, <2>6, WaitingFields DEF RunOK
  <2> QED BY Zenon, <2>7, BeginBlocksOK DEF Begin
<1> QED BY Zenon, <1>3, <1>4, <1>5


\* A scan that knows fewer blocks is as sound.
LEMMA Narrowed ==
  ASSUME NEW p, NEW d, NEW s, Sound(p, d, s),
         NEW t \in Scan, Below(t.inv), t.inv.blocks \subseteq s.inv.blocks
  PROVE  Sound(p, d, t)
BY Zenon DEF Sound, Backed

\* The cycle up to which both sides are certain is a cycle.
LEMMA UncertainNat ==
  ASSUME NEW target \in Nat, NEW bits \in Seq(BOOLEAN), NEW ours, Viewed
  PROVE  Uncertain(target, bits, ours) \in Nat
<1> DEFINE end == Min({Len(tip.pox), target + Len(bits)})
           cycles == {k \in target..(end - 1) : Bit(tip.pox, k) = ours /\ bits[k - target + 1] # ours}
<1>1. Len(tip.pox) \in Nat /\ target + Len(bits) \in Nat
  BY DEF Viewed, Tip
<1>2. end \in Nat
  <2>1. Len(tip.pox) \in Int /\ target + Len(bits) \in Int
    BY <1>1
  <2>2. end \in {Len(tip.pox), target + Len(bits)}
    BY Zenon, <2>1, MinTwo
  <2> QED BY Zenon, <1>1, <2>2
<1> HIDE DEF end
<1>3. Max({target, end}) \in Nat
  <2>1. target \in Int /\ end \in Int
    BY <1>2
  <2>2. Max({target, end}) \in {target, end}
    BY Zenon, <2>1, MaxTwo
  <2> QED BY Zenon, <1>2, <2>2
<1>4. cycles \in SUBSET Nat
  BY <1>2
<1> HIDE DEF cycles
<1>5. cycles # {} => Min(cycles) \in Nat
  BY <1>4, MinOf
<1>6. Uncertain(target, bits, ours) = IF cycles # {} THEN Min(cycles) ELSE Max({target, end})
  BY Zenon DEF Uncertain, cycles, end
<1> QED BY Zenon, <1>3, <1>5, <1>6

\* Merging the PoX bits of a peer keeps a scan sound.
LEMMA PoxScannedSound ==
  ASSUME NEW p, NEW d, NEW s, Sound(p, d, s), Viewed, s.target <= Len(s.inv.pox), NEW bits \in Seq(BOOLEAN)
  PROVE  Sound(p, d, PoxScanned(s, bits))
<1> DEFINE end == s.target + Len(bits)
           inv == merge_pox_inv(s.inv, s.target, bits)
           certain == Min({Uncertain(s.target, bits, TRUE), Uncertain(s.target, bits, FALSE)})
           more == s.learned_data \/ \E k \in s.target..(end - 1) : Bit(inv.pox, k) /\ ~Bit(s.inv.pox, k)
           learned == [s EXCEPT !.inv = inv, !.learned_data = more]
<1>1. s \in Scan /\ s.inv \in Inventory /\ Below(s.inv) /\ s.target \in Nat /\ s.pox_reward_cycle \in Nat
      /\ Len(bits) \in Nat
  BY DEF Sound, Scan
<1>2. inv \in Inventory /\ Below(inv) /\ inv.blocks \subseteq s.inv.blocks
  BY <1>1, PoxMerged
<1>3. certain \in Nat
  <2> DEFINE x == Uncertain(s.target, bits, TRUE)
             y == Uncertain(s.target, bits, FALSE)
  <2>1. x \in Nat /\ y \in Nat
    BY Zenon, <1>1, UncertainNat
  <2>2. certain = Min({x, y})
    BY Zenon
  <2> HIDE DEF x, y, certain
  <2>3. x \in Int /\ y \in Int
    BY <2>1
  <2>4. Min({x, y}) \in {x, y}
    BY Zenon, <2>3, MinTwo
  <2> QED BY Zenon, <2>1, <2>2, <2>4
<1>4. more \in BOOLEAN
  BY Zenon
<1>5. PoxScanned(s, bits) =
        IF certain # end
        THEN reset_block_scan([learned EXCEPT !.inv = Truncate(@, certain)], 0)
        ELSE reset_pox_scan(learned, s.pox_reward_cycle + Len(bits))
  BY Zenon DEF PoxScanned
<1> HIDE DEF certain, inv, more
<1>6. learned \in Scan /\ learned.inv = inv
  BY <1>1, <1>2, <1>4 DEF Scan
<1> HIDE DEF learned
<1>7. CASE certain # end
  <2> DEFINE cut == Truncate(inv, certain)
             t == reset_block_scan([learned EXCEPT !.inv = cut], 0)
  <2>1. cut \in Inventory /\ Below(cut) /\ cut.blocks \subseteq s.inv.blocks
    BY <1>2, <1>3, Truncated
  <2>2. PoxScanned(s, bits) = t
    BY Zenon, <1>5, <1>6, <1>7
  <2> HIDE DEF cut
  <2>3. t \in Scan /\ t.inv = cut
    BY <1>6, <2>1 DEF reset_block_scan, Scan, States
  <2> HIDE DEF t
  <2> QED BY Zenon, <2>1, <2>2, <2>3, Narrowed
<1>8. CASE ~(certain # end)
  <2> DEFINE t == reset_pox_scan(learned, s.pox_reward_cycle + Len(bits))
  <2>1. PoxScanned(s, bits) = t
    BY Zenon, <1>5, <1>8
  <2>2. s.pox_reward_cycle + Len(bits) \in Nat
    BY <1>1
  <2>3. t \in Scan /\ t.inv = inv
    BY <1>6, <2>2 DEF reset_pox_scan, Scan, States
  <2> HIDE DEF t
  <2> QED BY Zenon, <1>2, <2>1, <2>3, Narrowed
<1> QED BY Zenon, <1>7, <1>8

\* diagnose_nack yields a status for each code the peers send.
LEMMA NackStatus ==
  ASSUME NEW code \in {"Throttled", "InvalidPoxFork", "NoSuchBurnchainBlock"}, NEW h
  PROVE  diagnose_nack(code, h) \in Statuses
BY DEF diagnose_nack, Statuses

Failed(s, st) == [s EXCEPT !.status = st, !.state = "Done"]

\* A scan that a failure ends.
LEMMA FailedOK ==
  ASSUME NEW p, NEW d, NEW s, Sound(p, d, s), NEW st \in Statuses
  PROVE  RunOK(p, d, Stopped(Failed(s, st)))
<1> DEFINE t == Failed(s, st)
<1>1. t \in Scan /\ t.inv = s.inv
  BY DEF Failed, Sound, Scan, States
<1> HIDE DEF t
<1>2. Sound(p, d, t)
  BY Zenon, <1>1 DEF Sound
<1> QED BY Zenon, <1>2, EndedOK DEF t

\* inv_getpoxinv_try_finish: the PoX bits of a peer add no block.
LEMMA FinishPoxOK ==
  ASSUME NEW p \in Peers, NEW d, NEW s, Sound(p, d, s), Viewed, s.target <= Len(s.inv.pox),
         NEW r, r.type = "GetPoxInv", ReplyOK(p, reply[p], r), reply[p] # NoReply
  PROVE  RunOK(p, d, inv_getpoxinv_try_finish(p, s))
<1> DEFINE a == reply[p]
           status == diagnose_nack(a.code, a.height)
           w == inv_getpoxinv_try_finish(p, s)
<1>1. a.type \in {"failed", "Nack", "PoxInv"}
  BY DEF ReplyOK
<1>2. CASE a.type = "failed"
  <2>1. w = Stopped(Failed(s, "Dead"))
    BY <1>2 DEF Failed, inv_getpoxinv_try_finish
  <2>2. "Dead" \in Statuses
    BY DEF Statuses
  <2> QED BY Zenon, <2>1, <2>2, FailedOK
<1>3. CASE a.type = "Nack" /\ status = "Diverged"
  <2> DEFINE cut == Truncate(s.inv, s.target)
             t == reset_block_scan([s EXCEPT !.inv = cut], 0)
  <2>1. w = Begin(p, t)
    BY <1>3 DEF inv_getpoxinv_try_finish
  <2>2. cut \in Inventory /\ Below(cut) /\ cut.blocks \subseteq s.inv.blocks
    BY Truncated DEF Sound, Scan
  <2> HIDE DEF cut
  <2>3. t \in Scan /\ t.inv = cut
    BY <2>2 DEF reset_block_scan, Sound, Scan, States
  <2> HIDE DEF t
  <2>4. Sound(p, d, t)
    BY Zenon, <2>2, <2>3, Narrowed
  <2> QED BY Zenon, <2>1, <2>4, BeginOK
<1>4. CASE a.type = "Nack" /\ status # "Diverged"
  <2>1. w = Stopped(Failed(s, status))
    BY <1>4 DEF Failed, inv_getpoxinv_try_finish
  <2>2. status \in Statuses
    BY Zenon, <1>4, NackStatus DEF ReplyOK
  <2> HIDE DEF status
  <2> QED BY Zenon, <2>1, <2>2, FailedOK
<1>5. CASE a.type = "PoxInv"
  <2>1. w = Begin(p, PoxScanned(s, a.bits))
    BY <1>5 DEF inv_getpoxinv_try_finish
  <2>2. a.bits \in Seq(BOOLEAN)
    BY Zenon, <1>5 DEF ReplyOK
  <2>3. Sound(p, d, PoxScanned(s, a.bits))
    BY Zenon, <2>2, PoxScannedSound
  <2> QED BY Zenon, <2>1, <2>3, BeginOK
<1> QED BY Zenon, <1>1, <1>2, <1>3, <1>4, <1>5


\* The sortitions of two PoX ids are the same in the reward cycles up to which they agree.
LEMMA SameSortition ==
  ASSUME NEW s \in Tip, NEW t \in Tip, NEW d \in Nat, d <= Len(s.pox), d <= Len(t.pox),
         \A i \in 1..d : s.pox[i] = t.pox[i],
         NEW h \in Nat \ {0}, CycleOf(h) < d
  PROVE  Sortition(s, h) = Sortition(t, h)
<1>1. CycleOf(h) \in Nat
  BY Cycles
<1> DEFINE c == CycleOf(h)
<1>2. s.pox \in Seq(BOOLEAN) /\ t.pox \in Seq(BOOLEAN)
  BY DEF Tip
<1> HIDE DEF c
<1>3. SubSeq(s.pox, 1, c + 1) = SubSeq(t.pox, 1, c + 1)
  BY <1>1, <1>2 DEF c
<1> QED BY <1>3 DEF Sortition, c

\* An answer to GetBlocksInv adds bits that are backed.
LEMMA AnswerBacked ==
  ASSUME NEW p \in Peers, NEW d, Level(d), Viewed, chain[Us] \in Tip,
         NEW c \in Nat, c < Len(tip.pox),
         NEW r, RequestOK(r), r.type = "GetBlocksInv",
         r.base = Sortition(tip, reward_cycle_to_block_height(c)),
         ReplyOK(p, reply[p], r), reply[p].type = "BlocksInv"
  PROVE  /\ Backed(d, p, reply[p].blocks)
         /\ reply[p].bitlen \in Nat
         /\ reply[p].blocks \in SUBSET (reward_cycle_to_block_height(c)..
                                          (reward_cycle_to_block_height(c) + reply[p].bitlen - 1))
<1> DEFINE first == reward_cycle_to_block_height(c)
           blocks == reply[p].blocks
<1>1. /\ r.base.height = first /\ CycleOf(first) = c /\ first \in Nat \ {0}
      /\ r.base.pox = SubSeq(tip.pox, 1, c + 1)
  BY FirstOfCycle, FirstNat DEF Viewed
<1>2. /\ r.num \in Nat /\ r.num <= RewardCycleLength /\ RewardCycleLength \in Nat
      /\ reply[p].bitlen = r.num /\ blocks \subseteq r.base.height..(r.base.height + r.num - 1)
      /\ \A h \in blocks : [height |-> h, pox |-> r.base.pox] \in stored[p]
  BY ScanAssumption DEF RequestOK, ReplyOK
<1> HIDE DEF first, blocks
<1>3. ASSUME NEW h \in blocks, Kept(d, h)
      PROVE  CycleOf(h) < Len(chain[Us].pox) /\ Sortition(chain[Us], h) \in stored[p]
  <2>1. h \in first..(first + RewardCycleLength - 1) /\ h \in Nat \ {0}
    BY <1>1, <1>2
  <2>2. CycleOf(h) = c
    BY <2>1, Cycles DEF first
  <2>3. /\ d \in Nat /\ d <= Len(tip.pox) /\ d <= Len(chain[Us].pox)
        /\ \A i \in 1..d : tip.pox[i] = chain[Us].pox[i]
        /\ Len(tip.pox) \in Nat /\ Len(chain[Us].pox) \in Nat
    BY DEF Level, Viewed, Tip
  <2>4. c < d
    BY <1>3, <2>2 DEF Kept
  <2>5. Sortition(tip, h) = Sortition(chain[Us], h)
    BY <2>1, <2>2, <2>3, <2>4, SameSortition DEF Viewed
  <2>6. Sortition(tip, h) = [height |-> h, pox |-> r.base.pox]
    BY Zenon, <1>1, <2>2 DEF Sortition
  <2>7. Sortition(chain[Us], h) \in stored[p]
    BY Zenon, <1>2, <2>5, <2>6
  <2> QED BY <2>2, <2>3, <2>4, <2>7
<1>4. Backed(d, p, blocks)
  BY Zenon, <1>3 DEF Backed
<1> QED BY Zenon, <1>1, <1>2, <1>4 DEF blocks, first

\* inv_getblocksinv_try_finish: what a peer has of one reward cycle is merged.
LEMMA FinishBlocksOK ==
  ASSUME NEW p \in Peers, NEW d, Level(d), Viewed, chain[Us] \in Tip,
         NEW s, Sound(p, d, s), s.target < Len(tip.pox),
         NEW r, RequestOK(r), r.type = "GetBlocksInv",
         r.base = Sortition(tip, reward_cycle_to_block_height(s.target)),
         ReplyOK(p, reply[p], r), reply[p] # NoReply
  PROVE  RunOK(p, d, inv_getblocksinv_try_finish(p, s))
<1> DEFINE a == reply[p]
           first == reward_cycle_to_block_height(s.target)
           status == diagnose_nack(a.code, a.height)
           w == inv_getblocksinv_try_finish(p, s)
<1>1. a.type \in {"failed", "Nack", "BlocksInv"} /\ s.target \in Nat
  BY DEF ReplyOK, Sound, Scan
<1>2. CASE a.type = "failed"
  <2>1. w = Stopped(Failed(s, "Dead"))
    BY <1>2 DEF Failed, inv_getblocksinv_try_finish
  <2>2. "Dead" \in Statuses
    BY DEF Statuses
  <2> QED BY Zenon, <2>1, <2>2, FailedOK
<1>3. CASE a.type = "Nack"
  <2>1. w = Stopped(Failed(s, status))
    BY <1>3 DEF Failed, inv_getblocksinv_try_finish
  <2>2. status \in Statuses
    BY Zenon, <1>3, NackStatus DEF ReplyOK
  <2> HIDE DEF status
  <2> QED BY Zenon, <2>1, <2>2, FailedOK
<1>4. CASE a.type = "BlocksInv"
  <2> DEFINE inv == merge_blocks_inv(s.inv, first, a.bitlen, a.blocks)
             more == s.learned_data \/ a.blocks \ s.inv.blocks # {}
             learned == [s EXCEPT !.inv = inv, !.learned_data = more]
             t == reset_block_scan(learned, s.block_reward_cycle + 1)
  <2>1. w = Begin(p, t)
    <3>1. a.type # "failed" /\ a.type # "Nack" /\ ~(s.target >= Len(tip.pox))
      BY <1>1, <1>4 DEF Viewed, Tip
    <3> QED BY Zenon, <1>4, <3>1 DEF inv_getblocksinv_try_finish
  <2>2. Backed(d, p, a.blocks) /\ a.bitlen \in Nat /\ a.blocks \in SUBSET (first..(first + a.bitlen - 1))
    BY Zenon, <1>1, <1>4, AnswerBacked
  <2>3. s \in Scan /\ s.inv \in Inventory /\ Below(s.inv) /\ Backed(d, p, s.inv.blocks)
        /\ s.block_reward_cycle + 1 \in Nat /\ first \in Nat \ {0}
    <3>1. s \in Scan /\ Below(s.inv) /\ Backed(d, p, s.inv.blocks) /\ first \in Nat \ {0}
      BY Zenon, <1>1, FirstNat DEF Sound
    <3>2. s.inv \in Inventory /\ s.block_reward_cycle + 1 \in Nat
      BY <3>1 DEF Scan
    <3> QED BY Zenon, <3>1, <3>2
  <2>4. inv \in Inventory /\ Below(inv) /\ inv.blocks \subseteq s.inv.blocks \cup a.blocks
    <3> HIDE DEF first
    <3> QED BY <2>2, <2>3, BlocksMerged
  <2>5. more \in BOOLEAN
    BY Zenon
  <2> HIDE DEF inv, more
  <2>6. t \in Scan /\ t.inv = inv
    BY <2>3, <2>4, <2>5 DEF reset_block_scan, Scan, States
  <2> HIDE DEF t
  <2>7. Backed(d, p, inv.blocks)
    BY Zenon, <2>2, <2>3, <2>4 DEF Backed
  <2>8. Sound(p, d, t)
    BY Zenon, <2>4, <2>6, <2>7 DEF Sound
  <2> QED BY Zenon, <2>1, <2>8, BeginOK
<1> QED BY Zenon, <1>1, <1>2, <1>3, <1>4

\* One pass over the scan of a peer.
LEMMA RunStep ==
  ASSUME NEW p \in Peers, NEW d, Level(d), Viewed, chain[Us] \in Tip,
         Sound(p, d, block_stats[p]), ScanOK(block_stats[p], request[p]),
         RequestOK(request[p]), ReplyOK(p, reply[p], request[p])
  PROVE  RunOK(p, d, inv_sync_run(p))
<1> DEFINE s == block_stats[p]
           w == inv_sync_run(p)
           waits == [scan |-> s, request |-> request[p], stale |-> FALSE]
<1>1. s.state \in States /\ s.done \in BOOLEAN /\ s \in Scan
  BY DEF Sound, Scan
<1>2. RunOK(p, d, waits)
  <2>1. waits.scan = s /\ waits.request = request[p]
    OBVIOUS
  <2> HIDE DEF waits
  <2> QED BY Zenon, <2>1 DEF RunOK
<1>3. CASE s.done
  BY <1>2, <1>3 DEF inv_sync_run
<1>4. CASE ~s.done /\ s.status # "Online"
  <2>1. w = Stopped(s)
    BY <1>4 DEF inv_sync_run
  <2> QED BY Zenon, <2>1, EndedOK
<1>5. CASE ~s.done /\ s.status = "Online" /\ s.state \in {"GetPoxInvBegin", "GetBlocksInvBegin"}
  <2>1. w = Begin(p, s)
    BY <1>5 DEF inv_sync_run
  <2> QED BY Zenon, <2>1, BeginOK
<1>6. CASE ~s.done /\ s.status = "Online" /\ s.state = "GetPoxInvFinish"
  <2>1. w = IF reply[p] = NoReply THEN waits ELSE inv_getpoxinv_try_finish(p, s)
    BY <1>6 DEF inv_sync_run
  <2>2. request[p].type = "GetPoxInv" /\ s.target <= Len(s.inv.pox)
    BY Zenon, <1>6 DEF ScanOK
  <2> HIDE DEF waits
  <2> QED BY Zenon, <1>2, <2>1, <2>2, FinishPoxOK
<1>7. CASE ~s.done /\ s.status = "Online" /\ s.state = "GetBlocksInvFinish"
  <2>1. w = IF reply[p] = NoReply THEN waits ELSE inv_getblocksinv_try_finish(p, s)
    BY <1>7 DEF inv_sync_run
  <2>2. /\ request[p].type = "GetBlocksInv" /\ s.target < Len(tip.pox)
        /\ request[p].base = Sortition(tip, reward_cycle_to_block_height(s.target))
    BY Zenon, <1>7 DEF ScanOK
  <2> HIDE DEF waits
  <2> QED BY Zenon, <1>2, <2>1, <2>2, FinishBlocksOK
<1>8. ~s.done => s.state # "Done"
  BY Zenon DEF ScanOK
<1> QED BY <1>1, <1>3, <1>4, <1>5, <1>6, <1>7, <1>8 DEF States


\* A step that leaves the scans and our view alone.
LEMMA ChainStep ==
  ASSUME Consistent, UNCHANGED <<tip, stored, chain_view, connected, reported, block_stats, request, reply>>,
         chain' \in [Nodes -> Tip], anchors' \in [Nodes -> SUBSET Seq(BOOLEAN)],
         \A n \in Nodes : Whole(chain'[n]), Rooted', Supported'
  PROVE  Consistent'
<1>1. ScanTypes'
  BY DEF Consistent, ScanTypes
<1>2. ChainsWhole'
  BY DEF Consistent, ChainsWhole, Whole
<1>3. Talks'
  BY DEF Consistent, Talks, RequestOK, ReplyOK, Whole
<1>4. Scans'
  BY DEF Consistent, Scans, ScanOK, Sortition
<1> QED BY Zenon, <1>1, <1>2, <1>3, <1>4 DEF Consistent

\* What another node does to its sortitions is nothing to our inventories.
LEMMA OtherChain ==
  ASSUME Consistent, UNCHANGED <<tip, stored, block_stats>>, chain'[Us] = chain[Us], anchors'[Us] = anchors[Us]
  PROVE  Rooted' /\ Supported'
<1>1. Rooted'
  BY DEF Consistent, Rooted
<1>2. PICK d \in 1..Len(tip.pox) : Level(d) /\ \A p \in DOMAIN block_stats : Backed(d, p, block_stats[p].inv.blocks)
  BY DEF Consistent, Supported
<1>3. Level(d)'
  BY <1>2 DEF Level
<1>4. \A p \in DOMAIN block_stats : Backed(d, p, block_stats[p].inv.blocks)'
  BY <1>2 DEF Backed, Kept, Sortition
<1> QED BY <1>1, <1>2, <1>3, <1>4 DEF Supported

\* A node that processes one more sortition has a PoX bit for each reward cycle again.
LEMMA Grown ==
  ASSUME NEW c \in Tip, Whole(c), NEW b \in BOOLEAN
  PROVE  LET pox == IF CycleOf(c.height + 1) = Len(c.pox) THEN Append(c.pox, b) ELSE c.pox
             next == [height |-> c.height + 1, pox |-> pox]
         IN  next \in Tip /\ Whole(next)
<1> DEFINE pox == IF CycleOf(c.height + 1) = Len(c.pox) THEN Append(c.pox, b) ELSE c.pox
           next == [height |-> c.height + 1, pox |-> pox]
<1>1. c.height \in Nat \ {0} /\ c.height + 1 \in Nat \ {0} /\ c.pox \in Seq(BOOLEAN) /\ Len(c.pox) \in Nat
  BY DEF Tip
<1>2. CycleOf(c.height + 1) \in {CycleOf(c.height), CycleOf(c.height) + 1} /\ CycleOf(c.height) \in Nat
  BY <1>1, CycleNext, Cycles
<1>3. pox \in Seq(BOOLEAN) /\ Len(pox) = CycleOf(c.height + 1) + 1
  <2>1. Len(c.pox) = CycleOf(c.height) + 1
    BY DEF Whole
  <2>2. CASE CycleOf(c.height + 1) = Len(c.pox)
    <3>1. pox = Append(c.pox, b)
      BY Zenon, <2>2
    <3> HIDE DEF pox
    <3> QED BY <1>1, <2>2, <3>1
  <2>3. CASE CycleOf(c.height + 1) # Len(c.pox)
    <3>1. pox = c.pox
      BY Zenon, <2>3
    <3> HIDE DEF pox
    <3> QED BY <1>1, <1>2, <2>1, <2>3, <3>1
  <2> QED BY Zenon, <2>2, <2>3
<1> HIDE DEF pox
<1>4. next \in Tip /\ next.pox = pox /\ next.height = c.height + 1
  BY <1>1, <1>3 DEF Tip
<1> HIDE DEF next
<1>5. Whole(next)
  BY <1>3, <1>4 DEF Whole
<1> QED BY Zenon, <1>4, <1>5 DEF next, pox

\* Our PoX id only grows here.  When it was unwound, the bit that follows is a one now.
LEMMA NextSortitionStep ==
  ASSUME Consistent, NEW n \in Nodes, NextSortition(n)
  PROVE  Consistent'
<1> DEFINE c == chain[n]
           b == c.pox \in anchors[n]
           pox == IF CycleOf(c.height + 1) = Len(c.pox) THEN Append(c.pox, b) ELSE c.pox
           next == [height |-> c.height + 1, pox |-> pox]
<1>1. chain' = [chain EXCEPT ![n] = next] /\ UNCHANGED <<anchors, stored, connected, reported, chain_view, tip, block_stats, request, reply>>
  BY DEF NextSortition, remote, links, views, scans
<1>2. /\ chain \in [Nodes -> Tip] /\ c \in Tip /\ Whole(c) /\ Us \in Nodes
      /\ anchors \in [Nodes -> SUBSET Seq(BOOLEAN)]
      /\ \A m \in Nodes : Whole(chain[m])
  BY DEF Consistent, ScanTypes, ChainsWhole, Nodes
<1>3. b \in BOOLEAN
  OBVIOUS
<1>4. next \in Tip /\ Whole(next)
  <2> HIDE DEF b
  <2> QED BY Zenon, <1>2, <1>3, Grown
<1>5. chain' \in [Nodes -> Tip] /\ \A m \in Nodes : Whole(chain'[m])
  <2> HIDE DEF next
  <2> QED BY <1>1, <1>2, <1>4
<1>6. Rooted' /\ Supported'
  <2>1. CASE n # Us
    <3>1. chain'[Us] = chain[Us]
      <4> HIDE DEF next
      <4> QED BY <1>1, <1>2, <2>1
    <3> QED BY Zenon, <1>1, <3>1, OtherChain
  <2>2. CASE n = Us
    <3>1. chain'[Us] = next /\ chain[Us] = c
      <4> HIDE DEF next
      <4> QED BY <1>1, <1>2, <2>2
    <3>2. c.pox \in Seq(BOOLEAN) /\ Len(c.pox) \in Nat /\ next.pox = pox
      BY <1>2 DEF Tip
    <3>3. /\ pox \in Seq(BOOLEAN) /\ Len(pox) \in {Len(c.pox), Len(c.pox) + 1}
          /\ \A i \in 1..Len(c.pox) : pox[i] = c.pox[i]
          /\ Len(pox) = Len(c.pox) + 1 => pox[Len(c.pox) + 1] = b
      <4> HIDE DEF b
      <4>1. pox = Append(c.pox, b) \/ pox = c.pox
        BY Zenon
      <4> HIDE DEF pox, c
      <4> QED BY <1>3, <3>2, <4>1
    <3> HIDE DEF pox, next
    <3>4. \A i \in 0..Len(c.pox) : SubSeq(pox, 1, i) = SubSeq(c.pox, 1, i)
      BY <3>2, <3>3
    <3>5. SubSeq(c.pox, 1, Len(c.pox)) = c.pox
      BY <3>2
    <3>6. Rooted'
      <4>1. ASSUME NEW i \in 2..Len(pox) PROVE pox[i] <=> SubSeq(pox, 1, i - 1) \in anchors[Us]
        <5>1. CASE i <= Len(c.pox)
          <6>1. i - 1 \in 0..Len(c.pox) /\ i \in 1..Len(c.pox) /\ i \in 2..Len(c.pox)
            BY <3>2, <5>1
          <6>2. c.pox[i] <=> SubSeq(c.pox, 1, i - 1) \in anchors[Us]
            BY Zenon, <3>1, <6>1 DEF Consistent, Rooted
          <6> QED BY Zenon, <3>3, <3>4, <6>1, <6>2
        <5>2. CASE ~(i <= Len(c.pox))
          <6>1. i = Len(c.pox) + 1 /\ Len(pox) = Len(c.pox) + 1 /\ i - 1 = Len(c.pox) /\ Len(c.pox) \in 0..Len(c.pox)
            BY <3>2, <3>3, <5>2
          <6> QED BY Zenon, <2>2, <3>3, <3>4, <3>5, <6>1
        <5> QED BY Zenon, <5>1, <5>2
      <4> QED BY Zenon, <1>1, <3>1, <3>2, <4>1 DEF Rooted
    <3>7. PICK d \in 1..Len(tip.pox) : Level(d) /\ \A p \in DOMAIN block_stats : Backed(d, p, block_stats[p].inv.blocks)
      BY DEF Consistent, Supported
    <3>8. /\ tip \in Tip /\ tip.pox \in Seq(BOOLEAN) /\ Len(tip.pox) \in Nat
          /\ d <= Len(c.pox)
          /\ \A i \in 1..d : tip.pox[i] = c.pox[i]
          /\ d < Len(tip.pox) => /\ ~tip.pox[d + 1]
                                 /\ SubSeq(tip.pox, 1, d) \in anchors[Us]
                                 /\ d < Len(c.pox) => c.pox[d + 1]
      BY <3>1, <3>7 DEF Level, Consistent, ScanTypes, Tip
    <3>9. Level(d)'
      <4>1. d <= Len(pox) /\ \A i \in 1..d : tip.pox[i] = pox[i]
        BY <3>2, <3>3, <3>8
      <4>2. ASSUME d < Len(tip.pox), d < Len(pox) PROVE pox[d + 1]
        <5>1. CASE d < Len(c.pox)
          <6>1. d + 1 \in 1..Len(c.pox)
            BY <3>2, <5>1
          <6> QED BY Zenon, <3>3, <3>8, <4>2, <5>1, <6>1
        <5>2. CASE ~(d < Len(c.pox))
          <6>1. d = Len(c.pox) /\ Len(pox) = Len(c.pox) + 1
            BY <3>2, <3>3, <3>8, <4>2, <5>2
          <6>2. SubSeq(tip.pox, 1, d) = c.pox
            BY <3>2, <3>8, <6>1
          <6> QED BY Zenon, <2>2, <3>3, <3>8, <4>2, <6>1, <6>2
        <5> QED BY Zenon, <5>1, <5>2
      <4> QED BY Zenon, <1>1, <3>1, <3>2, <3>7, <3>8, <4>1, <4>2 DEF Level
    <3>10. ASSUME NEW p \in DOMAIN block_stats PROVE Backed(d, p, block_stats[p].inv.blocks)'
      <4>1. ASSUME NEW h \in block_stats[p].inv.blocks, Kept(d, h)
            PROVE  CycleOf(h) < Len(pox) /\ Sortition(next, h) \in stored[p]
        <5>1. CycleOf(h) < Len(c.pox) /\ Sortition(c, h) \in stored[p] /\ h \in Nat \ {0} /\ CycleOf(h) \in Nat
          <6>1. h \in Nat \ {0}
            BY DEF Consistent, ScanTypes, Scan, Inventory
          <6> QED BY <3>1, <3>7, <4>1, <6>1, Cycles DEF Backed
        <5>2. Sortition(next, h) = Sortition(c, h)
          <6>1. Len(c.pox) <= Len(next.pox) /\ Len(c.pox) <= Len(c.pox)
            BY <3>2, <3>3
          <6>2. \A i \in 1..Len(c.pox) : next.pox[i] = c.pox[i]
            BY Zenon, <3>2, <3>3
          <6> HIDE DEF c
          <6> QED BY Zenon, <1>2, <1>4, <3>2, <5>1, <6>1, <6>2, SameSortition
        <5> QED BY <3>2, <3>3, <5>1, <5>2
      <4> QED BY Zenon, <1>1, <3>1, <3>2, <4>1 DEF Backed, Kept, Sortition
    <3> QED BY Zenon, <1>1, <3>6, <3>7, <3>9, <3>10 DEF Supported
  <2> QED BY Zenon, <2>1, <2>2
<1> HIDE DEF next
<1> QED BY <1>1, <1>2, <1>5, <1>6, ChainStep


\* The sortitions that are left when a chain is unwound.
LEMMA Unwound ==
  ASSUME NEW c \in Tip, NEW k \in 1..Len(c.pox)
  PROVE  LET fork == SubSeq(c.pox, 1, k)
             left == [height |-> k * RewardCycleLength, pox |-> fork]
         IN  /\ fork \in Seq(BOOLEAN) /\ Len(fork) = k
             /\ \A i \in 1..k : fork[i] = c.pox[i]
             /\ \A i \in 0..k : SubSeq(fork, 1, i) = SubSeq(c.pox, 1, i)
             /\ left \in Tip /\ Whole(left)
<1> DEFINE fork == SubSeq(c.pox, 1, k)
           left == [height |-> k * RewardCycleLength, pox |-> fork]
<1>1. c.pox \in Seq(BOOLEAN) /\ Len(c.pox) \in Nat /\ k \in Nat \ {0} /\ k <= Len(c.pox)
  BY DEF Tip
<1>2. fork \in Seq(BOOLEAN) /\ Len(fork) = k /\ \A i \in 1..k : fork[i] = c.pox[i]
  BY <1>1
<1> HIDE DEF fork
<1>3. \A i \in 0..k : SubSeq(fork, 1, i) = SubSeq(c.pox, 1, i)
  BY <1>1, <1>2
<1>4. k * RewardCycleLength \in Nat \ {0} /\ CycleOf(k * RewardCycleLength) = k - 1
  BY <1>1, CycleOfLast
<1> DEFINE h == k * RewardCycleLength
<1> HIDE DEF h
<1>5. left \in Tip /\ left.pox = fork /\ left.height = h
  BY <1>2, <1>4 DEF Tip, h
<1>6. Whole(left)
  <2> HIDE DEF left
  <2> QED BY <1>1, <1>2, <1>4, <1>5 DEF Whole, h
<1> QED BY Zenon, <1>2, <1>3, <1>5, <1>6 DEF fork

\* Here it is cut, below where our view is; then the view is wrong from the cut on.
LEMMA NewAnchorStep ==
  ASSUME Consistent, NEW n \in Nodes, NewAnchor(n), ~shrunk'
  PROVE  Consistent'
<1> DEFINE c == chain[n]
<1>1. PICK k \in 1..Len(c.pox) :
        LET fork == SubSeq(c.pox, 1, k)
            left == [height |-> k * RewardCycleLength, pox |-> fork]
        IN  /\ fork \notin anchors[n]
            /\ anchors' = [anchors EXCEPT ![n] = @ \cup {fork}]
            /\ IF k < Len(c.pox) THEN chain' = [chain EXCEPT ![n] = left] ELSE chain' = chain
            /\ shrunk' = (shrunk \/ (n = Us /\ Len(tip.pox) <= k /\ k < Len(c.pox)))
            /\ UNCHANGED <<stored, connected, reported, chain_view, tip, block_stats, request, reply>>
  BY Zenon DEF NewAnchor, links, scans
<1> DEFINE fork == SubSeq(c.pox, 1, k)
           left == [height |-> k * RewardCycleLength, pox |-> fork]
           d1 == IF k < Len(c.pox) THEN left ELSE c
<1>2. /\ fork \notin anchors[n]
      /\ anchors' = [anchors EXCEPT ![n] = @ \cup {fork}]
      /\ ~(n = Us /\ Len(tip.pox) <= k /\ k < Len(c.pox))
      /\ UNCHANGED <<stored, connected, reported, chain_view, tip, block_stats, request, reply>>
  BY Zenon, <1>1
<1>3. /\ chain \in [Nodes -> Tip] /\ c \in Tip /\ Whole(c) /\ Us \in Nodes
      /\ anchors \in [Nodes -> SUBSET Seq(BOOLEAN)]
      /\ \A m \in Nodes : Whole(chain[m])
      /\ c.pox \in Seq(BOOLEAN) /\ Len(c.pox) \in Nat
  BY DEF Consistent, ScanTypes, ChainsWhole, Nodes, Tip
<1>4. /\ fork \in Seq(BOOLEAN) /\ Len(fork) = k
      /\ \A i \in 1..k : fork[i] = c.pox[i]
      /\ \A i \in 0..k : SubSeq(fork, 1, i) = SubSeq(c.pox, 1, i)
      /\ left \in Tip /\ Whole(left) /\ left.pox = fork
  BY Zenon, <1>3, Unwound
<1> HIDE DEF fork, left
<1>5. chain' = [chain EXCEPT ![n] = d1]
  <2>1. CASE k < Len(c.pox)
    BY Zenon, <1>1, <2>1 DEF left, fork
  <2>2. CASE ~(k < Len(c.pox))
    <3>1. chain' = chain
      BY Zenon, <1>1, <2>2
    <3> QED BY <1>3, <2>2, <3>1
  <2> QED BY Zenon, <2>1, <2>2
<1>6. d1 \in Tip /\ Whole(d1)
  BY Zenon, <1>3, <1>4
<1>7. d1.pox \in Seq(BOOLEAN) /\ Len(d1.pox) <= Len(c.pox) /\ k <= Len(d1.pox) /\ Len(d1.pox) \in Nat
      /\ (\A i \in 1..Len(d1.pox) : d1.pox[i] = c.pox[i])
      /\ (\A i \in 0..Len(d1.pox) : SubSeq(d1.pox, 1, i) = SubSeq(c.pox, 1, i))
      /\ (k < Len(c.pox) => Len(d1.pox) = k) /\ (~(k < Len(c.pox)) => Len(d1.pox) = Len(c.pox) /\ k = Len(c.pox))
  <2>1. CASE k < Len(c.pox)
    <3>1. d1.pox = fork
      BY Zenon, <1>4, <2>1
    <3> HIDE DEF d1
    <3> QED BY <1>3, <1>4, <2>1, <3>1
  <2>2. CASE ~(k < Len(c.pox))
    <3>1. d1 = c
      BY Zenon, <2>2
    <3> HIDE DEF d1
    <3> QED BY <1>3, <2>2, <3>1
  <2> QED BY Zenon, <2>1, <2>2
<1> HIDE DEF d1
<1>8. chain' \in [Nodes -> Tip] /\ \A m \in Nodes : Whole(chain'[m])
  BY <1>3, <1>5, <1>6
<1>9. anchors' \in [Nodes -> SUBSET Seq(BOOLEAN)]
  BY <1>2, <1>3, <1>4
<1>10. Rooted' /\ Supported'
  <2>1. CASE n # Us
    <3>1. chain'[Us] = chain[Us] /\ anchors'[Us] = anchors[Us]
      BY <1>2, <1>3, <1>5, <2>1
    <3> QED BY Zenon, <1>2, <3>1, OtherChain
  <2>2. CASE n = Us
    <3>1. chain'[Us] = d1 /\ chain[Us] = c /\ anchors'[Us] = anchors[Us] \cup {fork} /\ fork \notin anchors[Us]
      BY <1>2, <1>3, <1>5, <2>2
    <3> HIDE DEF c
    <3>2. Rooted'
      <4>1. ASSUME NEW i \in 2..Len(d1.pox) PROVE d1.pox[i] <=> SubSeq(d1.pox, 1, i - 1) \in anchors[Us] \cup {fork}
        <5>1. i \in 2..Len(c.pox) /\ i \in 1..Len(d1.pox) /\ i - 1 \in 0..Len(d1.pox) /\ i - 1 \in 1..Len(c.pox) /\ i - 1 < k
          BY <1>3, <1>7
        <5>2. c.pox[i] <=> SubSeq(c.pox, 1, i - 1) \in anchors[Us]
          BY Zenon, <3>1, <5>1 DEF Consistent, Rooted
        <5>3. Len(SubSeq(c.pox, 1, i - 1)) = i - 1
          BY <1>3, <5>1
        <5>4. SubSeq(c.pox, 1, i - 1) # fork
          BY <1>4, <5>1, <5>3
        <5>5. d1.pox[i] = c.pox[i] /\ SubSeq(d1.pox, 1, i - 1) = SubSeq(c.pox, 1, i - 1)
          BY Zenon, <1>7, <5>1
        <5> QED BY Zenon, <5>2, <5>4, <5>5
      <4> QED BY Zenon, <3>1, <4>1 DEF Rooted
    <3>3. PICK d \in 1..Len(tip.pox) : Level(d) /\ \A p \in DOMAIN block_stats : Backed(d, p, block_stats[p].inv.blocks)
      BY DEF Consistent, Supported
    <3>4. /\ tip \in Tip /\ tip.pox \in Seq(BOOLEAN) /\ Len(tip.pox) \in Nat
          /\ d \in Nat \ {0} /\ d <= Len(tip.pox) /\ d <= Len(c.pox)
          /\ \A i \in 1..d : tip.pox[i] = c.pox[i]
          /\ d < Len(tip.pox) => /\ ~tip.pox[d + 1]
                                 /\ SubSeq(tip.pox, 1, d) \in anchors[Us]
                                 /\ d < Len(c.pox) => c.pox[d + 1]
      BY <3>1, <3>3 DEF Level, Consistent, ScanTypes, Tip
    <3>5. \A i \in 0..d : SubSeq(tip.pox, 1, i) = SubSeq(c.pox, 1, i)
      BY <1>3, <3>4
    <3>6. ASSUME NEW e \in 1..Len(tip.pox), Level(e)', e <= d, e <= Len(d1.pox), e < Len(tip.pox) \/ e = d,
                 d = Len(tip.pox) /\ e = d => Len(d1.pox) = Len(c.pox)
          PROVE  Supported'
      <4>1. ASSUME NEW p \in DOMAIN block_stats, NEW h \in block_stats[p].inv.blocks, Kept(e, h)
            PROVE  CycleOf(h) < Len(d1.pox) /\ Sortition(d1, h) \in stored[p]
        <5>1. h \in Nat \ {0} /\ CycleOf(h) \in Nat
          <6>1. h \in Nat \ {0}
            BY DEF Consistent, ScanTypes, Scan, Inventory
          <6> QED BY <6>1, Cycles
        <5>2. Kept(d, h)
          BY <3>4, <3>6, <4>1, <5>1 DEF Kept
        <5>3. CycleOf(h) < Len(c.pox) /\ Sortition(c, h) \in stored[p]
          BY Zenon, <3>1, <3>3, <5>2 DEF Backed
        <5>4. CycleOf(h) < Len(d1.pox)
          BY <1>3, <1>7, <3>4, <3>6, <4>1, <5>1, <5>3 DEF Kept
        <5>5. Sortition(d1, h) = Sortition(c, h)
          <6>1. Len(d1.pox) <= Len(d1.pox)
            BY <1>7
          <6> QED BY Zenon, <1>3, <1>6, <1>7, <5>1, <5>4, <6>1, SameSortition
        <5> QED BY Zenon, <5>3, <5>4, <5>5
      <4>2. ASSUME NEW p \in DOMAIN block_stats PROVE Backed(e, p, block_stats[p].inv.blocks)'
        BY Zenon, <1>2, <3>1, <4>1 DEF Backed, Kept, Sortition
      <4> QED BY Zenon, <1>2, <3>6, <4>2 DEF Supported
    <3>7. CASE k < Len(c.pox) /\ k < d
      <4>1. k \in 1..Len(tip.pox) /\ k < Len(tip.pox) /\ k + 1 \in 2..Len(c.pox) /\ k + 1 \in 1..d /\ k \in 0..d
        BY <1>3, <3>4, <3>7
      <4>2. c.pox[k + 1] <=> SubSeq(c.pox, 1, (k + 1) - 1) \in anchors[Us]
        BY Zenon, <3>1, <4>1 DEF Consistent, Rooted
      <4>3. ~tip.pox[k + 1]
        <5>1. (k + 1) - 1 = k
          BY <4>1
        <5> QED BY Zenon, <3>1, <3>4, <4>1, <4>2, <5>1 DEF fork
      <4>4. SubSeq(tip.pox, 1, k) = fork /\ fork \in anchors'[Us]
        BY Zenon, <3>1, <3>5, <4>1 DEF fork
      <4>5. Len(d1.pox) = k /\ \A i \in 1..k : tip.pox[i] = d1.pox[i]
        BY <1>3, <1>7, <3>4, <3>7
      <4>6. k <= Len(d1.pox) /\ ~(k < Len(d1.pox))
        BY <1>7, <4>5
      <4>7. Level(k)'
        BY Zenon, <1>2, <3>1, <4>1, <4>3, <4>4, <4>5, <4>6 DEF Level
      <4>8. k <= d /\ (k < Len(tip.pox) \/ k = d) /\ ~(d = Len(tip.pox) /\ k = d)
        BY <3>4, <3>7, <4>1
      <4> QED BY Zenon, <3>2, <3>6, <4>1, <4>6, <4>7, <4>8
    <3>8. CASE k < Len(c.pox) /\ ~(k < d)
      <4>1. k < Len(tip.pox) /\ d < Len(tip.pox)
        BY <1>2, <1>3, <2>2, <3>4, <3>8 DEF c
      <4>2. k # d
        <5>1. ASSUME k = d PROVE FALSE
          <6>1. k \in 0..d
            BY <3>4, <5>1
          <6>2. SubSeq(tip.pox, 1, k) = fork
            BY Zenon, <3>5, <6>1 DEF fork
          <6> QED BY Zenon, <3>1, <3>4, <4>1, <5>1, <6>2
        <5> QED BY Zenon, <5>1
      <4>3. d < k /\ Len(d1.pox) = k /\ d + 1 \in 1..Len(d1.pox) /\ d < Len(c.pox)
        BY <1>7, <3>4, <3>8, <4>2
      <4>4. d <= Len(d1.pox) /\ d < Len(d1.pox) /\ d1.pox[d + 1] /\ \A i \in 1..d : tip.pox[i] = d1.pox[i]
        BY <1>7, <3>4, <4>1, <4>3
      <4>5. SubSeq(tip.pox, 1, d) \in anchors'[Us]
        BY Zenon, <3>1, <3>4, <4>1
      <4>6. Level(d)'
        BY Zenon, <1>2, <3>1, <3>3, <3>4, <4>1, <4>4, <4>5 DEF Level
      <4>7. d <= d /\ d # Len(tip.pox)
        BY <3>4, <4>1
      <4> QED BY Zenon, <3>2, <3>3, <3>6, <4>4, <4>6, <4>7
    <3>9. CASE ~(k < Len(c.pox))
      <4>1. Len(d1.pox) = Len(c.pox) /\ d <= Len(d1.pox) /\ d <= d
        BY <1>7, <3>4, <3>9
      <4>2. \A i \in 1..d : tip.pox[i] = d1.pox[i]
        BY <1>7, <3>4, <4>1
      <4>3. d < Len(d1.pox) => d1.pox[d + 1] = c.pox[d + 1]
        BY <1>7, <3>4
      <4>4. Level(d)'
        BY Zenon, <1>2, <3>1, <3>3, <3>4, <4>1, <4>2, <4>3 DEF Level
      <4> QED BY Zenon, <3>2, <3>3, <3>6, <4>1, <4>4
    <3> QED BY Zenon, <3>2, <3>7, <3>8, <3>9
  <2> QED BY Zenon, <2>1, <2>2
<1> QED BY Zenon, <1>2, <1>8, <1>9, <1>10, ChainStep


\* A step that leaves the sortitions, our view and the blocks of the peers alone.
LEMMA ScanStep ==
  ASSUME Consistent, UNCHANGED <<chain, anchors, tip, stored, chain_view>>,
         connected' \subseteq Peers, reported' \in [Peers -> Nat],
         DOMAIN request' = Peers, DOMAIN reply' = Peers,
         DOMAIN block_stats' \subseteq Peers, block_stats' \in [DOMAIN block_stats' -> Scan],
         \A p \in Peers : RequestOK(request'[p]) /\ ReplyOK(p, reply'[p], request'[p]),
         \A p \in DOMAIN block_stats' : ScanOK(block_stats'[p], request'[p]),
         NEW d \in 1..Len(tip.pox), Level(d),
         \A p \in DOMAIN block_stats' : Backed(d, p, block_stats'[p].inv.blocks)
  PROVE  Consistent'
<1>1. ScanTypes' /\ ChainsWhole' /\ Rooted'
  <2>1. ScanTypes'
    BY DEF Consistent, ScanTypes
  <2>2. ChainsWhole'
    BY Zenon DEF Consistent, ChainsWhole
  <2>3. Rooted'
    BY Zenon DEF Consistent, Rooted
  <2> QED BY Zenon, <2>1, <2>2, <2>3
<1>2. Talks'
  BY DEF Talks, RequestOK, ReplyOK
<1>3. Scans'
  BY DEF Scans, ScanOK
<1>4. Level(d)'
  BY DEF Level
<1>5. ASSUME NEW p \in DOMAIN block_stats' PROVE Backed(d, p, block_stats[p].inv.blocks)'
  <2>1. Backed(d, p, block_stats'[p].inv.blocks)
    BY Zenon
  <2> QED BY <2>1 DEF Backed, Kept
<1>6. Supported'
  BY Zenon, <1>4, <1>5 DEF Supported
<1> QED BY Zenon, <1>1, <1>2, <1>3, <1>6 DEF Consistent

\* What the steps use of the state.
LEMMA Facts ==
  ASSUME Consistent
  PROVE  /\ connected \subseteq Peers /\ reported \in [Peers -> Nat]
         /\ DOMAIN request = Peers /\ DOMAIN reply = Peers
         /\ DOMAIN block_stats \subseteq Peers /\ block_stats \in [DOMAIN block_stats -> Scan]
         /\ \A p \in Peers : RequestOK(request[p]) /\ ReplyOK(p, reply[p], request[p])
         /\ \A p \in DOMAIN block_stats : ScanOK(block_stats[p], request[p])
         /\ \E d \in 1..Len(tip.pox) :
               Level(d) /\ \A p \in DOMAIN block_stats : Backed(d, p, block_stats[p].inv.blocks)
         /\ \A p \in Peers : chain[p] \in Tip /\ chain[p].height \in Nat
         /\ chain[Us] \in Tip /\ tip \in Tip /\ chain_view \in Nat
<1>1. \A n \in Nodes : chain[n] \in Tip /\ chain[n].height \in Nat
  BY DEF Consistent, ScanTypes, Tip
<1>2. Us \in Nodes /\ Peers \subseteq Nodes
  BY Zenon DEF Nodes
<1> QED BY Zenon, <1>1, <1>2 DEF Consistent, ScanTypes, Talks, Scans, Supported

\* A message without an inventory, a connection, the passing of time.
LEMMA QuietStep ==
  ASSUME Consistent, UNCHANGED <<chain, anchors, tip, stored, chain_view, block_stats, request, reply>>,
         connected' \subseteq Peers, reported' \in [Peers -> Nat]
  PROVE  Consistent'
<1>1. PICK d \in 1..Len(tip.pox) : Level(d) /\ \A p \in DOMAIN block_stats : Backed(d, p, block_stats[p].inv.blocks)
  BY Zenon, Facts
<1> QED BY Zenon, <1>1, Facts, ScanStep

\* A message only updates the height its sender reports.
LEMMA HeardFacts ==
  ASSUME Consistent, NEW p \in Peers, NEW h, h = reported[p] \/ h = chain[p].height, Heard(p, h)
  PROVE  reported' \in [Peers -> Nat] /\ UNCHANGED <<chain, anchors, tip, stored, chain_view, block_stats, request, connected>>
<1>1. h \in Nat
  BY Zenon, Facts
<1>2. reported' = [reported EXCEPT ![p] = h] /\ UNCHANGED <<chain, anchors, tip, stored, chain_view, block_stats, request, connected>>
  BY DEF Heard, remote, views
<1> QED BY <1>1, <1>2, Facts

\* None of them touches an inventory.
LEMMA QuietSteps ==
  ASSUME Consistent, NEW p \in Peers, Ping(p) \/ Connect(p) \/ IntervalPasses
  PROVE  Consistent'
<1>1. CASE Ping(p)
  <2>1. Heard(p, chain[p].height) /\ reply' = reply
    BY Zenon, <1>1 DEF Ping
  <2> QED BY Zenon, <2>1, HeardFacts, QuietStep, Facts
<1>2. CASE Connect(p)
  <2>1. /\ connected' = connected \cup {p} /\ reported' = [reported EXCEPT ![p] = chain[p].height]
        /\ UNCHANGED <<chain, anchors, tip, stored, chain_view, block_stats, request, reply>>
    BY <1>2 DEF Connect, remote, views, scans
  <2>2. connected' \subseteq Peers /\ reported' \in [Peers -> Nat]
    BY <2>1, Facts
  <2> QED BY Zenon, <2>1, <2>2, QuietStep
<1>3. CASE IntervalPasses
  <2>1. UNCHANGED <<chain, anchors, tip, stored, chain_view, block_stats, request, reply, connected, reported>>
    BY <1>3 DEF IntervalPasses, remote, views, scans, links
  <2> QED BY Zenon, <2>1, Facts, QuietStep
<1> QED BY Zenon, <1>1, <1>2, <1>3

\* A peer that stores one more block still has the others.
LEMMA StoreBlockStep ==
  ASSUME Consistent, NEW p \in Peers, StoreBlock(p)
  PROVE  Consistent'
<1>1. PICK h \in Won : /\ h <= chain[p].height
                       /\ stored' = [stored EXCEPT ![p] = @ \cup {Sortition(chain[p], h)}]
  BY Zenon DEF StoreBlock
<1>2. UNCHANGED <<chain, anchors, tip, chain_view, connected, reported, block_stats, request, reply>>
  BY DEF StoreBlock, links, views, scans
<1> DEFINE c == chain[p]
           s == Sortition(c, h)
<1>3. /\ h \in Nat \ {0} /\ c \in Tip /\ Whole(c) /\ c.height \in Nat \ {0} /\ c.pox \in Seq(BOOLEAN)
      /\ Len(c.pox) \in Nat /\ stored \in [Peers -> SUBSET Tip]
  <2>1. p \in Nodes /\ h \in Nat \ {0}
    BY ScanAssumption DEF Nodes
  <2>2. c \in Tip /\ Whole(c) /\ stored \in [Peers -> SUBSET Tip]
    BY <2>1 DEF Consistent, ScanTypes, ChainsWhole
  <2> QED BY <2>1, <2>2 DEF Tip
<1>4. s \in Tip /\ Whole(s)
  <2>1. CycleOf(h) <= CycleOf(c.height) /\ CycleOf(h) \in Nat /\ CycleOf(c.height) \in Nat
    BY <1>1, <1>3, CycleMonotone, Cycles
  <2>2. CycleOf(h) + 1 <= Len(c.pox) /\ CycleOf(h) + 1 \in Nat
    BY <1>3, <2>1 DEF Whole
  <2> DEFINE m == CycleOf(h) + 1
             sub == SubSeq(c.pox, 1, m)
  <2>3. sub \in Seq(BOOLEAN) /\ Len(sub) = m
    <3> HIDE DEF m, c
    <3> QED BY <1>3, <2>2 DEF m
  <2>4. s = [height |-> h, pox |-> sub]
    BY Zenon DEF Sortition
  <2> HIDE DEF sub, s
  <2> QED BY <1>3, <2>3, <2>4 DEF Tip, Whole
<1> HIDE DEF s
<1>5. /\ stored' \in [Peers -> SUBSET Tip]
      /\ \A q \in Peers : stored[q] \subseteq stored'[q] /\ \A t \in stored'[q] : t \in stored[q] \/ t = s
  BY <1>1, <1>3, <1>4 DEF s
<1>6. ScanTypes'
  BY <1>2, <1>5 DEF Consistent, ScanTypes
<1>7. ChainsWhole'
  BY <1>2, <1>4, <1>5 DEF Consistent, ChainsWhole, Whole
<1>8. Rooted'
  BY <1>2 DEF Consistent, Rooted
<1>9. Talks'
  <2>1. ASSUME NEW q \in Peers PROVE RequestOK(request[q])' /\ ReplyOK(q, reply[q], request[q])'
    <3>1. RequestOK(request[q]) /\ ReplyOK(q, reply[q], request[q]) /\ stored[q] \subseteq stored'[q]
      BY Zenon, <1>5, Facts
    <3>2. RequestOK(request[q])'
      BY <1>2, <3>1 DEF RequestOK
    <3>3. ReplyOK(q, reply[q], request[q])'
      BY <1>2, <3>1 DEF ReplyOK
    <3> QED BY <3>2, <3>3
  <2> QED BY Zenon, <2>1 DEF Talks
<1>10. Scans'
  BY <1>2 DEF Consistent, Scans, ScanOK
<1>11. Supported'
  <2>1. PICK d \in 1..Len(tip.pox) : Level(d) /\ \A q \in DOMAIN block_stats : Backed(d, q, block_stats[q].inv.blocks)
    BY Zenon, Facts
  <2>2. Level(d)'
    BY <1>2, <2>1 DEF Level
  <2>3. ASSUME NEW q \in DOMAIN block_stats PROVE Backed(d, q, block_stats[q].inv.blocks)'
    <3>1. Backed(d, q, block_stats[q].inv.blocks) /\ stored[q] \subseteq stored'[q]
      BY Zenon, <1>5, <2>1, Facts
    <3> QED BY <1>2, <3>1 DEF Backed, Kept
  <2> QED BY Zenon, <1>2, <2>1, <2>2, <2>3 DEF Supported
<1> QED BY Zenon, <1>6, <1>7, <1>8, <1>9, <1>10, <1>11 DEF Consistent


\* A step that changes only what one peer answered.
LEMMA ReplyStep ==
  ASSUME Consistent, UNCHANGED <<chain, anchors, tip, stored, chain_view, block_stats, request, connected>>,
         reported' \in [Peers -> Nat], NEW p \in Peers, NEW a,
         reply' = [reply EXCEPT ![p] = a], ReplyOK(p, a, request[p])
  PROVE  Consistent'
<1>1. PICK d \in 1..Len(tip.pox) : Level(d) /\ \A q \in DOMAIN block_stats : Backed(d, q, block_stats[q].inv.blocks)
  BY Zenon, Facts
<1>2. DOMAIN reply' = Peers /\ reply'[p] = a /\ \A q \in Peers : q # p => reply'[q] = reply[q]
  BY Facts
<1>3. \A q \in Peers : RequestOK(request'[q]) /\ ReplyOK(q, reply'[q], request'[q])
  BY Zenon, <1>2, Facts
<1> QED BY Zenon, <1>1, <1>2, <1>3, Facts, ScanStep

\* make_getpoxinv_response: the answer is well formed.
LEMMA PoxAnswerOK ==
  ASSUME NEW p \in Peers, chain[p] \in Tip, NEW r, RequestOK(r), r.type = "GetPoxInv", NEW h
  PROVE  ReplyOK(p, make_getpoxinv_response(p, r, h), r)
<1> DEFINE a == make_getpoxinv_response(p, r, h)
           c == CycleOf(r.base.height)
           end == Min({c + r.num, Len(chain[p].pox)})
           bits == SubSeq(chain[p].pox, c + 1, end)
<1>1. /\ r.base \in Tip /\ r.num \in Nat /\ c \in Nat
      /\ chain[p].pox \in Seq(BOOLEAN) /\ Len(chain[p].pox) \in Nat
  BY CycleNat DEF RequestOK, Tip
<1>2. bits \in Seq(BOOLEAN)
  <2>1. c + r.num \in Int /\ Len(chain[p].pox) \in Int
    BY <1>1
  <2>2. end \in {c + r.num, Len(chain[p].pox)} /\ end <= Len(chain[p].pox)
    BY Zenon, <2>1, MinTwo
  <2> HIDE DEF end, c
  <2>3. end \in Int
    BY <1>1, <2>2
  <2> QED BY <1>1, <2>2, <2>3
<1>3. \/ a = Nack("Throttled", h) \/ a = Nack("InvalidPoxFork", h)
      \/ a = [type |-> "PoxInv", bits |-> bits]
  BY Zenon DEF make_getpoxinv_response
<1> HIDE DEF a, bits
<1> QED
  <2>1. CASE a = Nack("Throttled", h) \/ a = Nack("InvalidPoxFork", h)
    BY <2>1 DEF Nack, ReplyOK, a
  <2>2. CASE a = [type |-> "PoxInv", bits |-> bits]
    BY <1>2, <2>2 DEF ReplyOK, a
  <2> QED BY Zenon, <1>3, <2>1, <2>2

\* make_getblocksinv_response: the blocks are those of the sortitions asked for.
LEMMA BlocksAnswerOK ==
  ASSUME NEW p \in Peers, chain[p] \in Tip, NEW r, RequestOK(r), r.type = "GetBlocksInv", NEW h
  PROVE  ReplyOK(p, make_getblocksinv_response(p, r, h), r)
<1> DEFINE a == make_getblocksinv_response(p, r, h)
           c == CycleOf(r.base.height)
           last == r.base.height + r.num - 1
           blocks == {k \in r.base.height..last : Sortition(chain[p], k) \in stored[p]}
<1>1. /\ r.base \in Tip /\ r.base.height \in Nat \ {0} /\ r.num \in Nat /\ r.num <= RewardCycleLength
      /\ Len(r.base.pox) = c + 1 /\ c \in Nat /\ r.base.height = reward_cycle_to_block_height(c)
      /\ RewardCycleLength \in Nat \ {0} /\ r.base.pox \in Seq(BOOLEAN)
      /\ chain[p].pox \in Seq(BOOLEAN) /\ Len(chain[p].pox) \in Nat
  BY ScanAssumption, CycleNat DEF RequestOK, Tip, Whole
<1>2. ASSUME PoxValid(p, r.base), NEW k \in blocks PROVE [height |-> k, pox |-> r.base.pox] \in stored[p]
  <2>1. k \in Nat \ {0}
        /\ k \in reward_cycle_to_block_height(c)..(reward_cycle_to_block_height(c) + RewardCycleLength - 1)
    <3> HIDE DEF c
    <3> QED BY <1>1, <1>2
  <2>2. CycleOf(k) = c
    BY <1>1, <2>1, Cycles
  <2>3. SubSeq(chain[p].pox, 1, c + 1) = r.base.pox
    <3>1. Len(r.base.pox) <= Len(chain[p].pox) /\ \A i \in 1..Len(r.base.pox) : r.base.pox[i] = chain[p].pox[i]
      BY Zenon, <1>2 DEF PoxValid, On, IsPrefix
    <3> HIDE DEF c
    <3> QED BY Zenon, <1>1, <3>1, Cut
  <2>4. Sortition(chain[p], k) = [height |-> k, pox |-> r.base.pox]
    BY Zenon, <2>2, <2>3 DEF Sortition
  <2> QED BY Zenon, <1>2, <2>4
<1>3. blocks \subseteq r.base.height..(r.base.height + r.num - 1)
  BY Zenon
<1> HIDE DEF blocks
<1>4. CASE ~(Knows(p, r.base) /\ PoxValid(p, r.base) /\ ~(last > chain[p].height))
  <2>1. a = Nack("NoSuchBurnchainBlock", h) \/ a = Nack("InvalidPoxFork", h)
    BY Zenon, <1>4 DEF make_getblocksinv_response
  <2> HIDE DEF a
  <2>2. ReplyOK(p, a, r)
    BY <2>1 DEF Nack, ReplyOK
  <2> QED BY Zenon, <2>2 DEF a
<1>5. CASE Knows(p, r.base) /\ PoxValid(p, r.base) /\ ~(last > chain[p].height)
  <2>1. a = [type |-> "BlocksInv", bitlen |-> r.num, blocks |-> blocks]
    BY Zenon, <1>5 DEF make_getblocksinv_response, blocks
  <2> HIDE DEF a
  <2>2. a.type = "BlocksInv" /\ a.bitlen = r.num /\ a.blocks = blocks
    BY <2>1
  <2>3. ReplyOK(p, a, r)
    BY <1>2, <1>3, <1>5, <2>2 DEF ReplyOK
  <2> QED BY Zenon, <2>3 DEF a
<1> QED BY Zenon, <1>4, <1>5

\* An answer comes, or none.
LEMMA AnswerStep ==
  ASSUME Consistent, NEW p \in Peers, Answer(p) \/ Timeout(p)
  PROVE  Consistent'
<1>1. CASE Answer(p)
  <2>1. PICK h \in Heights(p) :
          /\ Heard(p, h)
          /\ reply' = [reply EXCEPT ![p] = IF request[p].type = "GetPoxInv"
                                           THEN make_getpoxinv_response(p, request[p], h)
                                           ELSE make_getblocksinv_response(p, request[p], h)]
    BY Zenon, <1>1 DEF Answer
  <2>2. RequestOK(request[p]) /\ chain[p] \in Tip
    BY Zenon, Facts
  <2>3. request[p].type = "GetPoxInv" \/ request[p].type = "GetBlocksInv"
    BY <1>1, <2>2 DEF Answer, RequestOK
  <2> DEFINE a == IF request[p].type = "GetPoxInv"
                  THEN make_getpoxinv_response(p, request[p], h)
                  ELSE make_getblocksinv_response(p, request[p], h)
  <2>4. ReplyOK(p, a, request[p])
    BY Zenon, <2>2, <2>3, PoxAnswerOK, BlocksAnswerOK
  <2> HIDE DEF a
  <2>5. reply' = [reply EXCEPT ![p] = a]
    BY Zenon, <2>1 DEF a
  <2>6. h = reported[p] \/ h = chain[p].height
    BY <2>1 DEF Heights
  <2> QED BY Zenon, <2>1, <2>4, <2>5, <2>6, HeardFacts, ReplyStep
<1>2. CASE Timeout(p)
  <2> DEFINE a == [type |-> "failed"]
  <2>1. reply' = [reply EXCEPT ![p] = a] /\ UNCHANGED <<chain, anchors, tip, stored, chain_view, block_stats, request, connected, reported>>
    BY <1>2 DEF Timeout, remote, views
  <2>2. a.type = "failed"
    OBVIOUS
  <2> HIDE DEF a
  <2>3. ReplyOK(p, a, request[p])
    BY <2>2 DEF ReplyOK
  <2> QED BY Zenon, <2>1, <2>3, ReplyStep, Facts
<1> QED BY Zenon, <1>1, <1>2

\* A block is announced only if it is on our own fork.
LEMMA AnnounceStep ==
  ASSUME Consistent, NEW p \in Peers, Announce(p)
  PROVE  Consistent'
<1>1. PICK s \in stored[p] : set_data_available(p, s)
  BY Zenon DEF Announce
<1>2. p \in DOMAIN block_stats /\ UNCHANGED <<chain, anchors, tip, stored, chain_view, connected, reported, request, reply>>
  BY DEF Announce, remote, links, views
<1>3. s \in Tip /\ Whole(s) /\ block_stats[p] \in Scan
  BY DEF Consistent, ScanTypes, ChainsWhole, Announce
<1> DEFINE h == s.height
           inv == merge_blocks_inv(block_stats[p].inv, h, 1, {h})
           scan == [block_stats[p] EXCEPT !.inv = inv]
<1>4. PICK d \in 1..Len(tip.pox) : Level(d) /\ \A q \in DOMAIN block_stats : Backed(d, q, block_stats[q].inv.blocks)
  BY Zenon, Facts
<1>5. block_stats' = [block_stats EXCEPT ![p] = scan]
  BY <1>1 DEF set_data_available
<1>6. block_stats[p].inv \in Inventory /\ Below(block_stats[p].inv) /\ h \in Nat \ {0} /\ s.pox \in Seq(BOOLEAN)
  BY <1>2, <1>3, Facts DEF Scan, Tip, ScanOK
<1>7. inv \in Inventory /\ Below(inv) /\ inv.pox = block_stats[p].inv.pox /\ inv.blocks \subseteq block_stats[p].inv.blocks \cup {h}
  <2> HIDE DEF h
  <2>1. {h} \in SUBSET (h..(h + 1 - 1))
    BY <1>6
  <2> QED BY <1>6, <2>1, BlocksMerged
<1> HIDE DEF inv
<1>8. scan \in Scan /\ scan.inv = inv /\ scan.state = block_stats[p].state /\ scan.done = block_stats[p].done
      /\ scan.target = block_stats[p].target
  BY <1>3, <1>7 DEF Scan
<1> HIDE DEF scan
<1>9. ScanOK(scan, request[p])
  <2>1. ScanOK(block_stats[p], request[p])
    BY Zenon, <1>2, Facts
  <2> QED BY <1>7, <1>8, <2>1 DEF ScanOK
<1>10. Backed(d, p, scan.inv.blocks)
  <2>1. Backed(d, p, block_stats[p].inv.blocks)
    BY Zenon, <1>2, <1>4
  <2>2. CycleOf(h) < Len(chain[Us].pox) /\ Sortition(chain[Us], h) = s
    <3>1. /\ Len(s.pox) <= Len(chain[Us].pox) /\ \A i \in 1..Len(s.pox) : s.pox[i] = chain[Us].pox[i]
          /\ Len(s.pox) = CycleOf(h) + 1
      BY Zenon, <1>1, <1>3 DEF set_data_available, PoxValid, On, IsPrefix, Whole
    <3>2. CycleOf(h) \in Nat /\ chain[Us].pox \in Seq(BOOLEAN) /\ Len(chain[Us].pox) \in Nat
      <4>1. CycleOf(h) \in Nat /\ chain[Us] \in Tip
        BY Zenon, <1>6, CycleNat, Facts
      <4> QED BY <4>1 DEF Tip
    <3> DEFINE m == CycleOf(h)
    <3>3. SubSeq(chain[Us].pox, 1, m + 1) = s.pox
      BY Zenon, <1>6, <3>1, <3>2, Cut
    <3>4. s = [height |-> h, pox |-> s.pox]
      BY <1>3 DEF Tip
    <3>5. Sortition(chain[Us], h) = s
      BY Zenon, <3>3, <3>4 DEF Sortition
    <3> QED BY <3>1, <3>2, <3>5
  <2> QED BY Zenon, <1>1, <1>7, <1>8, <2>1, <2>2 DEF Backed
<1>11. /\ DOMAIN block_stats' = DOMAIN block_stats /\ block_stats' \in [DOMAIN block_stats -> Scan]
       /\ block_stats'[p] = scan /\ \A q \in DOMAIN block_stats : q # p => block_stats'[q] = block_stats[q]
  BY <1>2, <1>5, <1>8, Facts
<1>12. \A q \in DOMAIN block_stats' : ScanOK(block_stats'[q], request'[q]) /\ Backed(d, q, block_stats'[q].inv.blocks)
  BY Zenon, <1>2, <1>4, <1>9, <1>10, <1>11, Facts
<1> QED BY Zenon, <1>2, <1>4, <1>11, <1>12, Facts, ScanStep

\* A disconnected peer takes its inventory with it.
LEMMA DisconnectStep ==
  ASSUME Consistent, NEW p \in Peers, del_peer(p)
  PROVE  Consistent'
<1>1. /\ connected' = connected \ {p} /\ block_stats' = [q \in DOMAIN block_stats \ {p} |-> block_stats[q]]
      /\ request' = [request EXCEPT ![p] = NoRequest] /\ reply' = [reply EXCEPT ![p] = NoReply]
      /\ UNCHANGED <<chain, anchors, tip, stored, chain_view, reported>>
  BY DEF del_peer, remote, views
<1>2. PICK d \in 1..Len(tip.pox) : Level(d) /\ \A q \in DOMAIN block_stats : Backed(d, q, block_stats[q].inv.blocks)
  BY Zenon, Facts
<1>3. /\ DOMAIN request' = Peers /\ DOMAIN reply' = Peers /\ request'[p] = NoRequest /\ reply'[p] = NoReply
      /\ \A q \in Peers : q # p => request'[q] = request[q] /\ reply'[q] = reply[q]
  BY <1>1, Facts
<1>4. RequestOK(NoRequest) /\ ReplyOK(p, NoReply, NoRequest)
  BY DEF RequestOK, ReplyOK, NoRequest, NoReply
<1>5. \A q \in Peers : RequestOK(request'[q]) /\ ReplyOK(q, reply'[q], request'[q])
  BY Zenon, <1>3, <1>4, Facts
<1>6. /\ DOMAIN block_stats' \subseteq Peers /\ block_stats' \in [DOMAIN block_stats' -> Scan]
      /\ \A q \in DOMAIN block_stats' : q \in DOMAIN block_stats /\ q # p /\ q \in Peers /\ block_stats'[q] = block_stats[q]
  BY <1>1, Facts
<1>7. \A q \in DOMAIN block_stats' : ScanOK(block_stats'[q], request'[q]) /\ Backed(d, q, block_stats'[q].inv.blocks)
  BY Zenon, <1>2, <1>3, <1>6, Facts
<1>8. connected' \subseteq Peers
  BY Zenon, <1>1, Facts
<1> QED BY Zenon, <1>1, <1>2, <1>3, <1>5, <1>6, <1>7, <1>8, Facts, ScanStep


\* When our view is refreshed, every bit that is kept must be backed on the new one.
LEMMA ViewStep ==
  ASSUME Consistent, tip' = chain[Us], UNCHANGED <<chain, anchors, stored, connected, reported>>, chain_view' \in Nat,
         DOMAIN request' = Peers, DOMAIN reply' = Peers,
         DOMAIN block_stats' \subseteq Peers, block_stats' \in [DOMAIN block_stats' -> Scan],
         \A p \in Peers : RequestOK(request'[p]) /\ ReplyOK(p, reply'[p], request'[p]), Scans',
         \A p \in DOMAIN block_stats' : \A h \in block_stats'[p].inv.blocks :
             CycleOf(h) < Len(chain[Us].pox) /\ Sortition(chain[Us], h) \in stored[p]
  PROVE  Consistent'
<1>1. chain[Us] \in Tip /\ connected \subseteq Peers /\ reported \in [Peers -> Nat] /\ Whole(chain[Us])
  <2>1. Us \in Nodes
    BY DEF Nodes
  <2> QED BY Zenon, <2>1, Facts DEF Consistent, ChainsWhole
<1>2. ScanTypes'
  BY <1>1 DEF Consistent, ScanTypes
<1>3. ChainsWhole'
  BY Zenon DEF Consistent, ChainsWhole
<1>4. Rooted'
  BY Zenon DEF Consistent, Rooted
<1>5. Talks'
  BY DEF Talks, RequestOK, ReplyOK
<1>6. Supported'
  <2> DEFINE e == Len(chain[Us].pox)
  <2>1. e \in 1..Len(tip'.pox) /\ e <= e /\ ~(e < e) /\ e \in Nat
    <3>1. CycleOf(chain[Us].height) \in Nat /\ Len(chain[Us].pox) = CycleOf(chain[Us].height) + 1
      BY <1>1, CycleNat DEF Tip, Whole
    <3> QED BY <3>1
  <2>2. Level(e)'
    BY <2>1 DEF Level
  <2>3. ASSUME NEW p \in DOMAIN block_stats' PROVE Backed(e, p, block_stats[p].inv.blocks)'
    BY DEF Backed
  <2> QED BY <2>1, <2>2, <2>3 DEF Supported
<1> QED BY Zenon, <1>2, <1>3, <1>4, <1>5, <1>6 DEF Consistent

\* Where the view was wrong a PoX bit became one, and all bits from there on are dropped; the
\* requests that go on are about earlier reward cycles.
LEMMA RefreshStep ==
  ASSUME Consistent, Refresh, ~shrunk'
  PROVE  Consistent'
<1> DEFINE new == chain[Us].pox
           flips == {c \in 0..(Min({Len(new), Len(tip.pox)}) - 1) : ~Bit(tip.pox, c) /\ Bit(new, c)}
<1>1. /\ UNCHANGED <<chain, anchors, stored, connected, reported>> /\ tip' = chain[Us]
      /\ ~(Len(new) < Len(tip.pox))
      /\ IF flips # {} THEN invalidate_block_inventories(Min(flips)) ELSE UNCHANGED scans
  <2>1. UNCHANGED <<chain, anchors, stored, connected, reported>> /\ refresh_sortition_view
    BY Zenon DEF Refresh, remote, links
  <2>2. ~(Len(new) < Len(tip.pox)) /\ tip' = chain[Us]
    BY Zenon, <2>1 DEF refresh_sortition_view
  <2> QED BY Zenon, <2>1, <2>2 DEF refresh_sortition_view
<1>2. chain_view' \in Nat
  <2>1. chain_view' = chain_view \/ chain_view' = chain[Us].height
    BY Zenon DEF Refresh, refresh_burnchain_view
  <2>2. chain[Us].height \in Nat /\ chain_view \in Nat
    BY Facts DEF Tip
  <2> QED BY Zenon, <2>1, <2>2
<1>3. PICK d \in 1..Len(tip.pox) : Level(d) /\ \A p \in DOMAIN block_stats : Backed(d, p, block_stats[p].inv.blocks)
  BY Zenon, Facts
<1>4. /\ new \in Seq(BOOLEAN) /\ Len(new) \in Nat /\ tip.pox \in Seq(BOOLEAN) /\ Len(tip.pox) \in Nat
      /\ Len(tip.pox) <= Len(new) /\ d \in Nat \ {0} /\ d <= Len(tip.pox) /\ d <= Len(new)
      /\ \A i \in 1..d : tip.pox[i] = new[i]
      /\ d < Len(tip.pox) => ~tip.pox[d + 1] /\ (d < Len(new) => new[d + 1])
  BY <1>1, <1>3, Facts DEF Level, Tip
<1>5. Min({Len(new), Len(tip.pox)}) = Len(tip.pox)
  <2>1. Len(new) \in Int /\ Len(tip.pox) \in Int
    BY <1>4
  <2>2. LET m == Min({Len(new), Len(tip.pox)}) IN m \in {Len(new), Len(tip.pox)} /\ m <= Len(new) /\ m <= Len(tip.pox)
    BY Zenon, <2>1, MinTwo
  <2> QED BY <1>4, <2>2
<1>6. flips \in SUBSET Nat /\ \A c \in Nat : c \in flips <=> c < Len(tip.pox) /\ ~tip.pox[c + 1] /\ new[c + 1]
  <2>1. flips = {c \in 0..(Len(tip.pox) - 1) : ~Bit(tip.pox, c) /\ Bit(new, c)}
    BY Zenon, <1>5
  <2> HIDE DEF flips, new
  <2> QED BY <1>4, <2>1 DEF Bit
<1> HIDE DEF flips, new
<1>7. CASE d = Len(tip.pox)
  <2>1. flips = {}
    <3>1. ASSUME NEW c \in flips PROVE FALSE
      <4>1. c \in Nat /\ c < d /\ ~tip.pox[c + 1] /\ new[c + 1] /\ c + 1 \in 1..d
        BY <1>4, <1>6, <1>7
      <4> QED BY Zenon, <1>4, <4>1
    <3> QED BY Zenon, <3>1
  <2>2. UNCHANGED <<block_stats, request, reply>>
    BY Zenon, <1>1, <2>1 DEF scans
  <2>3. Scans'
    <3>1. ASSUME NEW p \in DOMAIN block_stats PROVE ScanOK(block_stats[p], request[p])'
      <4> DEFINE s == block_stats[p]
      <4>1. ScanOK(s, request[p]) /\ s \in Scan
        BY Zenon, Facts
      <4>2. s.target \in Nat
        BY <4>1 DEF Scan
      <4>3. s.target < Len(tip.pox) => /\ Sortition(tip, reward_cycle_to_block_height(s.target))
                                            = Sortition(chain[Us], reward_cycle_to_block_height(s.target))
                                       /\ s.target < Len(new)
        <5> SUFFICES ASSUME s.target < Len(tip.pox)
                     PROVE  /\ Sortition(tip, reward_cycle_to_block_height(s.target))
                                 = Sortition(chain[Us], reward_cycle_to_block_height(s.target))
                            /\ s.target < Len(new)
          BY Zenon
        <5>1. /\ reward_cycle_to_block_height(s.target) \in Nat \ {0}
              /\ CycleOf(reward_cycle_to_block_height(s.target)) = s.target
          BY Zenon, <4>2, FirstNat, CycleOfFirst
        <5>2. s.target < d /\ s.target < Len(new)
          BY <1>4, <1>7, <4>2
        <5>3. CycleOf(reward_cycle_to_block_height(s.target)) < d /\ chain[Us] \in Tip /\ tip \in Tip /\ d \in Nat
          BY Zenon, <1>4, <5>1, <5>2, Facts
        <5>4. d <= Len(tip.pox) /\ d <= Len(chain[Us].pox) /\ \A i \in 1..d : tip.pox[i] = chain[Us].pox[i]
          BY Zenon, <1>4 DEF new
        <5> QED BY Zenon, <5>1, <5>2, <5>3, <5>4, SameSortition
      <4> QED BY Zenon, <1>1, <2>2, <4>1, <4>3 DEF ScanOK, new, Sortition
    <3> QED BY Zenon, <2>2, <3>1 DEF Scans
  <2>4. \A p \in DOMAIN block_stats' : \A h \in block_stats'[p].inv.blocks :
             CycleOf(h) < Len(chain[Us].pox) /\ Sortition(chain[Us], h) \in stored[p]
    BY Zenon, <1>3, <1>7, <2>2 DEF Backed, Kept
  <2> QED BY Zenon, <1>1, <1>2, <2>2, <2>3, <2>4, Facts, ViewStep
<1>8. CASE d # Len(tip.pox)
  <2>1. d \in flips /\ \A c \in flips : d <= c
    <3>1. d \in flips
      BY <1>4, <1>6, <1>8
    <3>2. ASSUME NEW c \in flips PROVE d <= c
      <4>1. c \in Nat /\ ~tip.pox[c + 1] /\ new[c + 1]
        BY Zenon, <1>6
      <4>2. ~(c + 1 \in 1..d)
        BY Zenon, <1>4, <4>1
      <4> QED BY <1>4, <4>1, <4>2
    <3> QED BY Zenon, <3>1, <3>2
  <2>2. Min(flips) = d
    BY Zenon, <1>6, <2>1, MinIs
  <2>3. invalidate_block_inventories(d)
    BY Zenon, <1>1, <2>1, <2>2
  <2> DEFINE cut(p) == Truncate(block_stats[p].inv, d)
             dropped(p) == d < Len(block_stats[p].inv.pox)
                           \/ reward_cycle_to_block_height(d) < block_stats[p].inv.num_sortitions
             kept(p) == [block_stats[p] EXCEPT !.inv = cut(p)]
             restarted == {p \in DOMAIN block_stats : dropped(p)}
  <2>4. /\ block_stats' = [p \in DOMAIN block_stats |-> IF p \in restarted THEN reset_pox_scan(kept(p), d) ELSE kept(p)]
        /\ DOMAIN request' = Peers /\ DOMAIN reply' = Peers
        /\ \A p \in Peers : /\ \/ request'[p] = request[p] /\ reply'[p] = reply[p]
                               \/ request'[p] = NoRequest /\ reply'[p] = NoReply
                            /\ p \in DOMAIN block_stats /\ ~dropped(p) => request'[p] = request[p]
    <3>1. /\ block_stats' = [p \in DOMAIN block_stats |-> IF p \in restarted THEN reset_pox_scan(kept(p), d) ELSE kept(p)]
          /\ request' = [p \in Peers |-> IF p \in restarted THEN NoRequest ELSE request[p]]
          /\ reply' = [p \in Peers |-> IF p \in restarted THEN NoReply ELSE reply[p]]
      BY Zenon, <2>3 DEF invalidate_block_inventories
    <3> HIDE DEF kept, dropped
    <3> QED BY Zenon, <3>1
  <2>5. ASSUME NEW p \in DOMAIN block_stats
        PROVE  /\ kept(p) \in Scan /\ kept(p).inv = cut(p) /\ Below(cut(p))
               /\ reset_pox_scan(kept(p), d) \in Scan /\ reset_pox_scan(kept(p), d).inv = cut(p)
               /\ reset_pox_scan(kept(p), d).state = "GetPoxInvBegin"
               /\ kept(p).state = block_stats[p].state /\ kept(p).done = block_stats[p].done
               /\ kept(p).target = block_stats[p].target
               /\ ~dropped(p) => cut(p).pox = block_stats[p].inv.pox
               /\ cut(p).blocks \subseteq block_stats[p].inv.blocks
               /\ \A h \in cut(p).blocks : CycleOf(h) < d
    <3> DEFINE s == block_stats[p]
    <3>1. s \in Scan /\ s.inv \in Inventory /\ Below(s.inv)
      <4>1. s \in Scan /\ ScanOK(s, request[p])
        BY Zenon, Facts
      <4> QED BY <4>1 DEF Scan, ScanOK
    <3>2. /\ cut(p) \in Inventory /\ Below(cut(p)) /\ (~dropped(p) => cut(p).pox = s.inv.pox)
          /\ cut(p).blocks \subseteq s.inv.blocks /\ \A h \in cut(p).blocks : CycleOf(h) < d
      BY <1>4, <3>1, Truncated
    <3> DEFINE new1 == cut(p)
    <3> HIDE DEF new1
    <3>3. [s EXCEPT !.inv = new1] \in Scan /\ [s EXCEPT !.inv = new1].inv = new1
          /\ [s EXCEPT !.inv = new1].state = s.state /\ [s EXCEPT !.inv = new1].done = s.done
          /\ [s EXCEPT !.inv = new1].target = s.target
      BY <3>1, <3>2 DEF Scan, new1
    <3> DEFINE k == [s EXCEPT !.inv = new1]
    <3>4. reset_pox_scan(k, d) \in Scan /\ reset_pox_scan(k, d).inv = k.inv /\ reset_pox_scan(k, d).state = "GetPoxInvBegin"
      <4>1. k \in Scan
        BY Zenon, <3>3
      <4> HIDE DEF k
      <4> QED BY <1>4, <4>1 DEF reset_pox_scan, Scan, States
    <3> QED BY Zenon, <3>2, <3>3, <3>4 DEF new1
  <2> HIDE DEF cut, kept
  <2>6. /\ DOMAIN block_stats' = DOMAIN block_stats
        /\ \A p \in DOMAIN block_stats : block_stats'[p] = IF dropped(p) THEN reset_pox_scan(kept(p), d) ELSE kept(p)
    BY Zenon, <2>4
  <2>7. block_stats' \in [DOMAIN block_stats' -> Scan] /\ DOMAIN block_stats' \subseteq Peers
    BY Zenon, <2>4, <2>5, <2>6, Facts
  <2>8. \A p \in Peers : RequestOK(request'[p]) /\ ReplyOK(p, reply'[p], request'[p])
    <3>1. RequestOK(NoRequest) /\ \A p \in Peers : ReplyOK(p, NoReply, NoRequest)
      BY DEF RequestOK, ReplyOK, NoRequest, NoReply
    <3> QED BY Zenon, <2>4, <3>1, Facts
  <2>9. Scans'
    <3>1. ASSUME NEW p \in DOMAIN block_stats PROVE ScanOK(block_stats[p], request[p])'
      <4>1. CASE dropped(p)
        <5>1. /\ block_stats'[p].inv = cut(p) /\ block_stats'[p].state = "GetPoxInvBegin" /\ Below(cut(p))
          BY Zenon, <2>5, <2>6, <4>1
        <5> QED BY <5>1 DEF ScanOK, Below
      <4>2. CASE ~dropped(p)
        <5> DEFINE s == block_stats[p]
        <5>1. /\ block_stats'[p].inv = cut(p) /\ cut(p).pox = s.inv.pox /\ Below(cut(p))
              /\ block_stats'[p].state = s.state /\ block_stats'[p].done = s.done /\ block_stats'[p].target = s.target
              /\ request'[p] = request[p]
          BY Zenon, <2>4, <2>5, <2>6, <4>2, Facts
        <5>2. ScanOK(s, request[p]) /\ s \in Scan
          BY Zenon, Facts
        <5>3. s.target \in Nat /\ Len(s.inv.pox) \in Nat /\ ~(d < Len(s.inv.pox))
          BY <4>2, <5>2 DEF Scan, Inventory
        <5>4. s.target < Len(s.inv.pox) =>
                 /\ Sortition(tip, reward_cycle_to_block_height(s.target))
                      = Sortition(chain[Us], reward_cycle_to_block_height(s.target))
                 /\ s.target < Len(new)
          <6> SUFFICES ASSUME s.target < Len(s.inv.pox)
                       PROVE  /\ Sortition(tip, reward_cycle_to_block_height(s.target))
                                   = Sortition(chain[Us], reward_cycle_to_block_height(s.target))
                              /\ s.target < Len(new)
            BY Zenon
          <6>1. /\ reward_cycle_to_block_height(s.target) \in Nat \ {0}
                /\ CycleOf(reward_cycle_to_block_height(s.target)) = s.target
            BY Zenon, <5>3, FirstNat, CycleOfFirst
          <6>2. s.target < d /\ s.target < Len(new)
            BY <1>4, <5>3
          <6>3. CycleOf(reward_cycle_to_block_height(s.target)) < d /\ chain[Us] \in Tip /\ tip \in Tip /\ d \in Nat
            BY Zenon, <1>4, <6>1, <6>2, Facts
          <6>4. d <= Len(tip.pox) /\ d <= Len(chain[Us].pox) /\ \A i \in 1..d : tip.pox[i] = chain[Us].pox[i]
            BY Zenon, <1>4 DEF new
          <6> QED BY Zenon, <6>1, <6>2, <6>3, <6>4, SameSortition
        <5> QED BY Zenon, <1>1, <5>1, <5>2, <5>4 DEF ScanOK, Below, Sortition, new
      <4> QED BY Zenon, <4>1, <4>2
    <3> QED BY Zenon, <2>6, <3>1 DEF Scans
  <2>10. ASSUME NEW p \in DOMAIN block_stats', NEW h \in block_stats'[p].inv.blocks
         PROVE  CycleOf(h) < Len(chain[Us].pox) /\ Sortition(chain[Us], h) \in stored[p]
    <3>1. p \in DOMAIN block_stats /\ block_stats'[p].inv = cut(p)
      BY Zenon, <2>5, <2>6
    <3>2. h \in block_stats[p].inv.blocks /\ CycleOf(h) < d
      BY Zenon, <2>5, <3>1
    <3> QED BY Zenon, <1>3, <3>1, <3>2 DEF Backed, Kept
  <2> QED BY Zenon, <1>1, <1>2, <2>4, <2>7, <2>8, <2>9, <2>10, ViewStep
<1> QED BY Zenon, <1>7, <1>8


\* What the next round starts from.
LEMMA FreshScan ==
  ASSUME NEW p, NEW d
  PROVE  /\ Sound(p, d, NewStats) /\ NewStats.state = "GetPoxInvBegin"
         /\ \A s : Sound(p, d, s) =>
              LET t == reset_pox_scan([s EXCEPT !.status = "Online", !.done = FALSE, !.learned_data = FALSE], 0)
              IN  Sound(p, d, t) /\ t.state = "GetPoxInvBegin"
<1>1. NewStats \in Scan /\ NewStats.inv = NoInventory /\ NewStats.state = "GetPoxInvBegin"
  <2>1. <<>> \in Seq(BOOLEAN) /\ {} \in SUBSET (Nat \ {0}) /\ 0 \in Nat
    OBVIOUS
  <2>2. NoInventory \in Inventory
    BY <2>1 DEF NoInventory, Inventory
  <2> QED BY <2>2 DEF NewStats, Scan, States, Statuses
<1>2. NoInventory.blocks = {}
  BY DEF NoInventory
<1>3. Sound(p, d, NewStats)
  BY Zenon, <1>1, <1>2 DEF Sound, Below, Backed
<1>4. ASSUME NEW s, Sound(p, d, s)
      PROVE  LET t == reset_pox_scan([s EXCEPT !.status = "Online", !.done = FALSE, !.learned_data = FALSE], 0)
             IN  Sound(p, d, t) /\ t.state = "GetPoxInvBegin"
  <2> DEFINE u == [s EXCEPT !.status = "Online", !.done = FALSE, !.learned_data = FALSE]
             t == reset_pox_scan(u, 0)
  <2>1. u \in Scan /\ u.inv = s.inv
    BY <1>4 DEF Sound, Scan, Statuses
  <2> HIDE DEF u
  <2>2. t \in Scan /\ t.inv = u.inv /\ t.state = "GetPoxInvBegin"
    BY <2>1 DEF reset_pox_scan, Scan, States
  <2> HIDE DEF t
  <2>3. Sound(p, d, t)
    BY Zenon, <1>4, <2>1, <2>2 DEF Sound
  <2> QED BY Zenon, <2>2, <2>3 DEF t, u
<1> QED BY Zenon, <1>1, <1>3, <1>4

\* A call of sync_inventories.
LEMMA SyncStep ==
  ASSUME Consistent, do_network_inv_sync
  PROVE  Consistent'
<1>1. UNCHANGED <<chain, anchors, tip, stored, chain_view, reported>>
  BY DEF do_network_inv_sync, remote, views
<1>2. CASE Throttled
  <2>1. UNCHANGED <<block_stats, request, reply, connected>>
    BY Zenon, <1>2 DEF do_network_inv_sync, scans
  <2> QED BY Zenon, <1>1, <2>1, Facts, QuietStep
<1>3. CASE ~Throttled
  <2>1. sync_inventories
    BY Zenon, <1>3 DEF do_network_inv_sync
  <2>2. PICK d \in 1..Len(tip.pox) : Level(d) /\ \A p \in DOMAIN block_stats : Backed(d, p, block_stats[p].inv.blocks)
    BY Zenon, Facts
  <2>3. Viewed
    BY Zenon, Facts DEF Viewed
  <2>4. ASSUME NEW p \in DOMAIN block_stats PROVE RunOK(p, d, inv_sync_run(p))
    <3>1. /\ p \in Peers /\ block_stats[p] \in Scan /\ ScanOK(block_stats[p], request[p])
          /\ RequestOK(request[p]) /\ ReplyOK(p, reply[p], request[p]) /\ chain[Us] \in Tip
      BY Zenon, Facts
    <3>2. Sound(p, d, block_stats[p])
      BY Zenon, <2>2, <3>1 DEF Sound, ScanOK
    <3> QED BY Zenon, <2>2, <2>3, <3>1, <3>2, RunStep
  <2> DEFINE run == [p \in DOMAIN block_stats |-> inv_sync_run(p)]
             scan == [p \in DOMAIN block_stats |-> run[p].scan]
             bad == {p \in DOMAIN block_stats : scan[p].status \in {"Broken", "Dead"}}
  <2>5. /\ reply' = [p \in Peers |-> NoReply]
        /\ IF \A p \in DOMAIN block_stats : scan[p].done
           THEN /\ connected' = connected \ bad
                /\ block_stats' = reset_sync_peers(scan, connected')
                /\ request' = [p \in Peers |-> NoRequest]
           ELSE /\ block_stats' = scan
                /\ request' = [p \in Peers |-> IF p \in DOMAIN block_stats THEN run[p].request ELSE NoRequest]
                /\ connected' = connected
    BY Zenon, <2>1 DEF sync_inventories
  <2>6. /\ DOMAIN scan = DOMAIN block_stats
        /\ \A p \in DOMAIN block_stats :
              Sound(p, d, scan[p]) /\ RequestOK(run[p].request) /\ ScanOK(scan[p], run[p].request)
    BY Zenon, <2>4 DEF RunOK
  <2> HIDE DEF scan, run, bad
  <2>7. RequestOK(NoRequest) /\ \A p \in Peers : \A r : ReplyOK(p, NoReply, r)
    BY DEF RequestOK, ReplyOK, NoRequest, NoReply
  <2>8. DOMAIN reply' = Peers /\ DOMAIN request' = Peers /\ connected' \subseteq Peers
    BY Zenon, <2>5, Facts
  <2>9. \A p \in Peers : RequestOK(request'[p]) /\ ReplyOK(p, reply'[p], request'[p])
    <3>1. \A p \in Peers : reply'[p] = NoReply
      BY Zenon, <2>5
    <3>2. \A p \in Peers : RequestOK(request'[p])
      BY Zenon, <2>5, <2>6, <2>7
    <3> QED BY Zenon, <2>7, <3>1, <3>2
  <2>10. CASE \A p \in DOMAIN block_stats : scan[p].done
    <3>1. /\ block_stats' = reset_sync_peers(scan, connected') /\ request' = [p \in Peers |-> NoRequest]
      BY Zenon, <2>5, <2>10
    <3> DEFINE fresh(p) == reset_pox_scan([scan[p] EXCEPT !.status = "Online", !.done = FALSE, !.learned_data = FALSE], 0)
    <3>2. block_stats' = [p \in connected' |-> IF p \in DOMAIN block_stats THEN fresh(p) ELSE NewStats]
      BY Zenon, <2>6, <3>1 DEF reset_sync_peers
    <3>3. \A p \in DOMAIN block_stats : Sound(p, d, fresh(p)) /\ fresh(p).state = "GetPoxInvBegin"
      BY Zenon, <2>6, FreshScan
    <3> HIDE DEF fresh
    <3>4. /\ DOMAIN block_stats' = connected'
          /\ \A p \in connected' : Sound(p, d, block_stats'[p]) /\ block_stats'[p].state = "GetPoxInvBegin"
      BY Zenon, <3>2, <3>3, FreshScan
    <3>5. \A p \in connected' : /\ block_stats'[p] \in Scan /\ Below(block_stats'[p].inv)
                                /\ Backed(d, p, block_stats'[p].inv.blocks)
      BY Zenon, <3>4 DEF Sound
    <3>6. ASSUME NEW p \in connected' PROVE ScanOK(block_stats'[p], request'[p])
      BY <3>4, <3>5 DEF ScanOK
    <3>7. block_stats' \in [DOMAIN block_stats' -> Scan]
      BY Zenon, <3>2, <3>4, <3>5
    <3> QED BY Zenon, <1>1, <2>2, <2>8, <2>9, <3>4, <3>5, <3>6, <3>7, Facts, ScanStep
  <2>11. CASE ~(\A p \in DOMAIN block_stats : scan[p].done)
    <3>1. /\ block_stats' = scan
          /\ request' = [p \in Peers |-> IF p \in DOMAIN block_stats THEN run[p].request ELSE NoRequest]
      BY Zenon, <2>5, <2>11
    <3>2. \A p \in DOMAIN block_stats' : /\ p \in DOMAIN block_stats /\ p \in Peers /\ request'[p] = run[p].request
                                         /\ Sound(p, d, block_stats'[p])
      BY Zenon, <2>6, <3>1, Facts
    <3>3. \A p \in DOMAIN block_stats' : /\ block_stats'[p] \in Scan /\ ScanOK(block_stats'[p], request'[p])
                                         /\ Backed(d, p, block_stats'[p].inv.blocks)
      BY Zenon, <2>6, <3>1, <3>2 DEF Sound
    <3>4. block_stats' \in [DOMAIN block_stats' -> Scan] /\ DOMAIN block_stats' \subseteq Peers
      <4>1. block_stats' = [p \in DOMAIN block_stats |-> block_stats'[p]]
        BY Zenon, <3>1 DEF scan
      <4> QED BY Zenon, <2>6, <3>1, <3>3, <4>1, Facts
    <3> QED BY Zenon, <1>1, <2>2, <2>8, <2>9, <3>3, <3>4, Facts, ScanStep
  <2> QED BY Zenon, <2>10, <2>11
<1> QED BY Zenon, <1>2, <1>3

\* At the start there are no inventories.
LEMMA ScanInvInit == ScanInit => ScanInv
<1> SUFFICES ASSUME ScanInit PROVE Consistent
  BY DEF ScanInv
<1> DEFINE set(n) == {i \in 2..Len(chain[n].pox) : chain[n].pox[i]}
           first == Len(tip.pox)
<1>1. /\ chain \in [Nodes -> Starts] /\ tip = chain[Us] /\ chain_view = chain[Us].height
      /\ anchors = [n \in Nodes |-> {SubSeq(chain[n].pox, 1, k - 1) : k \in set(n)}]
      /\ stored = [p \in Peers |-> {}] /\ connected = Peers /\ reported = [p \in Peers |-> chain[p].height]
      /\ block_stats = <<>> /\ request = [p \in Peers |-> NoRequest] /\ reply = [p \in Peers |-> NoReply]
  BY DEF ScanInit
<1>2. Us \in Nodes /\ Peers \subseteq Nodes
  BY DEF Nodes
<1>3. Starts \subseteq Tip /\ \A c \in Starts : Whole(c)
  BY ScanAssumption DEF Tip, Whole
<1>4. /\ chain \in [Nodes -> Tip] /\ \A n \in Nodes : Whole(chain[n])
      /\ chain[Us] \in Tip /\ chain[Us].height \in Nat \ {0} /\ chain[Us].pox \in Seq(BOOLEAN)
      /\ Len(chain[Us].pox) \in Nat \ {0}
  <2>1. chain \in [Nodes -> Tip] /\ (\A n \in Nodes : Whole(chain[n])) /\ chain[Us] \in Tip /\ Whole(chain[Us])
    BY <1>1, <1>2, <1>3
  <2>2. chain[Us].height \in Nat \ {0} /\ chain[Us].pox \in Seq(BOOLEAN)
    BY <2>1 DEF Tip
  <2>3. CycleOf(chain[Us].height) \in Nat /\ Len(chain[Us].pox) = CycleOf(chain[Us].height) + 1
    BY <2>1, <2>2, CycleNat DEF Whole
  <2> QED BY <2>1, <2>2, <2>3
<1>5. anchors \in [Nodes -> SUBSET Seq(BOOLEAN)]
  <2>1. ASSUME NEW n \in Nodes, NEW k \in set(n) PROVE SubSeq(chain[n].pox, 1, k - 1) \in Seq(BOOLEAN)
    <3>1. chain[n].pox \in Seq(BOOLEAN) /\ Len(chain[n].pox) \in Nat /\ k \in 2..Len(chain[n].pox)
      BY <1>4 DEF Tip
    <3> QED BY <3>1
  <2> QED BY Zenon, <1>1, <2>1
<1>6. DOMAIN block_stats = {}
  BY <1>1
<1>7. ScanTypes
  <2>1. stored \in [Peers -> SUBSET Tip] /\ reported \in [Peers -> Nat] /\ connected \subseteq Peers
        /\ DOMAIN request = Peers /\ DOMAIN reply = Peers
    <3>1. \A p \in Peers : chain[p].height \in Nat
      BY <1>2, <1>4 DEF Tip
    <3> QED BY <1>1, <3>1
  <2>2. block_stats \in [DOMAIN block_stats -> Scan] /\ DOMAIN block_stats \subseteq Peers
    BY <1>1, <1>6
  <2>3. tip \in Tip /\ chain_view \in Nat
    BY <1>1, <1>4
  <2> QED BY Zenon, <1>4, <1>5, <2>1, <2>2, <2>3 DEF ScanTypes
<1>8. ChainsWhole
  BY Zenon, <1>1, <1>4 DEF ChainsWhole
<1>9. Rooted
  <2> DEFINE pox == chain[Us].pox
  <2>1. anchors[Us] = {SubSeq(pox, 1, k - 1) : k \in set(Us)}
    BY Zenon, <1>1, <1>2
  <2>2. ASSUME NEW i \in 2..Len(pox) PROVE pox[i] <=> SubSeq(pox, 1, i - 1) \in anchors[Us]
    <3>1. pox[i] => SubSeq(pox, 1, i - 1) \in anchors[Us]
      BY Zenon, <2>1
    <3>2. ASSUME SubSeq(pox, 1, i - 1) \in anchors[Us] PROVE pox[i]
      <4>1. PICK k \in set(Us) : SubSeq(pox, 1, i - 1) = SubSeq(pox, 1, k - 1)
        <5>1. SubSeq(pox, 1, i - 1) \in {SubSeq(pox, 1, k - 1) : k \in set(Us)}
          BY <2>1, <3>2
        <5> HIDE DEF set
        <5> QED BY <5>1
      <4>2. k \in 2..Len(pox) /\ pox[k]
        OBVIOUS
      <4> HIDE DEF pox
      <4>3. Len(SubSeq(pox, 1, i - 1)) = i - 1 /\ Len(SubSeq(pox, 1, k - 1)) = k - 1
        BY <1>4, <4>2 DEF pox
      <4>4. i = k
        BY <4>1, <4>2, <4>3
      <4> QED BY <4>2, <4>4
    <3> QED BY Zenon, <3>1, <3>2
  <2> QED BY Zenon, <2>2 DEF Rooted
<1>10. Talks
  <2>1. RequestOK(NoRequest) /\ \A p \in Peers : ReplyOK(p, NoReply, NoRequest)
    BY DEF RequestOK, ReplyOK, NoRequest, NoReply
  <2>2. \A p \in Peers : request[p] = NoRequest /\ reply[p] = NoReply
    BY <1>1
  <2> QED BY Zenon, <2>1, <2>2 DEF Talks
<1>11. Scans
  BY Zenon, <1>6 DEF Scans
<1>12. Supported
  <2>1. first \in 1..Len(tip.pox) /\ ~(first < Len(tip.pox)) /\ first <= Len(chain[Us].pox)
    BY <1>1, <1>4
  <2>2. Level(first)
    BY Zenon, <1>1, <2>1 DEF Level
  <2> QED BY Zenon, <1>6, <2>1, <2>2 DEF Supported
<1> QED BY Zenon, <1>7, <1>8, <1>9, <1>10, <1>11, <1>12 DEF Consistent

\* Each step keeps ScanInv; once our PoX id shrank there is nothing to keep.
LEMMA ScanInvNext == ScanInv /\ [ScanNext]_scan_vars => ScanInv'
<1> SUFFICES ASSUME ScanInv, [ScanNext]_scan_vars, ~shrunk' PROVE Consistent'
  BY Zenon DEF ScanInv
<1>1. CASE UNCHANGED scan_vars
  <2>1. UNCHANGED <<chain, anchors, tip, stored, chain_view, block_stats, request, reply, connected, reported, shrunk>>
    BY Zenon, <1>1 DEF scan_vars, remote, links, views, scans
  <2>2. Consistent
    BY Zenon, <2>1 DEF ScanInv
  <2> QED BY Zenon, <2>1, <2>2, Facts, QuietStep
<1>2. CASE ScanNext
  <2>1. ~shrunk
    BY Zenon, <1>2 DEF ScanNext, NextSortition, NewAnchor, StoreBlock, Ping, Answer, Announce, Timeout, del_peer, Connect,
         Refresh, refresh_sortition_view, do_network_inv_sync, IntervalPasses, Heard, views
  <2>2. Consistent
    BY Zenon, <2>1 DEF ScanInv
  <2>3. ASSUME NEW n \in Nodes, NextSortition(n) \/ NewAnchor(n) PROVE Consistent'
    BY Zenon, <2>2, <2>3, NextSortitionStep, NewAnchorStep
  <2>4. ASSUME NEW p \in Peers,
               StoreBlock(p) \/ Ping(p) \/ Answer(p) \/ Announce(p) \/ Timeout(p) \/ del_peer(p) \/ Connect(p)
        PROVE  Consistent'
    BY Zenon, <2>2, <2>4, StoreBlockStep, QuietSteps, AnswerStep, AnnounceStep, DisconnectStep
  <2>5. CASE IntervalPasses
    <3>1. UNCHANGED <<chain, anchors, tip, stored, chain_view, block_stats, request, reply, connected, reported>>
      BY <2>5 DEF IntervalPasses, remote, views, scans, links
    <3> QED BY Zenon, <2>2, <3>1, Facts, QuietStep
  <2> QED BY Zenon, <1>2, <2>2, <2>3, <2>4, <2>5, RefreshStep, SyncStep DEF ScanNext
<1> QED BY Zenon, <1>1, <1>2

\* A neighbor that is said to have the block of a height stored the one that won on our PoX
\* fork, for any number of neighbors, heights and forks: between two refreshes our view may
\* be wrong from some reward cycle on, and exactly the bits from that cycle on are dropped
\* when it is refreshed (refresh_sortition_view, inv.rs).
THEOREM ScansTruthful == ScanSpec => []BitsAreTruthful
<1>1. ScanInv => BitsAreTruthful
  <2> SUFFICES ASSUME ScanInv, tip = chain[Us], ~shrunk,
                      NEW p \in DOMAIN block_stats, NEW h \in block_stats[p].inv.blocks
               PROVE  Truthful(p, h)
    BY Zenon DEF BitsAreTruthful
  <2>1. Consistent
    BY Zenon DEF ScanInv
  <2>2. PICK d \in 1..Len(tip.pox) : Level(d) /\ \A q \in DOMAIN block_stats : Backed(d, q, block_stats[q].inv.blocks)
    BY Zenon, <2>1, Facts
  <2>3. d = Len(tip.pox)
    BY <2>1, <2>2, Facts DEF Level, Tip
  <2> QED BY Zenon, <2>2, <2>3 DEF Backed, Kept, Truthful
<1> QED BY <1>1, ScanInvInit, ScanInvNext, PTL DEF ScanSpec
=============================================================================
