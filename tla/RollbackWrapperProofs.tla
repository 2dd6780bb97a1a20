----------------------- MODULE RollbackWrapperProofs -----------------------
(***************************************************************************)
(* The shared histories of RollbackWrapper implement the separate views of *)
(* NestedStore, for any keys and values and any nesting of contexts.       *)
(*                                                                         *)
(* The argument is the invariant LogInv: a context's edits of a key are    *)
(* the part of the key's history between the length it had when the        *)
(* context was opened and the one when the next was opened, or has now.    *)
(* These lengths never decrease from one context to the next.              *)
(***************************************************************************)
EXTENDS RollbackWrapper, TLAPS

\* Whatever uses the wrapper does one of these at a time.
DbNext(Values) ==
    \/ nest
    \/ \E m \in UNION {[K -> Values] : K \in SUBSET Keys} : put(m)
    \/ rollback
    \/ commit
    \/ drop_log
    \/ \E s \in [Keys -> Values] : set_tip(s)

DbSpec(Values) == DbInit /\ store \in [Keys -> Values] /\ [][DbNext(Values)]_db

LogTypeOK(Values) ==
    /\ store \in [Keys -> Values]
    /\ lookup_map \in [Keys -> Seq(Values)]
    /\ stack \in Seq([Keys -> Nat])
    /\ opened \in Seq([Keys -> Nat])
    /\ Len(opened) = Len(stack)

\* The length of the history of k that context d began with; the last is the length it has.
Marks == [k \in Keys |-> [d \in 1..(Top + 1) |-> Seen(d, k)]]

LogInv(Values) ==
    /\ LogTypeOK(Values)
    /\ \A k \in Keys : Marks[k][1] = 0
    /\ \A k \in Keys, d \in 1..Top : stack[d][k] = Marks[k][d + 1] - Marks[k][d]
    /\ \A k \in Keys, d, e \in 1..(Top + 1) : d <= e => Marks[k][d] <= Marks[k][e]

-----------------------------------------------------------------------------
MarksOK ==
    /\ Top \in Nat
    /\ \A k \in Keys, d \in 1..(Top + 1) :
        /\ Marks[k][d] \in Nat
        /\ d = Top + 1 => Marks[k][d] = Len(lookup_map[k])
        /\ d <= Top => Marks[k][d] = opened[d][k]

LEMMA MarksType ==
    ASSUME NEW Values
    PROVE  LogTypeOK(Values) => MarksOK
  <1> SUFFICES ASSUME LogTypeOK(Values) PROVE MarksOK
    OBVIOUS
  <1>1. Top \in Nat /\ Top = Len(opened)
    BY DEF LogTypeOK, Top
  <1>2. \A k \in Keys, d \in 1..(Top + 1) : Seen(d, k) \in Nat
    BY <1>1 DEF LogTypeOK, Seen
  <1> QED BY <1>1, <1>2 DEF Marks, MarksOK, Seen, LogTypeOK

LEMMA MarksTypeNext ==
    ASSUME NEW Values
    PROVE  LogTypeOK(Values)' => MarksOK'
  BY MarksType, PTL

LEMMA InitInv ==
    ASSUME NEW Values
    PROVE  DbInit /\ store \in [Keys -> Values] => LogInv(Values)
  <1> SUFFICES ASSUME DbInit, store \in [Keys -> Values] PROVE LogInv(Values)
    OBVIOUS
  <1>1. LogTypeOK(Values) /\ Top = 0
    BY DEF DbInit, LogTypeOK, Top
  <1>2. \A k \in Keys : Len(lookup_map[k]) = 0
    BY DEF DbInit
  <1>m. MarksOK
    BY <1>1, MarksType
  <1>3. \A k \in Keys : Marks[k][1] = 0
    <2> SUFFICES ASSUME NEW k \in Keys PROVE Marks[k][1] = 0
      OBVIOUS
    <2>1. 1 \in 1..(Top + 1) /\ 1 = Top + 1
      BY <1>1
    <2> QED BY <2>1, <1>2, <1>m DEF MarksOK
  <1> QED BY <1>1, <1>3, <1>m DEF LogInv, MarksOK

LEMMA NestInv ==
    ASSUME NEW Values, LogInv(Values), nest
    PROVE  /\ LogInv(Values)' /\ Top' = Top + 1
           /\ \A k \in Keys, d \in 1..(Top + 1) : Marks'[k][d] = Marks[k][d]
           /\ \A k \in Keys : Marks'[k][Top + 2] = Marks[k][Top + 1]
  <1>1. Lengths \in [Keys -> Nat] /\ NoEdits \in [Keys -> Nat]
    BY DEF Lengths, NoEdits, LogTypeOK, LogInv
  <1>2. LogTypeOK(Values)' /\ Top' = Top + 1 /\ Top \in Nat
    BY <1>1 DEF LogTypeOK, Top, LogInv, nest
  <1>m. MarksOK /\ MarksOK'
    BY <1>2, MarksType, MarksTypeNext DEF LogInv
  <1>3. \A k \in Keys, d \in 1..(Top + 1) : Marks'[k][d] = Marks[k][d] /\ Marks[k][d] \in Nat
    <2> SUFFICES ASSUME NEW k \in Keys, NEW d \in 1..(Top + 1)
                 PROVE  Marks'[k][d] = Marks[k][d] /\ Marks[k][d] \in Nat
      OBVIOUS
    <2>1. Marks'[k][d] = opened'[d][k] /\ Marks[k][d] \in Nat
      BY <1>2, <1>m DEF MarksOK
    <2>2. CASE d <= Top
      <3>1. opened'[d] = opened[d]
        BY <2>2, <1>1 DEF nest, LogInv, LogTypeOK, Top
      <3> QED BY <2>1, <2>2, <3>1, <1>m DEF MarksOK
    <2>3. CASE d = Top + 1
      <3>1. opened'[d] = Lengths
        BY <2>3, <1>1 DEF nest, LogInv, LogTypeOK, Top
      <3> QED BY <2>1, <2>3, <3>1, <1>m DEF MarksOK, Lengths
    <2> QED BY <1>2, <2>2, <2>3
  <1>4. \A k \in Keys : Marks'[k][Top + 2] = Marks[k][Top + 1]
    BY <1>2, <1>m DEF nest, MarksOK
  <1>5. \A k \in Keys, d \in 1..(Top + 1) : stack'[d][k] = (IF d = Top + 1 THEN 0 ELSE stack[d][k])
    BY <1>1, <1>2 DEF LogTypeOK, Top, NoEdits, nest, LogInv
  <1>6. \A k \in Keys : Marks'[k][1] = 0
    <2>1. 1 \in 1..(Top + 1)
      BY <1>2
    <2> QED BY <2>1, <1>3 DEF LogInv
  <1>7. \A k \in Keys, d \in 1..Top' : stack'[d][k] = Marks'[k][d + 1] - Marks'[k][d]
    <2> SUFFICES ASSUME NEW k \in Keys, NEW d \in 1..(Top + 1)
                 PROVE  stack'[d][k] = Marks'[k][d + 1] - Marks'[k][d]
      BY <1>2
    <2>1. CASE d = Top + 1
      BY <2>1, <1>2, <1>3, <1>4, <1>5
    <2>2. CASE d <= Top
      <3>1. d \in 1..Top /\ d + 1 \in 1..(Top + 1)
        BY <2>2, <1>2
      <3>2. stack[d][k] = Marks[k][d + 1] - Marks[k][d]
        BY <3>1 DEF LogInv
      <3> QED BY <2>2, <3>1, <3>2, <1>2, <1>3, <1>5
    <2> QED BY <1>2, <2>1, <2>2
  <1>8. \A k \in Keys, d, e \in 1..(Top' + 1) : d <= e => Marks'[k][d] <= Marks'[k][e]
    <2> SUFFICES ASSUME NEW k \in Keys, NEW d \in 1..(Top + 2), NEW e \in 1..(Top + 2), d <= e
                 PROVE  Marks'[k][d] <= Marks'[k][e]
      BY <1>2
    <2>1. Top + 1 \in 1..(Top + 1)
      BY <1>2
    <2>2. CASE e <= Top + 1
      <3>1. d \in 1..(Top + 1) /\ e \in 1..(Top + 1)
        BY <2>2, <1>2
      <3> QED BY <3>1, <1>3 DEF LogInv
    <2>3. CASE d <= Top + 1 /\ e = Top + 2
      <3>1. d \in 1..(Top + 1) /\ d <= Top + 1
        BY <2>3, <1>2
      <3>2. Marks[k][d] <= Marks[k][Top + 1]
        BY <2>1, <3>1 DEF LogInv
      <3> QED BY <2>3, <3>1, <3>2, <1>3, <1>4
    <2>4. CASE d = Top + 2 /\ e = Top + 2
      BY <2>1, <2>4, <1>3, <1>4
    <2> QED BY <1>2, <2>2, <2>3, <2>4
  <1>9. LogInv(Values)'
    BY <1>2, <1>6, <1>7, <1>8 DEF LogInv
  <1> QED BY <1>2, <1>3, <1>4, <1>9

LEMMA PutInv ==
    ASSUME NEW Values, LogInv(Values), NEW m, DOMAIN m \subseteq Keys, \A k \in DOMAIN m : m[k] \in Values, put(m)
    PROVE  LogInv(Values)' /\ Top' = Top /\ \A k \in Keys, d \in 1..Top : Marks'[k][d] = Marks[k][d]
  <1> DEFINE One(k) == IF k \in DOMAIN m THEN 1 ELSE 0
             new == [k \in Keys |-> stack[Top][k] + One(k)]
  <1>1. stack[Top] \in [Keys -> Nat] /\ Top \in Nat /\ Top > 0
    BY DEF LogTypeOK, Top, LogInv, put
  <1>2. new \in [Keys -> Nat]
    BY <1>1
  <1>3. \A k \in Keys : lookup_map'[k] \in Seq(Values) /\ Len(lookup_map'[k]) = Len(lookup_map[k]) + One(k)
    BY DEF LogTypeOK, LogInv, put
  <1>4. /\ stack' \in Seq([Keys -> Nat]) /\ Len(stack') = Len(stack)
        /\ \A d \in 1..Top : stack'[d] = (IF d = Top THEN new ELSE stack[d])
    <2>1. stack' = Append(Below(Top - 1), new)
      BY DEF put
    <2>2. stack \in Seq([Keys -> Nat]) /\ Top = Len(stack)
      BY DEF LogTypeOK, Top, LogInv
    <2>3. /\ Below(Top - 1) \in Seq([Keys -> Nat]) /\ Len(Below(Top - 1)) = Top - 1
          /\ \A d \in 1..(Top - 1) : Below(Top - 1)[d] = stack[d]
      BY <1>1, <2>2 DEF Below
    <2> HIDE DEF Below, new
    <2> QED BY <1>1, <1>2, <2>1, <2>2, <2>3
  <1>5. LogTypeOK(Values)' /\ Top' = Top
    BY <1>3, <1>4 DEF LogTypeOK, Top, LogInv, put
  <1>m. MarksOK /\ MarksOK'
    BY <1>5, MarksType, MarksTypeNext DEF LogInv
  <1>6. \A k \in Keys, d \in 1..Top : Marks'[k][d] = Marks[k][d] /\ Marks[k][d] \in Nat
    BY <1>1, <1>5, <1>m DEF MarksOK, put
  <1>7. \A k \in Keys : Marks'[k][Top + 1] = Marks[k][Top + 1] + One(k) /\ Marks[k][Top + 1] \in Nat
    <2> SUFFICES ASSUME NEW k \in Keys
                 PROVE  Marks'[k][Top + 1] = Marks[k][Top + 1] + One(k) /\ Marks[k][Top + 1] \in Nat
      OBVIOUS
    <2>1. Top + 1 \in 1..(Top + 1)
      BY <1>1
    <2> QED BY <2>1, <1>3, <1>5, <1>m DEF MarksOK
  <1>8. \A k \in Keys, d \in 1..Top : stack'[d][k] = (IF d = Top THEN stack[d][k] + One(k) ELSE stack[d][k])
    BY <1>1, <1>4
  <1>9. \A k \in Keys : Marks'[k][1] = 0
    <2>1. 1 \in 1..Top
      BY <1>1
    <2> QED BY <2>1, <1>6 DEF LogInv
  <1>10. \A k \in Keys, d \in 1..Top' : stack'[d][k] = Marks'[k][d + 1] - Marks'[k][d]
    <2> SUFFICES ASSUME NEW k \in Keys, NEW d \in 1..Top
                 PROVE  stack'[d][k] = Marks'[k][d + 1] - Marks'[k][d]
      BY <1>5
    <2>1. stack[d][k] = Marks[k][d + 1] - Marks[k][d]
      BY DEF LogInv
    <2>2. CASE d = Top
      BY <2>1, <2>2, <1>6, <1>7, <1>8
    <2>3. CASE d < Top
      <3>1. d + 1 \in 1..Top
        BY <2>3, <1>1
      <3> QED BY <2>1, <2>3, <3>1, <1>1, <1>6, <1>8
    <2> QED BY <1>1, <2>2, <2>3
  <1>11. \A k \in Keys, d, e \in 1..(Top' + 1) : d <= e => Marks'[k][d] <= Marks'[k][e]
    <2> SUFFICES ASSUME NEW k \in Keys, NEW d \in 1..(Top + 1), NEW e \in 1..(Top + 1), d <= e
                 PROVE  Marks'[k][d] <= Marks'[k][e]
      BY <1>5
    <2>1. Marks[k][d] <= Marks[k][e]
      BY DEF LogInv
    <2>2. CASE e <= Top
      <3>1. d \in 1..Top /\ e \in 1..Top
        BY <2>2, <1>1
      <3> QED BY <2>1, <3>1, <1>6
    <2>3. CASE d <= Top /\ e = Top + 1
      <3>1. d \in 1..Top
        BY <2>3, <1>1
      <3> QED BY <2>1, <2>3, <3>1, <1>6, <1>7
    <2>4. CASE d = Top + 1 /\ e = Top + 1
      BY <2>4, <1>7
    <2> QED BY <1>1, <2>2, <2>3, <2>4
  <1>12. LogInv(Values)'
    BY <1>5, <1>9, <1>10, <1>11 DEF LogInv
  <1> QED BY <1>5, <1>6, <1>12

\* What is popped is what was put since the context was opened.
LEMMA PoppedOK ==
    ASSUME NEW Values, LogInv(Values), Top > 0
    PROVE  \A k \in Keys : /\ Marks[k][Top] \in Nat /\ Marks[k][Top] <= Len(lookup_map[k])
                           /\ stack[Top][k] \in Nat
                           /\ stack[Top][k] = Len(lookup_map[k]) - Marks[k][Top]
                           /\ Popped[k] = SubSeq(lookup_map[k], 1, Marks[k][Top])
                           /\ Popped[k] \in Seq(Values) /\ Len(Popped[k]) = Marks[k][Top]
  <1> SUFFICES ASSUME NEW k \in Keys
               PROVE  /\ Marks[k][Top] \in Nat /\ Marks[k][Top] <= Len(lookup_map[k])
                      /\ stack[Top][k] \in Nat
                      /\ stack[Top][k] = Len(lookup_map[k]) - Marks[k][Top]
                      /\ Popped[k] = SubSeq(lookup_map[k], 1, Marks[k][Top])
                      /\ Popped[k] \in Seq(Values) /\ Len(Popped[k]) = Marks[k][Top]
    OBVIOUS
  <1>1. MarksOK
    BY MarksType DEF LogInv
  <1>2. Marks[k][Top] \in Nat /\ Marks[k][Top] <= Len(lookup_map[k]) /\ stack[Top][k] = Len(lookup_map[k]) - Marks[k][Top]
    BY <1>1 DEF MarksOK, LogInv
  <1>3. stack[Top][k] \in Nat /\ lookup_map[k] \in Seq(Values) /\ Len(lookup_map[k]) \in Nat
    BY <1>1 DEF MarksOK, LogInv, LogTypeOK, Top
  <1>4. Popped[k] = SubSeq(lookup_map[k], 1, Marks[k][Top])
    BY <1>2, <1>3 DEF Popped
  <1> QED BY <1>2, <1>3, <1>4

LEMMA RollbackInv ==
    ASSUME NEW Values, LogInv(Values), rollback
    PROVE  LogInv(Values)' /\ Top' = Top - 1 /\ \A k \in Keys, d \in 1..Top : Marks'[k][d] = Marks[k][d]
  <1>1. Top \in Nat /\ Top > 0
    BY DEF LogTypeOK, Top, LogInv, rollback
  <1>2. lookup_map' = Popped /\ lookup_map' \in [Keys -> Seq(Values)]
    BY <1>1, PoppedOK DEF rollback, Popped
  <1>3. /\ LogTypeOK(Values)' /\ Top' = Top - 1
        /\ \A d \in 1..(Top - 1) : stack'[d] = stack[d] /\ opened'[d] = opened[d]
    BY <1>1, <1>2 DEF LogTypeOK, Top, Below, LogInv, rollback
  <1>m. MarksOK /\ MarksOK'
    BY <1>3, MarksType, MarksTypeNext DEF LogInv
  <1>4. \A k \in Keys, d \in 1..Top : Marks'[k][d] = Marks[k][d] /\ Marks[k][d] \in Nat
    <2> SUFFICES ASSUME NEW k \in Keys, NEW d \in 1..Top
                 PROVE  Marks'[k][d] = Marks[k][d] /\ Marks[k][d] \in Nat
      OBVIOUS
    <2>1. CASE d = Top
      BY <2>1, <1>1, <1>2, <1>3, <1>m, PoppedOK DEF MarksOK
    <2>2. CASE d < Top
      BY <2>2, <1>1, <1>3, <1>m DEF MarksOK
    <2> QED BY <2>1, <2>2, <1>1
  <1>5. \A k \in Keys : Marks'[k][1] = 0
    <2>1. 1 \in 1..Top
      BY <1>1
    <2> QED BY <2>1, <1>4 DEF LogInv
  <1>6. \A k \in Keys, d \in 1..Top' : stack'[d][k] = Marks'[k][d + 1] - Marks'[k][d]
    <2> SUFFICES ASSUME NEW k \in Keys, NEW d \in 1..(Top - 1)
                 PROVE  stack'[d][k] = Marks'[k][d + 1] - Marks'[k][d]
      BY <1>3
    <2>1. d \in 1..Top /\ d + 1 \in 1..Top
      BY <1>1
    <2>2. stack[d][k] = Marks[k][d + 1] - Marks[k][d]
      BY <2>1 DEF LogInv
    <2> QED BY <2>1, <2>2, <1>3, <1>4
  <1>7. \A k \in Keys, d, e \in 1..(Top' + 1) : d <= e => Marks'[k][d] <= Marks'[k][e]
    <2> SUFFICES ASSUME NEW k \in Keys, NEW d \in 1..Top, NEW e \in 1..Top, d <= e
                 PROVE  Marks'[k][d] <= Marks'[k][e]
      BY <1>1, <1>3
    <2>1. d \in 1..(Top + 1) /\ e \in 1..(Top + 1)
      BY <1>1
    <2> QED BY <2>1, <1>4 DEF LogInv
  <1>8. LogInv(Values)'
    BY <1>3, <1>5, <1>6, <1>7 DEF LogInv
  <1> QED BY <1>3, <1>4, <1>8

LEMMA BubbleUpInv ==
    ASSUME NEW Values, LogInv(Values), BubbleUp
    PROVE  /\ LogInv(Values)' /\ Top' = Top - 1
           /\ \A k \in Keys, d \in 1..(Top - 1) : Marks'[k][d] = Marks[k][d]
           /\ \A k \in Keys : Marks'[k][Top] = Marks[k][Top + 1]
  <1> DEFINE sum == [k \in Keys |-> stack[Top - 1][k] + stack[Top][k]]
  <1>1. Top \in Nat /\ Top > 1 /\ stack \in Seq([Keys -> Nat]) /\ Top = Len(stack)
    BY DEF LogTypeOK, Top, LogInv, BubbleUp
  <1>2. sum \in [Keys -> Nat] /\ stack' = Append(Below(Top - 2), sum)
    BY <1>1 DEF BubbleUp
  <1>3. /\ Below(Top - 2) \in Seq([Keys -> Nat]) /\ Len(Below(Top - 2)) = Top - 2
        /\ \A d \in 1..(Top - 2) : Below(Top - 2)[d] = stack[d]
    BY <1>1 DEF Below
  <1>4. /\ stack' \in Seq([Keys -> Nat]) /\ Len(stack') = Top - 1
        /\ \A d \in 1..(Top - 1) : stack'[d] = (IF d = Top - 1 THEN sum ELSE stack[d])
    <2> HIDE DEF sum
    <2> QED BY <1>1, <1>2, <1>3
  <1>5. LogTypeOK(Values)' /\ Top' = Top - 1 /\ \A d \in 1..(Top - 1) : opened'[d] = opened[d]
    <2>1. opened \in Seq([Keys -> Nat]) /\ Len(opened) = Top /\ opened' = SubSeq(opened, 1, Top - 1)
      BY DEF LogTypeOK, Top, LogInv, BubbleUp
    <2>2. /\ opened' \in Seq([Keys -> Nat]) /\ Len(opened') = Top - 1
          /\ \A d \in 1..(Top - 1) : opened'[d] = opened[d]
      BY <1>1, <2>1
    <2>3. store' \in [Keys -> Values] /\ lookup_map' \in [Keys -> Seq(Values)]
      BY DEF LogInv, LogTypeOK, BubbleUp
    <2>4. Top' = Top - 1
      BY <1>4 DEF Top
    <2>5. LogTypeOK(Values)'
      BY <1>4, <2>2, <2>3 DEF LogTypeOK
    <2> QED BY <2>2, <2>4, <2>5
  <1>m. MarksOK /\ MarksOK'
    BY <1>5, MarksType, MarksTypeNext DEF LogInv
  <1>6. \A k \in Keys, d \in 1..(Top - 1) : Marks'[k][d] = Marks[k][d] /\ Marks[k][d] \in Nat
    <2> SUFFICES ASSUME NEW k \in Keys, NEW d \in 1..(Top - 1)
                 PROVE  Marks'[k][d] = Marks[k][d] /\ Marks[k][d] \in Nat
      OBVIOUS
    <2>1. d \in 1..(Top + 1) /\ d <= Top /\ d \in 1..(Top' + 1) /\ d <= Top'
      BY <1>1, <1>5
    <2>2. Marks[k][d] = opened[d][k] /\ Marks[k][d] \in Nat
      BY <2>1, <1>m DEF MarksOK
    <2>3. Marks'[k][d] = opened'[d][k]
      BY <2>1, <1>m DEF MarksOK
    <2> QED BY <2>2, <2>3, <1>5
  <1>7. \A k \in Keys : Marks'[k][Top] = Marks[k][Top + 1] /\ Marks[k][Top + 1] \in Nat /\ Marks[k][Top] \in Nat
    <2> SUFFICES ASSUME NEW k \in Keys
                 PROVE  Marks'[k][Top] = Marks[k][Top + 1] /\ Marks[k][Top + 1] \in Nat /\ Marks[k][Top] \in Nat
      OBVIOUS
    <2>1. Top + 1 \in 1..(Top + 1) /\ Top \in 1..(Top + 1) /\ Top \in 1..(Top' + 1) /\ Top = Top' + 1
      BY <1>1, <1>5
    <2>2. lookup_map' = lookup_map
      BY DEF BubbleUp
    <2>3. Marks[k][Top + 1] = Len(lookup_map[k]) /\ Marks[k][Top + 1] \in Nat /\ Marks[k][Top] \in Nat
      BY <2>1, <1>m DEF MarksOK
    <2>4. Marks'[k][Top] = Len(lookup_map'[k])
      BY <2>1, <1>m DEF MarksOK
    <2> QED BY <2>2, <2>3, <2>4
  <1>8. \A k \in Keys, d \in 1..(Top - 1) :
            stack'[d][k] = (IF d = Top - 1 THEN stack[Top - 1][k] + stack[Top][k] ELSE stack[d][k])
    BY <1>1, <1>4
  <1>9. \A k \in Keys : /\ stack[Top][k] = Marks[k][Top + 1] - Marks[k][Top]
                        /\ stack[Top - 1][k] = Marks[k][Top] - Marks[k][Top - 1]
    <2>1. Top \in 1..Top /\ Top - 1 \in 1..Top /\ (Top - 1) + 1 = Top
      BY <1>1
    <2>2. \A k \in Keys, d \in 1..Top : stack[d][k] = Marks[k][d + 1] - Marks[k][d]
      BY DEF LogInv
    <2> QED BY <2>1, <2>2
  <1>10. \A k \in Keys, d \in 1..Top' : stack'[d][k] = Marks'[k][d + 1] - Marks'[k][d]
    <2> SUFFICES ASSUME NEW k \in Keys, NEW d \in 1..(Top - 1)
                 PROVE  stack'[d][k] = Marks'[k][d + 1] - Marks'[k][d]
      BY <1>5
    <2>1. CASE d = Top - 1
      <3>1. /\ stack'[d][k] = stack[Top - 1][k] + stack[Top][k]
            /\ Marks'[k][d] = Marks[k][Top - 1] /\ Marks[k][Top - 1] \in Nat
            /\ d + 1 = Top
        BY <2>1, <1>1, <1>6, <1>8
      <3> QED BY <3>1, <1>7, <1>9
    <2>2. CASE d < Top - 1
      <3>1. d + 1 \in 1..(Top - 1) /\ d \in 1..Top
        BY <2>2, <1>1
      <3>2. stack[d][k] = Marks[k][d + 1] - Marks[k][d]
        BY <3>1 DEF LogInv
      <3> QED BY <2>2, <3>1, <3>2, <1>1, <1>6, <1>8
    <2> QED BY <1>1, <2>1, <2>2
  <1>11. \A k \in Keys : Marks'[k][1] = 0
    <2>1. 1 \in 1..(Top - 1)
      BY <1>1
    <2> QED BY <2>1, <1>6 DEF LogInv
  <1>12. \A k \in Keys, d, e \in 1..(Top' + 1) : d <= e => Marks'[k][d] <= Marks'[k][e]
    <2> SUFFICES ASSUME NEW k \in Keys, NEW d \in 1..Top, NEW e \in 1..Top, d <= e
                 PROVE  Marks'[k][d] <= Marks'[k][e]
      BY <1>1, <1>5
    <2>0. d \in 1..(Top + 1) /\ e \in 1..(Top + 1) /\ Top + 1 \in 1..(Top + 1) /\ d <= Top + 1
      BY <1>1
    <2>1. /\ Marks[k][d] <= Marks[k][e] /\ Marks[k][d] <= Marks[k][Top + 1]
          /\ Marks[k][Top + 1] <= Marks[k][Top + 1]
      BY <2>0 DEF LogInv
    <2>2. CASE d < Top /\ e < Top
      <3>1. d \in 1..(Top - 1) /\ e \in 1..(Top - 1)
        BY <2>2, <1>1
      <3> QED BY <2>1, <3>1, <1>6
    <2>3. CASE d < Top /\ e = Top
      BY <2>1, <2>3, <1>1, <1>6, <1>7
    <2>4. CASE d = Top /\ e = Top
      BY <2>1, <2>4, <1>7
    <2> QED BY <1>1, <2>2, <2>3, <2>4
  <1>13. LogInv(Values)'
    BY <1>5, <1>10, <1>11, <1>12 DEF LogInv
  <1> QED BY <1>5, <1>6, <1>7, <1>13

\* With no open context and no history there is nothing left to say.
LEMMA EmptyInv == ASSUME NEW Values, LogTypeOK(Values)', stack' = <<>>, \A k \in Keys : Len(lookup_map'[k]) = 0
                  PROVE  LogInv(Values)' /\ Top' = 0
  <1>1. Top' = 0
    BY DEF Top
  <1>m. MarksOK'
    BY MarksTypeNext
  <1>2. \A k \in Keys : Marks'[k][1] = 0
    <2> SUFFICES ASSUME NEW k \in Keys PROVE Marks'[k][1] = 0
      OBVIOUS
    <2>1. 1 \in 1..(Top' + 1) /\ 1 = Top' + 1
      BY <1>1
    <2> QED BY <2>1, <1>m DEF MarksOK
  <1> QED BY <1>1, <1>2, <1>m DEF LogInv, MarksOK

LEMMA BottomCommitInv ==
    ASSUME NEW Values
    PROVE  LogInv(Values) /\ BottomCommit => LogInv(Values)'
  <1> SUFFICES ASSUME LogInv(Values), BottomCommit PROVE LogInv(Values)'
    OBVIOUS
  <1>1. Top = 1 /\ \A k \in Keys : Marks[k][Top] = 0
    BY DEF LogInv, BottomCommit
  <1>2. \A k \in Keys : Len(Popped[k]) = 0 /\ Popped[k] \in Seq(Values) /\ stack[1][k] = Len(lookup_map[k])
    <2>1. Top > 0 /\ \A k \in Keys : lookup_map[k] \in Seq(Values)
      BY <1>1 DEF LogInv, LogTypeOK
    <2> TAKE k \in Keys
    <2>2. /\ Len(Popped[k]) = Marks[k][Top] /\ Popped[k] \in Seq(Values)
          /\ stack[Top][k] = Len(lookup_map[k]) - Marks[k][Top]
      BY <2>1, PoppedOK
    <2>3. Len(lookup_map[k]) \in Nat
      BY <2>1
    <2> QED BY <1>1, <2>2, <2>3
  <1>3. lookup_map' = Popped /\ lookup_map' \in [Keys -> Seq(Values)]
    BY <1>2 DEF BottomCommit, Popped
  <1>4. store' \in [Keys -> Values]
    BY <1>2 DEF BottomCommit, LogInv, LogTypeOK
  <1>5. LogTypeOK(Values)' /\ stack' = <<>>
    BY <1>3, <1>4 DEF LogTypeOK, BottomCommit
  <1> QED BY <1>2, <1>3, <1>5, EmptyInv

LEMMA DropInv ==
    ASSUME NEW Values
    PROVE  LogInv(Values) /\ drop_log => LogInv(Values)'
  <1> SUFFICES ASSUME LogInv(Values), drop_log PROVE LogInv(Values)'
    OBVIOUS
  <1>1. LogTypeOK(Values)' /\ stack' = <<>>
    BY DEF LogInv, LogTypeOK, drop_log
  <1>2. \A k \in Keys : Len(lookup_map'[k]) = 0
    BY DEF drop_log
  <1> QED BY <1>1, <1>2, EmptyInv

LEMMA TipInv == ASSUME NEW Values, LogInv(Values), NEW s \in [Keys -> Values], set_tip(s)
                PROVE  LogInv(Values)'
  <1>1. LogTypeOK(Values)' /\ stack' = <<>>
    BY DEF LogInv, LogTypeOK, set_tip
  <1>2. Top = 0 /\ MarksOK
    BY MarksType DEF LogInv, set_tip, Top
  <1>3. \A k \in Keys : Len(lookup_map'[k]) = 0
    <2> SUFFICES ASSUME NEW k \in Keys PROVE Len(lookup_map'[k]) = 0
      OBVIOUS
    <2>1. 1 \in 1..(Top + 1) /\ 1 = Top + 1 /\ lookup_map' = lookup_map
      BY <1>2 DEF set_tip
    <2> QED BY <2>1, <1>2 DEF MarksOK, LogInv
  <1> QED BY <1>1, <1>3, EmptyInv

LEMMA StutterInv ==
    ASSUME NEW Values
    PROVE  LogInv(Values) /\ UNCHANGED db => LogInv(Values)'
  <1> SUFFICES ASSUME LogInv(Values), UNCHANGED db PROVE LogInv(Values)'
    OBVIOUS
  <1>1. Top' = Top /\ Marks' = Marks
    BY DEF Marks, Seen, Top, db
  <1> QED BY <1>1 DEF LogInv, LogTypeOK, db

LEMMA StepInv ==
    ASSUME NEW Values
    PROVE  LogInv(Values) /\ [DbNext(Values)]_db => LogInv(Values)'
  <1> SUFFICES ASSUME LogInv(Values), [DbNext(Values)]_db PROVE LogInv(Values)'
    OBVIOUS
  <1>1. CASE nest
    BY <1>1, NestInv
  <1>2. ASSUME NEW m \in UNION {[K -> Values] : K \in SUBSET Keys}, put(m) PROVE LogInv(Values)'
    BY <1>2, PutInv
  <1>3. CASE rollback
    BY <1>3, RollbackInv
  <1>4. CASE commit
    BY <1>4, BottomCommitInv, BubbleUpInv DEF commit
  <1>5. CASE drop_log
    BY <1>5, DropInv
  <1>6. ASSUME NEW s \in [Keys -> Values], set_tip(s) PROVE LogInv(Values)'
    BY <1>6, TipInv
  <1>7. CASE UNCHANGED db
    BY <1>7, StutterInv
  <1> QED BY <1>1, <1>2, <1>3, <1>4, <1>5, <1>6, <1>7 DEF DbNext

-----------------------------------------------------------------------------
LEMMA InvAsserts ==
    ASSUME NEW Values
    PROVE  LogInv(Values) => HistoriesMatchEdits
  <1> SUFFICES ASSUME LogInv(Values), NEW k \in Keys
               PROVE  /\ Top = 0 => lookup_map[k] = <<>>
                      /\ Top > 0 => stack[Top][k] <= Len(lookup_map[k])
                      /\ Top = 1 => stack[Top][k] = Len(lookup_map[k])
    BY DEF HistoriesMatchEdits
  <1>1. MarksOK /\ lookup_map[k] \in Seq(Values) /\ Len(lookup_map[k]) \in Nat /\ Top \in Nat
    <2>1. LogTypeOK(Values)
      BY Zenon DEF LogInv
    <2>2. MarksOK
      BY Zenon, <2>1, MarksType
    <2> QED BY <2>1, <2>2 DEF LogTypeOK, MarksOK
  <1>2. ASSUME Top = 0 PROVE lookup_map[k] = <<>>
    <2>1. 1 \in 1..(Top + 1) /\ 1 = Top + 1
      BY <1>2
    <2>2. Len(lookup_map[k]) = 0
      BY <2>1, <1>1 DEF MarksOK, LogInv
    <2> QED BY <2>2, <1>1
  <1>3. ASSUME Top > 0
        PROVE  stack[Top][k] <= Len(lookup_map[k]) /\ (Top = 1 => stack[Top][k] = Len(lookup_map[k]))
    <2>1. Marks[k][Top] \in Nat /\ stack[Top][k] = Len(lookup_map[k]) - Marks[k][Top]
      BY <1>3, PoppedOK
    <2>2. Top = 1 => Marks[k][Top] = 0
      BY DEF LogInv
    <2> QED BY <2>1, <2>2, <1>1
  <1> QED BY <1>1, <1>2, <1>3

\* The code never finds fewer values than edits, nor values that no edit accounts for: the
\* panic of rollback and the assertion of a commit to the store are out of reach.
THEOREM AssertionsNeverFail ==
    ASSUME NEW Values
    PROVE  DbSpec(Values) => []HistoriesMatchEdits
  <1>1. LogInv(Values) => HistoriesMatchEdits
    BY InvAsserts
  <1> QED BY <1>1, InitInv, StepInv, PTL DEF DbSpec

-----------------------------------------------------------------------------
\* What context d sees of k is the last value of the history up to its mark.
ViewsOK(Values) ==
    /\ Top \in Nat
    /\ Views \in [1..(Top + 1) -> [Keys -> Values]]
    /\ Views \in Seq([Keys -> Values]) /\ Len(Views) = Top + 1
    /\ \A d \in 1..(Top + 1), k \in Keys :
        Views[d][k] = IF Marks[k][d] = 0 THEN store[k] ELSE lookup_map[k][Marks[k][d]]

LEMMA ViewsType ==
    ASSUME NEW Values
    PROVE  LogInv(Values) => ViewsOK(Values)
  <1> SUFFICES ASSUME LogInv(Values) PROVE ViewsOK(Values)
    OBVIOUS
  <1>m. MarksOK
    BY MarksType DEF LogInv
  <1>1. \A k \in Keys, d \in 1..(Top + 1) : Marks[k][d] = Seen(d, k)
    BY DEF Marks
  <1>2. \A k \in Keys, d \in 1..(Top + 1) : Marks[k][d] \in 0..Len(lookup_map[k])
    <2> TAKE k \in Keys, d \in 1..(Top + 1)
    <2>1. Top + 1 \in 1..(Top + 1) /\ d <= Top + 1
      BY <1>m DEF MarksOK
    <2>2. Marks[k][d] <= Marks[k][Top + 1] /\ Marks[k][d] \in Nat /\ Marks[k][Top + 1] = Len(lookup_map[k])
      BY <2>1, <1>m DEF MarksOK, LogInv
    <2>3. Len(lookup_map[k]) \in Nat
      BY DEF LogInv, LogTypeOK
    <2> QED BY <2>2, <2>3
  <1>3. \A d \in 1..(Top + 1) : Views[d] = View(d)
    BY DEF Views
  <1>4. \A d \in 1..(Top + 1), k \in Keys :
            View(d)[k] = IF Marks[k][d] = 0 THEN store[k] ELSE lookup_map[k][Marks[k][d]]
    BY <1>1 DEF View
  <1>5. \A d \in 1..(Top + 1), k \in Keys : View(d)[k] \in Values
    <2> TAKE d \in 1..(Top + 1), k \in Keys
    <2>1. store[k] \in Values /\ lookup_map[k] \in Seq(Values)
      BY DEF LogInv, LogTypeOK
    <2>2. Marks[k][d] \in 0..Len(lookup_map[k])
      BY <1>2
    <2>3. Marks[k][d] /= 0 => lookup_map[k][Marks[k][d]] \in Values
      BY <2>1, <2>2
    <2> QED BY <2>1, <2>3, <1>4
  <1>6. \A d \in 1..(Top + 1) : View(d) \in [Keys -> Values]
    BY <1>5 DEF View
  <1>7. Views \in [1..(Top + 1) -> [Keys -> Values]]
    BY <1>3, <1>6 DEF Views
  <1>8. Views \in Seq([Keys -> Values]) /\ Len(Views) = Top + 1 /\ Top \in Nat
    BY <1>7, <1>m DEF MarksOK
  <1> QED BY <1>3, <1>4, <1>7, <1>8 DEF ViewsOK

LEMMA ViewsTypeNext ==
    ASSUME NEW Values
    PROVE  LogInv(Values)' => ViewsOK(Values)'
  BY ViewsType, PTL

\* Two views are one view when the marks, the store and the histories up to the marks agree.
LEMMA SameView ==
    ASSUME NEW Values, ViewsOK(Values), ViewsOK(Values)', NEW d \in 1..(Top + 1), NEW e \in 1..(Top' + 1),
           \A k \in Keys : /\ Marks'[k][e] = Marks[k][d]
                           /\ store'[k] = store[k]
                           /\ Marks[k][d] /= 0 => lookup_map'[k][Marks[k][d]] = lookup_map[k][Marks[k][d]]
    PROVE  Views'[e] = Views[d]
  <1>1. Views'[e] \in [Keys -> Values] /\ Views[d] \in [Keys -> Values]
    BY DEF ViewsOK
  <1>2. \A k \in Keys : Views'[e][k] = Views[d][k]
    <2> TAKE k \in Keys
    <2>1. Views[d][k] = IF Marks[k][d] = 0 THEN store[k] ELSE lookup_map[k][Marks[k][d]]
      BY DEF ViewsOK
    <2>2. Views'[e][k] = IF Marks'[k][e] = 0 THEN store'[k] ELSE lookup_map'[k][Marks'[k][e]]
      BY DEF ViewsOK
    <2> QED BY <2>1, <2>2
  <1> QED BY <1>1, <1>2

LEMMA NestStep ==
    ASSUME NEW Values
    PROVE  LogInv(Values) /\ nest => Promise!Nest
  <1> SUFFICES ASSUME LogInv(Values), nest PROVE Views' = Append(Views, Views[Len(Views)])
    BY DEF Promise!Nest, Promise!Depth
  <1>1. ViewsOK(Values) /\ ViewsOK(Values)' /\ Top' = Top + 1
    BY NestInv, ViewsType, ViewsTypeNext
  <1>2. store' = store /\ lookup_map' = lookup_map
    BY DEF nest
  <1>3. \A d \in 1..(Top + 1) : Views'[d] = Views[d]
    <2> TAKE d \in 1..(Top + 1)
    <2>1. d \in 1..(Top' + 1)
      BY <1>1 DEF ViewsOK
    <2> QED BY <1>1, <1>2, <2>1, NestInv, SameView
  <1>4. Views'[Top + 2] = Views[Top + 1]
    <2>1. Top + 1 \in 1..(Top + 1) /\ Top + 2 \in 1..(Top' + 1)
      BY <1>1 DEF ViewsOK
    <2> QED BY <1>1, <1>2, <2>1, NestInv, SameView
  <1> QED BY <1>1, <1>3, <1>4 DEF ViewsOK

\* A mark is a place in the history, and below a context's mark there are only smaller ones.
LEMMA MarkRange ==
    ASSUME NEW Values, LogInv(Values), NEW k \in Keys, NEW d \in 1..(Top + 1), NEW e \in 1..(Top + 1), d <= e
    PROVE  Marks[k][d] \in 0..Marks[k][e] /\ Marks[k][e] \in 0..Len(lookup_map[k])
  <1>m. MarksOK
    BY MarksType DEF LogInv
  <1>1. Top + 1 \in 1..(Top + 1) /\ e <= Top + 1
    BY <1>m DEF MarksOK
  <1>2. Marks[k][d] \in Nat /\ Marks[k][e] \in Nat /\ Marks[k][Top + 1] = Len(lookup_map[k])
    BY <1>1, <1>m DEF MarksOK
  <1>3. Marks[k][d] <= Marks[k][e] /\ Marks[k][e] <= Marks[k][Top + 1]
    BY <1>1 DEF LogInv
  <1>4. Len(lookup_map[k]) \in Nat
    BY DEF LogInv, LogTypeOK
  <1> QED BY <1>2, <1>3, <1>4

LEMMA PutStep ==
    ASSUME NEW Values, LogInv(Values), NEW m, DOMAIN m \subseteq Keys, \A k \in DOMAIN m : m[k] \in Values, put(m)
    PROVE  Promise!Write
  <1>1. ViewsOK(Values) /\ ViewsOK(Values)' /\ Top' = Top
    BY PutInv, ViewsType, ViewsTypeNext
  <1>2. Top > 0 /\ store' = store
    BY DEF put
  <1>3. \A d \in 1..Top : Views'[d] = Views[d]
    <2> TAKE d \in 1..Top
    <2>1. d \in 1..(Top + 1) /\ d \in 1..(Top' + 1) /\ d <= d
      BY <1>1 DEF ViewsOK
    <2>2. ASSUME NEW k \in Keys, Marks[k][d] /= 0
          PROVE  lookup_map'[k][Marks[k][d]] = lookup_map[k][Marks[k][d]]
      <3>1. Marks[k][d] \in 1..Len(lookup_map[k]) /\ lookup_map[k] \in Seq(Values)
        <4>1. Marks[k][d] \in 0..Len(lookup_map[k])
          BY Zenon, <2>1, MarkRange
        <4>2. lookup_map[k] \in Seq(Values)
          BY Zenon DEF LogInv, LogTypeOK
        <4> QED BY <2>2, <4>1, <4>2
      <3>2. lookup_map'[k] = IF k \in DOMAIN m THEN Append(lookup_map[k], m[k]) ELSE lookup_map[k]
        BY DEF put
      <3> QED BY <3>1, <3>2
    <2> QED BY <1>1, <1>2, <2>1, <2>2, PutInv, SameView
  <1>4. Len(Views') = Len(Views) /\ Len(Views) - 1 = Top /\ Len(Views) > 1
    BY <1>1, <1>2 DEF ViewsOK
  <1> QED BY <1>3, <1>4 DEF Promise!Write, Promise!Depth

LEMMA RollbackStep ==
    ASSUME NEW Values
    PROVE  LogInv(Values) /\ rollback => Promise!Rollback
  <1> SUFFICES ASSUME LogInv(Values), rollback PROVE Promise!Rollback
    OBVIOUS
  <1>1. ViewsOK(Values) /\ ViewsOK(Values)' /\ Top' = Top - 1
    BY RollbackInv, ViewsType, ViewsTypeNext
  <1>2. Top \in Nat /\ Top > 0 /\ store' = store /\ lookup_map' = Popped
    BY <1>1 DEF rollback, ViewsOK
  <1>3. \A d \in 1..Top : Views'[d] = Views[d]
    <2> TAKE d \in 1..Top
    <2>1. d \in 1..(Top + 1) /\ d \in 1..(Top' + 1) /\ Top \in 1..(Top + 1) /\ d <= Top
      BY <1>1, <1>2
    <2>2. ASSUME NEW k \in Keys, Marks[k][d] /= 0
          PROVE  lookup_map'[k][Marks[k][d]] = lookup_map[k][Marks[k][d]]
      <3>1. /\ Marks[k][d] \in 0..Marks[k][Top] /\ Marks[k][Top] \in 0..Len(lookup_map[k])
            /\ lookup_map[k] \in Seq(Values)
        BY <2>1, MarkRange DEF LogInv, LogTypeOK
      <3>2. lookup_map'[k] = SubSeq(lookup_map[k], 1, Marks[k][Top])
        BY <1>2, PoppedOK
      <3> QED BY <2>2, <3>1, <3>2
    <2> QED BY <1>1, <1>2, <2>1, <2>2, RollbackInv, SameView
  <1>4. Views' = SubSeq(Views, 1, Len(Views) - 1)
    BY <1>1, <1>2, <1>3 DEF ViewsOK
  <1> QED BY <1>1, <1>2, <1>4 DEF Promise!Rollback, Promise!Outer, Promise!Depth, ViewsOK

LEMMA BubbleUpStep ==
    ASSUME NEW Values
    PROVE  LogInv(Values) /\ BubbleUp => Promise!Commit
  <1> SUFFICES ASSUME LogInv(Values), BubbleUp PROVE Promise!Commit
    OBVIOUS
  <1>1. ViewsOK(Values) /\ ViewsOK(Values)' /\ Top' = Top - 1
    BY BubbleUpInv, ViewsType, ViewsTypeNext
  <1>2. Top \in Nat /\ Top > 1 /\ store' = store /\ lookup_map' = lookup_map
    BY <1>1 DEF BubbleUp, ViewsOK
  <1>3. \A d \in 1..(Top - 1) : Views'[d] = Views[d]
    <2> TAKE d \in 1..(Top - 1)
    <2>1. d \in 1..(Top + 1) /\ d \in 1..(Top' + 1)
      BY <1>1, <1>2
    <2> QED BY <1>1, <1>2, <2>1, BubbleUpInv, SameView
  <1>4. Views'[Top] = Views[Top + 1]
    <2>1. Top + 1 \in 1..(Top + 1) /\ Top \in 1..(Top' + 1)
      BY <1>1, <1>2
    <2> QED BY <1>1, <1>2, <2>1, BubbleUpInv, SameView
  <1>5. /\ Views \in Seq([Keys -> Values]) /\ Len(Views) = Top + 1
        /\ Views' \in Seq([Keys -> Values]) /\ Len(Views') = Top
    BY <1>1, <1>2 DEF ViewsOK
  <1>6. Views' = Append(SubSeq(Views, 1, Top - 1), Views[Top + 1])
    BY <1>2, <1>3, <1>4, <1>5
  <1>7. Len(Views) - 2 = Top - 1 /\ Len(Views) > 1
    BY <1>2, <1>5
  <1> QED BY <1>5, <1>6, <1>7 DEF Promise!Commit, Promise!Outer, Promise!Depth

LEMMA BottomCommitStep ==
    ASSUME NEW Values
    PROVE  LogInv(Values) /\ BottomCommit => Promise!Commit
  <1> SUFFICES ASSUME LogInv(Values), BottomCommit PROVE Promise!Commit
    OBVIOUS
  <1>1. LogInv(Values)' /\ ViewsOK(Values) /\ ViewsOK(Values)' /\ Top = 1 /\ Top' = 0
    BY BottomCommitInv, ViewsType, ViewsTypeNext DEF BottomCommit, Top
  <1>2. \A k \in Keys : Views'[1][k] = Views[2][k]
    <2> TAKE k \in Keys
    <2>1. /\ 1 \in 1..(Top' + 1) /\ 2 \in 1..(Top + 1) /\ 1 \in 1..(Top + 1)
          /\ 1 <= 2 /\ 2 = Top + 1 /\ Top > 0
      BY <1>1
    <2>2. Marks'[k][1] = 0 /\ Marks[k][1] = 0
      BY <1>1 DEF LogInv
    <2>3. Views'[1][k] = store'[k]
      BY <1>1, <2>1, <2>2 DEF ViewsOK
    <2>4. Marks[k][2] = Len(lookup_map[k]) /\ Marks[k][2] \in Nat
      BY <2>1, MarksType DEF MarksOK, LogInv
    <2>5. stack[1][k] = Marks[k][2]
      BY <1>1, <2>1, <2>2, <2>4, PoppedOK
    <2>6. store'[k] = IF stack[1][k] = 0 THEN store[k] ELSE lookup_map[k][stack[1][k]]
      BY DEF BottomCommit
    <2> QED BY <1>1, <2>1, <2>3, <2>5, <2>6 DEF ViewsOK
  <1>3. Views'[1] = Views[2]
    <2>1. Views'[1] \in [Keys -> Values] /\ Views[2] \in [Keys -> Values]
      BY <1>1 DEF ViewsOK
    <2> QED BY <1>2, <2>1
  <1>4. /\ Views \in Seq([Keys -> Values]) /\ Len(Views) = 2
        /\ Views' \in Seq([Keys -> Values]) /\ Len(Views') = 1
    BY <1>1 DEF ViewsOK
  <1>5. Views' = Append(SubSeq(Views, 1, 0), Views[2])
    BY <1>3, <1>4
  <1> QED BY <1>4, <1>5 DEF Promise!Commit, Promise!Outer, Promise!Depth

LEMMA DropStep ==
    ASSUME NEW Values
    PROVE  LogInv(Values) /\ drop_log => Promise!Drop
  <1> SUFFICES ASSUME LogInv(Values), drop_log PROVE Promise!Drop
    OBVIOUS
  <1>1. LogInv(Values)' /\ ViewsOK(Values) /\ ViewsOK(Values)' /\ Top' = 0 /\ store' = store
    BY DropInv, ViewsType, ViewsTypeNext DEF drop_log, Top
  <1>2. 1 \in 1..(Top + 1) /\ 1 \in 1..(Top' + 1)
    BY <1>1 DEF ViewsOK
  <1>3. Views'[1] = Views[1]
    BY <1>1, <1>2, SameView DEF LogInv
  <1>4. /\ Views \in Seq([Keys -> Values]) /\ Len(Views) >= 1
        /\ Views' \in Seq([Keys -> Values]) /\ Len(Views') = 1
    BY <1>1 DEF ViewsOK
  <1>5. Views' = SubSeq(Views, 1, 1)
    BY <1>3, <1>4
  <1> QED BY <1>5 DEF Promise!Drop, Promise!Outer

LEMMA TipStep == ASSUME NEW Values, LogInv(Values), NEW s \in [Keys -> Values], set_tip(s)
                 PROVE  Promise!Reopen
  <1>1. ViewsOK(Values) /\ ViewsOK(Values)' /\ Top = 0 /\ Top' = 0
    BY TipInv, ViewsType, ViewsTypeNext DEF set_tip, Top
  <1> QED BY <1>1 DEF ViewsOK, Promise!Reopen, Promise!Depth

LEMMA StutterStep == UNCHANGED db => Views' = Views
  BY DEF db, Views, View, Seen, Top

LEMMA InitStep ==
    ASSUME NEW Values
    PROVE  LogInv(Values) /\ DbInit => Promise!Init
  <1> SUFFICES ASSUME LogInv(Values), DbInit PROVE Len(Views) = 1
    BY DEF Promise!Init, Promise!Depth
  <1>1. ViewsOK(Values) /\ Top = 0
    BY ViewsType DEF DbInit, Top
  <1> QED BY <1>1 DEF ViewsOK

\* The wrapper implements NestedStore: a context's writes stay invisible outside until it
\* commits, and a rollback restores every value, however contexts that edit a key are nested.
THEOREM WrapperKeepsViews ==
    ASSUME NEW Values
    PROVE  DbSpec(Values) => KeepsViews
  <1>1. LogInv(Values) /\ DbInit => Promise!Init
    BY Zenon, InitStep
  <1>2. LogInv(Values) /\ [DbNext(Values)]_db => [Promise!Next]_Views
    <2> SUFFICES ASSUME LogInv(Values), [DbNext(Values)]_db PROVE Promise!Next \/ Views' = Views
      OBVIOUS
    <2>1. CASE nest
      BY <2>1, NestStep DEF Promise!Next
    <2>2. ASSUME NEW m \in UNION {[K -> Values] : K \in SUBSET Keys}, put(m) PROVE Promise!Next
      BY <2>2, PutStep DEF Promise!Next
    <2>3. CASE rollback
      BY <2>3, RollbackStep DEF Promise!Next
    <2>4. CASE commit
      BY <2>4, BubbleUpStep, BottomCommitStep DEF commit, Promise!Next
    <2>5. CASE drop_log
      BY <2>5, DropStep DEF Promise!Next
    <2>6. ASSUME NEW s \in [Keys -> Values], set_tip(s) PROVE Promise!Next
      BY <2>6, TipStep DEF Promise!Next
    <2>7. CASE UNCHANGED db
      BY <2>7, StutterStep
    <2> QED BY <2>1, <2>2, <2>3, <2>4, <2>5, <2>6, <2>7 DEF DbNext
  <1> QED BY <1>1, <1>2, InitInv, StepInv, PTL DEF DbSpec, KeepsViews, Promise!Spec

-----------------------------------------------------------------------------
(* What each operation does to the views, for those who use the store. *)

\* Context d, counted from the store, sees v.
LEMMA ViewsFacts ==
    ASSUME NEW Values, LogInv(Values)
    PROVE  /\ Top \in Nat /\ Views[1] = store
           /\ \A d \in 1..(Top + 1) : Views[d] = View(d) /\ DOMAIN Views[d] = Keys
           /\ \A k \in Keys : get(k, store) = Views[Top + 1][k]
  <1>1. ViewsOK(Values) /\ MarksOK /\ LogTypeOK(Values)
    BY Zenon, ViewsType, MarksType DEF LogInv
  <1>2. Top \in Nat /\ 1 \in 1..(Top + 1) /\ Top + 1 \in 1..(Top + 1)
    BY <1>1 DEF ViewsOK
  <1>3. \A d \in 1..(Top + 1) : Views[d] = View(d) /\ DOMAIN Views[d] = Keys
    BY Zenon DEF Views, View
  <1>4. Views[1] = store
    <2>1. \A k \in Keys : Views[1][k] = store[k]
      BY Zenon, <1>1, <1>2 DEF ViewsOK, LogInv
    <2>2. Views[1] \in [Keys -> Values] /\ store \in [Keys -> Values]
      BY Zenon, <1>1, <1>2 DEF ViewsOK, LogTypeOK
    <2> QED BY <2>1, <2>2
  <1>5. ASSUME NEW k \in Keys PROVE get(k, store) = Views[Top + 1][k]
    <2>1. Views[Top + 1][k] = IF Len(lookup_map[k]) = 0 THEN store[k] ELSE lookup_map[k][Len(lookup_map[k])]
      BY <1>1, <1>2 DEF ViewsOK, MarksOK
    <2>2. lookup_map[k] \in Seq(Values)
      BY Zenon, <1>1 DEF LogTypeOK
    <2>3. lookup_map[k] = <<>> <=> Len(lookup_map[k]) = 0
      BY <2>2
    <2> QED BY Zenon, <2>1, <2>3 DEF get
  <1> QED BY Zenon, <1>2, <1>3, <1>4, <1>5

LEMMA NestViews ==
    ASSUME NEW Values, LogInv(Values), nest
    PROVE  /\ LogInv(Values)' /\ Top' = Top + 1
           /\ \A d \in 1..(Top + 1) : Views'[d] = Views[d]
           /\ Views'[Top + 2] = Views[Top + 1]
  <1>1. LogInv(Values)' /\ Top' = Top + 1
    BY Zenon, NestInv
  <1>2. Views' = Append(Views, Views[Len(Views)])
    BY Zenon, NestStep DEF Promise!Nest, Promise!Depth
  <1>3. ViewsOK(Values)
    BY Zenon, ViewsType
  <1>4. Views \in Seq([Keys -> Values]) /\ Len(Views) = Top + 1 /\ Top \in Nat
    BY Zenon, <1>3 DEF ViewsOK
  <1>5. /\ \A d \in 1..(Top + 1) : Views'[d] = Views[d]
        /\ Views'[Top + 2] = Views[Top + 1]
    BY <1>2, <1>4
  <1> QED BY Zenon, <1>1, <1>5

LEMMA PutViews ==
    ASSUME NEW Values, LogInv(Values), NEW m, \A k \in DOMAIN m : m[k] \in Values, put(m)
    PROVE  /\ LogInv(Values)' /\ Top' = Top
           /\ \A d \in 1..Top : Views'[d] = Views[d]
           /\ \A k \in Keys : Views'[Top + 1][k] = IF k \in DOMAIN m THEN m[k] ELSE Views[Top + 1][k]
  <1>1. DOMAIN m \subseteq Keys
    BY Zenon DEF put
  <1>2. LogInv(Values)' /\ Top' = Top
    BY Zenon, <1>1, PutInv
  <1>3. Promise!Write
    BY Zenon, <1>1, PutStep
  <1>4. ViewsOK(Values) /\ ViewsOK(Values)' /\ MarksOK /\ MarksOK' /\ LogTypeOK(Values)
    BY Zenon, <1>2, ViewsType, ViewsTypeNext, MarksType, MarksTypeNext DEF LogInv
  <1>5. \A d \in 1..Top : Views'[d] = Views[d]
    <2>1. Len(Views) = Top + 1 /\ Top \in Nat
      BY Zenon, <1>4 DEF ViewsOK
    <2>2. Len(Views) - 1 = Top
      BY <2>1
    <2> QED BY Zenon, <1>3, <2>2 DEF Promise!Write, Promise!Depth
  <1>6. ASSUME NEW k \in Keys
        PROVE  Views'[Top + 1][k] = IF k \in DOMAIN m THEN m[k] ELSE Views[Top + 1][k]
    <2>1. Top \in Nat /\ Top + 1 \in 1..(Top + 1) /\ Top' + 1 \in 1..(Top' + 1)
      BY <1>2, <1>4 DEF ViewsOK
    <2>2. /\ Marks[k][Top + 1] = Len(lookup_map[k]) /\ Marks'[k][Top + 1] = Len(lookup_map'[k])
      BY Zenon, <1>2, <1>4, <2>1 DEF MarksOK
    <2>3. Views'[Top + 1][k] = IF Len(lookup_map'[k]) = 0 THEN store'[k] ELSE lookup_map'[k][Len(lookup_map'[k])]
      BY <1>2, <1>4, <2>1, <2>2 DEF ViewsOK
    <2>4. Views[Top + 1][k] = IF Len(lookup_map[k]) = 0 THEN store[k] ELSE lookup_map[k][Len(lookup_map[k])]
      BY <1>4, <2>1, <2>2 DEF ViewsOK
    <2>5. store' = store /\ lookup_map'[k] = IF k \in DOMAIN m THEN Append(lookup_map[k], m[k]) ELSE lookup_map[k]
      BY Zenon DEF put
    <2>6. CASE k \in DOMAIN m
      <3>1. lookup_map[k] \in Seq(Values) /\ lookup_map'[k] = Append(lookup_map[k], m[k])
        BY Zenon, <1>4, <2>5, <2>6 DEF LogTypeOK
      <3>2. Len(lookup_map'[k]) /= 0 /\ lookup_map'[k][Len(lookup_map'[k])] = m[k]
        BY <3>1, <2>6
      <3> QED BY Zenon, <2>3, <2>6, <3>2
    <2>7. CASE k \notin DOMAIN m
      BY Zenon, <2>3, <2>4, <2>5, <2>7
    <2> QED BY Zenon, <2>6, <2>7
  <1> QED BY Zenon, <1>2, <1>5, <1>6

LEMMA RollbackViews ==
    ASSUME NEW Values, LogInv(Values), rollback
    PROVE  /\ LogInv(Values)' /\ Top' = Top - 1 /\ Top > 0
           /\ \A d \in 1..Top : Views'[d] = Views[d]
  <1>1. LogInv(Values)' /\ Top' = Top - 1 /\ Top > 0
    BY Zenon, RollbackInv DEF rollback
  <1>2. ViewsOK(Values) /\ Promise!Rollback
    BY Zenon, ViewsType, RollbackStep
  <1>3. Views' = SubSeq(Views, 1, Len(Views) - 1)
    BY Zenon, <1>2 DEF Promise!Rollback, Promise!Outer, Promise!Depth
  <1>4. Views \in Seq([Keys -> Values]) /\ Len(Views) = Top + 1 /\ Top \in Nat
    BY Zenon, <1>2 DEF ViewsOK
  <1>5. \A d \in 1..Top : Views'[d] = Views[d]
    BY <1>3, <1>4
  <1> QED BY Zenon, <1>1, <1>5

LEMMA CommitViews ==
    ASSUME NEW Values, LogInv(Values), commit
    PROVE  /\ LogInv(Values)' /\ Top' = Top - 1 /\ Top > 0
           /\ \A d \in 1..(Top - 1) : Views'[d] = Views[d]
           /\ Views'[Top] = Views[Top + 1]
  <1>1. LogInv(Values)' /\ Top' = Top - 1
    <2>1. CASE BubbleUp
      BY Zenon, <2>1, BubbleUpInv
    <2>2. CASE BottomCommit
      <3>1. LogInv(Values)' /\ Top = 1 /\ stack' = <<>>
        BY Zenon, <2>2, BottomCommitInv DEF BottomCommit
      <3>2. Top' = 0 /\ Top' = Top - 1
        BY <3>1 DEF Top
      <3> QED BY Zenon, <3>1, <3>2
    <2> QED BY Zenon, <2>1, <2>2 DEF commit
  <1>2. ViewsOK(Values) /\ Promise!Commit
    BY Zenon, ViewsType, BubbleUpStep, BottomCommitStep DEF commit
  <1>3. Views' = Append(SubSeq(Views, 1, Len(Views) - 2), Views[Len(Views)]) /\ Len(Views) > 1
    BY Zenon, <1>2 DEF Promise!Commit, Promise!Outer, Promise!Depth
  <1>4. Views \in Seq([Keys -> Values]) /\ Len(Views) = Top + 1 /\ Top \in Nat
    BY Zenon, <1>2 DEF ViewsOK
  <1>5. Top > 0 /\ Views'[Top] = Views[Top + 1] /\ \A d \in 1..(Top - 1) : Views'[d] = Views[d]
    BY <1>3, <1>4
  <1> QED BY Zenon, <1>1, <1>5

\* The log is dropped, or the store moved to another block, when no context is open.
LEMMA EmptyViews ==
    ASSUME NEW Values, LogInv(Values)
    PROVE  /\ drop_log => LogInv(Values)' /\ Top' = 0 /\ store' = store
           /\ \A s \in [Keys -> Values] : set_tip(s) => LogInv(Values)' /\ Top' = 0 /\ store' = s
  <1>1. ASSUME drop_log PROVE LogInv(Values)' /\ Top' = 0 /\ store' = store
    <2>1. LogInv(Values)' /\ stack' = <<>> /\ store' = store
      BY Zenon, <1>1, DropInv DEF drop_log
    <2>2. Top' = 0
      BY <2>1 DEF Top
    <2> QED BY Zenon, <2>1, <2>2
  <1>2. ASSUME NEW s \in [Keys -> Values], set_tip(s) PROVE LogInv(Values)' /\ Top' = 0 /\ store' = s
    <2>1. LogInv(Values)' /\ stack' = <<>> /\ store' = s
      BY Zenon, <1>2, TipInv DEF set_tip
    <2>2. Top' = 0
      BY <2>1 DEF Top
    <2> QED BY Zenon, <2>1, <2>2
  <1> QED BY Zenon, <1>1, <1>2

\* An operation of the wrapper, whatever it writes.
Operation == nest \/ (\E m : put(m)) \/ rollback \/ commit \/ drop_log \/ (\E s : set_tip(s)) \/ UNCHANGED db

\* What is written is one of the values when the log has only these afterwards.
LEMMA OperationStep ==
    ASSUME NEW Values
    PROVE  LogInv(Values) /\ LogInv(Values)' /\ Operation => [Promise!Next]_Views
  <1> SUFFICES ASSUME LogInv(Values), LogInv(Values)', Operation PROVE Promise!Next \/ Views' = Views
    OBVIOUS
  <1>1. ASSUME NEW m, put(m) PROVE Promise!Write
    <2>1. DOMAIN m \subseteq Keys
      BY Zenon, <1>1 DEF put
    <2>2. ASSUME NEW k \in DOMAIN m PROVE m[k] \in Values
      <3>1. lookup_map[k] \in Seq(Values) /\ lookup_map'[k] \in Seq(Values)
        BY Zenon, <2>1 DEF LogInv, LogTypeOK
      <3>2. lookup_map'[k] = Append(lookup_map[k], m[k])
        BY <1>1, <2>1 DEF put
      <3>3. Len(lookup_map[k]) + 1 \in 1..Len(lookup_map'[k]) /\ lookup_map'[k][Len(lookup_map[k]) + 1] = m[k]
        BY <3>1, <3>2
      <3> QED BY <3>1, <3>3
    <2> QED BY Zenon, <1>1, <2>1, <2>2, PutStep
  <1>2. ASSUME NEW s, set_tip(s) PROVE Promise!Reopen
    <2>1. s \in [Keys -> Values]
      BY Zenon, <1>2 DEF set_tip, LogInv, LogTypeOK
    <2> QED BY Zenon, <1>2, <2>1, TipStep
  <1>3. ASSUME commit PROVE Promise!Commit
    BY Zenon, <1>3, BubbleUpStep, BottomCommitStep DEF commit
  <1>4. nest \/ rollback \/ drop_log => Promise!Next
    BY Zenon, NestStep, RollbackStep, DropStep DEF Promise!Next
  <1>5. UNCHANGED db => Views' = Views
    BY Zenon, StutterStep
  <1> QED BY Zenon, <1>1, <1>2, <1>3, <1>4, <1>5 DEF Operation, Promise!Next
=============================================================================
