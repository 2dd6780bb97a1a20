----------------------------- MODULE AssetProofs ----------------------------
(***************************************************************************)
(* The operations on STX, tokens and items, and the steps at which a       *)
(* transaction starts, pays and leaves its payload, keep the invariant of  *)
(* module FrameProofs.                                                     *)
(***************************************************************************)
EXTENDS FrameProofs

-----------------------------------------------------------------------------
(* The operations on assets. *)
LEMMA AdditionFacts ==
    ASSUME NEW kind, NEW from, NEW n, NEW p \in Principals
    PROVE  /\ Addition(kind, from, n).stx[p] = IF kind = "stx" /\ p = from THEN n ELSE 0
           /\ Addition(kind, from, n).burn[p] = IF kind = "burn" /\ p = from THEN n ELSE 0
           /\ Addition(kind, from, n).token[p] = IF kind = "token" /\ p = from THEN n ELSE 0
           /\ Addition(kind, from, n).asset[p] = IF kind = "asset" /\ p = from THEN n ELSE 0
  BY DEF Addition, AssetKinds

\* The view after one write.
LEMMA OverOne ==
    ASSUME NEW k \in Keys, NEW x \in AllValues
    PROVE  /\ \A l \in DOMAIN Put(k, x) : Put(k, x)[l] \in AllValues
           /\ Over(Put(k, x))[k] = x
           /\ \A l \in Keys : l /= k => Over(Put(k, x))[l] = Views[Top + 1][l]
<1>1. DOMAIN Put(k, x) = {k} /\ Put(k, x)[k] = x
  BY DEF Put
<1> QED
  BY <1>1 DEF Over

\* The view after two writes.
LEMMA OverTwo ==
    ASSUME NEW k \in Keys, NEW l \in Keys, NEW x \in AllValues, NEW y \in AllValues
    PROVE  /\ \A j \in DOMAIN And(Put(k, x), Put(l, y)) : And(Put(k, x), Put(l, y))[j] \in AllValues
           /\ Over(And(Put(k, x), Put(l, y)))[k] = x
           /\ l /= k => Over(And(Put(k, x), Put(l, y)))[l] = y
           /\ \A j \in Keys : j /= k /\ j /= l => Over(And(Put(k, x), Put(l, y)))[j] = Views[Top + 1][j]
<1> DEFINE m == And(Put(k, x), Put(l, y))
<1>1. DOMAIN Put(k, x) = {k} /\ Put(k, x)[k] = x /\ DOMAIN Put(l, y) = {l} /\ Put(l, y)[l] = y
  BY DEF Put
<1>2. m = [j \in {k} \cup {l} |-> IF j \in {k} THEN Put(k, x)[j] ELSE Put(l, y)[j]]
  BY <1>1 DEF And
<1> HIDE DEF m
<1>3. DOMAIN m = {k} \cup {l}
  BY Zenon, <1>2
<1> USE <1>3
<1>4. m[k] = x /\ (l /= k => m[l] = y)
  BY Zenon, <1>1, <1>2
<1> USE <1>4
<1>5. \A j \in DOMAIN m : m[j] \in AllValues
  OBVIOUS
<1>6. Over(m)[k] = x
  BY DEF Over
<1>7. l /= k => Over(m)[l] = y
  BY DEF Over
<1>8. \A j \in Keys : j /= k /\ j /= l => Over(m)[j] = Views[Top + 1][j]
  BY DEF Over
<1> QED
  BY Zenon, <1>5, <1>6, <1>7, <1>8 DEF m

\* The view after writes, when it is a store of accounts.
LEMMA OverStore ==
    ASSUME StoreInv, NEW m, \A k \in DOMAIN m : m[k] \in AllValues,
           \A p \in Principals :
                /\ Over(m)[stx(p)] \in Balances /\ {Over(m)[nonce(p)], Over(m)[token(p)], Over(m)[stacker(p)]} \subseteq Nat
                /\ Over(m)[stx(p)].locked > 0 => Over(m)[stx(p)].unlock_height <= Over(m)[stacker(p)],
           Over(m)[supply] \in Nat, Over(m)[item] \in Someone
    PROVE  IsStore(Over(m))
<1>1. Views[Top + 1] \in [Keys -> AllValues] /\ Keys = AllKeys
  BY Zenon, Current, KeyFacts DEF IsStore
<1>2. ASSUME NEW k \in Keys PROVE (IF k \in DOMAIN m THEN m[k] ELSE Views[Top + 1][k]) \in AllValues
  BY Zenon, <1>1
<1>3. Over(m) \in [AllKeys -> AllValues]
  BY Zenon, <1>1 DEF Over
<1> QED
  BY <1>3 DEF IsStore

\* STX move to an account: the sender loses what is logged.
LEMMA TransferStep ==
    ASSUME Inv, pc = "run", top.kind \in {"call", "transfer"}, NEW from \in Principals, NEW to \in Principals, NEW n \in Nat,
           stx_transfer_consolidated(from, to, n)
    PROVE  Inv'
<1> DEFINE v == Views[Top + 1]
           x == debit(Now(stx(from)), n)
           y == credit(Now(stx(to)), n)
           m == And(Put(stx(from), x), Put(stx(to), y))
           w == Over(m)
<1>1. StoreInv /\ height \in Nat /\ IsStore(v)
  BY InnerFacts DEF Inner
<1> USE <1>1
<1>2. from /= to /\ can_transfer(Now(stx(from)), n) /\ Moves(m, "stx", from, n, Event("stx", from, to, n))
  BY DEF stx_transfer_consolidated
<1> USE <1>2
<1>3. Now(stx(from)) = v[stx(from)] /\ Now(stx(to)) = v[stx(to)] /\ v[stx(from)] \in Balances /\ v[stx(to)] \in Balances
  BY Zenon, Current, KeyFacts, StoreFacts
<1>4. Moved(v[stx(from)], x, -n) /\ Moved(v[stx(to)], y, n)
  BY Zenon, <1>3, DebitMoves, CreditMoves
<1> USE <1>4
<1>5. stx(from) \in Keys /\ stx(to) \in Keys /\ stx(from) /= stx(to) /\ x \in AllValues /\ y \in AllValues
  BY Zenon, KeyFacts DEF AllValues, Moved
<1> HIDE DEF x, y
<1>6. /\ \A j \in DOMAIN m : m[j] \in AllValues
      /\ w[stx(from)] = x /\ w[stx(to)] = y
      /\ \A j \in Keys : j /= stx(from) /\ j /= stx(to) => w[j] = v[j]
  BY SMTT(30), <1>5, OverTwo
<1> USE <1>6
<1> HIDE DEF m, w
<1>7. /\ \A p \in Principals :
            /\ w[nonce(p)] = v[nonce(p)] /\ w[token(p)] = v[token(p)] /\ w[stacker(p)] = v[stacker(p)]
            /\ p /= from /\ p /= to => w[stx(p)] = v[stx(p)]
      /\ w[supply] = v[supply] /\ w[item] = v[item]
  BY Zenon, KeyFacts
<1> USE <1>7
<1>8. ASSUME NEW p \in Principals
      PROVE  w[stx(p)] \in Balances /\ (w[stx(p)].locked > 0 => w[stx(p)].unlock_height <= w[stacker(p)])
  BY DEF IsStore, Moved
<1>9. IsStore(w)
  BY Zenon, <1>8, OverStore DEF w, IsStore
<1>10. Outflow(v, w, Addition("stx", from, n), NoOne, 0)
  <2> SUFFICES ASSUME NEW p \in Principals
               PROVE  /\ STX(v, p) - STX(w, p) - (IF p = NoOne THEN 0 ELSE 0)
                            <= Addition("stx", from, n).stx[p] + Addition("stx", from, n).burn[p]
                      /\ v[token(p)] - w[token(p)] <= Addition("stx", from, n).token[p]
    BY Zenon DEF Outflow
  <2>1. STX(v, p) \in Nat /\ v[token(p)] \in Nat
    BY Zenon, StoreFacts
  <2>2. STX(w, p) = STX(v, p) + (IF p = to THEN n ELSE 0) - (IF p = from THEN n ELSE 0)
    BY <2>1 DEF STX, Moved
  <2> QED BY <2>1, <2>2, AdditionFacts
<1>11. Event("stx", from, to, n) \in Events
  BY DEF Event, Events, Someone
<1> QED
  BY Zenon, <1>9, <1>10, <1>11, MovesStep DEF AssetKinds, w

\* The principals and amounts that a transaction names.
LEMMA TxFacts ==
    ASSUME Inv, pc /= "idle"
    PROVE  /\ tx \in Txs /\ tx.origin \in Principals /\ tx.payer \in Principals /\ tx.to \in Principals
           /\ {tx.nonce, tx.payer_nonce, tx.fee, tx.amount} \subseteq Nat
           /\ \A n \in tx.amounts : n \in Nat
           /\ \A p \in Senders : p \in Principals
<1>1. tx \in Txs
  BY DEF Inv, TypeOK
<1>2. /\ tx.origin \in Users /\ tx.payer \in Users /\ tx.to \in Principals
      /\ {tx.nonce, tx.payer_nonce, tx.fee, tx.amount} \cup tx.amounts \subseteq Nat
  BY Zenon, <1>1, TransactionAssumption
<1> QED
  BY <1>1, <1>2 DEF Principals, Senders

\* STX are burnt: the burner loses what is logged.
LEMMA BurnStep ==
    ASSUME Inv, pc = "run", top.kind = "call", NEW from \in Principals, NEW n \in Nat, can_transfer(Now(stx(from)), n),
           Moves(Put(stx(from), debit(Now(stx(from)), n)), "burn", from, n, Event("stx", from, NoOne, n))
    PROVE  Inv'
<1> DEFINE v == Views[Top + 1]
           x == debit(Now(stx(from)), n)
           m == Put(stx(from), x)
           w == Over(m)
<1>1. StoreInv /\ height \in Nat /\ IsStore(v)
  BY InnerFacts DEF Inner
<1> USE <1>1
<1>3. Now(stx(from)) = v[stx(from)] /\ v[stx(from)] \in Balances
  BY Zenon, Current, KeyFacts, StoreFacts
<1>4. Moved(v[stx(from)], x, -n)
  BY Zenon, <1>3, DebitMoves
<1> USE <1>4
<1>5. stx(from) \in Keys /\ x \in AllValues
  BY KeyFacts DEF AllValues, Moved
<1>6. Moves(m, "burn", from, n, Event("stx", from, NoOne, n))
  BY Zenon
<1> HIDE DEF x
<1>7. /\ \A j \in DOMAIN m : m[j] \in AllValues
      /\ w[stx(from)] = x
      /\ \A j \in Keys : j /= stx(from) => w[j] = v[j]
  BY Zenon, <1>5, OverOne
<1> USE <1>7
<1> HIDE DEF m, w
<1>8. /\ \A p \in Principals :
            /\ w[nonce(p)] = v[nonce(p)] /\ w[token(p)] = v[token(p)] /\ w[stacker(p)] = v[stacker(p)]
            /\ p /= from => w[stx(p)] = v[stx(p)]
      /\ w[supply] = v[supply] /\ w[item] = v[item]
  BY Zenon, KeyFacts
<1> USE <1>8
<1>9. ASSUME NEW p \in Principals
      PROVE  w[stx(p)] \in Balances /\ (w[stx(p)].locked > 0 => w[stx(p)].unlock_height <= w[stacker(p)])
  BY Zenon DEF IsStore, Moved
<1>10. IsStore(w)
  BY Zenon, <1>9, OverStore DEF w, IsStore
<1>11. Outflow(v, w, Addition("burn", from, n), NoOne, 0)
  <2> SUFFICES ASSUME NEW p \in Principals
               PROVE  /\ STX(v, p) - STX(w, p) - (IF p = NoOne THEN 0 ELSE 0)
                            <= Addition("burn", from, n).stx[p] + Addition("burn", from, n).burn[p]
                      /\ v[token(p)] - w[token(p)] <= Addition("burn", from, n).token[p]
    BY Zenon DEF Outflow
  <2>1. STX(v, p) \in Nat /\ v[token(p)] \in Nat
    BY Zenon, StoreFacts
  <2>2. STX(w, p) = STX(v, p) - (IF p = from THEN n ELSE 0)
    BY <2>1 DEF STX, Moved
  <2> QED BY SMTT(30), <2>1, <2>2, AdditionFacts
<1>12. Event("stx", from, NoOne, n) \in Events
  BY Zenon DEF Event, Events, Someone
<1> QED
  BY Zenon, <1>6, <1>10, <1>11, <1>12, MovesStep DEF AssetKinds, w

\* Tokens are minted: nobody loses anything.
LEMMA MintTokenStep ==
    ASSUME Inv, pc = "run", top.kind = "call", NEW to \in Principals, NEW n \in Nat,
           Moves(And(Put(supply, Now(supply) + n), Put(token(to), Now(token(to)) + n)),
                 "none", NoOne, 0, Event("token", NoOne, to, n))
    PROVE  Inv'
<1> DEFINE v == Views[Top + 1]
           x == Now(supply) + n
           y == Now(token(to)) + n
           m == And(Put(supply, x), Put(token(to), y))
           w == Over(m)
<1>1. StoreInv /\ height \in Nat /\ IsStore(v)
  BY InnerFacts DEF Inner
<1> USE <1>1
<1>3. Now(supply) = v[supply] /\ Now(token(to)) = v[token(to)] /\ v[supply] \in Nat /\ v[token(to)] \in Nat
  BY Zenon, Current, KeyFacts, StoreFacts
<1>4. x \in Nat /\ y = v[token(to)] + n /\ y \in Nat
  BY <1>3
<1> USE <1>4
<1>5. supply \in Keys /\ token(to) \in Keys /\ supply /= token(to) /\ x \in AllValues /\ y \in AllValues
  BY Zenon, KeyFacts DEF AllValues
<1>6. Moves(m, "none", NoOne, 0, Event("token", NoOne, to, n))
  BY Zenon
<1> HIDE DEF x, y
<1>7. /\ \A j \in DOMAIN m : m[j] \in AllValues
      /\ w[supply] = x /\ w[token(to)] = y
      /\ \A j \in Keys : j /= supply /\ j /= token(to) => w[j] = v[j]
  BY SMTT(30), <1>5, OverTwo
<1> USE <1>7
<1> HIDE DEF m, w
<1>8. /\ \A p \in Principals :
            /\ w[nonce(p)] = v[nonce(p)] /\ w[stx(p)] = v[stx(p)] /\ w[stacker(p)] = v[stacker(p)]
            /\ p /= to => w[token(p)] = v[token(p)]
      /\ w[item] = v[item]
  BY Zenon, KeyFacts
<1> USE <1>8
<1>9. \A p \in Principals : w[token(p)] \in Nat /\ v[token(p)] \in Nat /\ v[token(p)] - w[token(p)] <= 0
  BY StoreFacts
<1>10. IsStore(w)
  BY Zenon, <1>9, OverStore DEF w, IsStore
<1>11. Outflow(v, w, Addition("none", NoOne, 0), NoOne, 0)
  <2> SUFFICES ASSUME NEW p \in Principals
               PROVE  /\ STX(v, p) - STX(w, p) - (IF p = NoOne THEN 0 ELSE 0)
                            <= Addition("none", NoOne, 0).stx[p] + Addition("none", NoOne, 0).burn[p]
                      /\ v[token(p)] - w[token(p)] <= Addition("none", NoOne, 0).token[p]
    BY DEF Outflow
  <2>1. STX(v, p) \in Nat /\ STX(w, p) = STX(v, p)
    BY Zenon, StoreFacts DEF STX
  <2> QED BY SMTT(30), <1>9, <2>1, AdditionFacts
<1>12. Event("token", NoOne, to, n) \in Events
  BY Zenon DEF Event, Events, Someone
<1> QED
  BY Zenon, <1>6, <1>10, <1>11, <1>12, MovesStep DEF w

\* Tokens move: the sender loses what is logged.
LEMMA TransferTokenStep ==
    ASSUME Inv, pc = "run", top.kind = "call", NEW from \in Principals, NEW to \in Principals, NEW n \in Nat,
           from /= to, Now(token(from)) >= n,
           Moves(And(Put(token(from), Now(token(from)) - n), Put(token(to), Now(token(to)) + n)),
                 "token", from, n, Event("token", from, to, n))
    PROVE  Inv'
<1> DEFINE v == Views[Top + 1]
           x == Now(token(from)) - n
           y == Now(token(to)) + n
           m == And(Put(token(from), x), Put(token(to), y))
           w == Over(m)
<1>1. StoreInv /\ height \in Nat /\ IsStore(v)
  BY Zenon, InnerFacts DEF Inner
<1> USE <1>1
<1>3. Now(token(from)) = v[token(from)] /\ Now(token(to)) = v[token(to)] /\ v[token(from)] \in Nat /\ v[token(to)] \in Nat
  BY Zenon, Current, KeyFacts, StoreFacts
<1>4. x = v[token(from)] - n /\ x \in Nat /\ y = v[token(to)] + n /\ y \in Nat
  BY SMTT(30), <1>3
<1> USE <1>4
<1>5. token(from) \in Keys /\ token(to) \in Keys /\ token(from) /= token(to) /\ x \in AllValues /\ y \in AllValues
  BY Zenon, KeyFacts DEF AllValues
<1>6. Moves(m, "token", from, n, Event("token", from, to, n))
  BY Zenon
<1> HIDE DEF x, y
<1>7. /\ \A j \in DOMAIN m : m[j] \in AllValues
      /\ w[token(from)] = x /\ w[token(to)] = y
      /\ \A j \in Keys : j /= token(from) /\ j /= token(to) => w[j] = v[j]
  BY SMTT(30), <1>5, OverTwo
<1> USE <1>7
<1> HIDE DEF m, w
<1>8. /\ \A p \in Principals :
            /\ w[nonce(p)] = v[nonce(p)] /\ w[stx(p)] = v[stx(p)] /\ w[stacker(p)] = v[stacker(p)]
            /\ p /= from /\ p /= to => w[token(p)] = v[token(p)]
      /\ w[item] = v[item] /\ w[supply] = v[supply]
  BY Zenon, KeyFacts
<1> USE <1>8
<1>9. \A p \in Principals : w[token(p)] \in Nat /\ v[token(p)] \in Nat /\ v[token(p)] - w[token(p)] <= (IF p = from THEN n ELSE 0)
  BY StoreFacts
<1>10. IsStore(w)
  BY Zenon, <1>9, OverStore DEF w, IsStore
<1>11. Outflow(v, w, Addition("token", from, n), NoOne, 0)
  <2> SUFFICES ASSUME NEW p \in Principals
               PROVE  /\ STX(v, p) - STX(w, p) - (IF p = NoOne THEN 0 ELSE 0)
                            <= Addition("token", from, n).stx[p] + Addition("token", from, n).burn[p]
                      /\ v[token(p)] - w[token(p)] <= Addition("token", from, n).token[p]
    BY DEF Outflow
  <2>1. STX(v, p) \in Nat /\ STX(w, p) = STX(v, p)
    BY Zenon, StoreFacts DEF STX
  <2> QED BY SMTT(30), <1>9, <2>1, AdditionFacts
<1>12. Event("token", from, to, n) \in Events
  BY Zenon DEF Event, Events, Someone
<1> QED
  BY Zenon, <1>6, <1>10, <1>11, <1>12, MovesStep DEF AssetKinds, w

\* The item is minted (kind is "none") or leaves its owner.
LEMMA ItemStep ==
    ASSUME Inv, pc = "run", top.kind = "call", NEW to \in Principals, NEW kind, NEW from, NEW n \in Nat,
           \/ Now(item) = NoOne /\ kind = "none"
           \/ Now(item) /= NoOne /\ kind = "asset" /\ from = Now(item) /\ n = 1,
           NEW e \in Events, Moves(Put(item, to), kind, from, n, e)
    PROVE  Inv'
<1> DEFINE v == Views[Top + 1]
           m == Put(item, to)
           w == Over(m)
<1>1. StoreInv /\ height \in Nat /\ IsStore(v)
  BY InnerFacts DEF Inner
<1> USE <1>1
<1>3. Now(item) = v[item] /\ v[item] \in Someone
  BY Zenon, Current, KeyFacts, StoreFacts
<1>4. item \in Keys /\ to \in AllValues /\ to \in Someone
  BY Zenon, KeyFacts DEF AllValues, Someone
<1>5. kind \in AssetKinds \cup {"none"} /\ (kind /= "none" => from \in Principals)
  BY Zenon, <1>3 DEF Someone, AssetKinds
<1>7. /\ \A j \in DOMAIN m : m[j] \in AllValues
      /\ w[item] = to
      /\ \A j \in Keys : j /= item => w[j] = v[j]
  BY Zenon, <1>4, OverOne
<1> USE <1>7
<1>6. Moves(m, kind, from, n, e)
  BY Zenon
<1> HIDE DEF m, w
<1>8. /\ \A p \in Principals :
            /\ w[nonce(p)] = v[nonce(p)] /\ w[stx(p)] = v[stx(p)] /\ w[stacker(p)] = v[stacker(p)] /\ w[token(p)] = v[token(p)]
      /\ w[supply] = v[supply]
  BY Zenon, KeyFacts
<1> USE <1>8
<1>10. IsStore(w)
  <2>1. \A p \in Principals :
            /\ w[stx(p)] \in Balances /\ {w[nonce(p)], w[token(p)], w[stacker(p)]} \subseteq Nat
            /\ w[stx(p)].locked > 0 => w[stx(p)].unlock_height <= w[stacker(p)]
    BY DEF IsStore
  <2>2. w[supply] \in Nat /\ w[item] \in Someone
    BY Zenon, <1>4 DEF IsStore
  <2> QED BY Zenon, <2>1, <2>2, OverStore DEF w
<1>11. Outflow(v, w, Addition(kind, from, n), NoOne, 0)
  <2> SUFFICES ASSUME NEW p \in Principals
               PROVE  /\ STX(v, p) - STX(w, p) - (IF p = NoOne THEN 0 ELSE 0)
                            <= Addition(kind, from, n).stx[p] + Addition(kind, from, n).burn[p]
                      /\ v[token(p)] - w[token(p)] <= Addition(kind, from, n).token[p]
                      /\ v[item] = p /\ w[item] /= p => Addition(kind, from, n).asset[p] > 0
    BY DEF Outflow
  <2>1. STX(v, p) \in Nat /\ STX(w, p) = STX(v, p) /\ v[token(p)] \in Nat /\ p /= NoOne
    BY Zenon, StoreFacts DEF STX
  <2> QED BY SMTT(30), <1>3, <2>1, AdditionFacts
<1> QED
  BY Zenon, <1>5, <1>6, <1>10, <1>11, MovesStep DEF w

\* stack-stx writes down a lock that can be made.
LEMMA StackStep ==
    ASSUME Inv, stack_stx
    PROVE  Inv'
<1> DEFINE v == Views[Top + 1]
           l == Len(frames)
           who == top.who
           x == height + LockPeriod
           m == Put(stacker(who), x)
           w == Over(m)
<1>1. pc = "run" /\ top.kind = "pox" /\ Now(stacker(who)) <= height /\ put(m) /\ UNCHANGED <<pc, tx, result, height, parent>>
  BY Zenon DEF stack_stx, Runs, ledger
<1> USE <1>1
<1>3. StoreInv /\ height \in Nat /\ IsStore(v) /\ frames \in Seq(Frames) /\ l \in Nat /\ l > 1
  BY Zenon, InnerFacts DEF Inner
<1> USE <1>3
<1>20. l /= 1
  <2>1. \A i \in Nat : i > 1 => i /= 1
    OBVIOUS
  <2> QED BY Zenon, <2>1
<1>2. PICK n \in tx.amounts : n > 0 /\ can_transfer(Now(stx(who)), n) /\ frames' = WithStacked(frames, l, n)
  BY Zenon DEF stack_stx, WithStacked
<1>4. n \in Nat
  BY Zenon, TxFacts
<1>5. l \in 1..l
  OBVIOUS
<1> USE <1>5
<1>6. top = frames[l] /\ who \in Principals /\ top.assets \in AssetMaps
  BY Zenon, FrameFacts DEF top, Last, Inv, TypeOK, FramesOK
<1> USE <1>6
<1>7. /\ Now(stacker(who)) = v[stacker(who)] /\ Now(stx(who)) = v[stx(who)] /\ stacker(who) \in Keys
      /\ v[stacker(who)] \in Nat /\ v[stx(who)] \in Balances
      /\ v[stx(who)].locked > 0 => v[stx(who)].unlock_height <= v[stacker(who)]
  BY Zenon, Current, KeyFacts DEF IsStore
<1> USE <1>7
<1>8. x \in Nat /\ x \in AllValues /\ height <= x
  BY SMTT(30), TransactionAssumption DEF AllValues
<1> USE <1>8
<1> HIDE DEF x, who
<1>9. /\ \A j \in DOMAIN m : m[j] \in AllValues
      /\ w[stacker(who)] = x
      /\ \A j \in Keys : j /= stacker(who) => w[j] = v[j]
  BY Zenon, OverOne
<1> USE <1>9
<1> HIDE DEF m, w
<1>10. /\ \A p \in Principals :
            /\ w[nonce(p)] = v[nonce(p)] /\ w[stx(p)] = v[stx(p)] /\ w[token(p)] = v[token(p)]
            /\ p /= who => w[stacker(p)] = v[stacker(p)]
       /\ w[item] = v[item] /\ w[supply] = v[supply]
  BY Zenon, KeyFacts
<1> USE <1>10
<1>11. v[stx(who)].locked > 0 => v[stx(who)].unlock_height <= height /\ v[stx(who)].unlock_height <= x
  BY DEF Balances
<1>12. IsStore(w)
  <2>1. ASSUME NEW p \in Principals
        PROVE  /\ w[stx(p)] \in Balances /\ {w[nonce(p)], w[token(p)], w[stacker(p)]} \subseteq Nat
               /\ w[stx(p)].locked > 0 => w[stx(p)].unlock_height <= w[stacker(p)]
    BY Zenon, <1>11 DEF IsStore
  <2>2. w[supply] \in Nat /\ w[item] \in Someone
    BY Zenon DEF IsStore
  <2> QED BY Zenon, <2>1, <2>2, OverStore DEF w
<1>13. Outflow(v, w, Addition("none", NoOne, 0), NoOne, 0) /\ Addition("none", NoOne, 0) \in AssetMaps
  <2> SUFFICES ASSUME NEW p \in Principals
               PROVE  /\ STX(v, p) - STX(w, p) - (IF p = NoOne THEN 0 ELSE 0)
                            <= Addition("none", NoOne, 0).stx[p] + Addition("none", NoOne, 0).burn[p]
                      /\ v[token(p)] - w[token(p)] <= Addition("none", NoOne, 0).token[p]
    BY AssetFacts DEF Outflow
  <2>1. STX(v, p) \in Nat /\ STX(w, p) = STX(v, p) /\ v[token(p)] \in Nat
    BY ZenonT(30), StoreFacts DEF STX
  <2> QED BY SMTT(30), <2>1, AdditionFacts
<1>14. EditOf(frames, frames', l) /\ frames'[l].assets = frames[l].assets /\ frames'[l].stacked = n
  BY Zenon, <1>2, <1>4, EditFrames
<1> USE <1>14
<1>15. FramesOK' /\ Len(frames') = l /\ (\A i \in 1..l : i /= l => frames'[i] = frames[i]) /\ top' = frames'[l]
  BY SMTT(30) DEF Inv, TypeOK, FramesOK, EditOf, top, Last
<1>16. frames'[l].assets = commit_other(top.assets, Addition("none", NoOne, 0))
  BY AssetFacts
<1>17. LocksKept'
  <2>1. top'.who = who /\ top'.stacked = n
    BY Zenon, <1>15 DEF EditOf, who
  <2>2. Views'[Top' + 1] = w
    BY Zenon, <1>12, AfterPut DEF w
  <2>3. ~has_locked_tokens(w[stx(who)])
    BY SMTT(30), <1>11 DEF has_locked_tokens, Balances
  <2>4. can_transfer(w[stx(who)], n)
    BY Zenon, <1>2
  <2>5. Lockable(w, who, n)
    BY Zenon, <2>3, <2>4 DEF Lockable, x
  <2>6. Lockable(Views[Top + 1], top.who, top.stacked)'
    BY Zenon, <2>1, <2>2, <2>5 DEF Lockable, has_locked_tokens, can_transfer, unlock_available_tokens_if_any
  <2>7. pc' /= "lock"
    BY Zenon
  <2> QED BY Zenon, <2>6, <2>7 DEF LocksKept
<1>18. pc' = (IF l = 1 THEN "leave" ELSE "run")
  BY Zenon, <1>20
<1> QED
  BY Zenon, <1>12, <1>13, <1>15, <1>16, <1>17, <1>18, WriteStep DEF w

\* The lock that stack-stx promised is made: no balance changes its total.
LEMMA LockStep ==
    ASSUME Inv, pox_lock
    PROVE  Inv'
<1> DEFINE v == Views[Top + 1]
           l == Len(frames)
           who == locking.who
           n == locking.amount
           u == height + LockPeriod
           x == lock_tokens(Now(stx(who)), n, u)
           m == Put(stx(who), x)
           w == Over(m)
           e == Event("lock", who, who, n)
<1>1. /\ pc = "lock" /\ put(m) /\ UNCHANGED <<tx, result, height, parent>>
      /\ frames' = WithEvent(frames, l, e)
      /\ pc' = (IF l = 1 THEN "leave" ELSE "run")
  BY Zenon DEF pox_lock, ledger, WithEvent, Goto
<1> USE <1>1
<1>2. who \in Principals /\ n \in Nat /\ Lockable(v, who, n) /\ top.kind /= "pox"
  BY Zenon DEF Inv, TypeOK, LocksKept
<1>3. StoreInv /\ height \in Nat /\ IsStore(v) /\ frames \in Seq(Frames) /\ l \in Nat
  BY Zenon, InnerFacts DEF Inner
<1> USE <1>3
<1>4. l > 0
  BY DEF Inv, Contexts
<1>5. l \in 1..l
  BY <1>4
<1>6. top = frames[l] /\ top.assets \in AssetMaps
  BY Zenon, <1>5, FrameFacts DEF top, Last
<1>7. Now(stx(who)) = v[stx(who)] /\ stx(who) \in Keys /\ v[stx(who)] \in Balances
  BY Zenon, <1>2, Current, KeyFacts DEF IsStore
<1>8. u \in Nat
  BY SMTT(30), TransactionAssumption
<1>9. x \in Balances /\ get_total_balance(x) = get_total_balance(v[stx(who)]) /\ x.unlock_height = u /\ v[stacker(who)] = u
  <2>1. v[stacker(who)] = u /\ ~has_locked_tokens(v[stx(who)]) /\ can_transfer(v[stx(who)], n)
    BY Zenon, <1>2 DEF Lockable
  <2>2. x = lock_tokens(v[stx(who)], n, u)
    BY Zenon, <1>7
  <2> HIDE DEF x, u, n
  <2> QED BY SMTT(30), <1>2, <1>7, <1>8, <2>1, <2>2, LockMoves
<1>10. x \in AllValues
  BY Zenon, <1>9 DEF AllValues
<1> HIDE DEF x, who, u, n
<1>11. /\ \A j \in DOMAIN m : m[j] \in AllValues
       /\ w[stx(who)] = x
       /\ \A j \in Keys : j /= stx(who) => w[j] = v[j]
  BY Zenon, <1>7, <1>10, OverOne
<1> USE <1>11
<1> HIDE DEF m, w
<1>12. /\ \A p \in Principals :
            /\ w[nonce(p)] = v[nonce(p)] /\ w[stacker(p)] = v[stacker(p)] /\ w[token(p)] = v[token(p)]
            /\ p /= who => w[stx(p)] = v[stx(p)]
       /\ w[item] = v[item] /\ w[supply] = v[supply]
  BY Zenon, KeyFacts
<1> USE <1>12
<1>13. IsStore(w)
  <2>1. ASSUME NEW p \in Principals
        PROVE  /\ w[stx(p)] \in Balances /\ {w[nonce(p)], w[token(p)], w[stacker(p)]} \subseteq Nat
               /\ w[stx(p)].locked > 0 => w[stx(p)].unlock_height <= w[stacker(p)]
    <3>1. CASE p = who
      <4>1. u <= u
        BY SMTT(30), <1>8
      <4> QED BY Zenon, <1>9, <3>1, <4>1 DEF IsStore
    <3>2. CASE p /= who
      BY Zenon, <3>2 DEF IsStore
    <3> QED BY <3>1, <3>2
  <2>2. w[supply] \in Nat /\ w[item] \in Someone
    BY Zenon DEF IsStore
  <2> QED BY Zenon, <2>1, <2>2, OverStore DEF w
<1>14. Outflow(v, w, Addition("none", NoOne, 0), NoOne, 0) /\ Addition("none", NoOne, 0) \in AssetMaps
  <2> SUFFICES ASSUME NEW p \in Principals
               PROVE  /\ STX(v, p) - STX(w, p) - (IF p = NoOne THEN 0 ELSE 0)
                            <= Addition("none", NoOne, 0).stx[p] + Addition("none", NoOne, 0).burn[p]
                      /\ v[token(p)] - w[token(p)] <= Addition("none", NoOne, 0).token[p]
    BY Zenon, AssetFacts DEF Outflow
  <2>1. STX(w, p) = STX(v, p)
    BY Zenon, <1>9 DEF STX
  <2>2. STX(v, p) \in Nat /\ v[token(p)] \in Nat
    BY Zenon, StoreFacts
  <2> QED BY SMTT(30), <2>1, <2>2, AdditionFacts
<1>15. e \in Events
  BY Zenon, <1>2 DEF Event, Events, Someone
<1>16. EditOf(frames, frames', l) /\ frames'[l].assets = frames[l].assets
  BY Zenon, <1>5, <1>15, EditFrames
<1>17. FramesOK' /\ Len(frames') = l /\ (\A i \in 1..l : i /= l => frames'[i] = frames[i]) /\ top' = frames'[l]
  BY SMTT(30), <1>16 DEF Inv, TypeOK, FramesOK, EditOf, top, Last
<1>18. frames'[l].assets = commit_other(top.assets, Addition("none", NoOne, 0))
  BY SMTT(30), <1>6, <1>16, AssetFacts
<1>19. LocksKept'
  <2>1. top'.kind /= "pox" /\ pc' /= "lock"
    BY Zenon, <1>2, <1>5, <1>6, <1>16, <1>17 DEF EditOf
  <2> QED BY Zenon, <2>1 DEF LocksKept
<1> QED
  BY Zenon, <1>13, <1>14, <1>17, <1>18, <1>19, WriteStep DEF w

-----------------------------------------------------------------------------
(* The way in and out. *)
Results == [status : {"none", "ok", "runtime_error", "aborted"}, assets : AssetMaps, events : Seq(Events)]

\* The results that a payload can end with.
LEMMA ResultFacts ==
    /\ Ended("none", Nothing) \in Results
    /\ \A status \in {"ok", "runtime_error"} :
            /\ Ended(status, Nothing) \in Results
            /\ Ended(status, Nothing).status = status
            /\ Ended(status, Nothing).assets = NoAssets
    /\ \A f \in Frames : /\ Ended("ok", f) \in Results
                         /\ Ended("ok", f).status = "ok" /\ Ended("ok", f).assets = f.assets
    /\ \A r \in Results : [r EXCEPT !.status = "aborted"] \in Results /\ [r EXCEPT !.status = "aborted"].status = "aborted"
<1>1. Nothing \in Frames /\ Nothing.assets = NoAssets
  BY Zenon, NewFrame DEF Nothing, Frame, Someone
<1>2. \A status \in {"none", "ok", "runtime_error"}, f \in Frames :
            Ended(status, f) \in Results /\ Ended(status, f).status = status /\ Ended(status, f).assets = f.assets
  BY DEF Ended, Frames, Results
<1>3. \A r \in Results : [r EXCEPT !.status = "aborted"] \in Results /\ [r EXCEPT !.status = "aborted"].status = "aborted"
  BY DEF Results
<1> QED
  BY <1>1, <1>2, <1>3

\* Outside the payload there are no frames, and the contexts are those of the step.
LEMMA OuterStep ==
    ASSUME StoreInv', frames' = <<>>, IsStore(parent'.store), height' \in Nat \ {0}, result' \in Results,
           pc' \in {"idle", "payload", "env", "check", "fee", "nonces", "commit", "invalid"},
           pc' /= "idle" => tx' \in Txs, pc' = "idle" => Top' = 0,
           pc' \in {"payload", "fee", "nonces", "commit"} => Top' = 1,
           pc' \in {"env", "check"} => Top' = 2,
           NoncesKept', PayloadApart', WayOut'
    PROVE  Inv'
<1>1. Len(frames') = 0 /\ frames' \in Seq(Frames)
  OBVIOUS
<1>2. \A i \in 1..Len(frames') : FALSE
  OBVIOUS
<1>3. TypeOK'
  BY DEF TypeOK, FramesOK, StoreInv, Results
<1>4. Contexts'
  BY DEF Contexts
<1>5. FramesLogged'
  BY DEF FramesLogged
<1>6. LocksKept'
  BY DEF LocksKept
<1> QED
  BY Zenon, <1>3, <1>4, <1>5, <1>6 DEF Inv, StoreInv

\* What is known outside the frames.
LEMMA OutsideFacts ==
    ASSUME Inv, pc \notin Inner \ {"env"}
    PROVE  /\ StoreInv /\ Top \in Nat /\ frames = <<>> /\ IsStore(parent.store) /\ height \in Nat \ {0} /\ height \in Nat
           /\ result \in Results
           /\ pc = "idle" => Top = 0
           /\ pc \in {"payload", "fee", "nonces", "commit"} => Top = 1
           /\ pc \in {"env", "check"} => Top = 2
<1>1. StoreInv /\ IsStore(parent.store) /\ height \in Nat \ {0} /\ result \in Results
  BY DEF Inv, StoreInv, TypeOK, Results
<1>2. height \in Nat
  BY Zenon, <1>1
<1>3. /\ frames = <<>>
      /\ pc = "idle" => Top = 0
      /\ pc \in {"payload", "fee", "nonces", "commit"} => Top = 1
      /\ pc \in {"env", "check"} => Top = 2
  BY DEF Inv, Contexts, Inner
<1> QED
  BY Zenon, <1>1, <1>3, Current

\* A transaction starts with the nonces of its accounts.
LEMMA StartStep ==
    ASSUME Inv, NEW t \in Txs, start_transaction_processing(t)
    PROVE  Inv'
<1>1. /\ pc = "idle" /\ nest /\ pc' = "payload" /\ tx' = t /\ UNCHANGED <<frames, result, height, parent>>
      /\ t.nonce = Now(nonce(t.origin)) /\ t.payer_nonce = Now(nonce(t.payer))
  BY Zenon DEF start_transaction_processing, check_transaction_nonces, Goto
<1> USE <1>1
<1>2. /\ StoreInv /\ Top = 0 /\ frames = <<>> /\ IsStore(parent.store) /\ height \in Nat \ {0} /\ result \in Results
  BY Zenon, OutsideFacts DEF Inner
<1> USE <1>2
<1>3. /\ StoreInv' /\ Top' = Top + 1 /\ store' = store
      /\ \A d \in 1..(Top + 1) : Views'[d] = Views[d]
      /\ Views'[Top + 2] = Views[Top + 1]
  BY Zenon, AfterNest
<1> USE <1>3
<1>4. Top' = 1 /\ Top + 1 = 1 /\ Top + 2 = 2 /\ 1 \in 1..(Top + 1)
  OBVIOUS
<1> USE <1>4
<1>5. store = Views[1] /\ \A k \in Keys : Now(k) = store[k]
  BY Zenon, Current
<1>6. Views'[1] = store /\ Views'[2] = store
  BY <1>5
<1>7. NoncesKept'
  <2>1. t.origin \in Principals /\ t.payer \in Principals
    BY Zenon, TransactionAssumption DEF Principals
  <2>2. t.nonce = store[nonce(t.origin)] /\ t.payer_nonce = store[nonce(t.payer)]
    BY Zenon, <1>5, <2>1, KeyFacts
  <2>3. \A d \in 1..(Top' + 1) : d = 1 \/ d = 2
    OBVIOUS
  <2>4. \A d \in 1..(Top' + 1) : Views'[d] = store
    BY Zenon, <1>6, <2>3
  <2> QED BY Zenon, <2>2, <2>4 DEF NoncesKept
<1>8. PayloadApart'
  BY Zenon, <1>6 DEF PayloadApart
<1>9. WayOut'
  BY Zenon DEF WayOut
<1> QED
  BY Zenon, <1>7, <1>8, <1>9, OuterStep

\* A fee of nothing changes nothing.
LEMMA OutflowFree ==
    ASSUME NEW u, NEW v, NEW a, NEW p, Outflow(u, v, a, NoOne, 0)
    PROVE  Outflow(u, v, a, p, 0)
<1>1. \A q : (IF q = NoOne THEN 0 ELSE 0) = 0 /\ (IF q = p THEN 0 ELSE 0) = 0
  BY Zenon
<1> QED
  BY DEF Outflow

\* The payload opens its context or ends at once: coinbases do nothing.
LEMMA PayloadStep ==
    ASSUME Inv, process_transaction_payload
    PROVE  Inv'
<1>1. pc = "payload" /\ UNCHANGED <<tx, frames, height, parent>>
  BY Zenon DEF process_transaction_payload, ledger
<1> USE <1>1
<1>2. /\ StoreInv /\ Top = 1 /\ frames = <<>> /\ IsStore(parent.store) /\ height \in Nat \ {0} /\ result \in Results
      /\ tx \in Txs
  BY Zenon, OutsideFacts, TxFacts DEF Inner
<1> USE <1>2
<1>3. /\ Views[2] = store /\ IsStore(store)
      /\ tx.nonce = store[nonce(tx.origin)] /\ tx.payer_nonce = store[nonce(tx.payer)]
      /\ \A d \in 1..(Top + 1), p \in Principals : Views[d][nonce(p)] = store[nonce(p)]
  BY Zenon, Current DEF Inv, PayloadApart, NoncesKept
<1> USE <1>3
<1>4. CASE tx.kind = "coinbase" /\ pc' = "fee" /\ result' = Ended("ok", Nothing) /\ UNCHANGED db
  <2>1. StoreInv' /\ Top' = Top /\ store' = store /\ Views' = Views
    BY Zenon, <1>4, AfterNothing
  <2> USE <2>1
  <2>2. result' \in Results /\ result'.status = "ok" /\ result'.assets = NoAssets
    BY <1>4, ResultFacts
  <2>3. Outflow(store, store, NoAssets, tx.payer, 0)
    BY Zenon, OutflowNone, OutflowFree, AssetFacts
  <2>4. NoncesKept'
    BY Zenon DEF NoncesKept
  <2>5. PayloadApart'
    BY <1>4 DEF PayloadApart
  <2>6. WayOut'
    BY Zenon, <1>4, <2>2, <2>3 DEF WayOut, Agreed
  <2> QED BY Zenon, <1>4, <2>2, <2>4, <2>5, <2>6, OuterStep
<1>5. CASE pc' = "invalid" /\ UNCHANGED <<db, result>>
  BY Zenon, <1>5, AfterNothing, OuterStep DEF NoncesKept, PayloadApart, WayOut
<1>6. CASE nest /\ pc' = "env" /\ UNCHANGED result
  <2>1. /\ StoreInv' /\ Top' = Top + 1 /\ store' = store
        /\ \A d \in 1..(Top + 1) : Views'[d] = Views[d]
        /\ Views'[Top + 2] = Views[Top + 1]
    BY Zenon, <1>6, AfterNest
  <2> USE <2>1
  <2>2. /\ Top' = 2 /\ Top + 2 = 3 /\ Top + 1 = 2 /\ 2 \in 1..(Top + 1)
        /\ \A d \in 1..(Top' + 1) : d \in 1..(Top + 1) \/ d = 3
    OBVIOUS
  <2> USE <2>2
  <2>3. Views'[2] = store /\ Views'[3] = store
    BY Zenon
  <2>4. \A d \in 1..(Top' + 1), p \in Principals : Views'[d][nonce(p)] = store[nonce(p)]
    <3> TAKE d \in 1..(Top' + 1), p \in Principals
    <3>1. CASE d = 3
      BY Zenon, <2>3, <3>1
    <3>2. CASE d \in 1..(Top + 1)
      BY Zenon, <3>2
    <3> QED BY Zenon, <3>1, <3>2
  <2>5. NoncesKept'
    BY Zenon, <2>4 DEF NoncesKept
  <2>6. PayloadApart'
    BY Zenon, <2>3 DEF PayloadApart
  <2>7. WayOut'
    BY Zenon, <1>6 DEF WayOut
  <2> QED BY Zenon, <1>6, <2>5, <2>6, <2>7, OuterStep
<1> QED
  BY Zenon, <1>4, <1>5, <1>6 DEF process_transaction_payload, Goto

\* The outermost frame ends: what it logged is the result.
LEMMA LeaveStep ==
    ASSUME Inv, leave
    PROVE  Inv'
<1>1. pc = "leave" /\ commit /\ frames' = <<>> /\ result' = Ended("ok", top) /\ pc' = "check" /\ UNCHANGED <<tx, height, parent>>
  BY Zenon DEF leave, Goto, ledger
<1> USE <1>1
<1>2. /\ StoreInv /\ Top = Len(frames) + 2 /\ frames \in Seq(Frames) /\ tx \in Txs /\ Len(frames) = 1
      /\ \A d \in 1..(Top + 1), p \in Principals : Views[d][nonce(p)] = store[nonce(p)]
      /\ tx.nonce = store[nonce(tx.origin)] /\ tx.payer_nonce = store[nonce(tx.payer)]
      /\ Views[2] = store /\ Views[3] = store /\ IsStore(parent.store) /\ height \in Nat \ {0}
  BY Zenon, InnerFacts DEF Inner, Inv, Contexts, NoncesKept, PayloadApart, TypeOK
<1> USE <1>2
<1>3. Top = 3 /\ Top > 1 /\ 1 \in 1..Len(frames)
  OBVIOUS
<1> USE <1>3
<1>4. /\ StoreInv' /\ Top' = Top - 1 /\ store' = store
      /\ \A d \in 1..(Top - 1) : Views'[d] = Views[d]
      /\ Views'[Top] = Views[Top + 1]
  BY Zenon, AfterCommit
<1> USE <1>4
<1>5. /\ Top' = 2 /\ Top = 3 /\ Top + 1 = 4 /\ 4 \in 1..(Top + 1) /\ 2 \in 1..(Top - 1)
      /\ \A d \in 1..(Top' + 1) : d = 3 \/ (d \in 1..(Top - 1) /\ d \in 1..(Top + 1))
      /\ 1 + 2 = 3 /\ 1 + 3 = 4
  BY SMTT(30)
<1> USE <1>5
<1>6. Views'[3] = Views[4] /\ Views'[2] = store
  BY Zenon
<1> USE <1>6
<1>7. top = frames[1] /\ top \in Frames
  BY Zenon, FrameFacts DEF top, Last
<1>8. result' \in Results /\ result'.status = "ok" /\ result'.assets = top.assets
  BY Zenon, <1>7, ResultFacts
<1>9. Outflow(store, Views[4], top.assets, NoOne, 0)
  <2>1. pc /= "raise"
    BY Zenon
  <2>2. Outflow(Views[1 + 2], Views[1 + 3], frames[1].assets, NoOne, 0)
    BY Zenon, <2>1 DEF Inv, FramesLogged
  <2> QED BY Zenon, <1>7, <2>2
<1>10. \A d \in 1..(Top' + 1), p \in Principals : Views'[d][nonce(p)] = store[nonce(p)]
  <2> TAKE d \in 1..(Top' + 1), p \in Principals
  <2>1. CASE d = 3
    BY Zenon, <2>1
  <2>2. CASE d /= 3
    BY <2>2
  <2> QED BY Zenon, <2>1, <2>2
<1>11. NoncesKept'
  BY Zenon, <1>10 DEF NoncesKept
<1>12. PayloadApart'
  BY Zenon DEF PayloadApart
<1>13. WayOut'
  BY Zenon, <1>8, <1>9 DEF WayOut
<1> QED
  BY Zenon, <1>8, <1>11, <1>12, <1>13, OuterStep

\* An error has unwound all frames: the payload did nothing.
LEMMA RaiseStep ==
    ASSUME Inv, raise
    PROVE  Inv'
<1>1. pc = "raise" /\ UNCHANGED <<tx, height, parent>>
  BY Zenon DEF raise, ledger
<1> USE <1>1
<1>2. CASE frames /= <<>> /\ roll_back /\ UNCHANGED <<pc, result>>
  BY Zenon, <1>2, PopStep
<1>3. CASE frames = <<>> /\ rollback /\ UNCHANGED frames
  <2>1. /\ StoreInv /\ Top = Len(frames) + 2 /\ tx \in Txs
        /\ \A d \in 1..(Top + 1), p \in Principals : Views[d][nonce(p)] = store[nonce(p)]
        /\ tx.nonce = store[nonce(tx.origin)] /\ tx.payer_nonce = store[nonce(tx.payer)]
        /\ Views[2] = store /\ IsStore(parent.store) /\ height \in Nat \ {0} /\ result \in Results
    BY Zenon, InnerFacts DEF Inner, Inv, NoncesKept, PayloadApart, TypeOK, Results
  <2> USE <2>1
  <2>2. Top = 2
    BY <1>3
  <2>3. /\ StoreInv' /\ Top' = Top - 1 /\ store' = store
        /\ \A d \in 1..Top : Views'[d] = Views[d]
    BY ZenonT(30), <1>3, AfterRollback
  <2> USE <2>3
  <2>4. Top' = 1 /\ 2 \in 1..Top /\ \A d \in 1..(Top' + 1) : d \in 1..Top /\ d \in 1..(Top + 1)
    BY <2>2
  <2>5. Views'[2] = store /\ \A d \in 1..(Top' + 1), p \in Principals : Views'[d][nonce(p)] = store[nonce(p)]
    OBVIOUS
  <2>6. NoncesKept'
    BY Zenon, <2>5 DEF NoncesKept
  <2>7. CASE pc' = "fee" /\ result' = Ended("runtime_error", Nothing)
    <3>1. result' \in Results /\ result'.status /= "ok"
      BY Zenon, <2>7, ResultFacts
    <3>2. PayloadApart'
      BY Zenon, <2>7 DEF PayloadApart
    <3>3. \A p \in Principals : STX(store, p) = STX(store, p) - (IF p = tx.payer THEN 0 ELSE 0)
      BY Current, StoreFacts
    <3>4. WayOut'
      BY Zenon, <2>5, <2>7, <3>1, <3>3 DEF WayOut, Agreed
    <3> QED BY Zenon, <1>3, <2>4, <2>6, <2>7, <3>1, <3>2, <3>4, OuterStep
  <2>8. CASE pc' = "invalid" /\ UNCHANGED result
    <3>1. PayloadApart' /\ WayOut'
      BY Zenon, <2>8 DEF PayloadApart, WayOut
    <3> QED BY ZenonT(30), <1>3, <2>6, <2>8, <3>1, OuterStep
  <2> QED BY Zenon, <1>3, <2>7, <2>8 DEF raise, Goto
<1> QED
  BY Zenon, <1>2, <1>3 DEF raise

=============================================================================
