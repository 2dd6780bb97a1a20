-------------------------- MODULE TransactionsProofs ------------------------
(***************************************************************************)
(* What holds of a transaction whatever its contracts do, for any number   *)
(* of principals, calls, frames and blocks: its assertions, the asset map  *)
(* that post-conditions are checked against, and what a transaction that   *)
(* is committed did to the store.  Module FrameProofs has the invariant    *)
(* and the call frames, and AssetProofs the operations of a contract.      *)
(***************************************************************************)
EXTENDS AssetProofs

\* Post-conditions decide whether the payload is kept.
LEMMA AbortStep ==
    ASSUME Inv, abort_call_back
    PROVE  Inv'
<1>1. pc = "check" /\ pc' = "fee" /\ UNCHANGED <<tx, frames, height, parent>>
  BY DEF abort_call_back, Goto, ledger
<1> USE <1>1
<1>2. /\ StoreInv /\ Top = 2 /\ frames = <<>> /\ IsStore(parent.store) /\ height \in Nat \ {0} /\ result \in Results
      /\ tx \in Txs
  BY Zenon, OutsideFacts, TxFacts DEF Inner
<1> USE <1>2
<1>3. /\ Views[2] = store /\ IsStore(store)
      /\ tx.nonce = store[nonce(tx.origin)] /\ tx.payer_nonce = store[nonce(tx.payer)]
      /\ \A d \in 1..(Top + 1), p \in Principals : Views[d][nonce(p)] = store[nonce(p)]
      /\ result.status = "ok" /\ Outflow(store, Views[3], result.assets, NoOne, 0)
  BY Zenon, Current DEF Inv, PayloadApart, NoncesKept, WayOut
<1> USE <1>3
<1>4. PayloadApart'
  BY DEF PayloadApart
<1>5. CASE (tx.kind = "transfer" \/ check_transaction_postconditions(result.assets)) /\ commit /\ UNCHANGED result
  <2>1. /\ StoreInv' /\ Top' = Top - 1 /\ (Top > 1 => store' = store)
        /\ \A d \in 1..(Top - 1) : Views'[d] = Views[d]
        /\ Views'[Top] = Views[Top + 1]
    BY Zenon, <1>5, AfterCommit
  <2> USE <2>1
  <2>2. /\ Top' = 1 /\ Top > 1 /\ Top + 1 = 3 /\ 3 \in 1..(Top + 1)
        /\ \A d \in 1..(Top' + 1) : d = 2 \/ (d \in 1..(Top - 1) /\ d \in 1..(Top + 1))
    OBVIOUS
  <2> USE <2>2
  <2>3. store' = store /\ Views'[2] = Views[3]
    BY Zenon
  <2> USE <2>3
  <2>4. \A d \in 1..(Top' + 1), p \in Principals : Views'[d][nonce(p)] = store[nonce(p)]
    <3> TAKE d \in 1..(Top' + 1), p \in Principals
    <3>1. CASE d = 2
      BY Zenon, <3>1
    <3>2. CASE d /= 2
      BY <3>2
    <3> QED BY Zenon, <3>1, <3>2
  <2>5. NoncesKept'
    BY Zenon, <2>4 DEF NoncesKept
  <2>6. Outflow(store, Views[3], result.assets, tx.payer, 0)
    BY Zenon, OutflowFree
  <2>7. tx.kind = "call" => check_transaction_postconditions(result.assets)
    BY Zenon, <1>5
  <2>8. (tx.kind = "call" => check_transaction_postconditions(result.assets))'
    BY <1>5 DEF check_transaction_postconditions
  <2>9. Agreed(Views[2], 0)'
    BY Zenon, <1>5, <2>6, <2>8 DEF Agreed
  <2>10. WayOut'
    BY <2>9 DEF WayOut
  <2> QED BY Zenon, <1>4, <1>5, <2>5, <2>10, OuterStep
<1>6. CASE rollback /\ result' = [result EXCEPT !.status = "aborted"]
  <2>1. /\ StoreInv' /\ Top' = Top - 1 /\ store' = store
        /\ \A d \in 1..Top : Views'[d] = Views[d]
    BY Zenon, <1>6, AfterRollback
  <2> USE <2>1
  <2>2. Top' = 1 /\ 2 \in 1..Top /\ \A d \in 1..(Top' + 1) : d \in 1..Top /\ d \in 1..(Top + 1)
    OBVIOUS
  <2>3. Views'[2] = store /\ \A d \in 1..(Top' + 1), p \in Principals : Views'[d][nonce(p)] = store[nonce(p)]
    BY <2>2
  <2>4. NoncesKept'
    BY Zenon, <2>3 DEF NoncesKept
  <2>5. result' \in Results /\ result'.status = "aborted" /\ result'.status /= "ok"
    BY Zenon, <1>6, ResultFacts
  <2>6. \A p \in Principals : STX(store, p) = STX(store, p) - (IF p = tx.payer THEN 0 ELSE 0)
    BY StoreFacts
  <2>7. WayOut'
    BY Zenon, <2>3, <2>5, <2>6 DEF WayOut, Agreed
  <2> QED BY Zenon, <1>4, <2>2, <2>4, <2>5, <2>7, OuterStep
<1> QED
  BY Zenon, <1>5, <1>6 DEF abort_call_back

\* The fee is the only loss beside those logged.
LEMMA FeeStep ==
    ASSUME Inv, pay_transaction_fee
    PROVE  Inv'
<1>1. pc = "fee" /\ UNCHANGED <<tx, frames, result, height, parent>>
  BY DEF pay_transaction_fee, ledger
<1>2. /\ StoreInv /\ Top = 1 /\ frames = <<>> /\ IsStore(parent.store) /\ height \in Nat \ {0} /\ height \in Nat
      /\ result \in Results /\ tx \in Txs /\ tx.payer \in Principals /\ tx.fee \in Nat
  BY Zenon, <1>1, OutsideFacts, TxFacts DEF Inner
<1> USE <1>2
<1>3. /\ IsStore(store) /\ Agreed(Views[2], 0)
      /\ tx.nonce = store[nonce(tx.origin)] /\ tx.payer_nonce = store[nonce(tx.payer)]
      /\ \A d \in 1..(Top + 1), p \in Principals : Views[d][nonce(p)] = store[nonce(p)]
  BY Zenon, <1>1, Current DEF Inv, NoncesKept, WayOut
<1>4. CASE pc' = "invalid" /\ UNCHANGED db
  <2>1. StoreInv'
    BY Zenon, <1>4, AfterNothing
  <2>2. NoncesKept' /\ PayloadApart' /\ WayOut'
    BY <1>4 DEF NoncesKept, PayloadApart, WayOut
  <2> QED BY Zenon, <1>1, <1>4, <2>1, <2>2, OuterStep
<1>5. CASE /\ can_transfer(Now(stx(tx.payer)), tx.fee) /\ pc' = "nonces"
           /\ put(Put(stx(tx.payer), debit(Now(stx(tx.payer)), tx.fee)))
  <2> DEFINE v == Views[2]
             x == debit(Now(stx(tx.payer)), tx.fee)
             m == Put(stx(tx.payer), x)
             w == Over(m)
  <2>1. Top + 1 = 2 /\ \A d \in 1..(Top + 1) : d = 2 \/ (d \in 1..Top /\ d \in 1..(Top + 1))
    OBVIOUS
  <2>2. IsStore(v) /\ Now(stx(tx.payer)) = v[stx(tx.payer)] /\ v[stx(tx.payer)] \in Balances /\ stx(tx.payer) \in Keys
    <3>1. IsStore(Views[Top + 1]) /\ \A k \in Keys : Now(k) = Views[Top + 1][k]
      BY Current
    <3>2. stx(tx.payer) \in Keys
      BY Zenon, KeyFacts
    <3>3. v = Views[Top + 1]
      BY <2>1
    <3> QED BY Zenon, <3>1, <3>2, <3>3, StoreFacts
  <2>3. Moved(v[stx(tx.payer)], x, -(tx.fee))
    BY Zenon, <1>5, <2>2, DebitMoves
  <2>4. x \in AllValues /\ put(m)
    BY Zenon, <1>5, <2>3 DEF AllValues, Moved
  <2> HIDE DEF x
  <2>5. /\ \A j \in DOMAIN m : m[j] \in AllValues
        /\ w[stx(tx.payer)] = x
        /\ \A j \in Keys : j /= stx(tx.payer) => w[j] = Views[Top + 1][j]
    BY Zenon, <2>2, <2>4, OverOne
  <2>6. \A j \in Keys : j /= stx(tx.payer) => w[j] = v[j]
    BY Zenon, <2>1, <2>5
  <2> HIDE DEF m, w
  <2>7. /\ \A p \in Principals :
            /\ w[nonce(p)] = v[nonce(p)] /\ w[token(p)] = v[token(p)] /\ w[stacker(p)] = v[stacker(p)]
            /\ p /= tx.payer => w[stx(p)] = v[stx(p)]
        /\ w[supply] = v[supply] /\ w[item] = v[item]
    BY Zenon, <2>6, KeyFacts
  <2>8. ASSUME NEW p \in Principals
        PROVE  /\ w[stx(p)] \in Balances /\ {w[nonce(p)], w[token(p)], w[stacker(p)]} \subseteq Nat
               /\ w[stx(p)].locked > 0 => w[stx(p)].unlock_height <= w[stacker(p)]
    <3>1. v[stx(p)] \in Balances /\ (v[stx(p)].locked > 0 => v[stx(p)].unlock_height <= v[stacker(p)])
      BY <2>2 DEF IsStore
    <3>2. {w[nonce(p)], w[token(p)], w[stacker(p)]} \subseteq Nat
      BY Zenon, <2>2, <2>7 DEF IsStore
    <3> QED BY Zenon, <2>3, <2>5, <2>7, <3>1, <3>2 DEF Moved
  <2>9. IsStore(w)
    <3>1. w[supply] \in Nat /\ w[item] \in Someone
      BY Zenon, <2>2, <2>7 DEF IsStore
    <3> QED BY Zenon, <2>5, <2>8, <3>1, OverStore DEF w
  <2>10. /\ StoreInv' /\ Top' = Top /\ store' = store
         /\ \A d \in 1..Top : Views'[d] = Views[d]
         /\ Views'[Top + 1] = w
    BY Zenon, <2>4, <2>5, <2>9, AfterPut DEF w
  <2>11. \A p \in Principals : STX(v, p) \in Nat /\ STX(w, p) = STX(v, p) - (IF p = tx.payer THEN tx.fee ELSE 0)
    <3> TAKE p \in Principals
    <3>1. STX(v, p) \in Nat
      BY Zenon, <2>2, StoreFacts
    <3>2. CASE p = tx.payer
      BY Zenon, <2>3, <2>5, <3>1, <3>2 DEF STX, Moved
    <3>3. CASE p /= tx.payer
      BY SMTT(30), <2>7, <3>1, <3>3 DEF STX
    <3> QED BY Zenon, <3>1, <3>2, <3>3
  <2>12. Agreed(w, tx.fee)
    <3>1. ASSUME result.status = "ok" PROVE Outflow(store, w, result.assets, tx.payer, tx.fee)
      <4>1. Outflow(store, v, result.assets, tx.payer, 0)
        BY Zenon, <1>3, <3>1 DEF Agreed
      <4> SUFFICES ASSUME NEW p \in Principals
                   PROVE  /\ STX(store, p) - STX(w, p) - (IF p = tx.payer THEN tx.fee ELSE 0)
                                <= result.assets.stx[p] + result.assets.burn[p]
                          /\ store[token(p)] - w[token(p)] <= result.assets.token[p]
                          /\ store[item] = p /\ w[item] /= p => result.assets.asset[p] > 0
        BY DEF Outflow
      <4>2. /\ STX(store, p) - STX(v, p) - (IF p = tx.payer THEN 0 ELSE 0)
                                <= result.assets.stx[p] + result.assets.burn[p]
            /\ store[token(p)] - v[token(p)] <= result.assets.token[p]
            /\ store[item] = p /\ v[item] /= p => result.assets.asset[p] > 0
        BY <4>1 DEF Outflow
      <4>3. STX(store, p) \in Nat /\ STX(v, p) \in Nat /\ STX(w, p) = STX(v, p) - (IF p = tx.payer THEN tx.fee ELSE 0)
        BY Zenon, <1>3, <2>11, StoreFacts
      <4>4. STX(store, p) - STX(w, p) - (IF p = tx.payer THEN tx.fee ELSE 0)
                = STX(store, p) - STX(v, p) - (IF p = tx.payer THEN 0 ELSE 0)
        BY <4>3
      <4> QED BY Zenon, <2>7, <4>2, <4>4
    <3>2. ASSUME result.status /= "ok", NEW p \in Principals
          PROVE  /\ STX(w, p) = STX(store, p) - (IF p = tx.payer THEN tx.fee ELSE 0)
                 /\ p /= tx.payer => w[stx(p)] = store[stx(p)]
                 /\ \A k \in {token(p), stacker(p), supply, item} : w[k] = store[k]
      <4>1. /\ STX(v, p) = STX(store, p) - (IF p = tx.payer THEN 0 ELSE 0)
            /\ p /= tx.payer => v[stx(p)] = store[stx(p)]
            /\ \A k \in {token(p), stacker(p), supply, item} : v[k] = store[k]
        BY Zenon, <1>3, <3>2 DEF Agreed
      <4>2. STX(store, p) \in Nat /\ STX(v, p) \in Nat /\ STX(w, p) = STX(v, p) - (IF p = tx.payer THEN tx.fee ELSE 0)
        BY Zenon, <1>3, <2>11, StoreFacts
      <4>3. STX(w, p) = STX(store, p) - (IF p = tx.payer THEN tx.fee ELSE 0)
        BY <4>1, <4>2
      <4> QED BY Zenon, <2>7, <4>1, <4>3
    <3> QED BY Zenon, <1>3, <3>1, <3>2 DEF Agreed
  <2>13. Views'[2] = w
    BY Zenon, <2>1, <2>10
  <2>14. \A d \in 1..(Top' + 1), p \in Principals : Views'[d][nonce(p)] = store[nonce(p)]
    <3> TAKE d \in 1..(Top' + 1), p \in Principals
    <3>1. CASE d = 2
      <4>1. 2 \in 1..(Top + 1)
        OBVIOUS
      <4> QED BY Zenon, <1>3, <2>7, <2>13, <3>1, <4>1
    <3>2. CASE d /= 2
      BY <1>3, <2>1, <2>10, <3>2
    <3> QED BY Zenon, <3>1, <3>2
  <2>15. NoncesKept'
    BY Zenon, <1>1, <1>3, <2>10, <2>14 DEF NoncesKept
  <2>16. PayloadApart'
    BY Zenon, <1>5 DEF PayloadApart
  <2>17. Agreed(Views[2], tx.fee)'
    BY SMTT(30), <1>1, <2>10, <2>12, <2>13 DEF Agreed, check_transaction_postconditions
  <2>18. WayOut'
    BY Zenon, <1>5, <2>17 DEF WayOut
  <2>19. Top' = 1
    BY Zenon, <2>10
  <2> QED BY Zenon, <1>1, <1>5, <2>10, <2>15, <2>16, <2>18, <2>19, OuterStep
<1> QED
  BY Zenon, <1>4, <1>5 DEF pay_transaction_fee, Goto

\* The nonces of the origin and of the payer advance by one.
LEMMA NonceStep ==
    ASSUME Inv, update_account_nonce
    PROVE  Inv'
<1> DEFINE v == Views[2]
           o == tx.origin
           q == tx.payer
           x == tx.nonce + 1
           y == tx.payer_nonce + 1
           m == And(Put(nonce(o), x), Put(nonce(q), y))
           w == Over(m)
<1>1. pc = "nonces" /\ pc' = "commit" /\ put(m) /\ UNCHANGED <<tx, frames, result, height, parent>>
  BY DEF update_account_nonce, ledger, Goto
<1>2. /\ StoreInv /\ Top = 1 /\ frames = <<>> /\ IsStore(parent.store) /\ height \in Nat \ {0}
      /\ result \in Results /\ tx \in Txs /\ o \in Principals /\ q \in Principals
      /\ {tx.nonce, tx.payer_nonce, tx.fee, tx.amount} \subseteq Nat
  BY Zenon, <1>1, OutsideFacts, TxFacts DEF Inner
<1>3. /\ Agreed(v, tx.fee)
      /\ tx.nonce = store[nonce(o)] /\ tx.payer_nonce = store[nonce(q)]
      /\ \A d \in 1..(Top + 1), p \in Principals : Views[d][nonce(p)] = store[nonce(p)]
  BY Zenon, <1>1 DEF Inv, NoncesKept, WayOut
<1>4. Top + 1 = 2 /\ 2 \in 1..(Top + 1)
  BY <1>2
<1>5. IsStore(v) /\ nonce(o) \in Keys /\ nonce(q) \in Keys
  BY Zenon, <1>2, <1>4, Current, KeyFacts
<1>6. x \in Nat /\ y \in Nat /\ x = store[nonce(o)] + 1 /\ y = store[nonce(q)] + 1
  BY <1>2, <1>3
<1>7. x \in AllValues /\ y \in AllValues
  BY Zenon, <1>6 DEF AllValues
<1> HIDE DEF x, y
<1>8. /\ \A j \in DOMAIN m : m[j] \in AllValues
      /\ w[nonce(o)] = x
      /\ nonce(q) /= nonce(o) => w[nonce(q)] = y
      /\ \A j \in Keys : j /= nonce(o) /\ j /= nonce(q) => w[j] = Views[Top + 1][j]
  BY <1>5, <1>7, OverTwo
<1>9. \A j \in Keys : j /= nonce(o) /\ j /= nonce(q) => w[j] = v[j]
  BY Zenon, <1>4, <1>8
<1> HIDE DEF m, w
<1>10. /\ \A p \in Principals :
            /\ w[stx(p)] = v[stx(p)] /\ w[token(p)] = v[token(p)] /\ w[stacker(p)] = v[stacker(p)]
            /\ p /= o /\ p /= q => w[nonce(p)] = v[nonce(p)]
       /\ w[supply] = v[supply] /\ w[item] = v[item]
  <2>1. \A k \in {supply, item} : k \in Keys /\ k /= nonce(o) /\ k /= nonce(q)
    BY Zenon, KeyFacts
  <2>2. ASSUME NEW p \in Principals
        PROVE  /\ \A k \in {stx(p), token(p), stacker(p)} : k \in Keys /\ k /= nonce(o) /\ k /= nonce(q)
               /\ p /= o /\ p /= q => nonce(p) \in Keys /\ nonce(p) /= nonce(o) /\ nonce(p) /= nonce(q)
    BY KeyFacts DEF stx, token, stacker, nonce
  <2> QED BY Zenon, <1>9, <2>1, <2>2
<1>11. w[nonce(o)] = x /\ (q /= o => w[nonce(q)] = y)
  BY Zenon, <1>8, KeyFacts
<1>12. ASSUME NEW p \in Principals
       PROVE  w[nonce(p)] \in Nat /\ w[nonce(p)] = store[nonce(p)] + (IF p \in {o, q} THEN 1 ELSE 0)
  <2>1. CASE p = o
    BY Zenon, <1>6, <1>11, <2>1
  <2>2. CASE p /= o /\ p = q
    BY Zenon, <1>6, <1>11, <2>2
  <2>3. CASE p /= o /\ p /= q
    <3>1. w[nonce(p)] = v[nonce(p)] /\ v[nonce(p)] = store[nonce(p)] /\ v[nonce(p)] \in Nat
      BY Zenon, <1>3, <1>4, <1>5, <1>10, <2>3, StoreFacts
    <3> QED BY <2>3, <3>1
  <2> QED BY Zenon, <2>1, <2>2, <2>3
<1>13. IsStore(w)
  <2>1. ASSUME NEW p \in Principals
        PROVE  /\ w[stx(p)] \in Balances /\ {w[nonce(p)], w[token(p)], w[stacker(p)]} \subseteq Nat
               /\ w[stx(p)].locked > 0 => w[stx(p)].unlock_height <= w[stacker(p)]
    BY <1>5, <1>10, <1>12 DEF IsStore
  <2>2. w[supply] \in Nat /\ w[item] \in Someone
    BY Zenon, <1>5, <1>10 DEF IsStore
  <2> QED BY Zenon, <1>2, <1>8, <2>1, <2>2, OverStore DEF w
<1>14. /\ StoreInv' /\ Top' = Top /\ store' = store /\ Views'[Top + 1] = w
  BY Zenon, <1>1, <1>2, <1>8, <1>13, AfterPut DEF w
<1>15. Views'[2] = w /\ Top' = 1
  BY Zenon, <1>2, <1>4, <1>14
<1>16. Agreed(w, tx.fee)
  <2>1. \A p \in Principals : STX(w, p) = STX(v, p)
    BY Zenon, <1>10 DEF STX
  <2>2. result.status = "ok" => Outflow(store, w, result.assets, tx.payer, tx.fee)
    BY Zenon, <1>3, <1>10, <2>1 DEF Agreed, Outflow
  <2>3. ASSUME result.status /= "ok", NEW p \in Principals
        PROVE  /\ STX(w, p) = STX(store, p) - (IF p = tx.payer THEN tx.fee ELSE 0)
               /\ p /= tx.payer => w[stx(p)] = store[stx(p)]
               /\ \A k \in {token(p), stacker(p), supply, item} : w[k] = store[k]
    BY SMTT(30), <1>3, <1>10, <2>1, <2>3 DEF Agreed
  <2> QED BY Zenon, <1>3, <2>2, <2>3 DEF Agreed
<1>17. Agreed(Views[2], tx.fee)'
  BY <1>1, <1>14, <1>15, <1>16 DEF Agreed, check_transaction_postconditions
<1>18. WayOut'
  BY Zenon, <1>1, <1>12, <1>14, <1>15, <1>17 DEF WayOut
<1>19. NoncesKept' /\ PayloadApart'
  BY Zenon, <1>1 DEF NoncesKept, PayloadApart
<1> QED
  BY Zenon, <1>1, <1>2, <1>14, <1>15, <1>18, <1>19, OuterStep

-----------------------------------------------------------------------------
(* Between transactions. *)
LEMMA EmptyStore ==
    LogInv(AllValues)' /\ Top' = 0 /\ IsStore(store') => StoreInv'
<1>1. LogInv(AllValues) /\ Top = 0 /\ IsStore(store) => StoreInv
  <2> SUFFICES ASSUME LogInv(AllValues), Top = 0, IsStore(store) PROVE StoreInv
    OBVIOUS
  <2>1. Views[1] = store
    BY ViewsFacts
  <2>2. \A d \in 1..(Top + 1) : d = 1
    OBVIOUS
  <2> QED BY Zenon, <2>1, <2>2 DEF StoreInv, Stores
<1> DEFINE S == LogInv(AllValues) /\ Top = 0 /\ IsStore(store)
<1>2. S => StoreInv
  BY Zenon, <1>1
<1> HIDE DEF S
<1>3. S' => StoreInv'
  BY <1>2, PTL
<1> QED
  BY Zenon, <1>3 DEF S

\* Between transactions the store is all there is.
LEMMA IdleStep ==
    ASSUME StoreInv', frames' = <<>>, IsStore(parent'.store), height' \in Nat \ {0}, result' \in Results,
           pc' = "idle", Top' = 0
    PROVE  Inv'
<1>1. NoncesKept' /\ PayloadApart' /\ WayOut'
  BY DEF NoncesKept, PayloadApart, WayOut
<1> QED
  BY Zenon, <1>1, OuterStep

\* The transaction is committed to the block.
LEMMA CommitStep ==
    ASSUME Inv, commit_transaction
    PROVE  Inv'
<1>1. pc = "commit" /\ commit /\ pc' = "idle" /\ result' = Ended("none", Nothing) /\ UNCHANGED <<frames, height, parent>>
  BY DEF commit_transaction, Forget, Goto
<1> USE <1>1
<1>2. StoreInv /\ Top = 1 /\ frames = <<>> /\ IsStore(parent.store) /\ height \in Nat \ {0}
  BY Zenon, OutsideFacts DEF Inner
<1> USE <1>2
<1>3. StoreInv' /\ Top' = Top - 1
  BY Zenon, AfterCommit
<1>4. Top' = 0
  BY <1>3
<1> QED
  BY Zenon, <1>3, <1>4, IdleStep, ResultFacts

\* The transaction is dropped from the block.
LEMMA DropTxStep ==
    ASSUME Inv, drop_transaction
    PROVE  Inv'
<1>1. pc = "invalid" /\ drop_log /\ pc' = "idle" /\ result' = Ended("none", Nothing) /\ UNCHANGED <<frames, height, parent>>
  BY DEF drop_transaction, Forget, Goto
<1> USE <1>1
<1>2. StoreInv /\ frames = <<>> /\ IsStore(parent.store) /\ height \in Nat \ {0} /\ IsStore(store)
  BY Zenon, OutsideFacts, Current DEF Inner
<1> USE <1>2
<1>3. LogInv(AllValues)' /\ Top' = 0 /\ store' = store
  BY Zenon, EmptyViews DEF StoreInv
<1>4. StoreInv'
  BY Zenon, <1>3, EmptyStore
<1> QED
  BY Zenon, <1>3, <1>4, IdleStep, ResultFacts

\* A block is opened on the state of its parent, with other values or none.
LEMMA TipBlockStep ==
    ASSUME Inv, pc = "idle", NEW s, IsStore(s), set_tip(s), parent' = parent \/ parent'.store = s,
           height' \in Nat \ {0}, UNCHANGED <<pc, frames, result>>
    PROVE  Inv'
<1>1. StoreInv /\ frames = <<>> /\ IsStore(parent.store) /\ result \in Results
  BY Zenon, OutsideFacts DEF Inner
<1> USE <1>1
<1>2. s \in [Keys -> AllValues]
  BY KeyFacts DEF IsStore
<1>3. LogInv(AllValues)' /\ Top' = 0 /\ store' = s
  BY Zenon, <1>2, EmptyViews DEF StoreInv
<1>4. StoreInv'
  BY Zenon, <1>3, EmptyStore
<1>5. IsStore(parent'.store)
  OBVIOUS
<1> QED
  BY Zenon, <1>3, <1>4, <1>5, IdleStep

\* The rewards that mature keep the store one: they are credited to accounts.
LEMMA RewardsStore ==
    ASSUME IsStore(store), height \in Nat \ {0}, height < MaxHeight
    PROVE  IsStore(process_matured_miner_rewards(store))
<1> DEFINE s == process_matured_miner_rewards(store)
<1>1. \A p \in Payees(Mature) : Reward(p, Mature) \in Nat
  <2>1. Maturity \in Nat /\ MaxHeight \in Nat /\ height \in Nat
    BY Zenon, TransactionAssumption
  <2>2. CASE height - 1 <= Maturity
    BY <2>2 DEF Mature, Payees
  <2>3. CASE ~(height - 1 <= Maturity)
    <3>1. Mature = Payments[height - 1 - Maturity]
      BY Zenon, <2>3 DEF Mature
    <3>2. height - 1 - Maturity \in 1..(MaxHeight - 2 - Maturity)
      BY <2>1, <2>3
    <3> QED BY Zenon, <3>1, <3>2, PaymentAssumption
  <2> QED BY Zenon, <2>2, <2>3
<1>2. DOMAIN store = AllKeys /\ store \in [AllKeys -> AllValues]
  BY DEF IsStore
<1>3. \A k \in AllKeys : s[k] = IF k[1] = "stx" /\ k[2] \in Payees(Mature) THEN credit(store[k], Reward(k[2], Mature)) ELSE store[k]
  BY Zenon, <1>2 DEF process_matured_miner_rewards
<1>4. DOMAIN s = AllKeys /\ s = [k \in AllKeys |-> s[k]]
  BY Zenon, <1>2 DEF process_matured_miner_rewards
<1> HIDE DEF s
<1>5. Keys = AllKeys /\ \A p \in Principals : {stx(p), nonce(p), token(p), stacker(p)} \subseteq AllKeys
  BY Zenon, KeyFacts
<1>6. supply \in AllKeys /\ item \in AllKeys
  BY Zenon, KeyFacts
<1>7. /\ \A p : stx(p)[1] = "stx" /\ stx(p)[2] = p /\ nonce(p)[1] /= "stx" /\ token(p)[1] /= "stx" /\ stacker(p)[1] /= "stx"
      /\ supply[1] /= "stx" /\ item[1] /= "stx"
  BY Zenon DEF stx, nonce, token, stacker, supply, item
<1>8. /\ \A p \in Principals :
            /\ s[nonce(p)] = store[nonce(p)] /\ s[token(p)] = store[token(p)] /\ s[stacker(p)] = store[stacker(p)]
            /\ p \in Payees(Mature) => s[stx(p)] = credit(store[stx(p)], Reward(p, Mature))
            /\ p \notin Payees(Mature) => s[stx(p)] = store[stx(p)]
      /\ s[supply] = store[supply] /\ s[item] = store[item]
  BY SMTT(30), <1>3, <1>5, <1>6, <1>7
<1> USE <1>8
<1>9. ASSUME NEW p \in Principals
      PROVE  s[stx(p)] \in Balances /\ (s[stx(p)].locked > 0 => s[stx(p)].unlock_height <= store[stacker(p)])
  <2>1. store[stx(p)] \in Balances /\ (store[stx(p)].locked > 0 => store[stx(p)].unlock_height <= store[stacker(p)])
    BY Zenon DEF IsStore
  <2>2. CASE p \in Payees(Mature)
    BY SMTT(30), <1>1, <2>1, <2>2, CreditMoves DEF Moved
  <2>3. CASE p \notin Payees(Mature)
    BY Zenon, <2>1, <2>3
  <2> QED BY Zenon, <2>2, <2>3
<1>10. ASSUME NEW k \in AllKeys PROVE s[k] \in AllValues
  BY SMTT(30), <1>9, <1>2, <1>3 DEF AllKeys, stx, AllValues
<1>11. s \in [AllKeys -> AllValues]
  BY Zenon, <1>4, <1>10
<1> QED
  BY Zenon, <1>9, <1>11 DEF IsStore, s

\* The block is kept, with the rewards that mature.
LEMMA AppendStep ==
    ASSUME Inv, append_block
    PROVE  Inv'
<1> DEFINE s == process_matured_miner_rewards(store)
<1>1. pc = "idle" /\ height < MaxHeight /\ set_tip(s) /\ parent' = [store |-> store', fees |-> fees, burned |-> burned]
      /\ height' = height + 1 /\ UNCHANGED <<pc, frames, result>>
  BY Zenon DEF append_block, idle
<1> USE <1>1
<1>2. StoreInv /\ height \in Nat \ {0} /\ IsStore(store)
  BY Zenon, OutsideFacts, Current DEF Inner
<1>3. IsStore(s)
  BY Zenon, <1>2, RewardsStore
<1> HIDE DEF s
<1>4. parent'.store = store' /\ store' = s
  BY Zenon DEF set_tip
<1>5. height' \in Nat \ {0}
  BY <1>2
<1> QED
  BY Zenon, <1>3, <1>4, <1>5, TipBlockStep

\* The block is given up.
LEMMA RollbackBlockStep ==
    ASSUME Inv, rollback_block
    PROVE  Inv'
<1>1. pc = "idle" /\ set_tip(parent.store) /\ UNCHANGED <<pc, frames, result, height, parent>>
  BY DEF rollback_block, idle
<1>2. IsStore(parent.store) /\ height \in Nat \ {0}
  BY Zenon, <1>1, OutsideFacts DEF Inner
<1> QED
  BY Zenon, <1>1, <1>2, TipBlockStep

-----------------------------------------------------------------------------
(* What the code in a frame does. *)
LEMMA ErrorStep ==
    ASSUME Inv, pc \in {"enter", "run"}, pc' = "raise", UNCHANGED db, UNCHANGED <<frames, tx, result, height, parent>>
    PROVE  Inv'
<1>1. pc \in Inner /\ pc' \in Inner /\ pc' /= "env"
  BY Zenon DEF Inner
<1>2. /\ StoreInv /\ Top = Len(frames) + 2
      /\ \A d \in 1..(Top + 1), p \in Principals : Views[d][nonce(p)] = store[nonce(p)]
  BY Zenon, <1>1, InnerFacts
<1> USE <1>2
<1>3. StoreInv' /\ Top' = Top /\ store' = store /\ Views' = Views
  BY Zenon, AfterNothing
<1>4. FramesOK'
  BY Zenon DEF Inv, TypeOK, FramesOK
<1>5. Contexts' /\ FramesLogged' /\ LocksKept'
  BY Zenon, <1>3 DEF Contexts, FramesLogged, LocksKept
<1> QED
  BY Zenon, <1>1, <1>3, <1>4, <1>5, InnerStep

\* The frame of the environment is opened.
LEMMA EnvStep ==
    ASSUME Inv, execute_in_env
    PROVE  Inv'
<1>1. pc = "env" /\ begin("env", NoOne) /\ pc' = "enter" /\ UNCHANGED <<tx, result, height, parent>>
  BY DEF execute_in_env, Goto, ledger
<1> USE <1>1
<1>2. NoOne \in Someone /\ "env" \in {"env", "call", "read_only", "transfer", "pox"}
  BY DEF Someone
<1>3. pc' = (IF pc = "env" THEN "enter" ELSE "run")
  OBVIOUS
<1>4. ~(pc = "run") /\ "env" /= "pox" /\ pc \in {"env", "enter", "run"}
  OBVIOUS
<1> QED
  BY Zenon, <1>2, <1>3, <1>4, BeginStep

\* The frame of the payload is opened, for the origin.
LEMMA EnterStep ==
    ASSUME Inv, enter
    PROVE  Inv'
<1>1. pc = "enter" /\ UNCHANGED <<tx, result, height, parent>>
  BY Zenon DEF enter, ledger
<1> USE <1>1
<1>2. tx.origin \in Someone /\ tx.origin \in Principals
  BY Zenon, TxFacts DEF Someone
<1>3. CASE pc' = "raise" /\ UNCHANGED <<db, frames>>
  BY Zenon, <1>3, ErrorStep
<1>4. ASSUME NEW kind \in {"transfer", "call", "pox"}, begin(kind, tx.origin), pc' = "run"
      PROVE  Inv'
  BY Zenon, <1>4, <1>2, BeginStep
<1>5. (IF tx.kind = "transfer" THEN {"transfer"} ELSE {"call", "pox"}) \subseteq {"transfer", "call", "pox"}
  BY Zenon
<1> QED
  BY Zenon, <1>3, <1>4 DEF enter, Goto

\* A contract calls another.
LEMMA CallStep ==
    ASSUME Inv, special_contract_call
    PROVE  Inv'
<1>1. pc = "run" /\ pc' = pc /\ top.kind = "call" /\ UNCHANGED <<tx, result, height, parent>>
  BY Zenon DEF special_contract_call, Works, Runs, ledger
<1> USE <1>1
<1>2. PICK kind \in {"call", "read_only", "pox"}, who \in Senders : begin(kind, who)
  BY Zenon DEF special_contract_call
<1>3. who \in Principals /\ who \in Someone /\ kind \in {"env", "call", "read_only", "transfer", "pox"}
  BY Zenon, TxFacts DEF Someone
<1>4. pc' = (IF pc = "env" THEN "enter" ELSE "run") /\ pc \in {"env", "enter", "run"} /\ pc /= "env" /\ top.kind /= "pox"
  BY Zenon
<1> QED
  BY Zenon, <1>2, <1>3, <1>4, BeginStep

\* A contract at work names principals and amounts that its transaction allows.
LEMMA WorkFacts ==
    ASSUME Inv, NEW op, Works(op)
    PROVE  /\ pc = "run" /\ top.kind = "call" /\ top.kind \in {"call", "transfer"}
           /\ \A n \in tx.amounts : n \in Nat
           /\ \A p \in Senders : p \in Principals
  BY Zenon, TxFacts DEF Works, Runs

\* The operations on STX.
LEMMA StxSteps ==
    ASSUME Inv, special_stx_transfer \/ special_stx_burn
    PROVE  Inv'
<1>1. CASE special_stx_transfer
  <2>1. Works("stx")
    BY Zenon, <1>1 DEF special_stx_transfer
  <2>2. PICK from \in Senders, to \in Principals, n \in tx.amounts : stx_transfer_consolidated(from, to, n)
    BY <1>1 DEF special_stx_transfer
  <2> QED BY Zenon, <2>1, <2>2, WorkFacts, TransferStep
<1>2. CASE special_stx_burn
  <2>1. Works("burn")
    BY Zenon, <1>2 DEF special_stx_burn
  <2>2. PICK from \in Senders, n \in tx.amounts :
            /\ can_transfer(Now(stx(from)), n)
            /\ Moves(Put(stx(from), debit(Now(stx(from)), n)), "burn", from, n, Event("stx", from, NoOne, n))
    BY Zenon, <1>2 DEF special_stx_burn
  <2> QED BY Zenon, <2>1, <2>2, WorkFacts, BurnStep
<1> QED
  BY Zenon, <1>1, <1>2

\* The operations on tokens.
LEMMA TokenSteps ==
    ASSUME Inv, special_mint_token \/ special_transfer_token
    PROVE  Inv'
<1>1. Works("token")
  BY DEF special_mint_token, special_transfer_token
<1>2. CASE special_mint_token
  <2>1. PICK to \in Principals, n \in tx.amounts :
            \/ Moves(And(Put(supply, Now(supply) + n), Put(token(to), Now(token(to)) + n)),
                     "none", NoOne, 0, Event("token", NoOne, to, n))
            \/ pc' = "raise" /\ UNCHANGED <<db, tx, frames, locking, result, ledger>>
    BY Zenon, <1>2 DEF special_mint_token, Goto
  <2>2. CASE Moves(And(Put(supply, Now(supply) + n), Put(token(to), Now(token(to)) + n)),
                   "none", NoOne, 0, Event("token", NoOne, to, n))
    BY Zenon, <1>1, <2>2, WorkFacts, MintTokenStep
  <2>3. CASE pc' = "raise" /\ UNCHANGED <<db, tx, frames, locking, result, ledger>>
    BY Zenon, <1>1, <2>3, WorkFacts, ErrorStep DEF ledger
  <2> QED BY ZenonT(30), <2>1, <2>2, <2>3
<1>3. CASE special_transfer_token
  <2>1. PICK from \in Principals, to \in Principals, n \in tx.amounts :
            /\ from /= to /\ Now(token(from)) >= n
            /\ Moves(And(Put(token(from), Now(token(from)) - n), Put(token(to), Now(token(to)) + n)),
                     "token", from, n, Event("token", from, to, n))
    BY <1>3 DEF special_transfer_token
  <2> QED BY Zenon, <1>1, <2>1, WorkFacts, TransferTokenStep
<1> QED
  BY <1>2, <1>3

\* The operations on items.
LEMMA ItemSteps ==
    ASSUME Inv, special_mint_asset \/ special_transfer_asset
    PROVE  Inv'
<1>1. Works("item")
  BY Zenon DEF special_mint_asset, special_transfer_asset
<1>2. pc = "run" /\ top.kind = "call"
  BY Zenon, <1>1, WorkFacts
<1> USE <1>2
<1>3. StoreInv
  BY Zenon, InnerFacts DEF Inner
<1>4. Now(item) \in Someone
  BY Zenon, <1>3, Current, KeyFacts DEF IsStore
<1>5. ASSUME NEW p \in Someone, NEW to \in Principals PROVE Event("item", p, to, 1) \in Events
  BY DEF Someone, Event, Events
<1>6. 0 \in Nat /\ 1 \in Nat /\ NoOne \in Someone
  BY Zenon DEF Someone
<1> USE <1>6
<1>7. CASE special_mint_asset
  <2>1. PICK to \in Principals : Moves(Put(item, to), "none", NoOne, 0, Event("item", NoOne, to, 1))
    BY Zenon, <1>7 DEF special_mint_asset
  <2>2. Now(item) = NoOne
    BY Zenon, <1>7 DEF special_mint_asset
  <2>3. Event("item", NoOne, to, 1) \in Events
    BY Zenon, <1>5
  <2> QED BY Zenon, <2>1, <2>2, <2>3, ItemStep
<1>8. CASE special_transfer_asset
  <2>1. PICK to \in Principals : Moves(Put(item, to), "asset", Now(item), 1, Event("item", Now(item), to, 1))
    BY Zenon, <1>8 DEF special_transfer_asset
  <2>2. Now(item) /= NoOne
    BY <1>8 DEF special_transfer_asset
  <2>3. Event("item", Now(item), to, 1) \in Events
    BY Zenon, <1>4, <1>5
  <2> QED BY Zenon, <2>1, <2>2, <2>3, ItemStep
<1> QED
  BY Zenon, <1>7, <1>8

\* The payload of a token transfer.
LEMMA StxTransferStep ==
    ASSUME Inv, stx_transfer
    PROVE  Inv'
<1>1. pc = "run" /\ top.kind \in {"call", "transfer"}
  BY Zenon DEF stx_transfer, Runs
<1> USE <1>1
<1>2. tx.origin \in Principals /\ tx.to \in Principals /\ tx.amount \in Nat
  BY Zenon, TxFacts
<1>3. CASE stx_transfer_consolidated(tx.origin, tx.to, tx.amount)
  BY Zenon, <1>2, <1>3, TransferStep
<1>4. CASE roll_back /\ pc' = "raise" /\ UNCHANGED <<tx, left, locking, result, ledger>>
  <2>1. UNCHANGED <<tx, result, height, parent>>
    BY Zenon, <1>4 DEF ledger
  <2>2. frames /= <<>>
    BY InnerFacts DEF Inner
  <2> QED BY Zenon, <1>4, <2>1, <2>2, PopStep
<1> QED
  BY Zenon, <1>3, <1>4 DEF stx_transfer, Goto

\* A frame returns, returns an error, or fails.
LEMMA ReturnSteps ==
    ASSUME Inv, return_ok \/ return_err \/ throw
    PROVE  Inv'
<1>1. pc = "run" /\ UNCHANGED <<tx, result, height, parent>>
  BY Zenon DEF return_ok, return_err, throw, Runs, ledger
<1> USE <1>1
<1>2. frames /= <<>>
  BY InnerFacts DEF Inner
<1>3. CASE return_ok
  <2>1. top.kind = "pox" => top.stacked > 0
    BY <1>3 DEF return_ok
  <2>2. CASE /\ commit_frame
             /\ locking' = [who |-> top.who, amount |-> top.stacked]
             /\ pc' = (IF top.kind = "pox" THEN "lock" ELSE Resume)
    BY Zenon, <2>1, <2>2, CommitFrameStep
  <2>3. CASE commit_fails /\ pc' = "raise"
    BY Zenon, <1>2, <2>3, PopStep DEF commit_fails
  <2> QED BY Zenon, <1>3, <2>2, <2>3 DEF return_ok, Goto
<1>4. CASE return_err
  <2>1. roll_back /\ pc' = Resume
    BY <1>4 DEF return_err, Goto
  <2> QED BY Zenon, <1>2, <2>1, PopStep
<1>5. CASE throw
  BY Zenon, <1>5, ErrorStep DEF throw, Goto
<1> QED
  BY Zenon, <1>3, <1>4, <1>5

-----------------------------------------------------------------------------
(* The invariant is inductive. *)
LEMMA StartInv ==
    Init => Inv
<1> SUFFICES ASSUME Init PROVE Inv
  OBVIOUS
<1>1. store = [k \in AllKeys |-> CASE k[1] = "stx" -> Balance(Grant[k[2]]) [] k[1] = "item" -> NoOne [] OTHER -> 0]
  BY DEF Init
<1>2. /\ DbInit /\ pc = "idle" /\ frames = <<>> /\ result = Ended("none", Nothing) /\ height = 1
      /\ parent = [store |-> store, fees |-> 0, burned |-> 0]
  BY DEF Init
<1>3. \A n \in Nat : Balance(n) \in Balances /\ Balance(n).locked = 0
  BY DEF Balance, Balances
<1>4. ASSUME NEW p \in Principals
      PROVE  store[stx(p)] = Balance(Grant[p]) /\ store[nonce(p)] = 0 /\ store[token(p)] = 0 /\ store[stacker(p)] = 0
  BY Zenon, KeyFacts, <1>1 DEF stx, nonce, token, stacker
<1>5. store[supply] = 0 /\ store[item] = NoOne
  BY Zenon, KeyFacts, <1>1 DEF supply, item
<1>6. \A p \in Principals : Grant[p] \in Nat
  BY Zenon, TransactionAssumption
<1>7. ASSUME NEW k \in AllKeys PROVE store[k] \in AllValues
  <2>1. k \in {supply, item} \/ \E p \in Principals : k \in {stx(p), nonce(p), token(p), stacker(p)}
    BY DEF AllKeys, supply, item, stx, nonce, token, stacker
  <2>2. 0 \in AllValues /\ NoOne \in AllValues /\ \A n \in Nat : Balance(n) \in AllValues
    BY Zenon, <1>3 DEF AllValues, Someone
  <2>3. CASE k \in {supply, item}
    BY Zenon, <1>5, <2>2, <2>3
  <2>4. ASSUME NEW p \in Principals, k \in {stx(p), nonce(p), token(p), stacker(p)}
        PROVE  store[k] \in AllValues
    BY Zenon, <1>4, <1>6, <2>2, <2>4
  <2> QED BY Zenon, <2>1, <2>3, <2>4
<1>8. store \in [AllKeys -> AllValues]
  BY Zenon, <1>1, <1>7
<1>9. IsStore(store)
  <2>1. 0 \in Nat /\ ~(0 > 0) /\ NoOne \in Someone
    BY DEF Someone
  <2> QED BY Zenon, <1>3, <1>4, <1>5, <1>6, <1>8, <2>1 DEF IsStore
<1>10. LogInv(AllValues) /\ Top = 0
  BY Zenon, <1>2, <1>8, KeyFacts, InitInv DEF DbInit, Top
<1>11. Stores
  BY <1>10, ViewsFacts, <1>9 DEF Stores
<1>12. TypeOK
  BY SMTT(30), <1>2, ResultFacts, <1>9, <1>11 DEF FramesOK, TypeOK, Results
<1>13. FramesLogged
  BY <1>2 DEF FramesLogged
<1>14. Contexts /\ LocksKept /\ NoncesKept /\ PayloadApart /\ WayOut
  BY Zenon, <1>2, <1>10 DEF Contexts, LocksKept, NoncesKept, PayloadApart, WayOut
<1> QED
  BY Zenon, <1>10, <1>12, <1>13, <1>14 DEF Inv

\* A step of nobody keeps the invariant.
LEMMA IdleInv ==
    ASSUME Inv, UNCHANGED vars
    PROVE  Inv'
<1>1. UNCHANGED db /\ UNCHANGED <<pc, tx, frames, locking, result, height, parent>>
  BY DEF vars
<1> USE <1>1
<1>2. LogInv(AllValues)' /\ Top' = Top /\ store' = store /\ Views' = Views
  BY Zenon, AfterNothing DEF Inv, StoreInv, TypeOK
<1> USE <1>2
<1>3. TypeOK'
  BY Zenon DEF Inv, TypeOK, Stores, FramesOK
<1>4. Contexts' /\ FramesLogged'
  BY Zenon DEF Inv, Contexts, FramesLogged
<1>5. NoncesKept' /\ PayloadApart'
  BY Zenon DEF Inv, NoncesKept, PayloadApart
<1>6. LocksKept'
  BY Zenon DEF Inv, LocksKept, Lockable, top, Last, has_locked_tokens, can_transfer, unlock_available_tokens_if_any
<1>7. WayOut'
  <2>1. check_transaction_postconditions(result.assets)' <=> check_transaction_postconditions(result.assets)
    BY DEF check_transaction_postconditions
  <2>2. Agreed(Views[2], 0) => Agreed(Views[2], 0)'
    BY Zenon, <2>1 DEF Agreed
  <2>3. Agreed(Views[2], tx.fee) => Agreed(Views[2], tx.fee)'
    BY Zenon, <2>1 DEF Agreed
  <2> QED
    BY Zenon, <2>2, <2>3 DEF Inv, WayOut
<1> QED
  BY Zenon, <1>3, <1>4, <1>5, <1>6, <1>7 DEF Inv

\* The invariant is inductive: one lemma for each operation.
LEMMA NextInv ==
    Inv /\ [Next]_vars => Inv'
<1> SUFFICES ASSUME Inv, [Next]_vars PROVE Inv'
  OBVIOUS
<1>1. ASSUME NEW t \in Txs, start_transaction_processing(t) PROVE Inv'
  BY <1>1, StartStep
<1>2. CASE process_transaction_payload \/ execute_in_env \/ enter
  BY Zenon, <1>2, PayloadStep, EnvStep, EnterStep
<1>3. CASE \/ special_stx_transfer \/ special_stx_burn \/ special_mint_token \/ special_transfer_token
           \/ special_mint_asset \/ special_transfer_asset \/ stx_transfer
  BY Zenon, <1>3, StxSteps, TokenSteps, ItemSteps, StxTransferStep
<1>4. CASE special_contract_call \/ stack_stx \/ return_ok \/ return_err \/ throw \/ pox_lock
  BY Zenon, <1>4, CallStep, StackStep, ReturnSteps, LockStep
<1>5. CASE leave \/ raise \/ abort_call_back \/ pay_transaction_fee \/ update_account_nonce
  BY Zenon, <1>5, LeaveStep, RaiseStep, AbortStep, FeeStep, NonceStep
<1>6. CASE commit_transaction \/ drop_transaction \/ append_block \/ rollback_block
  BY Zenon, <1>6, CommitStep, DropTxStep, AppendStep, RollbackBlockStep
<1>7. CASE UNCHANGED vars
  BY Zenon, <1>7, IdleInv
<1> QED
  BY Zenon, <1>1, <1>2, <1>3, <1>4, <1>5, <1>6, <1>7 DEF Next

\* The invariant holds of every transaction, whatever its contracts do and however it ends.
THEOREM TransactionsInv == Spec => []Inv
  BY StartInv, NextInv, PTL DEF Spec

-----------------------------------------------------------------------------
(* What it says of a transaction. *)

\* No assertion of process_transaction, of the connection it uses or of the PoX handler fails:
\* the log matches its histories, one context is open when the transaction is committed, no
\* frame is left over, and the STX that stack-stx promised can be locked.
THEOREM TransactionAsserts == Spec => []AssertionsHold
<1>1. Inv => AssertionsHold
  <2> SUFFICES ASSUME Inv PROVE AssertionsHold
    OBVIOUS
  <2>1. HistoriesMatchEdits
    BY Zenon, InvAsserts DEF Inv
  <2>2. /\ pc \in {"fee", "nonces", "commit"} => Top = 1
        /\ pc \in {"check", "fee", "invalid"} => frames = <<>>
    BY Zenon DEF Inv, Contexts
  <2>3. ASSUME pc = "lock"
        PROVE  LET b == Now(stx(locking.who)) IN ~has_locked_tokens(b) /\ can_transfer(b, locking.amount)
    <3>1. Lockable(Views[Top + 1], locking.who, locking.amount) /\ locking.who \in Principals
      BY Zenon, <2>3 DEF Inv, LocksKept, TypeOK
    <3>2. Now(stx(locking.who)) = Views[Top + 1][stx(locking.who)]
      BY Zenon, <3>1, Current, KeyFacts DEF Inv, StoreInv, TypeOK
    <3> QED BY Zenon, <3>1, <3>2 DEF Lockable
  <2> QED BY Zenon, <2>1, <2>2, <2>3 DEF AssertionsHold
<1> QED
  BY <1>1, TransactionsInv, PTL

\* Post-conditions may look at the asset map alone: in each open frame nobody has lost more STX,
\* tokens or items than the frame's asset map (log_stx_transfer, log_burn, ..) says it sent.
THEOREM TransactionOutflow == Spec => []OutflowIsLogged
<1>1. Inv => OutflowIsLogged
  <2> SUFFICES ASSUME Inv, pc # "raise", NEW i \in DOMAIN frames, NEW p \in Principals
               PROVE  LET sent == frames[i].assets
                      IN /\ STX(Before(i), p) - STX(After(i), p) <= sent.stx[p] + sent.burn[p]
                         /\ Before(i)[token(p)] - After(i)[token(p)] <= sent.token[p]
                         /\ Before(i)[item] = p /\ After(i)[item] # p => sent.asset[p] > 0
    BY Zenon DEF OutflowIsLogged
  <2>1. StoreInv /\ frames \in Seq(Frames)
    BY DEF Inv, StoreInv, TypeOK, FramesOK
  <2>2. i \in 1..Len(frames) /\ frames /= <<>> /\ Len(frames) \in Nat
    OBVIOUS
  <2>3. Top = Len(frames) + 2
    BY DEF Inv, Contexts
  <2>4. i + 2 \in 1..(Top + 1) /\ i + 3 \in 1..(Top + 1)
    BY <2>2, <2>3
  <2>5. /\ Before(i) = Views[i + 2] /\ After(i) = Views[i + 3]
        /\ IsStore(Views[i + 2]) /\ IsStore(Views[i + 3])
    BY Zenon, <2>1, <2>4, Current DEF Before, After, StoreInv, Stores
  <2>6. Outflow(Views[i + 2], Views[i + 3], frames[i].assets, NoOne, 0)
    BY DEF Inv, FramesLogged
  <2>7. /\ STX(Before(i), p) \in Nat /\ STX(After(i), p) \in Nat /\ p /= NoOne
    BY Zenon, <2>5, StoreFacts
  <2>8. /\ STX(Before(i), p) - STX(After(i), p) - 0 <= frames[i].assets.stx[p] + frames[i].assets.burn[p]
        /\ Before(i)[token(p)] - After(i)[token(p)] <= frames[i].assets.token[p]
        /\ Before(i)[item] = p /\ After(i)[item] # p => frames[i].assets.asset[p] > 0
    BY Zenon, <2>5, <2>6, <2>7 DEF Outflow
  <2> QED BY SMTT(30), <2>7, <2>8
<1> QED
  BY <1>1, TransactionsInv, PTL

\* What p lost of an asset until the nonces are advanced, but for the fee.
Lost(p) ==
    [stx |-> STX(store, p) - STX(Views[2], p) - Fee(p),
     token |-> store[token(p)] - Views[2][token(p)],
     asset |-> Owns(store, p) - Owns(Views[2], p)]

\* Losses are integers: what they are when nothing is lost, and when the item stays or goes.
LEMMA LossFacts ==
    ASSUME NEW x \in Nat, NEW y \in Nat, NEW f \in Nat
    PROVE  /\ x - y \in Int /\ x - y - f \in Int /\ 0 <= x
           /\ x = y => x - y = 0
           /\ y = x - f => x - y - f = 0
           /\ y <= x /\ ~(x > 0) => y <= 0
OBVIOUS

\* Nobody lost more than the asset map of the result has, and nothing when the payload failed.
LEMMA LostFacts ==
    ASSUME Inv, pc = "commit", NEW p \in Principals
    PROVE  /\ \A asset \in {"stx", "token", "asset"} : Lost(p)[asset] \in Int
           /\ result.status /= "ok" => \A asset \in {"stx", "token", "asset"} : Lost(p)[asset] = 0
           /\ result.status = "ok" => \A asset \in {"stx", "token", "asset"} :
                /\ Sent(result.assets, asset, p) \in Nat
                /\ Lost(p)[asset] <= Sent(result.assets, asset, p)
<1> DEFINE v == Views[2]
           a == result.assets
<1>1. StoreInv /\ Top = 1 /\ result \in Results /\ tx.fee \in Nat
  BY Zenon, TxFacts, OutsideFacts DEF Inner
<1> USE <1>1
<1>2. 2 \in 1..(Top + 1)
  OBVIOUS
<1>3. IsStore(v) /\ IsStore(store)
  BY Zenon, <1>2, Current DEF StoreInv, Stores
<1>4. /\ STX(v, p) \in Nat /\ v[token(p)] \in Nat /\ STX(store, p) \in Nat /\ store[token(p)] \in Nat
  BY Zenon, <1>3, StoreFacts
<1>5. Fee(p) \in Nat /\ Fee(p) = (IF p = tx.payer THEN tx.fee ELSE 0)
  BY Zenon DEF Fee
<1> USE <1>5
<1>6. /\ Owns(v, p) \in 0..1 /\ Owns(store, p) \in 0..1
      /\ v[item] = p <=> Owns(v, p) = 1
      /\ store[item] = p <=> Owns(store, p) = 1
  BY SMTT(30) DEF Owns
<1> USE <1>6
<1>7. Agreed(v, tx.fee)
  BY Zenon DEF Inv, WayOut
<1> USE <1>7
<1>8. /\ Lost(p)["stx"] = STX(store, p) - STX(v, p) - Fee(p)
      /\ Lost(p)["token"] = store[token(p)] - v[token(p)]
      /\ Lost(p)["asset"] = Owns(store, p) - Owns(v, p)
  BY Zenon DEF Lost
<1> USE <1>8
<1>9. \A asset \in {"stx", "token", "asset"} : Lost(p)[asset] \in Int
  <2>1. Owns(v, p) \in Nat /\ Owns(store, p) \in Nat
    BY <1>6
  <2>2. STX(store, p) - STX(v, p) - Fee(p) \in Int
    BY Zenon, <1>4, <1>5, LossFacts
  <2>3. store[token(p)] - v[token(p)] \in Int
    BY Zenon, <1>4, LossFacts
  <2>4. Owns(store, p) - Owns(v, p) \in Int
    BY Zenon, <2>1, LossFacts
  <2> QED BY Zenon, <1>8, <2>2, <2>3, <2>4
<1>10. ASSUME result.status /= "ok"
       PROVE  \A asset \in {"stx", "token", "asset"} : Lost(p)[asset] = 0
  <2>1. STX(v, p) = STX(store, p) - Fee(p)
    BY Zenon, <1>10 DEF Agreed
  <2>2. v[token(p)] = store[token(p)] /\ v[item] = store[item]
    BY Zenon, <1>10 DEF Agreed
  <2>3. Owns(v, p) = Owns(store, p)
    BY Zenon, <2>2 DEF Owns
  <2>4. Owns(v, p) \in Nat /\ Owns(store, p) \in Nat
    BY <1>6
  <2>5. STX(store, p) - STX(v, p) - Fee(p) = 0
    BY Zenon, <1>4, <1>5, <2>1, LossFacts
  <2>6. store[token(p)] - v[token(p)] = 0
    BY Zenon, <1>4, <2>2, LossFacts
  <2>7. Owns(store, p) - Owns(v, p) = 0
    BY Zenon, <2>3, <2>4, LossFacts
  <2> QED BY Zenon, <1>8, <2>5, <2>6, <2>7
<1>11. ASSUME result.status = "ok", NEW asset \in {"stx", "token", "asset"}
       PROVE  Sent(a, asset, p) \in Nat /\ Lost(p)[asset] <= Sent(a, asset, p)
  <2>1. /\ STX(store, p) - STX(v, p) - Fee(p) <= a.stx[p] + a.burn[p]
        /\ store[token(p)] - v[token(p)] <= a.token[p]
        /\ store[item] = p /\ v[item] /= p => a.asset[p] > 0
    BY Zenon, <1>11 DEF Agreed, Outflow
  <2>2. a.stx[p] \in Nat /\ a.burn[p] \in Nat /\ a.token[p] \in Nat /\ a.asset[p] \in Nat
    BY Zenon DEF Results, AssetMaps, AssetKinds
  <2>3. Owns(store, p) - Owns(v, p) <= a.asset[p]
    BY SMTT(30), <2>1, <2>2
  <2>4. Sent(a, "stx", p) = a.stx[p] + a.burn[p] /\ Sent(a, "token", p) = a.token[p] /\ Sent(a, "asset", p) = a.asset[p]
    BY Zenon DEF Sent
  <2>5. a.stx[p] + a.burn[p] \in Nat
    BY <2>2
  <2> HIDE DEF v, a
  <2> QED BY Zenon, <2>1, <2>2, <2>3, <2>4, <2>5
<1> QED
  BY Zenon, <1>9, <1>10, <1>11

\* A transaction about to be committed advances the nonces of its origin and its payer and no
\* other; when its payload failed or was aborted it does nothing more but to pay the fee; and
\* nobody loses what the post-conditions forbid, in deny mode what none of them names.
THEOREM TransactionAgreed == Spec => []CommittedAsAgreed
<1>1. Inv => CommittedAsAgreed
  <2> SUFFICES ASSUME Inv, pc = "commit", NEW p \in Principals
               PROVE  /\ View(2)[nonce(p)] = store[nonce(p)] + (IF p \in {tx.origin, tx.payer} THEN 1 ELSE 0)
                      /\ result.status # "ok" =>
                            /\ Lost(p).stx = 0
                            /\ p # tx.payer => View(2)[stx(p)] = store[stx(p)]
                            /\ \A k \in {token(p), stacker(p), supply, item} : View(2)[k] = store[k]
                      /\ tx.kind = "call" =>
                            /\ tx.deny => \A asset \in DOMAIN Lost(p) : Lost(p)[asset] <= 0 \/ Covered(asset, p)
                            /\ \A c \in tx.conditions : c.who = p =>
                                /\ c.code = "SentLe" => Lost(p)[c.asset] <= c.amount
                                /\ c.code = "NotSent" => Lost(p).asset <= 0
    <3>1. ASSUME Inv, pc = "commit" PROVE View(2) = Views[2]
      BY SMTT(30), <3>1, OutsideFacts, Current DEF Inner
    <3> QED BY Zenon, <3>1 DEF CommittedAsAgreed, Lost
  <2>1. View(2) = Views[2]
    BY SMTT(30), OutsideFacts, Current DEF Inner
  <2>2. View(2)[nonce(p)] = store[nonce(p)] + (IF p \in {tx.origin, tx.payer} THEN 1 ELSE 0)
    BY Zenon, <2>1 DEF Inv, WayOut
  <2>3. Agreed(Views[2], tx.fee)
    BY Zenon DEF Inv, WayOut
  <2>4. DOMAIN Lost(p) = {"stx", "token", "asset"} /\ Lost(p).stx = Lost(p)["stx"] /\ Lost(p).asset = Lost(p)["asset"]
    BY DEF Lost
  <2>5. ASSUME result.status # "ok"
        PROVE  /\ Lost(p).stx = 0
               /\ p # tx.payer => View(2)[stx(p)] = store[stx(p)]
               /\ \A k \in {token(p), stacker(p), supply, item} : View(2)[k] = store[k]
    BY Zenon, <2>1, <2>3, <2>4, <2>5, LostFacts DEF Agreed
  <2>6. tx \in Txs
    BY Zenon, TxFacts
  <2>7. ASSUME NEW c \in tx.conditions
        PROVE  /\ c.amount \in Nat
               /\ c.code = "SentLe" => c.asset \in {"stx", "token"} /\ c.asset /= "asset"
               /\ c.code = "NotSent" => c.asset = "asset"
    BY Zenon, <2>6, TransactionAssumption
  <2>8. ASSUME tx.kind = "call", tx.deny, NEW asset \in {"stx", "token", "asset"}
        PROVE  Lost(p)[asset] <= 0 \/ Covered(asset, p)
    BY LostFacts, <2>3, <2>8 DEF Agreed, check_transaction_postconditions, Covered
  <2>9. ASSUME tx.kind = "call", NEW c \in tx.conditions, c.who = p, c.code = "SentLe"
        PROVE  Lost(p)[c.asset] <= c.amount
    <3>1. c.amount \in Nat /\ c.asset \in {"stx", "token", "asset"} /\ c.asset /= "asset"
      BY ZenonT(30), <2>7, <2>9
    <3> USE <3>1
    <3>2. CASE result.status /= "ok"
      BY Zenon, <3>2, LostFacts, LossFacts
    <3>3. CASE result.status = "ok"
      <4>1. /\ Lost(p)[c.asset] \in Int /\ Sent(result.assets, c.asset, p) \in Nat
            /\ Lost(p)[c.asset] <= Sent(result.assets, c.asset, p)
        BY Zenon, <3>3, LostFacts
      <4>2. check("SentLe", c.amount, Sent(result.assets, c.asset, p))
        BY Zenon, <2>3, <2>9, <3>3 DEF Agreed, check_transaction_postconditions
      <4>3. Sent(result.assets, c.asset, p) <= c.amount
        BY Zenon, <4>2 DEF check
      <4> QED BY <4>1, <4>3
    <3> QED BY Zenon, <3>2, <3>3
  <2>10. ASSUME tx.kind = "call", NEW c \in tx.conditions, c.who = p, c.code = "NotSent"
         PROVE  Lost(p).asset <= 0
    <3>1. c.asset = "asset"
      BY Zenon, <2>7, <2>10
    <3>2. CASE result.status /= "ok"
      BY Zenon, <3>2, LostFacts, LossFacts, <2>4
    <3>3. CASE result.status = "ok"
      <4>1. /\ Lost(p)["asset"] \in Int /\ Sent(result.assets, "asset", p) \in Nat
            /\ Lost(p)["asset"] <= Sent(result.assets, "asset", p)
        BY Zenon, <3>3, LostFacts
      <4>2. (c.code = "Sent") = (result.assets.asset[p] > 0)
        BY Zenon, <2>3, <2>10, <3>1, <3>3 DEF Agreed, check_transaction_postconditions
      <4>3. Sent(result.assets, "asset", p) = result.assets.asset[p]
        BY DEF Sent
      <4> QED BY SMTT(30), <2>4, <2>10, <4>1, <4>2, <4>3
    <3> QED BY Zenon, <3>2, <3>3
  <2> QED BY Zenon, <2>2, <2>4, <2>5, <2>8, <2>9, <2>10
<1> QED
  BY <1>1, TransactionsInv, PTL

\* Every step of a transaction calls one operation of the wrapper or none.
LEMMA StepOperation ==
    [Next]_vars => Operation
<1> SUFFICES ASSUME [Next]_vars PROVE Operation
  OBVIOUS
<1>1. ASSUME NEW t \in Txs, start_transaction_processing(t) PROVE Operation
  BY Zenon, <1>1 DEF start_transaction_processing, Operation
<1>2. CASE process_transaction_payload \/ execute_in_env \/ enter \/ special_contract_call
  BY Zenon, <1>2 DEF process_transaction_payload, execute_in_env, enter, special_contract_call, begin, Operation
<1>3. ASSUME NEW m, NEW kind, NEW from, NEW n, NEW e, Moves(m, kind, from, n, e) PROVE Operation
  BY Zenon, <1>3 DEF Moves, Operation
<1>4. CASE special_stx_transfer \/ special_stx_burn
  BY Zenon, <1>3, <1>4 DEF special_stx_transfer, special_stx_burn, stx_transfer_consolidated
<1>5. CASE special_transfer_token \/ special_mint_asset \/ special_transfer_asset
  BY Zenon, <1>3, <1>5 DEF special_transfer_token, special_mint_asset, special_transfer_asset
<1>6. CASE special_mint_token \/ stx_transfer
  BY Zenon, <1>3, <1>6 DEF special_mint_token, stx_transfer, stx_transfer_consolidated, roll_back, Operation
<1>7. CASE return_ok \/ return_err \/ throw \/ leave \/ raise
  BY Zenon, <1>7 DEF return_ok, return_err, throw, leave, raise, commit_frame, commit_fails, roll_back, Operation
<1>8. CASE stack_stx \/ pox_lock \/ abort_call_back \/ pay_transaction_fee \/ update_account_nonce
  BY Zenon, <1>8 DEF stack_stx, pox_lock, abort_call_back, pay_transaction_fee, update_account_nonce, Operation
<1>9. CASE commit_transaction \/ drop_transaction \/ append_block \/ rollback_block
  BY Zenon, <1>9 DEF commit_transaction, drop_transaction, append_block, rollback_block, Operation
<1>10. CASE UNCHANGED vars
  BY <1>10 DEF vars, Operation
<1> QED
  BY Zenon, <1>1, <1>2, <1>4, <1>5, <1>6, <1>7, <1>8, <1>9, <1>10 DEF Next

\* Processing transactions implements NestedStore: the writes of a payload, of a frame or of a
\* transaction that is dropped are never seen outside it, however calls are nested and fail.
THEOREM TransactionsKeepViews == Spec => KeepsViews
<1>1. Init /\ Inv => Promise!Init
  BY Zenon, InitStep DEF Init, Inv
<1>2. Inv /\ Inv' /\ [Next]_vars => [Promise!Next]_Views
  <2> SUFFICES ASSUME Inv, Inv', [Next]_vars PROVE [Promise!Next]_Views
    BY Zenon
  <2>1. LogInv(AllValues) /\ LogInv(AllValues)' /\ Operation
    BY StepOperation DEF Inv
  <2> QED BY Zenon, <2>1, OperationStep
<1> QED
  BY <1>1, <1>2, TransactionsInv, PTL DEF Spec, KeepsViews, Promise!Spec

=============================================================================
