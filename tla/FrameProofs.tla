----------------------------- MODULE FrameProofs ----------------------------
(***************************************************************************)
(* The invariant of Transactions, and what it is to open a call frame, to  *)
(* write in it, to commit it and to roll it back.                          *)
(*                                                                         *)
(* The invariant speaks of the views of the contexts only.  That each      *)
(* operation of the store acts on the views as NestedStore says is proved  *)
(* in RollbackWrapperProofs, for any keys and values, and cited here as    *)
(* NestViews.                                                              *)
(***************************************************************************)
EXTENDS Transactions, RollbackWrapperProofs

-----------------------------------------------------------------------------
(* The inductive invariant. *)

Someone == Principals \cup {NoOne}
Balances == [unlocked : Nat, locked : Nat, unlock_height : Nat]
AllValues == Nat \cup Balances \cup Someone

\* What may be in the store.  STX are locked no longer than stack-stx wrote down.
IsStore(v) ==
    /\ v \in [AllKeys -> AllValues]
    /\ \A p \in Principals :
        /\ v[stx(p)] \in Balances /\ {v[nonce(p)], v[token(p)], v[stacker(p)]} \subseteq Nat
        /\ v[stx(p)].locked > 0 => v[stx(p)].unlock_height <= v[stacker(p)]
    /\ v[supply] \in Nat /\ v[item] \in Someone

AssetMaps == [AssetKinds -> [Principals -> Nat]]
Events == [type : {"stx", "token", "item", "lock"}, from : Someone, to : Someone, amount : Nat]
Frames == [kind : {"env", "call", "read_only", "transfer", "pox"}, who : Someone, stacked : Nat,
           assets : AssetMaps, events : Seq(Events)]

Stores == \A d \in 1..(Top + 1) : IsStore(Views[d])

\* stack-stx calls nobody, so its frame is the innermost one.
FramesOK ==
    /\ frames \in Seq(Frames)
    /\ \A i \in 1..Len(frames) : frames[i].kind = "pox" => i > 1 /\ i = Len(frames) /\ frames[i].who \in Principals

TypeOK ==
    /\ Stores /\ FramesOK
    /\ IsStore(parent.store) /\ height \in Nat \ {0}
    /\ pc /= "idle" => tx \in Txs
    /\ result \in [status : {"none", "ok", "runtime_error", "aborted"}, assets : AssetMaps, events : Seq(Events)]
    /\ pc = "lock" => locking \in [who : Principals, amount : Nat]

\* The contexts of the store that are open: one of the transaction, one of its payload, and those of the frames.
Contexts ==
    /\ pc \in {"idle", "payload", "env", "enter", "run", "lock", "leave", "raise", "check", "fee", "nonces", "commit", "invalid"}
    /\ pc = "idle" => Top = 0
    /\ pc \in {"payload", "fee", "nonces", "commit"} => Top = 1
    /\ pc \in {"env", "check"} => Top = 2
    /\ pc \in {"enter", "run", "lock", "leave", "raise"} => Top = Len(frames) + 2
    /\ pc \in {"enter", "leave"} => Len(frames) = 1
    /\ pc = "run" => Len(frames) > 1
    /\ pc = "lock" => Len(frames) > 0
    /\ pc \in {"idle", "payload", "env", "check", "fee", "nonces", "commit", "invalid"} => frames = <<>>

\* From v to w nobody lost more than the asset map has, not counting the fee f that payer paid.
Outflow(v, w, sent, payer, f) ==
    \A p \in Principals :
        /\ STX(v, p) - STX(w, p) - (IF p = payer THEN f ELSE 0) <= sent.stx[p] + sent.burn[p]
        /\ v[token(p)] - w[token(p)] <= sent.token[p]
        /\ v[item] = p /\ w[item] /= p => sent.asset[p] > 0

FramesLogged ==
    pc /= "raise" => \A i \in 1..Len(frames) : Outflow(Views[i + 2], Views[i + 3], frames[i].assets, NoOne, 0)

\* The lock that stack-stx promised can be made.
Lockable(v, p, n) ==
    /\ v[stacker(p)] = height + LockPeriod
    /\ ~has_locked_tokens(v[stx(p)]) /\ can_transfer(v[stx(p)], n)

LocksKept ==
    /\ pc = "run" /\ top.kind = "pox" /\ top.stacked > 0 => Lockable(Views[Top + 1], top.who, top.stacked)
    /\ pc = "lock" => top.kind /= "pox" /\ Lockable(Views[Top + 1], locking.who, locking.amount)

\* Nobody but update_account_nonce writes a nonce.
NoncesKept ==
    pc \in {"payload", "env", "enter", "run", "lock", "leave", "raise", "check", "fee", "nonces"} =>
        /\ tx.nonce = store[nonce(tx.origin)] /\ tx.payer_nonce = store[nonce(tx.payer)]
        /\ \A d \in 1..(Top + 1), p \in Principals : Views[d][nonce(p)] = store[nonce(p)]

\* Until the payload is over, the contexts around the first frame see the store.
PayloadApart ==
    /\ pc \in {"payload", "env", "enter", "run", "lock", "leave", "raise", "check"} => Views[2] = store
    /\ pc \in {"env", "enter", "run", "lock", "leave", "raise"} => Views[3] = store

\* What the transaction did to the store before the nonces, when its payer paid f.
Agreed(v, f) ==
    /\ result.status = "ok" =>
        /\ Outflow(store, v, result.assets, tx.payer, f)
        /\ tx.kind = "call" => check_transaction_postconditions(result.assets)
    /\ result.status /= "ok" =>
        \A p \in Principals :
            /\ STX(v, p) = STX(store, p) - (IF p = tx.payer THEN f ELSE 0)
            /\ p /= tx.payer => v[stx(p)] = store[stx(p)]
            /\ \A k \in {token(p), stacker(p), supply, item} : v[k] = store[k]

WayOut ==
    /\ pc = "check" => result.status = "ok" /\ Outflow(store, Views[3], result.assets, NoOne, 0)
    /\ pc = "fee" => Agreed(Views[2], 0)
    /\ pc \in {"nonces", "commit"} => Agreed(Views[2], tx.fee)
    /\ pc = "commit" =>
        \A p \in Principals :
            Views[2][nonce(p)] = store[nonce(p)] + (IF p \in {tx.origin, tx.payer} THEN 1 ELSE 0)

Inv == LogInv(AllValues) /\ TypeOK /\ Contexts /\ FramesLogged /\ LocksKept /\ NoncesKept /\ PayloadApart /\ WayOut

-----------------------------------------------------------------------------
(* Values. *)

\* Keys of different kinds or of different principals differ.
LEMMA KeyFacts ==
    /\ Keys = AllKeys
    /\ \A p \in Principals : {stx(p), nonce(p), token(p), stacker(p)} \subseteq Keys
    /\ {supply, item} \subseteq Keys
    /\ \A p, q : /\ (stx(p) = stx(q) \/ nonce(p) = nonce(q) \/ token(p) = token(q) \/ stacker(p) = stacker(q)) => p = q
                 /\ {nonce(p), token(p), stacker(p), supply, item} \cap {stx(q)} = {}
                 /\ {nonce(p), stacker(p), supply, item} \cap {token(q)} = {}
                 /\ {nonce(p), supply, item} \cap {stacker(q)} = {}
                 /\ {supply, item} \cap {nonce(q)} = {}
    /\ supply /= item
<1>1. Keys = AllKeys
  BY TransactionAssumption
<1>2. \A p \in Principals : {stx(p), nonce(p), token(p), stacker(p)} \subseteq AllKeys
  BY DEF AllKeys, stx, nonce, token, stacker
<1>3. {supply, item} \subseteq AllKeys
  BY DEF AllKeys, supply, item
<1>4. /\ \A p, q : /\ (stx(p) = stx(q) \/ nonce(p) = nonce(q) \/ token(p) = token(q) \/ stacker(p) = stacker(q)) => p = q
                   /\ {nonce(p), token(p), stacker(p), supply, item} \cap {stx(q)} = {}
                   /\ {nonce(p), stacker(p), supply, item} \cap {token(q)} = {}
                   /\ {nonce(p), supply, item} \cap {stacker(q)} = {}
                   /\ {supply, item} \cap {nonce(q)} = {}
      /\ supply /= item
  BY DEF stx, nonce, token, stacker, supply, item
<1> QED
  BY <1>1, <1>2, <1>3, <1>4

\* STXBalance: what a debit, a credit and a lock do to the total and to what is locked.
LEMMA BalanceFacts ==
    ASSUME height \in Nat, NEW b \in Balances, NEW n \in Nat
    PROVE  /\ can_transfer(b, n) =>
                /\ debit(b, n) \in Balances /\ get_total_balance(debit(b, n)) = get_total_balance(b) - n
                /\ debit(b, n).locked > 0 => b.locked > 0 /\ debit(b, n).unlock_height = b.unlock_height
           /\ credit(b, n) \in Balances /\ get_total_balance(credit(b, n)) = get_total_balance(b) + n
           /\ credit(b, n).locked > 0 => b.locked > 0 /\ credit(b, n).unlock_height = b.unlock_height
           /\ get_total_balance(b) \in Nat
           /\ \A until \in Nat : can_transfer(b, n) /\ ~has_locked_tokens(b) =>
                /\ lock_tokens(b, n, until) \in Balances
                /\ get_total_balance(lock_tokens(b, n, until)) = get_total_balance(b)
                /\ lock_tokens(b, n, until).unlock_height = until
<1> DEFINE u == unlock_available_tokens_if_any(b)
<1>1. /\ u \in Balances /\ get_total_balance(u) = get_total_balance(b) /\ get_total_balance(b) \in Nat
      /\ u.locked > 0 => u = b
      /\ ~has_locked_tokens(b) => u.locked = 0
  BY DEF Balances, unlock_available_tokens_if_any, Balance, get_total_balance, has_locked_tokens
<1> USE <1>1
<1>2. /\ debit(b, n) = [u EXCEPT !.unlocked = u.unlocked - n]
      /\ credit(b, n) = [u EXCEPT !.unlocked = u.unlocked + n]
      /\ can_transfer(b, n) <=> u.unlocked >= n
  BY DEF debit, credit, can_transfer
<1> HIDE DEF u
<1>3. PICK x \in Nat, y \in Nat, z \in Nat : u = [unlocked |-> x, locked |-> y, unlock_height |-> z]
  BY DEF Balances
<1>4. /\ debit(b, n) = [unlocked |-> x - n, locked |-> y, unlock_height |-> z]
      /\ credit(b, n) = [unlocked |-> x + n, locked |-> y, unlock_height |-> z]
      /\ u.unlocked = x /\ u.locked = y /\ u.unlock_height = z
  BY <1>2, <1>3
<1> USE <1>4
<1>5. can_transfer(b, n) => x - n \in Nat
  BY <1>2
<1>6. can_transfer(b, n) =>
        /\ debit(b, n) \in Balances /\ get_total_balance(debit(b, n)) = get_total_balance(u) - n
        /\ debit(b, n).locked = u.locked /\ debit(b, n).unlock_height = u.unlock_height
  BY <1>5 DEF Balances, get_total_balance
<1>7. /\ credit(b, n) \in Balances /\ get_total_balance(credit(b, n)) = get_total_balance(u) + n
      /\ credit(b, n).locked = u.locked /\ credit(b, n).unlock_height = u.unlock_height
  BY DEF Balances, get_total_balance
<1>8. ASSUME NEW until \in Nat, can_transfer(b, n), ~has_locked_tokens(b)
      PROVE  /\ lock_tokens(b, n, until) \in Balances
             /\ get_total_balance(lock_tokens(b, n, until)) = get_total_balance(b)
             /\ lock_tokens(b, n, until).unlock_height = until
  BY <1>8, <1>5 DEF lock_tokens, get_total_balance, Balances
<1> QED
  BY <1>6, <1>7, <1>8

\* The balance c is b with d more, and has locked at most what b has.
Moved(b, c, d) ==
    /\ c \in Balances /\ get_total_balance(c) = get_total_balance(b) + d
    /\ c.locked > 0 => b.locked > 0 /\ c.unlock_height = b.unlock_height

\* A debit takes n from the total.
LEMMA DebitMoves ==
    ASSUME height \in Nat, NEW b \in Balances, NEW n \in Nat, can_transfer(b, n)
    PROVE  Moved(b, debit(b, n), -n)
<1>1. get_total_balance(b) - n = get_total_balance(b) + (-n)
  BY BalanceFacts
<1> QED
  BY BalanceFacts DEF Moved

\* A credit adds n to the total.
LEMMA CreditMoves ==
    ASSUME height \in Nat, NEW b \in Balances, NEW n \in Nat
    PROVE  Moved(b, credit(b, n), n)
  BY BalanceFacts DEF Moved

\* A lock leaves the total alone.
LEMMA LockMoves ==
    ASSUME height \in Nat, NEW b \in Balances, NEW n \in Nat, NEW until \in Nat, can_transfer(b, n), ~has_locked_tokens(b)
    PROVE  /\ lock_tokens(b, n, until) \in Balances
           /\ get_total_balance(lock_tokens(b, n, until)) = get_total_balance(b)
           /\ lock_tokens(b, n, until).unlock_height = until
  BY Zenon, BalanceFacts

\* What a step adds to an asset map: n of one kind, or nothing when kind is "none".
Addition(kind, from, n) ==
    [k \in AssetKinds |-> [p \in Principals |-> IF k = kind /\ p = from THEN n ELSE 0]]
AddTo(a, kind, from, n) == [a EXCEPT ![kind][from] = @ + n]

\* Asset maps are closed under the additions that the operations make.
LEMMA AssetFacts ==
    /\ NoAssets \in AssetMaps
    /\ \A kind, from : \A n \in Nat : Addition(kind, from, n) \in AssetMaps
    /\ \A a, b \in AssetMaps : commit_other(a, b) \in AssetMaps
    /\ \A a \in AssetMaps : \A from, n : a = commit_other(a, Addition("none", from, n))
    /\ \A a \in AssetMaps, kind \in AssetKinds, from \in Principals, n \in Nat :
            AddTo(a, kind, from, n) = commit_other(a, Addition(kind, from, n))
<1>1. NoAssets \in AssetMaps
  BY DEF NoAssets, AssetMaps
<1>2. ASSUME NEW kind, NEW from, NEW n \in Nat PROVE Addition(kind, from, n) \in AssetMaps
  BY DEF Addition, AssetMaps
<1>3. ASSUME NEW a \in AssetMaps, NEW b \in AssetMaps PROVE commit_other(a, b) \in AssetMaps
  <2>1. ASSUME NEW k \in AssetKinds PROVE [p \in Principals |-> a[k][p] + b[k][p]] \in [Principals -> Nat]
    BY DEF AssetMaps
  <2> QED BY DEF commit_other, AssetMaps
<1>4. ASSUME NEW a \in AssetMaps, NEW from, NEW n PROVE a = commit_other(a, Addition("none", from, n))
  <2>1. ASSUME NEW k \in AssetKinds PROVE a[k] = commit_other(a, Addition("none", from, n))[k]
    <3>1. k /= "none"
      BY DEF AssetKinds
    <3>2. commit_other(a, Addition("none", from, n))[k] = [p \in Principals |-> a[k][p] + 0]
      BY <3>1 DEF commit_other, Addition
    <3>3. a[k] \in [Principals -> Nat]
      BY DEF AssetMaps
    <3> QED BY <3>2, <3>3
  <2> QED BY <2>1 DEF commit_other, AssetMaps
<1>5. ASSUME NEW a \in AssetMaps, NEW kind \in AssetKinds, NEW from \in Principals, NEW n \in Nat
      PROVE  AddTo(a, kind, from, n) = commit_other(a, Addition(kind, from, n))
  <2> DEFINE b == [a EXCEPT ![kind][from] = @ + n]
  <2>1. ASSUME NEW k \in AssetKinds PROVE b[k] = commit_other(a, Addition(kind, from, n))[k]
    <3>1. a[k] \in [Principals -> Nat] /\ DOMAIN a = AssetKinds
      BY DEF AssetMaps
    <3>2. b[k] = IF k = kind THEN [a[k] EXCEPT ![from] = @ + n] ELSE a[k]
      BY Zenon, <3>1
    <3>3. commit_other(a, Addition(kind, from, n))[k]
            = [p \in Principals |-> a[k][p] + (IF k = kind /\ p = from THEN n ELSE 0)]
      BY DEF commit_other, Addition
    <3> HIDE DEF b
    <3>4. b[k] \in [Principals -> Nat] /\ \A p \in Principals : b[k][p] = a[k][p] + (IF k = kind /\ p = from THEN n ELSE 0)
      BY <3>1, <3>2
    <3> QED BY <3>3, <3>4
  <2>2. DOMAIN b = AssetKinds /\ b = [k \in AssetKinds |-> b[k]]
    BY Zenon DEF AssetMaps
  <2> HIDE DEF b
  <2>3. b = [k \in AssetKinds |-> commit_other(a, Addition(kind, from, n))[k]]
    BY <2>1, <2>2
  <2>4. b = commit_other(a, Addition(kind, from, n))
    BY <2>3 DEF commit_other
  <2> QED BY <2>4 DEF b, AddTo
<1> QED
  BY <1>1, <1>2, <1>3, <1>4, <1>5

\* The accounts of a principal.
LEMMA StoreFacts ==
    ASSUME NEW v, IsStore(v), NEW p \in Principals
    PROVE  /\ STX(v, p) \in Nat /\ v[token(p)] \in Nat /\ v[nonce(p)] \in Nat /\ v[stacker(p)] \in Nat
           /\ v[stx(p)] \in Balances /\ v[item] \in Someone /\ v[supply] \in Nat
           /\ p /= NoOne
<1>1. v[stx(p)] \in Balances /\ v[token(p)] \in Nat /\ v[nonce(p)] \in Nat /\ v[stacker(p)] \in Nat
  BY DEF IsStore
<1>2. STX(v, p) \in Nat
  BY <1>1 DEF STX, get_total_balance, Balances
<1> QED
  BY <1>2, TransactionAssumption DEF IsStore

\* Nobody loses anything where nothing happened.
LEMMA OutflowNone ==
    ASSUME NEW v, IsStore(v), NEW a \in AssetMaps
    PROVE  Outflow(v, v, a, NoOne, 0)
<1> SUFFICES ASSUME NEW p \in Principals
             PROVE  /\ STX(v, p) - STX(v, p) - (IF p = NoOne THEN 0 ELSE 0) <= a.stx[p] + a.burn[p]
                    /\ v[token(p)] - v[token(p)] <= a.token[p]
  BY DEF Outflow
<1>1. a.stx[p] \in Nat /\ a.burn[p] \in Nat /\ a.token[p] \in Nat
  BY Zenon DEF AssetMaps, AssetKinds
<1> QED
  BY <1>1, StoreFacts

\* Two steps, or a frame and the one around it, lose together what their asset maps have together.
LEMMA OutflowAdds ==
    ASSUME NEW u, NEW v, NEW w, IsStore(u), IsStore(v), IsStore(w), NEW a \in AssetMaps, NEW b \in AssetMaps,
           Outflow(u, v, a, NoOne, 0), Outflow(v, w, b, NoOne, 0)
    PROVE  Outflow(u, w, commit_other(a, b), NoOne, 0)
<1> DEFINE c == commit_other(a, b)
<1> SUFFICES ASSUME NEW p \in Principals
             PROVE  /\ STX(u, p) - STX(w, p) - (IF p = NoOne THEN 0 ELSE 0) <= c.stx[p] + c.burn[p]
                    /\ u[token(p)] - w[token(p)] <= c.token[p]
                    /\ u[item] = p /\ w[item] /= p => c.asset[p] > 0
  BY DEF Outflow
<1>1. \A k \in AssetKinds : a[k][p] \in Nat /\ b[k][p] \in Nat /\ c[k][p] = a[k][p] + b[k][p]
  BY Zenon DEF AssetMaps, commit_other
<1>2. /\ a.stx[p] \in Nat /\ b.stx[p] \in Nat /\ c.stx[p] = a.stx[p] + b.stx[p]
      /\ a.burn[p] \in Nat /\ b.burn[p] \in Nat /\ c.burn[p] = a.burn[p] + b.burn[p]
      /\ a.token[p] \in Nat /\ b.token[p] \in Nat /\ c.token[p] = a.token[p] + b.token[p]
      /\ a.asset[p] \in Nat /\ b.asset[p] \in Nat /\ c.asset[p] = a.asset[p] + b.asset[p]
  BY Zenon, <1>1 DEF AssetKinds
<1>3. /\ STX(u, p) - STX(v, p) <= a.stx[p] + a.burn[p] /\ u[token(p)] - v[token(p)] <= a.token[p]
      /\ u[item] = p /\ v[item] /= p => a.asset[p] > 0
  BY StoreFacts DEF Outflow
<1>4. /\ STX(v, p) - STX(w, p) <= b.stx[p] + b.burn[p] /\ v[token(p)] - w[token(p)] <= b.token[p]
      /\ v[item] = p /\ w[item] /= p => b.asset[p] > 0
  BY StoreFacts DEF Outflow
<1> HIDE DEF c
<1>5. /\ STX(u, p) \in Nat /\ u[token(p)] \in Nat /\ STX(v, p) \in Nat /\ v[token(p)] \in Nat
      /\ STX(w, p) \in Nat /\ w[token(p)] \in Nat
  BY StoreFacts
<1> QED
  BY <1>2, <1>3, <1>4, <1>5

-----------------------------------------------------------------------------
(* The operations of the store, on stores. *)
StoreInv == LogInv(AllValues) /\ Stores

\* What a contract reads is the innermost view.
LEMMA Current ==
    ASSUME StoreInv
    PROVE  /\ Top \in Nat /\ store = Views[1] /\ IsStore(store) /\ IsStore(Views[Top + 1])
           /\ \A k \in Keys : Now(k) = Views[Top + 1][k]
           /\ \A d \in 1..(Top + 1) : View(d) = Views[d]
<1>1. /\ Top \in Nat /\ Views[1] = store
      /\ \A d \in 1..(Top + 1) : Views[d] = View(d)
      /\ \A k \in Keys : get(k, store) = Views[Top + 1][k]
  BY ViewsFacts DEF StoreInv
<1>2. 1 \in 1..(Top + 1) /\ Top + 1 \in 1..(Top + 1)
  BY <1>1
<1> QED
  BY <1>1 DEF StoreInv, Stores, Now

\* The same after the step.
LEMMA CurrentNext ==
    StoreInv' => Top' \in Nat /\ IsStore(store') /\ \A d \in 1..(Top' + 1) : View(d)' = Views'[d]
<1> DEFINE Facts == Top \in Nat /\ IsStore(store)
<1>1. StoreInv => Facts
  BY Current
<1> HIDE DEF Facts
<1>2. StoreInv' => Facts'
  BY <1>1, PTL
<1> QED
  BY <1>2 DEF Facts, Views

\* An operation that leaves the store alone leaves the view.
LEMMA AfterNothing ==
    ASSUME StoreInv, UNCHANGED db
    PROVE  StoreInv' /\ Top' = Top /\ store' = store /\ Views' = Views
<1>1. Top' = Top /\ store' = store /\ Views' = Views
  BY DEF Top, Views, View, Seen, db
<1>2. LogInv(AllValues)'
  BY StutterInv DEF StoreInv
<1> QED
  BY <1>1, <1>2 DEF StoreInv, Stores

\* A context that is opened sees what the one around it sees.
LEMMA AfterNest ==
    ASSUME StoreInv, nest
    PROVE  /\ StoreInv' /\ Top' = Top + 1 /\ store' = store
           /\ \A d \in 1..(Top + 1) : Views'[d] = Views[d]
           /\ Views'[Top + 2] = Views[Top + 1]
<1>1. /\ LogInv(AllValues)' /\ Top' = Top + 1 /\ store' = store
      /\ \A d \in 1..(Top + 1) : Views'[d] = Views[d]
      /\ Views'[Top + 2] = Views[Top + 1]
  BY NestViews DEF StoreInv, nest
<1>2. Top \in Nat /\ IsStore(Views[Top + 1])
  BY Current
<1>3. \A d \in 1..(Top' + 1) : d \in 1..(Top + 1) \/ d = Top + 2
  BY <1>1, <1>2
<1>4. Stores'
  BY <1>1, <1>2 DEF StoreInv, Stores
<1> QED
  BY <1>1, <1>4 DEF StoreInv

\* A rollback uncovers the view of the context below.
LEMMA AfterRollback ==
    ASSUME StoreInv, rollback
    PROVE  /\ StoreInv' /\ Top' = Top - 1 /\ Top > 0 /\ store' = store
           /\ \A d \in 1..Top : Views'[d] = Views[d]
<1>1. /\ LogInv(AllValues)' /\ Top' = Top - 1 /\ Top > 0 /\ store' = store
      /\ \A d \in 1..Top : Views'[d] = Views[d]
  BY RollbackViews DEF StoreInv, rollback
<1> USE <1>1
<1>2. Top \in Nat
  BY Current
<1>3. \A d \in 1..(Top' + 1) : d \in 1..Top /\ d \in 1..(Top + 1)
  BY <1>2
<1>4. Stores'
  BY <1>3 DEF StoreInv, Stores
<1> QED
  BY <1>4 DEF StoreInv

\* A commit makes the view of the context that of the one below.
LEMMA AfterCommit ==
    ASSUME StoreInv, commit
    PROVE  /\ StoreInv' /\ Top' = Top - 1 /\ Top > 0 /\ (Top > 1 => store' = store)
           /\ \A d \in 1..(Top - 1) : Views'[d] = Views[d]
           /\ Views'[Top] = Views[Top + 1]
<1>1. /\ LogInv(AllValues)' /\ Top' = Top - 1 /\ Top > 0
      /\ \A d \in 1..(Top - 1) : Views'[d] = Views[d]
      /\ Views'[Top] = Views[Top + 1]
  BY CommitViews DEF StoreInv
<1>2. Top \in Nat /\ IsStore(Views[Top + 1])
  BY Current
<1>3. \A d \in 1..(Top' + 1) : d = Top \/ (d \in 1..(Top - 1) /\ d \in 1..(Top + 1))
  BY <1>1, <1>2
<1>4. Stores'
  BY <1>1, <1>2 DEF StoreInv, Stores
<1>5. Top > 1 => store' = store
  BY DEF commit, BottomCommit, BubbleUp
<1> QED
  BY <1>1, <1>4, <1>5 DEF StoreInv

\* What the innermost context sees after m is written.
Over(m) == [k \in Keys |-> IF k \in DOMAIN m THEN m[k] ELSE Views[Top + 1][k]]

\* A write changes the innermost view only.
LEMMA AfterPut ==
    ASSUME StoreInv, NEW m, \A k \in DOMAIN m : m[k] \in AllValues, put(m), IsStore(Over(m))
    PROVE  /\ StoreInv' /\ Top' = Top /\ store' = store
           /\ \A d \in 1..Top : Views'[d] = Views[d]
           /\ Views'[Top + 1] = Over(m)
<1>1. /\ LogInv(AllValues)' /\ Top' = Top /\ store' = store
      /\ \A d \in 1..Top : Views'[d] = Views[d]
      /\ \A k \in Keys : Views'[Top + 1][k] = IF k \in DOMAIN m THEN m[k] ELSE Views[Top + 1][k]
  BY Zenon, PutViews DEF StoreInv, put
<1> USE <1>1
<1>2. Top \in Nat /\ Top' + 1 \in 1..(Top' + 1)
  BY Current
<1>3. \A d \in 1..(Top' + 1) : d = Top + 1 \/ (d \in 1..Top /\ d \in 1..(Top + 1))
  BY <1>2
<1>4. Views'[Top + 1] = Over(m)
  BY <1>2 DEF Views, View, Over
<1>5. Stores'
  BY <1>3, <1>4 DEF StoreInv, Stores
<1> QED
  BY <1>4, <1>5 DEF StoreInv

-----------------------------------------------------------------------------
(* The frames. *)
LEMMA FrameFacts ==
    ASSUME NEW s \in Seq(Frames), NEW i \in 1..Len(s)
    PROVE  /\ s[i] \in Frames /\ s[i].assets \in AssetMaps /\ s[i].events \in Seq(Events)
           /\ s[i].stacked \in Nat /\ s[i].who \in Someone
<1>1. s[i] \in Frames
  OBVIOUS
<1> QED
  BY <1>1 DEF Frames

\* A new frame is a frame.
LEMMA NewFrame ==
    ASSUME NEW kind \in {"env", "call", "read_only", "transfer", "pox"}, NEW who \in Someone
    PROVE  Frame(kind, who) \in Frames
<1>1. NoAssets \in AssetMaps /\ <<>> \in Seq(Events)
  BY AssetFacts
<1> QED
  BY <1>1 DEF Frame, Frames

\* A stack with one frame more.
LEMMA PushFrame ==
    ASSUME NEW s \in Seq(Frames), NEW f \in Frames
    PROVE  /\ Append(s, f) \in Seq(Frames) /\ Len(Append(s, f)) = Len(s) + 1
           /\ \A i \in 1..Len(s) : Append(s, f)[i] = s[i]
           /\ Append(s, f)[Len(s) + 1] = f
  OBVIOUS

\* A stack with one frame less.
LEMMA PopFrame ==
    ASSUME NEW s \in Seq(Frames), Len(s) > 0
    PROVE  /\ Front(s) \in Seq(Frames) /\ Len(Front(s)) = Len(s) - 1
           /\ \A i \in 1..(Len(s) - 1) : Front(s)[i] = s[i]
<1>1. Front(s) = [i \in 1..(Len(s) - 1) |-> s[i]] /\ Len(s) - 1 \in Nat
  BY DEF Front
<1>2. \A i \in 1..(Len(s) - 1) : s[i] \in Frames
  OBVIOUS
<1> QED
  BY <1>1

\* Frame n of s with another amount stacked, asset map and list of events.
Edited(s, n, x, a, e) ==
    [s EXCEPT ![n] = [kind |-> s[n].kind, who |-> s[n].who, stacked |-> x, assets |-> a, events |-> e]]

\* t is s but for frame n, which is of the same kind.
EditOf(s, t, n) ==
    /\ t \in Seq(Frames) /\ Len(t) = Len(s)
    /\ \A i \in 1..Len(s) : i /= n => t[i] = s[i]
    /\ \A i \in 1..Len(s) : t[i].kind = s[i].kind /\ t[i].who = s[i].who

\* A stack whose last frame is replaced.
LEMMA EditFrame ==
    ASSUME NEW s \in Seq(Frames), NEW n \in 1..Len(s), NEW x \in Nat, NEW a \in AssetMaps, NEW e \in Seq(Events)
    PROVE  /\ EditOf(s, Edited(s, n, x, a, e), n)
           /\ Edited(s, n, x, a, e)[n].stacked = x /\ Edited(s, n, x, a, e)[n].assets = a
<1> DEFINE f == [kind |-> s[n].kind, who |-> s[n].who, stacked |-> x, assets |-> a, events |-> e]
           t == Edited(s, n, x, a, e)
<1>1. f \in Frames
  <2>1. s[n] \in Frames
    OBVIOUS
  <2> QED BY <2>1 DEF Frames
<1>2. f.kind = s[n].kind /\ f.who = s[n].who /\ f.stacked = x /\ f.assets = a /\ f.events = e
  OBVIOUS
<1>3. t = [s EXCEPT ![n] = f]
  BY DEF Edited
<1> HIDE DEF f, t
<1>4. /\ t \in Seq(Frames) /\ Len(t) = Len(s) /\ t[n] = f
      /\ \A i \in 1..Len(s) : i /= n => t[i] = s[i]
  BY <1>1, <1>3
<1>5. \A i \in 1..Len(s) : t[i].kind = s[i].kind /\ t[i].who = s[i].who
  BY Zenon, <1>2, <1>4
<1>6. t[n].stacked = x /\ t[n].assets = a
  BY <1>2, <1>4
<1> QED
  BY Zenon, <1>4, <1>5, <1>6 DEF t, EditOf

\* The updates of a frame that the actions make.
WithAssets(s, n, a, e) == [s EXCEPT ![n].assets = a, ![n].events = e]
WithEvent(s, n, e) == [s EXCEPT ![n].events = Append(@, e)]
WithStacked(s, n, x) == [s EXCEPT ![n].stacked = x]

\* The last frame logs a loss of assets.
LEMMA EditAssets ==
    ASSUME NEW s \in Seq(Frames), NEW n \in 1..Len(s), NEW a, NEW e
    PROVE  WithAssets(s, n, a, e) = Edited(s, n, s[n].stacked, a, e)
<1>1. s[n] \in Frames /\ DOMAIN s = 1..Len(s)
  OBVIOUS
<1>2. PICK k, w, y, b, v : s[n] = [kind |-> k, who |-> w, stacked |-> y, assets |-> b, events |-> v]
  BY <1>1 DEF Frames
<1> DEFINE r == [s[n] EXCEPT !.assets = a]
           q == [r EXCEPT !.events = e]
           t == [s EXCEPT ![n].assets = a]
<1>3. r = [kind |-> k, who |-> w, stacked |-> y, assets |-> a, events |-> v]
  BY <1>2
<1>4. t = [s EXCEPT ![n] = r]
  OBVIOUS
<1>5. WithAssets(s, n, a, e) = [t EXCEPT ![n].events = e]
  BY DEF WithAssets
<1> HIDE DEF r, t
<1>6. q = [kind |-> k, who |-> w, stacked |-> y, assets |-> a, events |-> e]
  BY <1>3
<1>7. s[n].kind = k /\ s[n].who = w /\ s[n].stacked = y
  BY <1>2
<1>8. t[n] = r /\ DOMAIN t = DOMAIN s
  BY <1>4
<1>9. [t EXCEPT ![n].events = e] = [t EXCEPT ![n] = q]
  BY <1>8
<1> HIDE DEF q
<1>10. [t EXCEPT ![n] = q] = [s EXCEPT ![n] = q]
  BY Zenon, <1>1, <1>4
<1> QED
  BY Zenon, <1>5, <1>6, <1>7, <1>9, <1>10 DEF Edited

\* The last frame logs an event.
LEMMA EditEvents ==
    ASSUME NEW s \in Seq(Frames), NEW n \in 1..Len(s), NEW e
    PROVE  WithEvent(s, n, e) = Edited(s, n, s[n].stacked, s[n].assets, Append(s[n].events, e))
<1>1. s[n] \in Frames /\ DOMAIN s = 1..Len(s)
  OBVIOUS
<1>2. PICK k, w, y, b, v : s[n] = [kind |-> k, who |-> w, stacked |-> y, assets |-> b, events |-> v]
  BY <1>1 DEF Frames
<1> DEFINE v1 == Append(s[n].events, e)
<1>4. WithEvent(s, n, e) = [s EXCEPT ![n].events = v1]
  BY DEF WithEvent
<1> HIDE DEF v1
<1>3. [s[n] EXCEPT !.events = v1]
        = [kind |-> s[n].kind, who |-> s[n].who, stacked |-> s[n].stacked, assets |-> s[n].assets, events |-> v1]
  BY <1>2
<1>5. [s EXCEPT ![n].events = v1] = [s EXCEPT ![n] = [s[n] EXCEPT !.events = v1]]
  OBVIOUS
<1> QED
  BY Zenon, <1>3, <1>4 DEF Edited, v1

\* The last frame notes a promised lock.
LEMMA EditStacked ==
    ASSUME NEW s \in Seq(Frames), NEW n \in 1..Len(s), NEW x
    PROVE  WithStacked(s, n, x) = Edited(s, n, x, s[n].assets, s[n].events)
<1>1. s[n] \in Frames /\ DOMAIN s = 1..Len(s)
  OBVIOUS
<1>2. PICK k, w, y, b, v : s[n] = [kind |-> k, who |-> w, stacked |-> y, assets |-> b, events |-> v]
  BY <1>1 DEF Frames
<1>3. [s[n] EXCEPT !.stacked = x]
        = [kind |-> s[n].kind, who |-> s[n].who, stacked |-> x, assets |-> s[n].assets, events |-> s[n].events]
  BY <1>2
<1>4. WithStacked(s, n, x) = [s EXCEPT ![n] = [s[n] EXCEPT !.stacked = x]]
  BY DEF WithStacked
<1> QED
  BY Zenon, <1>3, <1>4 DEF Edited

\* The frames after any of these edits.
LEMMA EditFrames ==
    ASSUME NEW s \in Seq(Frames), NEW n \in 1..Len(s)
    PROVE  /\ \A a \in AssetMaps, e \in Seq(Events) :
                EditOf(s, WithAssets(s, n, a, e), n) /\ WithAssets(s, n, a, e)[n].assets = a
           /\ \A e \in Events : EditOf(s, WithEvent(s, n, e), n) /\ WithEvent(s, n, e)[n].assets = s[n].assets
           /\ \A x \in Nat : /\ EditOf(s, WithStacked(s, n, x), n) /\ WithStacked(s, n, x)[n].assets = s[n].assets
                             /\ WithStacked(s, n, x)[n].stacked = x
<1>1. s[n].stacked \in Nat /\ s[n].assets \in AssetMaps /\ s[n].events \in Seq(Events)
  BY Zenon, FrameFacts
<1> USE <1>1
<1>2. \A e \in Events : Append(s[n].events, e) \in Seq(Events)
  OBVIOUS
<1> DEFINE G(x, a, e) == /\ EditOf(s, Edited(s, n, x, a, e), n)
                         /\ Edited(s, n, x, a, e)[n].stacked = x /\ Edited(s, n, x, a, e)[n].assets = a
<1>6. \A x \in Nat, a \in AssetMaps, e \in Seq(Events) : G(x, a, e)
  BY EditFrame
<1> USE <1>6
<1> HIDE DEF G
<1>3. ASSUME NEW a \in AssetMaps, NEW e \in Seq(Events)
      PROVE  EditOf(s, WithAssets(s, n, a, e), n) /\ WithAssets(s, n, a, e)[n].assets = a
  BY EditAssets DEF G
<1>4. ASSUME NEW e \in Events
      PROVE  EditOf(s, WithEvent(s, n, e), n) /\ WithEvent(s, n, e)[n].assets = s[n].assets
  <2>1. WithEvent(s, n, e) = Edited(s, n, s[n].stacked, s[n].assets, Append(s[n].events, e))
    BY EditEvents
  <2>2. G(s[n].stacked, s[n].assets, Append(s[n].events, e))
    BY Zenon, <1>2
  <2> QED BY Zenon, <2>1, <2>2 DEF G
<1>5. ASSUME NEW x \in Nat
      PROVE  /\ EditOf(s, WithStacked(s, n, x), n) /\ WithStacked(s, n, x)[n].assets = s[n].assets
             /\ WithStacked(s, n, x)[n].stacked = x
  BY EditStacked DEF G
<1> QED
  BY Zenon, <1>3, <1>4, <1>5

-----------------------------------------------------------------------------
(* The payload: what every step in a frame leaves alone, and what is left to show of it. *)
Inner == {"env", "enter", "run", "lock", "leave", "raise"}

\* While the payload runs: every frame has its context, and nobody wrote a nonce.
LEMMA InnerFacts ==
    ASSUME Inv, pc \in Inner
    PROVE  /\ StoreInv /\ Top \in Nat /\ Top = Len(frames) + 2 /\ frames \in Seq(Frames) /\ Len(frames) \in Nat
           /\ tx \in Txs /\ height \in Nat /\ IsStore(Views[Top + 1])
           /\ \A d \in 1..(Top + 1) : IsStore(Views[d])
           /\ \A d \in 1..(Top + 1), p \in Principals : Views[d][nonce(p)] = store[nonce(p)]
           /\ pc = "run" => Len(frames) > 1
           /\ pc = "env" => Len(frames) = 0
<1>1. StoreInv /\ frames \in Seq(Frames) /\ height \in Nat /\ pc /= "idle"
  BY DEF Inv, StoreInv, TypeOK, FramesOK, Inner
<1>2. Len(frames) \in Nat
  OBVIOUS
<1>3. pc = "env" => frames = <<>> /\ Top = 2
  BY DEF Inv, Contexts
<1>4. frames = <<>> => Len(frames) = 0 /\ Len(frames) + 2 = 2
  OBVIOUS
<1>5. Top = Len(frames) + 2
  BY DEF Inv, Contexts, Inner
<1>6. \A d \in 1..(Top + 1), p \in Principals : Views[d][nonce(p)] = store[nonce(p)]
  BY DEF Inv, NoncesKept, Inner
<1> QED
  BY Zenon, <1>1, <1>2, <1>3, <1>4, <1>5, <1>6, Current DEF Inv, TypeOK, Stores, Contexts

\* A step inside the payload has only the frames, and the promise of a lock, to answer for.
LEMMA InnerStep ==
    ASSUME Inv, pc \in Inner, pc' \in Inner, pc' /= "env", StoreInv', store' = store, UNCHANGED <<tx, result, height, parent>>,
           \A d \in 1..3 : Views'[d] = Views[d],
           \A d \in 1..(Top' + 1), p \in Principals : Views'[d][nonce(p)] = store[nonce(p)],
           FramesOK', Contexts', FramesLogged', LocksKept',
           pc' = "lock" => locking' \in [who : Principals, amount : Nat]
    PROVE  Inv'
<1>1. TypeOK'
  BY DEF Inv, TypeOK, StoreInv, Inner
<1>2. NoncesKept'
  BY DEF Inv, NoncesKept, Inner
<1>3. PayloadApart'
  BY DEF Inv, PayloadApart, Inner
<1>4. WayOut'
  BY DEF Inner, WayOut
<1> QED
  BY Zenon, <1>1, <1>2, <1>3, <1>4 DEF Inv, StoreInv

\* A new frame opens a context that sees what the frame around it sees.
LEMMA BeginStep ==
    ASSUME Inv, pc \in {"env", "enter", "run"}, pc' = (IF pc = "env" THEN "enter" ELSE "run"),
           NEW kind \in {"env", "call", "read_only", "transfer", "pox"}, NEW who \in Someone, begin(kind, who),
           kind = "pox" => pc /= "env" /\ who \in Principals, pc = "run" => top.kind /= "pox",
           UNCHANGED <<tx, result, height, parent>>
    PROVE  Inv'
<1> DEFINE n == Len(frames)
<1>1. /\ StoreInv /\ Top = n + 2 /\ n \in Nat /\ frames \in Seq(Frames) /\ pc \in Inner
      /\ pc = "run" => n > 1
      /\ pc = "env" => n = 0
      /\ IsStore(Views[Top + 1])
      /\ \A d \in 1..(Top + 1), p \in Principals : Views[d][nonce(p)] = store[nonce(p)]
  BY Zenon, InnerFacts DEF Inner
<1>2. /\ StoreInv' /\ Top' = Top + 1 /\ store' = store
      /\ \A d \in 1..(Top + 1) : Views'[d] = Views[d]
      /\ Views'[Top + 2] = Views[Top + 1]
  BY <1>1, AfterNest DEF begin
<1>3. Frame(kind, who) \in Frames
  BY Zenon, NewFrame
<1>4. /\ frames' \in Seq(Frames) /\ Len(frames') = n + 1
      /\ \A i \in 1..n : frames'[i] = frames[i]
      /\ frames'[n + 1] = Frame(kind, who)
  BY <1>1, <1>3 DEF begin
<1> USE <1>4
<1>5. /\ \A i \in 1..(n + 1) : i \in 1..n \/ i = n + 1
      /\ 1..3 \subseteq 1..(Top + 1)
      /\ \A d \in 1..(Top' + 1) : d \in 1..(Top + 1) \/ d = Top + 2
      /\ Top + 1 \in 1..(Top + 1)
  BY <1>1, <1>2
<1> USE <1>5
<1>6. Frame(kind, who).kind = kind /\ Frame(kind, who).who = who /\ Frame(kind, who).stacked = 0 /\ Frame(kind, who).assets = NoAssets
  BY DEF Frame
<1>7. pc = "enter" => n = 1
  BY DEF Inv, Contexts
<1>8. FramesOK'
  <2>1. ASSUME NEW i \in 1..n, frames[i].kind = "pox" PROVE FALSE
    BY <2>1, <1>7, <1>1 DEF Inv, TypeOK, FramesOK, top, Last
  <2>2. kind = "pox" => n + 1 > 1
    BY SMTT(30), <1>1, <1>7
  <2> QED BY Zenon, <1>6, <2>1, <2>2 DEF FramesOK
<1>9. Contexts'
  BY <1>1, <1>2, <1>7 DEF Contexts
<1>10. FramesLogged'
  <2>1. ASSUME NEW i \in 1..n PROVE Outflow(Views'[i + 2], Views'[i + 3], frames'[i].assets, NoOne, 0)
    BY SMTT(30), <1>1, <1>2 DEF Inv, FramesLogged
  <2>2. Outflow(Views'[n + 1 + 2], Views'[n + 1 + 3], frames'[n + 1].assets, NoOne, 0)
    <3>1. n + 1 + 2 = Top + 1 /\ n + 1 + 3 = Top + 2
      BY <1>1
    <3>2. Views'[n + 1 + 2] = Views[Top + 1] /\ Views'[n + 1 + 3] = Views[Top + 1]
      BY Zenon, <1>2, <3>1
    <3> QED BY Zenon, <1>1, <1>6, <3>2, OutflowNone, AssetFacts
  <2> QED BY Zenon, <2>1, <2>2 DEF FramesLogged
<1>11. LocksKept'
  BY <1>6 DEF top, Last, LocksKept
<1>12. \A d \in 1..(Top' + 1), p \in Principals : Views'[d][nonce(p)] = store[nonce(p)]
  <2> TAKE d \in 1..(Top' + 1), p \in Principals
  <2>1. CASE d \in 1..(Top + 1)
    BY <1>1, <1>2
  <2>2. CASE d = Top + 2
    BY Zenon, <1>1, <1>2, <2>2
  <2> QED BY Zenon, <2>1, <2>2
<1>13. pc' \in Inner /\ pc' /= "env" /\ pc' /= "lock"
  BY Zenon DEF Inner
<1>14. \A d \in 1..3 : Views'[d] = Views[d]
  BY <1>2
<1> QED
  BY Zenon, <1>1, <1>2, <1>8, <1>9, <1>10, <1>11, <1>12, <1>13, <1>14, InnerStep

\* A frame is rolled back with its context.
LEMMA PopStep ==
    ASSUME Inv, pc \in {"run", "raise"}, frames /= <<>>, roll_back, pc' = "raise" \/ (pc = "run" /\ pc' = Resume),
           UNCHANGED <<tx, result, height, parent>>
    PROVE  Inv'
<1> DEFINE n == Len(frames)
<1>1. /\ StoreInv /\ Top = n + 2 /\ n \in Nat /\ frames \in Seq(Frames) /\ pc \in Inner
      /\ pc = "run" => n > 1
      /\ \A d \in 1..(Top + 1), p \in Principals : Views[d][nonce(p)] = store[nonce(p)]
  BY InnerFacts DEF Inner
<1>2. n > 0
  OBVIOUS
<1>3. /\ StoreInv' /\ Top' = Top - 1 /\ store' = store
      /\ \A d \in 1..Top : Views'[d] = Views[d]
  BY Zenon, <1>1, AfterRollback DEF roll_back
<1>4. frames' \in Seq(Frames) /\ Len(frames') = n - 1 /\ \A i \in 1..(n - 1) : frames'[i] = frames[i]
  BY <1>1, PopFrame DEF roll_back
<1>5. /\ 1..3 \subseteq 1..Top
      /\ \A d \in 1..(Top' + 1) : d \in 1..Top /\ d \in 1..(Top + 1)
      /\ \A i \in 1..(n - 1) : i \in 1..n /\ i /= n /\ i + 2 \in 1..Top /\ i + 3 \in 1..Top
  BY <1>1, <1>2, <1>3
<1>6. \A i \in 1..(n - 1) : frames'[i].kind /= "pox"
  BY Zenon, <1>4, <1>5 DEF Inv, TypeOK, FramesOK
<1>7. FramesOK'
  BY Zenon, <1>4, <1>6 DEF FramesOK
<1>8. Contexts'
  BY <1>1, <1>3, <1>4 DEF Resume, Contexts
<1>9. FramesLogged'
  BY Zenon, <1>3, <1>4, <1>5 DEF Inv, FramesLogged
<1>10. pc' \in Inner /\ pc' /= "env" /\ pc' /= "lock"
  BY Zenon DEF Inner, Resume
<1>11. LocksKept'
  BY <1>1, <1>4, <1>6 DEF Resume, LocksKept, top, Last
<1>12. \A d \in 1..(Top' + 1), p \in Principals : Views'[d][nonce(p)] = store[nonce(p)]
  <2> TAKE d \in 1..(Top' + 1), p \in Principals
  <2>1. d \in 1..Top /\ d \in 1..(Top + 1)
    BY Zenon, <1>5
  <2> QED BY <1>1, <1>3
<1>13. \A d \in 1..3 : Views'[d] = Views[d]
  BY <1>3, <1>5
<1> QED
  BY Zenon, <1>1, <1>3, <1>7, <1>8, <1>9, <1>10, <1>11, <1>12, <1>13, InnerStep

\* A step that writes m in the innermost frame, which lost by it no more than b, and b was added to its asset map.
LEMMA WriteStep ==
    ASSUME Inv, pc \in {"run", "lock"}, NEW m, \A k \in DOMAIN m : m[k] \in AllValues, put(m), IsStore(Over(m)),
           \A p \in Principals : Over(m)[nonce(p)] = Views[Top + 1][nonce(p)],
           FramesOK', Len(frames') = Len(frames),
           \A i \in 1..Len(frames) : i /= Len(frames) => frames'[i] = frames[i],
           NEW b \in AssetMaps, Outflow(Views[Top + 1], Over(m), b, NoOne, 0),
           pc' /= "raise" => frames'[Len(frames)].assets = commit_other(top.assets, b),
           pc' = "raise" \/ pc' = (IF Len(frames) = 1 THEN "leave" ELSE "run"),
           LocksKept', UNCHANGED <<tx, result, height, parent>>
    PROVE  Inv'
<1> DEFINE n == Len(frames)
<1>1. /\ StoreInv /\ Top = n + 2 /\ n \in Nat /\ frames \in Seq(Frames) /\ pc \in Inner
      /\ IsStore(Views[Top + 1])
      /\ \A d \in 1..(Top + 1) : IsStore(Views[d])
      /\ \A d \in 1..(Top + 1), p \in Principals : Views[d][nonce(p)] = store[nonce(p)]
  BY Zenon, InnerFacts DEF Inner
<1> USE <1>1
<1>2. n > 0
  BY DEF Inv, Contexts
<1>3. /\ StoreInv' /\ Top' = Top /\ store' = store
      /\ \A d \in 1..Top : Views'[d] = Views[d]
      /\ Views'[Top + 1] = Over(m)
  BY Zenon, AfterPut
<1> USE <1>3
<1>4. /\ 1..3 \subseteq 1..Top /\ n \in 1..n /\ Top + 1 \in 1..(Top + 1)
      /\ \A d \in 1..(Top' + 1) : d = Top + 1 \/ (d \in 1..Top /\ d \in 1..(Top + 1))
      /\ \A i \in 1..n : i /= n => i + 2 \in 1..Top /\ i + 3 \in 1..Top
      /\ n + 2 \in 1..Top /\ n + 2 \in 1..(Top + 1) /\ n + 3 = Top + 1
  BY SMTT(30), <1>2
<1> USE <1>4
<1>5. Contexts'
  BY <1>2 DEF Contexts
<1>6. FramesLogged'
  <2> SUFFICES ASSUME pc' /= "raise", NEW i \in 1..n
               PROVE  Outflow(Views'[i + 2], Views'[i + 3], frames'[i].assets, NoOne, 0)
    BY Zenon DEF FramesLogged
  <2>1. Outflow(Views[i + 2], Views[i + 3], frames[i].assets, NoOne, 0)
    BY Zenon DEF Inv, FramesLogged
  <2>2. CASE i /= n
    BY Zenon, <2>1, <2>2
  <2>3. CASE i = n
    <3>1. top.assets \in AssetMaps /\ top.assets = frames[n].assets
      BY FrameFacts DEF top, Last
    <3>2. Outflow(Views[n + 2], Over(m), commit_other(top.assets, b), NoOne, 0)
      BY Zenon, <2>1, <2>3, <3>1, OutflowAdds
    <3>3. Views'[n + 2] = Views[n + 2] /\ Views'[n + 3] = Over(m)
      OBVIOUS
    <3> QED BY Zenon, <2>3, <3>2, <3>3
  <2> QED BY Zenon, <2>2, <2>3
<1>7. \A d \in 1..(Top' + 1), p \in Principals : Views'[d][nonce(p)] = store[nonce(p)]
  <2> TAKE d \in 1..(Top' + 1), p \in Principals
  <2>1. CASE d = Top + 1
    BY Zenon, <2>1
  <2>2. CASE d /= Top + 1
    BY SMTT(30), <2>2
  <2> QED BY Zenon, <2>1, <2>2
<1>8. pc' \in Inner /\ pc' /= "env" /\ pc' /= "lock"
  BY DEF Inner
<1>9. \A d \in 1..3 : Views'[d] = Views[d]
  BY Zenon
<1> QED
  BY Zenon, <1>5, <1>6, <1>7, <1>8, <1>9, InnerStep

\* An operation on assets, see Moves: whatever m is, when nobody loses more by it than is logged.
LEMMA MovesStep ==
    ASSUME Inv, pc = "run", top.kind \in {"call", "transfer"}, NEW m, NEW kind \in AssetKinds \cup {"none"}, NEW from,
           kind /= "none" => from \in Principals, NEW n \in Nat, NEW e \in Events, Moves(m, kind, from, n, e),
           \A k \in DOMAIN m : m[k] \in AllValues, IsStore(Over(m)),
           \A p \in Principals : Over(m)[nonce(p)] = Views[Top + 1][nonce(p)],
           Outflow(Views[Top + 1], Over(m), Addition(kind, from, n), NoOne, 0)
    PROVE  Inv'
<1> DEFINE l == Len(frames)
           b == Addition(kind, from, n)
           assets == IF kind = "none" THEN top.assets ELSE AddTo(top.assets, kind, from, n)
<1>1. frames \in Seq(Frames) /\ l \in Nat /\ l > 1
  BY Zenon, InnerFacts DEF Inner
<1> USE <1>1
<1>2. l \in 1..l
  OBVIOUS
<1> USE <1>2
<1>3. top = frames[l] /\ top.assets \in AssetMaps /\ top.events \in Seq(Events) /\ top.stacked \in Nat
  BY ZenonT(30), FrameFacts DEF top, Last
<1> USE <1>3
<1>4. b \in AssetMaps /\ assets = commit_other(top.assets, b) /\ assets \in AssetMaps
  BY SMTT(30), AssetFacts
<1> USE <1>4
<1>5. put(m) /\ UNCHANGED <<tx, result, height, parent, locking>>
  BY DEF Moves, ledger
<1>6. \/ pc' = "run" /\ frames' = [frames EXCEPT ![l].assets = assets, ![l].events = Append(@, e)]
      \/ pc' = "raise" /\ frames' = frames
  BY Zenon DEF Moves, Goto, AddTo
<1> HIDE DEF b, assets
<1>7. CASE pc' = "raise" /\ frames' = frames
  BY Zenon, <1>7, <1>5, WriteStep DEF Inv, TypeOK, FramesOK, LocksKept, b
<1>8. CASE pc' = "run" /\ frames' = [frames EXCEPT ![l].assets = assets, ![l].events = Append(@, e)]
  <2>1. frames' = WithAssets(frames, l, assets, Append(top.events, e))
    BY <1>8 DEF WithAssets
  <2>3. Append(top.events, e) \in Seq(Events)
    OBVIOUS
  <2>4. EditOf(frames, frames', l) /\ frames'[l].assets = assets
    <3>1. \A a \in AssetMaps, v \in Seq(Events) :
            EditOf(frames, WithAssets(frames, l, a, v), l) /\ WithAssets(frames, l, a, v)[l].assets = a
      BY ZenonT(30), EditFrames
    <3> QED BY Zenon, <2>1, <2>3, <3>1
  <2> USE <2>4
  <2>5. FramesOK'
    BY Zenon DEF Inv, TypeOK, FramesOK, EditOf
  <2>6. LocksKept'
    BY Zenon, <1>8 DEF top, Last, EditOf, LocksKept
  <2>7. pc' = (IF Len(frames) = 1 THEN "leave" ELSE "run")
    BY <1>8
  <2> QED BY Zenon, <1>5, <2>5, <2>6, <2>7, WriteStep DEF b, EditOf
<1> QED
  BY Zenon, <1>6, <1>7, <1>8

\* The innermost frame is committed: its asset map is added to the one of the frame around it.
LEMMA CommitFrameStep ==
    ASSUME Inv, pc = "run", commit_frame, UNCHANGED <<tx, result, height, parent>>,
           pc' = (IF top.kind = "pox" THEN "lock" ELSE Resume),
           top.kind = "pox" => top.stacked > 0 /\ locking' = [who |-> top.who, amount |-> top.stacked]
    PROVE  Inv'
<1> DEFINE n == Len(frames)
<1>1. /\ StoreInv /\ Top = n + 2 /\ n \in Nat /\ frames \in Seq(Frames) /\ pc \in Inner /\ n > 1
      /\ \A d \in 1..(Top + 1) : IsStore(Views[d])
      /\ \A d \in 1..(Top + 1), p \in Principals : Views[d][nonce(p)] = store[nonce(p)]
  BY Zenon, InnerFacts DEF Inner
<1>2. /\ n \in 1..n /\ n - 1 \in 1..n /\ n - 1 \in 1..(n - 1) /\ n - 1 /= n /\ n > 0 /\ Top > 1
      /\ \A i \in 1..(n - 1) : i \in 1..n /\ i /= n
      /\ Top = n + 2 /\ Top - 1 = n + 1
      /\ \A i \in 1..(n - 1) : i /= n - 1 => i + 2 \in 1..(Top - 1) /\ i + 3 \in 1..(Top - 1)
      /\ n + 1 \in 1..(Top - 1) /\ n - 1 + 2 = n + 1 /\ n - 1 + 3 = Top /\ n + 3 = Top + 1 /\ n + 2 = Top
      /\ n + 1 \in 1..(Top + 1) /\ Top \in 1..(Top + 1) /\ Top + 1 \in 1..(Top + 1)
      /\ 3 <= Top - 1
  BY <1>1
<1>3. /\ StoreInv' /\ Top' = Top - 1 /\ store' = store
      /\ \A d \in 1..(Top - 1) : Views'[d] = Views[d]
      /\ Views'[Top] = Views[Top + 1]
  BY Zenon, <1>1, <1>2, AfterCommit DEF commit_frame
<1>4. /\ top = frames[n] /\ top.assets \in AssetMaps /\ top.events \in Seq(Events) /\ top.stacked \in Nat
      /\ frames[n - 1].assets \in AssetMaps /\ frames[n - 1].events \in Seq(Events) /\ frames[n - 1].stacked \in Nat
  BY Zenon, <1>1, <1>2, FrameFacts DEF top, Last
<1>5. Merged \in AssetMaps /\ Merged = commit_other(frames[n - 1].assets, top.assets)
  BY <1>4, AssetFacts DEF Merged
<1>6. PICK e : e \in Seq(Events) /\ frames' = WithAssets(Front(frames), n - 1, Merged, e)
  <2>1. frames' = [Front(frames) EXCEPT ![n - 1].assets = Merged, ![n - 1].events = @ \o top.events]
    BY DEF commit_frame
  <2>2. /\ Front(frames) \in Seq(Frames) /\ Len(Front(frames)) = n - 1
        /\ Front(frames)[n - 1] = frames[n - 1]
    BY Zenon, <1>1, <1>2, PopFrame
  <2>3. frames' = WithAssets(Front(frames), n - 1, Merged, frames[n - 1].events \o top.events)
    BY Zenon, <1>2, <1>4, <2>1, <2>2 DEF WithAssets
  <2>4. frames[n - 1].events \o top.events \in Seq(Events)
    BY <1>4
  <2> QED BY Zenon, <2>3, <2>4
<1>7. /\ frames' \in Seq(Frames) /\ Len(frames') = n - 1
      /\ \A i \in 1..(n - 1) : i /= n - 1 => frames'[i] = frames[i]
      /\ \A i \in 1..(n - 1) : frames'[i].kind = frames[i].kind
      /\ frames'[n - 1].assets = Merged
  <2> DEFINE s == Front(frames)
  <2>1. /\ s \in Seq(Frames) /\ Len(s) = n - 1
        /\ \A i \in 1..(n - 1) : s[i] = frames[i]
    BY <1>1, PopFrame
  <2> HIDE DEF s
  <2>2. n - 1 \in 1..Len(s) /\ frames' = WithAssets(s, n - 1, Merged, e)
    BY Zenon, <1>2, <1>6, <2>1 DEF s
  <2>3. EditOf(s, frames', n - 1) /\ frames'[n - 1].assets = Merged
    BY <1>5, <1>6, <2>1, <2>2, EditFrames
  <2> QED BY Zenon, <2>1, <2>3 DEF EditOf
<1>8. \A i \in 1..(n - 1) : frames'[i].kind /= "pox"
  BY Zenon, <1>2, <1>7 DEF Inv, TypeOK, FramesOK
<1>9. FramesOK'
  BY Zenon, <1>7, <1>8 DEF FramesOK
<1>10. Contexts'
  <2>1. /\ Top' = Len(frames') + 2 /\ pc' \in {"run", "leave", "lock"} /\ Len(frames') > 0
        /\ pc' = "run" => Len(frames') > 1
        /\ pc' = "leave" => Len(frames') = 1
    BY SMTT(30), <1>1, <1>3, <1>7 DEF Resume
  <2> QED BY Zenon, <2>1 DEF Contexts
<1>11. FramesLogged'
  <2> SUFFICES ASSUME NEW i \in 1..(n - 1)
               PROVE  Outflow(Views'[i + 2], Views'[i + 3], frames'[i].assets, NoOne, 0)
    BY Zenon, <1>7 DEF FramesLogged
  <2>1. pc /= "raise"
    BY Zenon
  <2>2. \A j \in 1..n : Outflow(Views[j + 2], Views[j + 3], frames[j].assets, NoOne, 0)
    BY DEF Inv, FramesLogged
  <2>3. CASE i /= n - 1
    BY Zenon, <1>2, <1>3, <1>7, <2>2, <2>3
  <2>4. CASE i = n - 1
    <3>1. Outflow(Views[n + 1], Views[Top], frames[n - 1].assets, NoOne, 0)
      BY Zenon, <1>2, <2>2
    <3>2. Outflow(Views[Top], Views[Top + 1], top.assets, NoOne, 0)
      BY Zenon, <1>2, <1>4, <2>2
    <3>3. Outflow(Views[n + 1], Views[Top + 1], Merged, NoOne, 0)
      BY Zenon, <1>1, <1>2, <1>4, <1>5, <3>1, <3>2, OutflowAdds
    <3> QED BY Zenon, <1>2, <1>3, <1>7, <2>4, <3>3
  <2> QED BY Zenon, <2>3, <2>4
<1>12. LocksKept' /\ (pc' = "lock" => locking' \in [who : Principals, amount : Nat])
  <2>1. top'.kind /= "pox"
    BY Zenon, <1>2, <1>7, <1>8 DEF top, Last
  <2>2. CASE pc' /= "lock"
    BY Zenon, <2>1, <2>2 DEF LocksKept
  <2>3. CASE pc' = "lock"
    <3>1. top.kind = "pox" /\ locking' = [who |-> top.who, amount |-> top.stacked] /\ top.stacked > 0
      BY <2>3 DEF Resume
    <3>2. top.who \in Principals
      BY Zenon, <1>2, <1>4, <3>1 DEF Inv, TypeOK, FramesOK
    <3>3. locking' \in [who : Principals, amount : Nat] /\ locking'.who = top.who /\ locking'.amount = top.stacked
      BY Zenon, <1>4, <3>1, <3>2
    <3>4. Lockable(Views[Top + 1], top.who, top.stacked)
      BY Zenon, <3>1 DEF Inv, LocksKept
    <3>5. Views'[Top' + 1] = Views[Top + 1]
      BY <1>1, <1>3
    <3>6. Lockable(Views[Top + 1], locking.who, locking.amount)'
      BY Zenon, <3>3, <3>4, <3>5 DEF Lockable, has_locked_tokens, can_transfer, unlock_available_tokens_if_any
    <3> QED BY Zenon, <2>1, <3>3, <3>6 DEF LocksKept
  <2> QED BY Zenon, <2>2, <2>3
<1>13. \A d \in 1..(Top' + 1), p \in Principals : Views'[d][nonce(p)] = store[nonce(p)]
  <2> TAKE d \in 1..(Top' + 1), p \in Principals
  <2>1. d = Top \/ (d \in 1..(Top - 1) /\ d \in 1..(Top + 1))
    BY <1>1, <1>3
  <2>2. CASE d = Top
    BY Zenon, <1>1, <1>2, <1>3, <2>2
  <2>3. CASE d /= Top
    BY Zenon, <1>1, <1>3, <2>1, <2>3
  <2> QED BY Zenon, <2>2, <2>3
<1>14. pc' \in Inner /\ pc' /= "env"
  BY Zenon DEF Inner, Resume
<1>15. \A d \in 1..3 : Views'[d] = Views[d]
  BY <1>1, <1>3
<1> QED
  BY Zenon, <1>1, <1>3, <1>9, <1>10, <1>11, <1>12, <1>13, <1>14, <1>15, InnerStep

=============================================================================
