---------------------------- MODULE Transactions ----------------------------
(***************************************************************************)
(* Processing one transaction after the other against the Clarity store:   *)
(* process_transaction of src/src/chainstate/stacks/db/transactions.rs,    *)
(* the transaction connection of src/src/vm/clarity.rs and the call frames *)
(* (GlobalContext) of src/src/vm/contexts.rs.                              *)
(*                                                                         *)
(* A contract is whatever it may do: in each frame it moves assets, calls  *)
(* other contracts, and returns ok, returns an error or fails, in any      *)
(* order.  A step makes at most one change to the store, so the properties *)
(* are checked between any two of them.  Every frame has a context of the  *)
(* store, above the one of the transaction's log and the one that is       *)
(* opened for the post-conditions.                                         *)
(***************************************************************************)
EXTENDS RollbackWrapper, Integers, FiniteSets, FiniteSetsExt

CONSTANTS
    Users,        \* the principals that sign transactions
    Contracts,    \* the principals of contracts
    NoOne,        \* not a principal
    Grant,        \* the STX each principal has at first
    MaxUint,      \* the largest uint
    TotalSupply,  \* the declared supply of the fungible token
    LockPeriod,   \* how long stack-stx locks STX, in burnchain blocks
    Coinbase,     \* of a block
    Maturity,     \* MINER_REWARD_MATURITY + MINER_REWARD_WINDOW
    Payments,     \* the scheduled payments of the block of each height: its miner, then user burns
    Txs,          \* the transactions that may be in blocks
    MaxFrames, MaxTxs, MaxHeight  \* bounds

VARIABLES
    pc,       \* what the processing of the transaction does next
    tx,       \* the transaction
    frames,   \* the open frames: their asset maps and event batches
    left,     \* how many more operations the contracts do
    locking,  \* the lock that stack-stx returned
    error,    \* the kind of error that is raised
    result,   \* how the payload ended, and its assets and events
    height,   \* of the block that is appended, and of the burnchain
    fees,     \* collected: they are scheduled with the rewards, and no reward includes them
    burned,   \* history: the STX burned by the transactions that were committed
    parent,   \* the last block: its store, fees and burned STX
    done      \* the number of transactions begun

vars == <<db, pc, tx, frames, left, locking, error, result, height, fees, burned, parent, done>>

Principals == Users \cup Contracts

AllKeys == ({"stx", "nonce", "token", "stacker"} \X Principals) \cup ({"supply", "item"} \X {NoOne})
stx(p) == <<"stx", p>>
nonce(p) == <<"nonce", p>>
token(p) == <<"token", p>>
stacker(p) == <<"stacker", p>>
supply == <<"supply", NoOne>>
item == <<"item", NoOne>>

\* What the code's types say of a transaction, which its signers chose otherwise freely.
ASSUME TransactionAssumption ==
    /\ Keys = AllKeys /\ NoOne \notin Principals
    /\ Grant \in [Principals -> Nat] /\ LockPeriod \in Nat /\ Maturity \in Nat /\ MaxHeight \in Nat
    /\ \A t \in Txs :
        /\ t.kind \in {"transfer", "call", "coinbase"}
        /\ {t.origin, t.payer} \subseteq Users /\ t.to \in Principals
        /\ {t.nonce, t.payer_nonce, t.fee, t.amount} \cup t.amounts \subseteq Nat
        /\ \A c \in t.conditions :
            /\ c.who \in Principals /\ c.amount \in Nat
            /\ \/ c.asset \in {"stx", "token"} /\ c.code \in {"SentEq", "SentGt", "SentGe", "SentLt", "SentLe"}
               \/ c.asset = "asset" /\ c.code \in {"Sent", "NotSent"}

Now(k) == get(k, store)
Put(k, v) == [x \in {k} |-> v]
And(f, g) == [x \in DOMAIN f \cup DOMAIN g |-> IF x \in DOMAIN f THEN f[x] ELSE g[x]]

-----------------------------------------------------------------------------
(* STXBalance *)
Balance(n) == [unlocked |-> n, locked |-> 0, unlock_height |-> 0]
get_total_balance(b) == b.unlocked + b.locked
has_locked_tokens(b) == b.locked > 0 /\ b.unlock_height > height
unlock_available_tokens_if_any(b) ==
    IF b.locked > 0 /\ b.unlock_height <= height THEN Balance(get_total_balance(b)) ELSE b
can_transfer(b, n) == unlock_available_tokens_if_any(b).unlocked >= n
debit(b, n) == [unlock_available_tokens_if_any(b) EXCEPT !.unlocked = @ - n]
credit(b, n) == [unlock_available_tokens_if_any(b) EXCEPT !.unlocked = @ + n]
lock_tokens(b, n, until) ==
    [unlocked |-> debit(b, n).unlocked, locked |-> n, unlock_height |-> until]

(* AssetMap *)
AssetKinds == {"stx", "burn", "token", "asset"}
NoAssets == [kind \in AssetKinds |-> [p \in Principals |-> 0]]

\* The "asset" amounts are the lengths of the lists of items, which have no limit.
Overflows(assets) ==
    \E kind \in AssetKinds \ {"asset"}, p \in Principals : assets[kind][p] > MaxUint

commit_other(mine, other) ==
    [kind \in AssetKinds |-> [p \in Principals |-> mine[kind][p] + other[kind][p]]]

Event(type, from, to, n) == [type |-> type, from |-> from, to |-> to, amount |-> n]

-----------------------------------------------------------------------------
(* GlobalContext *)
Last(s) == s[Len(s)]
Front(s) == SubSeq(s, 1, Len(s) - 1)
top == Last(frames)
Frame(kind, who) ==
    [kind |-> kind, who |-> who, stacked |-> 0, assets |-> NoAssets, events |-> <<>>]

begin(kind, who) == nest /\ frames' = Append(frames, Frame(kind, who))

\* Mutant: the events of a frame that is rolled back are kept.
roll_back_Events ==
    /\ rollback
    /\ frames' = IF Len(frames) = 1 THEN <<>>
                 ELSE [Front(frames) EXCEPT ![Len(frames) - 1].events = @ \o top.events]

roll_back == rollback /\ frames' = Front(frames)

\* Mutant: the amounts of the inner frame replace those of the outer one.
Merged_Replaced ==
    LET outer == frames[Len(frames) - 1].assets
    IN [kind \in AssetKinds |->
            [p \in Principals |-> IF top.assets[kind][p] > 0 THEN top.assets[kind][p] ELSE outer[kind][p]]]

\* What the outer frame's asset map becomes when the innermost frame is committed.
Merged == commit_other(frames[Len(frames) - 1].assets, top.assets)

commit_frame ==
    /\ ~Overflows(Merged)
    /\ commit
    /\ frames' = [Front(frames) EXCEPT ![Len(frames) - 1].assets = Merged,
                                       ![Len(frames) - 1].events = @ \o top.events]

\* Mutant: the frame is gone and its context of the store stays open.
commit_fails_Open == Overflows(Merged) /\ frames' = Front(frames) /\ UNCHANGED db

\* An amount overflows: the frame is gone and its edits are rolled back.
commit_fails == Overflows(Merged) /\ roll_back

-----------------------------------------------------------------------------
(* The transaction, from process_transaction to the first frame *)
Ended(status, f) == [status |-> status, assets |-> f.assets, events |-> f.events]
Nothing == Frame("env", NoOne)
NoLock == [who |-> NoOne, amount |-> 0]

Init ==
    /\ store = [k \in AllKeys |-> CASE k[1] = "stx" -> Balance(Grant[k[2]])
                                    [] k[1] = "item" -> NoOne
                                    [] OTHER -> 0]
    /\ DbInit
    /\ pc = "idle"
    /\ tx = NoOne
    /\ frames = <<>>
    /\ left = 0
    /\ locking = NoLock
    /\ error = "none"
    /\ result = Ended("none", Nothing)
    /\ height = 1
    /\ fees = 0
    /\ burned = 0
    /\ parent = [store |-> store, fees |-> 0, burned |-> 0]
    /\ done = 0

ledger == <<height, fees, burned, parent, done>>
Goto(l) == pc' = l

\* A transaction with another nonce, or whose sponsor has another one, is refused.
check_transaction_nonces(t) ==
    /\ t.nonce = Now(nonce(t.origin))
    /\ t.payer_nonce = Now(nonce(t.payer))

start_transaction_processing(t) ==
    /\ pc = "idle" /\ done < MaxTxs
    /\ check_transaction_nonces(t)
    /\ nest /\ Goto("payload")
    /\ tx' = t
    /\ left' = t.size
    /\ done' = done + 1
    /\ UNCHANGED <<frames, locking, error, result, height, fees, burned, parent>>

\* A token transfer has no post-conditions and another recipient.
Senseless == tx.kind = "transfer" /\ (tx.conditions # {} \/ tx.to = tx.origin)

process_transaction_payload ==
    /\ pc = "payload"
    /\ \/ tx.kind = "coinbase" /\ Goto("fee") /\ result' = Ended("ok", Nothing) /\ UNCHANGED db
       \/ Senseless /\ Goto("invalid") /\ UNCHANGED <<db, result>>
       \/ tx.kind # "coinbase" /\ ~Senseless /\ nest /\ Goto("env") /\ UNCHANGED result
    /\ UNCHANGED <<tx, frames, left, locking, error, ledger>>

execute_in_env ==
    /\ pc = "env"
    /\ begin("env", NoOne) /\ Goto("enter")
    /\ UNCHANGED <<tx, left, locking, error, result, ledger>>

\* The transfer, the function of a contract or stack-stx; or there is no such function.
enter ==
    /\ pc = "enter"
    /\ \/ \E kind \in (IF tx.kind = "transfer" THEN {"transfer"} ELSE {"call", "pox"}) :
             begin(kind, tx.origin) /\ Goto("run") /\ UNCHANGED error
       \/ tx.kind = "call" /\ Goto("raise") /\ error' = "invalid" /\ UNCHANGED <<db, frames>>
    /\ UNCHANGED <<tx, left, locking, result, ledger>>

-----------------------------------------------------------------------------
(* What the code in a frame does *)
Runs(kinds) == pc = "run" /\ top.kind \in kinds
Senders == {tx.origin} \cup Contracts

\* The contracts a transaction calls do the operations "ops" names, with the amounts "amounts"
\* and at most "size" times.
Works(op) == Runs({"call"}) /\ op \in tx.ops /\ left > 0 /\ left' = left - 1

\* An operation writes m, adds n of an asset to what "from" sent, and registers the event e;
\* when the sum overflows the error is raised after the write.
Moves(m, kind, from, n, e) ==
    LET assets == IF kind = "none" THEN top.assets ELSE [top.assets EXCEPT ![kind][from] = @ + n]
    IN /\ put(m)
       /\ \/ /\ ~Overflows(assets)
             /\ frames' = [frames EXCEPT ![Len(frames)].assets = assets,
                                         ![Len(frames)].events = Append(@, e)]
             /\ UNCHANGED <<pc, error>>
          \/ /\ Overflows(assets)
             /\ Goto("raise") /\ error' = "runtime"
             /\ UNCHANGED frames
       /\ UNCHANGED <<tx, locking, result, ledger>>

stx_transfer_consolidated(from, to, n) ==
    /\ n > 0 /\ from # to
    /\ can_transfer(Now(stx(from)), n)
    /\ Moves(And(Put(stx(from), debit(Now(stx(from)), n)), Put(stx(to), credit(Now(stx(to)), n))),
             "stx", from, n, Event("stx", from, to, n))

special_stx_transfer ==
    /\ Works("stx")
    /\ \E from \in Senders, to \in Principals, n \in tx.amounts : stx_transfer_consolidated(from, to, n)

special_stx_burn ==
    /\ Works("burn")
    /\ \E from \in Senders, n \in tx.amounts :
        /\ n > 0 /\ can_transfer(Now(stx(from)), n)
        /\ Moves(Put(stx(from), debit(Now(stx(from)), n)), "burn", from, n, Event("stx", from, NoOne, n))

\* More than the declared supply is a runtime error.
special_mint_token ==
    /\ Works("token")
    /\ \E to \in Principals, n \in tx.amounts :
        \/ /\ n > 0 /\ Now(supply) + n <= TotalSupply
           /\ Moves(And(Put(supply, Now(supply) + n), Put(token(to), Now(token(to)) + n)),
                    "none", NoOne, 0, Event("token", NoOne, to, n))
        \/ /\ Now(supply) + n > TotalSupply
           /\ Goto("raise") /\ error' = "runtime"
           /\ UNCHANGED <<db, tx, frames, locking, result, ledger>>

special_transfer_token ==
    /\ Works("token")
    /\ \E from, to \in Principals, n \in tx.amounts :
        /\ n > 0 /\ from # to /\ Now(token(from)) >= n
        /\ Moves(And(Put(token(from), Now(token(from)) - n), Put(token(to), Now(token(to)) + n)),
                 "token", from, n, Event("token", from, to, n))

special_mint_asset ==
    /\ Works("item")
    /\ Now(item) = NoOne
    /\ \E to \in Principals : Moves(Put(item, to), "none", NoOne, 0, Event("item", NoOne, to, 1))

special_transfer_asset ==
    /\ Works("item")
    /\ \E to \in Principals \ {Now(item)} :
        /\ Now(item) # NoOne
        /\ Moves(Put(item, to), "asset", Now(item), 1, Event("item", Now(item), to, 1))

\* A token transfer that cannot be paid makes the transaction invalid.
stx_transfer ==
    /\ Runs({"transfer"}) /\ top.events = <<>>
    /\ \/ stx_transfer_consolidated(tx.origin, tx.to, tx.amount) /\ UNCHANGED left
       \/ /\ ~can_transfer(Now(stx(tx.origin)), tx.amount)
          /\ roll_back /\ Goto("raise") /\ error' = "invalid"
          /\ UNCHANGED <<tx, left, locking, result, ledger>>

\* A public function, a read-only one (or an at-block expression), or stack-stx is called.
special_contract_call ==
    /\ Works("call")
    /\ Len(frames) < MaxFrames
    /\ \E kind \in {"call", "read_only", "pox"}, who \in Senders :
        (kind # "pox" => who = tx.origin) /\ begin(kind, who)
    /\ UNCHANGED <<pc, tx, locking, error, result, ledger>>

\* stack-stx of the boot contract: the stacker is not stacking and has the amount.
stack_stx ==
    /\ Runs({"pox"}) /\ top.stacked = 0
    /\ Now(stacker(top.who)) <= height
    /\ \E n \in tx.amounts :
        /\ n > 0 /\ can_transfer(Now(stx(top.who)), n)
        /\ frames' = [frames EXCEPT ![Len(frames)].stacked = n]
    /\ put(Put(stacker(top.who), height + LockPeriod))
    /\ UNCHANGED <<pc, tx, left, locking, error, result, ledger>>

\* Where the caller goes on once the innermost frame is closed.
Resume == IF Len(frames) = 2 THEN "leave" ELSE "run"

\* handle_tx_result of an (ok ..): the frame is committed.  stack-stx has the STX locked next.
return_ok ==
    /\ Runs({"call", "transfer", "pox"})
    /\ top.kind = "transfer" => top.events # <<>>
    /\ top.kind = "pox" => top.stacked > 0
    /\ \/ /\ commit_frame
          /\ locking' = [who |-> top.who, amount |-> top.stacked]
          /\ Goto(IF top.kind = "pox" THEN "lock" ELSE Resume)
          /\ UNCHANGED error
       \/ commit_fails /\ Goto("raise") /\ error' = "runtime" /\ UNCHANGED locking
    /\ UNCHANGED <<tx, left, result, ledger>>

\* An (err ..), or the end of a read-only function: the frame is rolled back.
return_err ==
    /\ Runs({"call", "pox", "read_only"})
    /\ roll_back /\ Goto(Resume)
    /\ UNCHANGED <<tx, left, locking, error, result, ledger>>

\* A runtime error, or one that makes the transaction invalid (its cost, a failed check).
throw ==
    /\ Runs({"call", "pox", "read_only", "transfer"})
    /\ Goto("raise") /\ error' \in {"runtime", "invalid"}
    /\ UNCHANGED <<db, tx, frames, left, locking, result, ledger>>

\* handle_pox_api_contract_call: the lock is written in the frame of the caller.
pox_lock ==
    LET b == Now(stx(locking.who))
    IN /\ pc = "lock"
       /\ ~has_locked_tokens(b) /\ can_transfer(b, locking.amount)
       /\ put(Put(stx(locking.who), lock_tokens(b, locking.amount, height + LockPeriod)))
       /\ frames' = [frames EXCEPT ![Len(frames)].events =
                        Append(@, Event("lock", locking.who, locking.who, locking.amount))]
       /\ Goto(IF Len(frames) = 1 THEN "leave" ELSE "run")
       /\ UNCHANGED <<tx, left, locking, error, result, ledger>>

-----------------------------------------------------------------------------
(* The way out: with_abort_callback, the fee and the nonces *)
leave ==
    /\ pc = "leave"
    /\ commit /\ frames' = <<>>
    /\ result' = Ended("ok", top) /\ Goto("check")
    /\ UNCHANGED <<tx, left, locking, error, ledger>>

\* Each frame is rolled back, and then the context around them.  Only the runtime errors of a
\* contract call leave a valid transaction.
raise ==
    /\ pc = "raise"
    /\ \/ frames # <<>> /\ roll_back /\ UNCHANGED <<pc, result>>
       \/ /\ frames = <<>> /\ rollback
          /\ \/ /\ error = "runtime" /\ tx.kind = "call"
                /\ Goto("fee") /\ result' = Ended("runtime_error", Nothing)
             \/ ~(error = "runtime" /\ tx.kind = "call") /\ Goto("invalid") /\ UNCHANGED result
          /\ UNCHANGED frames
    /\ UNCHANGED <<tx, left, locking, error, ledger>>

\* FungibleConditionCode::check
check(code, bound, sent) ==
    CASE code = "SentEq" -> sent = bound
      [] code = "SentGt" -> sent > bound
      [] code = "SentGe" -> sent >= bound
      [] code = "SentLt" -> sent < bound
      [] code = "SentLe" -> sent <= bound

\* What the condition c is about, in an asset map; burned STX were sent.
Sent(assets, asset, p) ==
    IF asset = "stx" THEN assets.stx[p] + assets.burn[p] ELSE assets[asset][p]

\* Each condition holds, and in deny mode what was sent is covered by one.  The conditions on
\* the item are Sent and NotSent.
check_transaction_postconditions(assets) ==
    /\ \A c \in tx.conditions :
        IF c.asset = "asset" THEN (c.code = "Sent") = (assets.asset[c.who] > 0)
        ELSE check(c.code, c.amount, Sent(assets, c.asset, c.who))
    /\ tx.deny =>
        \A asset \in {"stx", "token", "asset"}, p \in Principals :
            Sent(assets, asset, p) > 0 => \E c \in tx.conditions : c.asset = asset /\ c.who = p

\* Mutant: the edits of an aborted transaction stay.
abort_call_back_Commits ==
    /\ pc = "check"
    /\ commit
    /\ IF tx.kind = "transfer" \/ check_transaction_postconditions(result.assets)
       THEN UNCHANGED result
       ELSE result' = [result EXCEPT !.status = "aborted"]
    /\ Goto("fee")
    /\ UNCHANGED <<tx, frames, left, locking, error, ledger>>

abort_call_back ==
    /\ pc = "check"
    /\ IF tx.kind = "transfer" \/ check_transaction_postconditions(result.assets)
       THEN commit /\ UNCHANGED result
       ELSE rollback /\ result' = [result EXCEPT !.status = "aborted"]
    /\ Goto("fee")
    /\ UNCHANGED <<tx, frames, left, locking, error, ledger>>

\* Mutant: the payer's account is the one read before the payload has run.
pay_transaction_fee_Stale ==
    /\ pc = "fee"
    /\ \/ /\ can_transfer(store[stx(tx.payer)], tx.fee)
          /\ put(Put(stx(tx.payer), debit(store[stx(tx.payer)], tx.fee))) /\ Goto("nonces")
       \/ ~can_transfer(store[stx(tx.payer)], tx.fee) /\ Goto("invalid") /\ UNCHANGED db
    /\ UNCHANGED <<tx, frames, left, locking, error, result, ledger>>

\* The payer's account is read again once the payload has run.
pay_transaction_fee ==
    /\ pc = "fee"
    /\ \/ /\ can_transfer(Now(stx(tx.payer)), tx.fee)
          /\ put(Put(stx(tx.payer), debit(Now(stx(tx.payer)), tx.fee))) /\ Goto("nonces")
       \/ ~can_transfer(Now(stx(tx.payer)), tx.fee) /\ Goto("invalid") /\ UNCHANGED db
    /\ UNCHANGED <<tx, frames, left, locking, error, result, ledger>>

update_account_nonce ==
    /\ pc = "nonces"
    /\ put(And(Put(nonce(tx.origin), tx.nonce + 1), Put(nonce(tx.payer), tx.payer_nonce + 1)))
    /\ Goto("commit")
    /\ UNCHANGED <<tx, frames, left, locking, error, result, ledger>>

Forget ==
    /\ Goto("idle")
    /\ tx' = NoOne /\ left' = 0 /\ locking' = NoLock
    /\ error' = "none" /\ result' = Ended("none", Nothing)
    /\ UNCHANGED <<frames, height, parent, done>>

\* ClarityTransactionConnection::commit; the transaction's fee is added to the block's.
commit_transaction ==
    /\ pc = "commit"
    /\ commit
    /\ fees' = fees + tx.fee
    /\ burned' = burned + (IF result.status = "ok" THEN MapThenSumSet(LAMBDA p : result.assets.burn[p], Principals) ELSE 0)
    /\ Forget

\* The connection of an invalid transaction is dropped, with its log.
drop_transaction ==
    /\ pc = "invalid"
    /\ drop_log
    /\ UNCHANGED <<fees, burned>>
    /\ Forget

-----------------------------------------------------------------------------
(* The block *)
idle == <<pc, tx, frames, left, locking, error, result, done>>

Burns(rows) == MapThenSumSet(LAMBDA i : rows[i].burn, DOMAIN rows)

\* The part of the coinbase that goes to one who mined the block (the first row) or burnt for
\* it: by the tokens burnt.
calculate_miner_reward(who, rows) ==
    LET mined == who = rows[1].who
        this  == IF mined THEN rows[1].burn ELSE Last(SelectSeq(rows, LAMBDA row : row.who = who)).burn
        other == Burns(IF mined THEN Tail(rows) ELSE SelectSeq(rows, LAMBDA row : row.who # who))
    IN (Coinbase * this) \div (this + other)

\* The payments that mature with this block: none, or those of one ancestor.
Mature == IF height - 1 <= Maturity THEN <<>> ELSE Payments[height - 1 - Maturity]

\* What p gets in all, for its rows among the payments.
Reward(p, rows) == Cardinality({i \in DOMAIN rows : rows[i].who = p}) * calculate_miner_reward(p, rows)
Payees(rows) == {rows[i].who : i \in DOMAIN rows}

\* The arithmetic is on u128 and the divisor is not zero.
ASSUME PaymentAssumption ==
    \A h \in 1..(MaxHeight - 2 - Maturity) : \A p \in Payees(Payments[h]) : Reward(p, Payments[h]) \in Nat

process_matured_miner_rewards(accounts) ==
    [k \in DOMAIN accounts |->
        IF k[1] = "stx" /\ k[2] \in Payees(Mature) THEN credit(accounts[k], Reward(k[2], Mature)) ELSE accounts[k]]

\* After the block's transactions the matured rewards are granted and the block is committed;
\* the next one is of a later burnchain block.
append_block ==
    /\ pc = "idle" /\ height < MaxHeight
    /\ set_tip(process_matured_miner_rewards(store))
    /\ parent' = [store |-> store', fees |-> fees, burned |-> burned]
    /\ height' = height + 1
    /\ UNCHANGED <<idle, fees, burned>>

\* The block has a transaction that is invalid, or is otherwise not what its header says.
rollback_block ==
    /\ pc = "idle"
    /\ set_tip(parent.store)
    /\ fees' = parent.fees
    /\ burned' = parent.burned
    /\ UNCHANGED <<idle, height, parent>>

Next ==
    \/ \E t \in Txs : start_transaction_processing(t)
    \/ process_transaction_payload \/ execute_in_env \/ enter
    \/ special_stx_transfer \/ special_stx_burn
    \/ special_mint_token \/ special_transfer_token
    \/ special_mint_asset \/ special_transfer_asset
    \/ stx_transfer \/ special_contract_call \/ stack_stx
    \/ return_ok \/ return_err \/ throw \/ pox_lock
    \/ leave \/ raise \/ abort_call_back
    \/ pay_transaction_fee \/ update_account_nonce
    \/ commit_transaction \/ drop_transaction
    \/ append_block \/ rollback_block

Spec == Init /\ [][Next]_vars

-----------------------------------------------------------------------------
\* None of the assertions on the way of a transaction fails, whatever its contracts do: the log
\* matches its histories, it has one open context once the payload is over ("Attempted to
\* commit transaction with {} != 1 rollbacks"), no frame stays open when the environment is
\* destructed, and the STX that stack-stx promised can be locked ("FATAL: failed to lock").
AssertionsHold ==
    /\ HistoriesMatchEdits
    /\ pc \in {"fee", "nonces", "commit"} => Top = 1
    /\ pc \in {"check", "fee", "invalid"} => frames = <<>>
    /\ pc = "lock" => LET b == Now(stx(locking.who))
                      IN ~has_locked_tokens(b) /\ can_transfer(b, locking.amount)

STX(view, p) == get_total_balance(view[stx(p)])

\* What frame i changed: its context is the third of the log when it is the first frame.
Before(i) == View(i + 2)
After(i) == View(i + 3)

\* No asset leaves a principal unlogged: in each open frame, what a principal has less than
\* when the frame began is at most what the frame's asset map says it sent, so post-conditions
\* that look at the asset map alone miss nothing.
OutflowIsLogged ==
    pc # "raise" =>
        \A i \in DOMAIN frames, p \in Principals :
            LET sent == frames[i].assets
            IN /\ STX(Before(i), p) - STX(After(i), p) <= sent.stx[p] + sent.burn[p]
               /\ Before(i)[token(p)] - After(i)[token(p)] <= sent.token[p]
               /\ Before(i)[item] = p /\ After(i)[item] # p => sent.asset[p] > 0

\* What the events of a type say that p has more.
Gain(events, type, p) ==
    LET Change(e) == (IF e.to = p THEN e.amount ELSE 0) - (IF e.from = p THEN e.amount ELSE 0)
    IN  MapThenSumSet(LAMBDA i : IF events[i].type = type THEN Change(events[i]) ELSE 0, DOMAIN events)
Owns(view, p) == IF view[item] = p THEN 1 ELSE 0

\* An observer of the events knows the balances: in each open frame, the events registered so
\* far account for every change of a balance or an owner since the frame began.
EventsExplainBalances ==
    pc # "raise" =>
        \A i \in DOMAIN frames, p \in Principals :
            LET events == frames[i].events
            IN /\ STX(After(i), p) - STX(Before(i), p) = Gain(events, "stx", p)
               /\ After(i)[token(p)] - Before(i)[token(p)] = Gain(events, "token", p)
               /\ Owns(After(i), p) - Owns(Before(i), p) = Gain(events, "item", p)

Fee(p) == IF p = tx.payer THEN tx.fee ELSE 0
Covered(asset, p) == \E c \in tx.conditions : c.asset = asset /\ c.who = p

\* A transaction about to be committed does what its signers agreed to.  It advances the nonces
\* of its origin and its payer by one, and no other.  If its payload failed or was aborted, that
\* and the fee is all it does.  If not, nobody loses more than the post-conditions allow: at most
\* the bound of a SentLe, nothing in deny mode without a condition, and the fee.
CommittedAsAgreed ==
    pc = "commit" =>
        \A p \in Principals :
            LET lost == [stx |-> STX(store, p) - STX(View(2), p) - Fee(p),
                         token |-> store[token(p)] - View(2)[token(p)],
                         asset |-> Owns(store, p) - Owns(View(2), p)]
            IN /\ View(2)[nonce(p)] = store[nonce(p)] + (IF p \in {tx.origin, tx.payer} THEN 1 ELSE 0)
               /\ result.status # "ok" =>
                    /\ lost.stx = 0
                    /\ p # tx.payer => View(2)[stx(p)] = store[stx(p)]
                    /\ \A k \in {token(p), stacker(p), supply, item} : View(2)[k] = store[k]
               /\ tx.kind = "call" =>
                    /\ tx.deny => \A asset \in DOMAIN lost : lost[asset] <= 0 \/ Covered(asset, p)
                    /\ \A c \in tx.conditions : c.who = p =>
                        /\ c.code = "SentLe" => lost[c.asset] <= c.amount
                        /\ c.code = "NotSent" => lost.asset <= 0

\* The heights whose rewards are paid: each once.
Paid == 1..(height - 2 - Maturity)

\* STX and tokens are conserved between transactions, in blocks that are kept and after blocks
\* that are rolled back.  Balances, fees and burned STX make up the first grant and one coinbase
\* for each block that has matured, but for less than one uSTX that each payee loses to the
\* division.  (No address has two rows in the payments of a block.)  The balances of the token
\* make up its supply.
AssetsAreConserved ==
    pc = "idle" =>
        /\ LET minted == MapThenSumSet(LAMBDA p : STX(store, p) - Grant[p], Principals) + fees + burned
               lost   == Coinbase * Cardinality(Paid) - minted
           IN /\ lost >= 0
              /\ lost <= MapThenSumSet(LAMBDA h : Len(Payments[h]) - 1, Paid)
        /\ MapThenSumSet(LAMBDA p : store[token(p)], Principals) = store[supply]
=============================================================================
