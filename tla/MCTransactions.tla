---------------------------- MODULE MCTransactions ----------------------------
(* Two users and a contract; the transactions differ in who pays, in what the *)
(* contracts they call do, and in their post-conditions.                      *)
EXTENDS Transactions, TLC

CONSTANTS alice, bob, vault

MCGrant == alice :> 2 @@ bob :> 1 @@ vault :> 1

Tx(kind, payer, nonces, ops, amounts, size, deny, conditions) ==
    [kind |-> kind, origin |-> alice, payer |-> payer, nonce |-> nonces[1], payer_nonce |-> nonces[2],
     fee |-> 1, to |-> bob, amount |-> 1, ops |-> ops, amounts |-> amounts, size |-> size,
     deny |-> deny, conditions |-> conditions]
Condition(asset, who, code, n) == [asset |-> asset, who |-> who, code |-> code, amount |-> n]

\* The second block had no user burns.
Row(who, n) == [who |-> who, burn |-> n]
MCPayments == <<<<Row(alice, 2), Row(bob, 1)>>, <<Row(bob, 1)>>>>

MCTxs ==
    { Tx("call", alice, <<0, 0>>, {"stx", "burn", "call"}, {1}, 3, TRUE, {Condition("stx", alice, "SentLe", 1)}),
      Tx("call", bob, <<0, 0>>, {"token", "call"}, {2}, 5, TRUE,
         {Condition("token", alice, "SentLe", 2), Condition("token", vault, "SentLt", 3)}),
      Tx("call", bob, <<0, 0>>, {"item", "call"}, {1}, 3, TRUE, {Condition("asset", alice, "NotSent", 0)}),
      Tx("call", alice, <<1, 1>>, {"stx"}, {1}, 1, TRUE, {}),
      Tx("transfer", alice, <<0, 0>>, {}, {}, 0, FALSE, {}),
      Tx("transfer", alice, <<1, 1>>, {}, {}, 0, FALSE, {}),
      Tx("transfer", bob, <<0, 0>>, {}, {}, 0, TRUE, {Condition("stx", alice, "SentEq", 1)}),
      Tx("coinbase", bob, <<1, 0>>, {}, {}, 0, FALSE, {}) }
=============================================================================
