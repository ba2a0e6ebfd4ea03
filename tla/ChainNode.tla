----------------------------- MODULE ChainNode -----------------------------
(***************************************************************************)
(* A regtest node as the drills use it through services-go/node/client.go: *)
(* a tree of blocks, of which a reorganisation may change the active ones. *)
(*                                                                         *)
(* A node is a record: its blocks in the order they were mined, each with  *)
(* the chain it is the last of, the tip, the blocks declared invalid, the  *)
(* transactions waiting for a block, and whether blocks were ever taken    *)
(* off the active chain (for properties).  Blocks are numbered from 1; 0   *)
(* is what was there before.  A transaction has an id, the one whose       *)
(* output it spends, and the block whose coinbase its coins come from.     *)
(***************************************************************************)
EXTENDS Integers, FiniteSets, SequencesExt

CONSTANT Maturity   \* blocks before a coinbase may be spent (100)

ASSUME NodeAssumption == Maturity \in Nat \ {0}

Wallet == 0    \* coins the node's wallet has had for long
NoTx == <<>>

NewNode == [blocks |-> <<>>, tip |-> 0, bad |-> {}, pool |-> {}, undone |-> FALSE]

\* The blocks up to b, and their transactions.
Chain(nd, b) == IF b = 0 THEN {} ELSE nd.blocks[b].chain
Height(nd, b) == Cardinality(Chain(nd, b))
Mined(nd, b) == UNION {nd.blocks[i].txs : i \in Chain(nd, b)}
Known(nd) == Mined(nd, nd.tip) \cup nd.pool
IDs(txs) == {t.id : t \in txs}

\* Generate, GenerateToAddress: blocks on the tip, the first with all that
\* is waiting.
Generated(nd, n) ==
    LET first == Len(nd.blocks) + 1
        block(i) == [chain |-> Chain(nd, nd.tip) \cup (first .. i),
                     txs |-> IF i = first THEN nd.pool ELSE {}]
    IN  [nd EXCEPT !.blocks = @ \o [k \in 1 .. n |-> block(first + k - 1)],
                   !.tip = first + n - 1, !.pool = {}]

\* Coins that may be spent in a block on top of b.
Spendable(nd, tx, b) ==
    \/ tx.coins = Wallet
    \/ /\ tx.coins \in Chain(nd, b)
       /\ Height(nd, b) + 1 >= Height(nd, tx.coins) + Maturity

\* SendRawTransaction, SendToAddress: {} when the node refuses.
Sent(nd, tx) ==
    IF Spendable(nd, tx, nd.tip) /\ tx.spends \in IDs(Known(nd)) \cup {NoTx}
    THEN {[nd EXCEPT !.pool = @ \cup {tx}]} ELSE {}

\* With the blocks in bad declared invalid the active chain becomes that of
\* b; what is no longer in a block waits again, unless its coins are gone.
Switched(nd, bad, b) ==
    [nd EXCEPT !.tip = b, !.bad = bad,
               !.pool = {t \in Known(nd) \ Mined(nd, b) : Spendable(nd, t, b)},
               !.undone = TRUE]

\* The longest valid chain; of several, the one there is or any.
Settled(nd, bad) ==
    LET valid == {b \in 0 .. Len(nd.blocks) : Chain(nd, b) \cap bad = {}}
        best == {b \in valid : \A c \in valid : Height(nd, c) <= Height(nd, b)}
    IN  IF nd.tip \in best THEN {[nd EXCEPT !.bad = bad]}
        ELSE {Switched(nd, bad, b) : b \in best}

\* InvalidateBlock, and ReconsiderBlock, which clears the blocks below and
\* above as well.
Invalidated(nd, b) == Settled(nd, nd.bad \cup {b})
Reconsidered(nd, b) ==
    Settled(nd, {x \in nd.bad : b \notin Chain(nd, x) /\ x \notin Chain(nd, b)})

\* GetBlockByHeight: the active block there, 0 for an error.
BlockAt(nd, h) ==
    LET at == {b \in Chain(nd, nd.tip) : Height(nd, b) = h}
    IN  IF at = {} THEN 0 ELSE CHOOSE b \in at : TRUE
=============================================================================
