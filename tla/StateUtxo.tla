------------------------------ MODULE StateUtxo ------------------------------
(***************************************************************************)
(* What the token engine (services-go/token) and the document engine       *)
(* (services-go/edi) share: lineages of state outputs on a UTXO chain, a   *)
(* fee wallet held in memory as one outpoint, and a broadcast that sends a *)
(* transaction and then asks for a block.                                  *)
(*                                                                         *)
(* External: the node.  It accepts a transaction iff its inputs exist, are *)
(* distinct and unspent, every signature commits to the true amount and    *)
(* key of its output, and the outputs cost no more than the inputs.  An    *)
(* accepted transaction stays; its number is its txid, 0 the empty txid,   *)
(* and outputs are numbered from 1 (vout + 1).                             *)
(***************************************************************************)
EXTENDS Integers, Sequences, FiniteSets, SequencesExt

CONSTANTS
    Party,      \* holders, issuers and controllers, by key
    WalletKey,  \* the engine's fee key
    NoRecord,   \* the record of an output that carries no envelope
    Funding,    \* satoshis one FundFromWallet provides
    Width,      \* number of values of an unsigned amount (2^64 in the code)
    MaxTxs,     \* bound on the transactions
    MayFail     \* whether a call can fail after the node has obeyed it

ASSUME StateUtxoAssumption ==
    /\ Width \in Nat \ {0}
    /\ Funding \in 0 .. Width - 1
    /\ MaxTxs \in Nat
    /\ MayFail \in BOOLEAN
    /\ WalletKey \notin Party

VARIABLES
    txs,     \* the transactions: outpoints spent, outputs created
    wallet,  \* the engine's fee output: an outpoint and its amount
    lost     \* history: transactions whose call returned an error

utxoVars == <<txs, wallet, lost>>

Amount == 0 .. Width - 1
Outpoint == (0 .. MaxTxs) \X Nat
NoOutpoint == <<0, 0>>
NewTxid == Len(txs) + 1

UtxoInit ==
    /\ txs = <<>>
    /\ wallet = [out |-> NoOutpoint, sats |-> 0]
    /\ lost = {}

-----------------------------------------------------------------------------
OutExists(o) == o[1] \in DOMAIN txs /\ o[2] \in DOMAIN txs[o[1]].outs
OutputAt(o) == txs[o[1]].outs[o[2]]
IsSpent(o) == \E n \in DOMAIN txs : o \in Range(txs[n].ins)

Total(s) == FoldLeft(LAMBDA sum, x : sum + x.sats, 0, s)

\* claims: what the inputs say of the outputs they spend, and the signing key.
Accepts(claims, outs) ==
    /\ \A i, j \in DOMAIN claims : i # j => claims[i].out # claims[j].out
    /\ \A i \in DOMAIN claims :
          /\ OutExists(claims[i].out) /\ ~IsSpent(claims[i].out)
          /\ OutputAt(claims[i].out).sats = claims[i].sats
          /\ OutputAt(claims[i].out).key = claims[i].key
    /\ Total(outs) <= Total(claims)

\* The node takes the transaction.
Broadcast(claims, outs) ==
    /\ Len(txs) < MaxTxs
    /\ Accepts(claims, outs)
    /\ txs' = Append(txs, [ins |-> [i \in DOMAIN claims |-> claims[i].out],
                           outs |-> outs])

\* The call succeeds and the engine's wallet is output v of the transaction ...
WalletMovesTo(v, sats) ==
    /\ wallet' = [out |-> <<NewTxid, v>>, sats |-> sats]
    /\ UNCHANGED lost

\* ... or the block request, or the answer to the send, fails: the caller gets
\* an error and the engine keeps the output it has just spent.
AnswerLost ==
    /\ MayFail
    /\ lost' = lost \cup {NewTxid}
    /\ UNCHANGED wallet

WalletClaim == [out |-> wallet.out, sats |-> wallet.sats, key |-> WalletKey]
FeeOutput(sats) == [sats |-> sats, key |-> WalletKey, record |-> NoRecord]

\* The envelope output of a state record, locked to a key.
StateOutput(record, key, sats) ==
    [sats |-> sats, key |-> key, record |-> record]

\* Mutant of ChangeLeft: signed arithmetic.
ChangeLeftSigned(sats) == wallet.sats - sats

\* change := e.wallet.sats - sats, unsigned.
ChangeLeft(sats) == (wallet.sats - sats) % Width

\* FundFromWallet: the node's wallet pays the fee key; the engine forgets the
\* output it had.
FundFromWallet ==
    /\ Len(txs) < MaxTxs
    /\ txs' = Append(txs, [ins |-> <<>>, outs |-> <<FeeOutput(Funding)>>])
    /\ WalletMovesTo(1, Funding) \/ AnswerLost

-----------------------------------------------------------------------------
(* Cold verification: from a transaction back to the genesis of a row.     *)

StateOutputs(n) ==
    {i \in DOMAIN txs[n].outs : txs[n].outs[i].record # NoRecord}

\* Mutant of RecordOn: the first state record, whatever its row.
FirstRecordOn(n, row) ==
    IF StateOutputs(n) = {} THEN NoRecord
    ELSE txs[n].outs[CHOOSE i \in StateOutputs(n) :
                        \A j \in StateOutputs(n) : i <= j]

\* The first output of transaction n with a state record of this row: the loop
\* does not look at the record's type.
RecordOn(n, row) ==
    LET matching == {i \in StateOutputs(n) :
                        txs[n].outs[i].record.row = row}
    IN  IF matching = {} THEN NoRecord
        ELSE txs[n].outs[CHOOSE i \in matching : \A j \in matching : i <= j]

\* The state outputs from genesis to the one on transaction n, by prev_txid.
Lineage(row) ==
    LET l[n \in 0 .. Len(txs)] ==
            IF n = 0 THEN <<>>
            ELSE IF RecordOn(n, row) = NoRecord THEN <<NoRecord>>
            ELSE Append(l[RecordOn(n, row).record.prev], RecordOn(n, row))
    IN  l

-----------------------------------------------------------------------------
UtxoTypeOK ==
    /\ \A n \in DOMAIN txs :
          /\ \A i \in DOMAIN txs[n].ins : txs[n].ins[i] \in Outpoint
          /\ \A i \in DOMAIN txs[n].outs :
                /\ txs[n].outs[i].sats \in Amount
                /\ txs[n].outs[i].key \in Party \cup {WalletKey}
    /\ wallet.out \in Outpoint /\ wallet.sats \in Amount
    /\ lost \subseteq 1 .. MaxTxs

\* The engine is never stuck but by a failure it reported: its wallet is an
\* unspent output of that amount and key, unless the transaction that spent
\* it belongs to a call that returned an error (engine.go:183-195, 223, 345
\* and dfa.go:351-391).
WalletSound ==
    wallet.out # NoOutpoint =>
        /\ OutExists(wallet.out)
        /\ OutputAt(wallet.out) = FeeOutput(wallet.sats)
        /\ \A n \in DOMAIN txs : wallet.out \in Range(txs[n].ins) => n \in lost
=============================================================================
