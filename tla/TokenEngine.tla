---------------------------- MODULE TokenEngine ----------------------------
(***************************************************************************)
(* The token engine (services-go/token): definable tokens as lineages of   *)
(* state outputs, each carrying a journalled record of the event.          *)
(*                                                                         *)
(* The engine is a plain struct one caller drives.  An Instance is a       *)
(* handle the caller keeps: nothing invalidates it when a later call       *)
(* spends its output, so every Instance ever returned can be used again.   *)
(* Every tag verifies: writer and verifier hold the same keys.             *)
(***************************************************************************)
EXTENDS StateUtxo

CONSTANTS
    TypeID,     \* token types of the registry
    Def,        \* TypeID -> [peg, threshold]
    Micro,      \* the pegging rate's denominator (1000000 in the code)
    TokenID,    \* row ids callers choose
    MintValue   \* token values callers choose

ASSUME TokenAssumption ==
    /\ 1 \in Amount /\ Micro \in Nat \ {0}
    /\ \A t \in TypeID : Def[t].peg \in Amount /\ Def[t].threshold \in Amount
    /\ MintValue \subseteq Amount

VARIABLE instances   \* every Instance the engine has returned

tokenVars == <<utxoVars, instances>>

Kind == {"mint", "transfer", "redeem"}
Event == [type : TypeID, row : TokenID, kind : Kind, value : MintValue,
          controller : Party, seq : Nat, prev : 0 .. MaxTxs]
Instance == [type : TypeID, tokenId : TokenID, holder : Party,
             value : MintValue, seq : Nat, out : Outpoint, sats : Amount]

\* A record, or an output that carries one, is not the absence of a record.
ASSUME TokenRecordAssumption ==
    /\ NoRecord \notin Event
    /\ NoRecord \notin [sats : Amount, key : Party \cup {WalletKey},
                        record : Event]

TokenInit == UtxoInit /\ instances = {}

-----------------------------------------------------------------------------
AtLeast(x, y) == IF x < y THEN y ELSE x

\* B1 = f(TV1, PR1) in unsigned arithmetic, with the minimum threshold.
SatoshiQuantity(d, value) ==
    AtLeast(AtLeast(((value * d.peg) % Width) \div Micro, d.threshold), 1)

\* The event that follows Instance in, and the input that spends it.
NextEvent(in, kind, controller) ==
    [type |-> in.type, row |-> in.tokenId, kind |-> kind,
     value |-> in.value, controller |-> controller,
     seq |-> in.seq + 1, prev |-> in.out[1]]
InstanceClaim(in) == [out |-> in.out, sats |-> in.sats, key |-> in.holder]
Successor(in, newHolder, v) ==
    [in EXCEPT !.holder = newHolder, !.seq = @ + 1, !.out = <<NewTxid, v>>]

Mint(t, id, holder, value) ==
    LET sats == SatoshiQuantity(Def[t], value)
        event == [type |-> t, row |-> id, kind |-> "mint",
                  value |-> value, controller |-> holder,
                  seq |-> 0, prev |-> 0]
    IN
    /\ Broadcast(<<WalletClaim>>,
                 <<StateOutput(event, holder, sats),
                   FeeOutput(ChangeLeft(sats))>>)
    /\ \/ /\ WalletMovesTo(2, ChangeLeft(sats))
          /\ instances' = instances \cup
                {[type |-> t, tokenId |-> id, holder |-> holder,
                  value |-> value, seq |-> 0, out |-> <<NewTxid, 1>>,
                  sats |-> sats]}
       \/ AnswerLost /\ UNCHANGED instances

Transfer(in, newHolder) ==
    /\ Broadcast(<<InstanceClaim(in), WalletClaim>>,
                 <<StateOutput(NextEvent(in, "transfer", newHolder), newHolder,
                               in.sats),
                   FeeOutput(wallet.sats)>>)
    /\ \/ /\ WalletMovesTo(2, wallet.sats)
          /\ instances' = instances \cup {Successor(in, newHolder, 1)}
       \/ AnswerLost /\ UNCHANGED instances

\* Redeem returns a txid only: no handle to the issuer's output.
Redeem(in, issuer) ==
    /\ Broadcast(<<InstanceClaim(in), WalletClaim>>,
                 <<StateOutput(NextEvent(in, "redeem", issuer), issuer,
                               in.sats),
                   FeeOutput(wallet.sats)>>)
    /\ WalletMovesTo(2, wallet.sats) \/ AnswerLost
    /\ UNCHANGED instances

SwapTx(a, b) ==
    Broadcast(<<InstanceClaim(a), InstanceClaim(b), WalletClaim>>,
              <<StateOutput(NextEvent(a, "transfer", b.holder), b.holder,
                            a.sats),
                StateOutput(NextEvent(b, "transfer", a.holder), a.holder,
                            b.sats),
                FeeOutput(wallet.sats)>>)

\* Mutant of Swap: the wallet moves to output 1 as after the other calls.
SwapFirstChange(a, b) ==
    /\ SwapTx(a, b)
    /\ \/ /\ WalletMovesTo(2, wallet.sats)
          /\ instances' = instances \cup
                {Successor(a, b.holder, 1), Successor(b, a.holder, 2)}
       \/ AnswerLost /\ UNCHANGED instances

\* Mutant of Swap: both legs are returned as output 0.
SwapSameOutput(a, b) ==
    /\ SwapTx(a, b)
    /\ \/ /\ WalletMovesTo(3, wallet.sats)
          /\ instances' = instances \cup
                {Successor(a, b.holder, 1), Successor(b, a.holder, 1)}
       \/ AnswerLost /\ UNCHANGED instances

\* Mutant of Swap: the record of B's token carries the value of A's.
SwapOneValue(a, b) ==
    /\ Broadcast(<<InstanceClaim(a), InstanceClaim(b), WalletClaim>>,
                 <<StateOutput(NextEvent(a, "transfer", b.holder), b.holder,
                               a.sats),
                   StateOutput([NextEvent(b, "transfer", a.holder)
                                   EXCEPT !.value = a.value], a.holder,
                               b.sats),
                   FeeOutput(wallet.sats)>>)
    /\ WalletMovesTo(3, wallet.sats)
    /\ instances' = instances \cup
          {Successor(a, b.holder, 1), Successor(b, a.holder, 2)}

Swap(a, b) ==
    /\ SwapTx(a, b)
    /\ \/ /\ WalletMovesTo(3, wallet.sats)
          /\ instances' = instances \cup
                {Successor(a, b.holder, 1), Successor(b, a.holder, 2)}
       \/ AnswerLost /\ UNCHANGED instances

TokenNext ==
    \/ FundFromWallet /\ UNCHANGED instances
    \/ \E t \in TypeID, id \in TokenID, h \in Party, v \in MintValue :
          Mint(t, id, h, v)
    \/ \E in \in instances, h \in Party : Transfer(in, h) \/ Redeem(in, h)
    \/ \E a, b \in instances : Swap(a, b)

TokenSpec == TokenInit /\ [][TokenNext]_tokenVars

-----------------------------------------------------------------------------
(* Cold verification of a lineage from a txid.                             *)

VerifyLineage(n, id) ==
    LET l == Lineage(id)[n] IN
    IF NoRecord \in Range(l) THEN NoRecord
    ELSE [entries |-> Len(l), value |-> Last(l).record.value,
          controller |-> Last(l).record.controller,
          alive |-> \A i \in DOMAIN l : l[i].record.kind # "redeem"]

-----------------------------------------------------------------------------
TokenTypeOK ==
    /\ UtxoTypeOK
    /\ instances \subseteq Instance
    /\ \A n \in DOMAIN txs : \A i \in StateOutputs(n) :
          txs[n].outs[i].record \in Event

Mints == {n \in DOMAIN txs : \E i \in StateOutputs(n) :
             txs[n].outs[i].record.kind = "mint"}
MintedOnce(id) ==
    Cardinality({n \in Mints : txs[n].outs[1].record.row = id}) = 1

\* What VerifyLineage rebuilds from a transaction and a token id is that
\* output's own state: its whole history, the minted value, the key that can
\* spend it, and death after a redemption, for every token whose id has been
\* minted once (engine.go:359-436).
Reports(n, i) ==
    LET o == txs[n].outs[i] IN
    VerifyLineage(n, o.record.row) =
        [entries |-> o.record.seq + 1, value |-> o.record.value,
         controller |-> o.key, alive |-> o.record.kind # "redeem"]

VerifiedState ==
    \A n \in DOMAIN txs : \A i \in StateOutputs(n) :
        MintedOnce(txs[n].outs[i].record.row) => Reports(n, i)

\* No token slips out of the caller's hands: every unspent output of a live
\* token is what some Instance says of it, unless the call that made it
\* returned an error (engine.go:224, 259, 346-348).
TitlesHeld ==
    \A n \in DOMAIN txs \ lost : \A i \in StateOutputs(n) :
        LET o == txs[n].outs[i] IN
        (~IsSpent(<<n, i>>) /\ o.record.kind # "redeem") =>
            \E in \in instances :
                /\ in.out = <<n, i>> /\ in.holder = o.key
                /\ in.sats = o.sats /\ in.seq = o.record.seq
                /\ in.tokenId = o.record.row /\ in.value = o.record.value

\* A token is named by the transaction that minted it; its current output is
\* found along the inputs: input i continues in output i.
Current ==
    LET c[o \in (DOMAIN txs) \X (1 .. 3)] ==
            IF ~IsSpent(o) THEN o
            ELSE LET n == CHOOSE m \in DOMAIN txs : o \in Range(txs[m].ins)
                     i == CHOOSE j \in DOMAIN txs[n].ins : txs[n].ins[j] = o
                 IN  c[<<n, i>>]
    IN  c

TitleOf(m) ==
    LET o == OutputAt(Current[<<m, 1>>])
    IN  [holder |-> o.key, value |-> o.record.value,
         alive |-> o.record.kind # "redeem"]

Register == [m \in Mints |-> TitleOf(m)]

Titles == INSTANCE TokenTitles WITH title <- Register

\* The engine implements the register, failed calls included: a swap changes
\* both holders in one step or neither, and a redeemed token stays dead.
ImplementsTitles == Titles!Spec
=============================================================================
