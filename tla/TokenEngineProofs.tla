------------------------- MODULE TokenEngineProofs -------------------------
(***************************************************************************)
(* The token engine never loses its fee output or a title but in a call    *)
(* that returned an error, verifies every token for what it is, and        *)
(* implements the register of titles, for any registry, parties, values    *)
(* and number of calls, with handles used again at will.                   *)
(***************************************************************************)
EXTENDS TokenEngine, UtxoProofs, FiniteSetTheorems

\* Handle in says what output o is: a state of a token that is not redeemed.
Says(in, o) ==
    /\ o.record # NoRecord /\ o.record.kind # "redeem"
    /\ o.key = in.holder /\ o.sats = in.sats
    /\ o.record.type = in.type /\ o.record.row = in.tokenId
    /\ o.record.value = in.value /\ o.record.seq = in.seq

HandleInv ==
    \A in \in instances : OutExists(in.out) /\ Says(in, OutputAt(in.out))

\* Event r goes on with the token whose state output q is.
Continues(q, r) ==
    LET p == OutputAt(q).record
    IN  /\ q[1] = r.prev /\ p # NoRecord /\ p.kind # "redeem"
        /\ p.type = r.type /\ p.row = r.row /\ p.value = r.value
        /\ r.seq = p.seq + 1 /\ r.kind \in {"transfer", "redeem"}

\* A transaction issues one token, in output 1, or continues the tokens whose
\* state it spends, input i in output i, and makes no other state.
LegalTx(ins, outs) ==
    /\ DOMAIN ins \subseteq 1 .. 3
    /\ \A j, k \in DOMAIN ins : j # k => ins[j] # ins[k]
    /\ \A i \in DOMAIN outs : outs[i].record # NoRecord =>
          /\ outs[i].key = outs[i].record.controller
          /\ IF outs[i].record.prev = 0
             THEN /\ outs[i].record.kind = "mint" /\ outs[i].record.seq = 0
                  /\ i = 1
                  /\ \A j \in DOMAIN outs : outs[j].record # NoRecord => j = 1
             ELSE i \in DOMAIN ins /\ Continues(ins[i], outs[i].record)
    /\ \A k \in DOMAIN ins : OutputAt(ins[k]).record # NoRecord =>
          /\ k \in DOMAIN outs /\ outs[k].record # NoRecord
          /\ outs[k].record.prev # 0

TrailInv == \A n \in DOMAIN txs : LegalTx(txs[n].ins, txs[n].outs)

TokenInv ==
    /\ UtxoInv(Event)
    /\ instances \subseteq Instance
    /\ TitlesHeld
    /\ HandleInv
    /\ TrailInv

-----------------------------------------------------------------------------
\* Some handle says of output out of the new transaction what it is.
Handed(o, out) == \E in \in instances' : in.out = out /\ Says(in, o)

\* What every call does: a legal transaction, new handles only to its outputs,
\* and a handle to each of them that is a live token's, or an error.
Call(claims, outs) ==
    /\ claims \in Seq(Claim) /\ outs \in Seq(OutputOf(Event))
    /\ Taken(claims, outs) /\ Outcome(outs)
    /\ LegalTx([k \in DOMAIN claims |-> claims[k].out], outs)
    /\ instances \subseteq instances' /\ instances' \subseteq Instance
    /\ \A in \in instances' \ instances :
          \E i \in DOMAIN outs : in.out = <<NewTxid, i>> /\ Says(in, outs[i])
    /\ \/ lost' = lost \cup {NewTxid}
       \/ \A i \in DOMAIN outs :
             \/ outs[i].record = NoRecord
             \/ outs[i].record.kind = "redeem"
             \/ Handed(outs[i], <<NewTxid, i>>)

\* What a call leaves alone, and what it adds.
LEMMA CallAppends ==
    ASSUME TokenInv, NEW claims, NEW outs, Call(claims, outs)
    PROVE  /\ DOMAIN txs = 1 .. Len(txs) /\ Len(txs) \in Nat
           /\ NewTxid = Len(txs) + 1 /\ NewTxid \notin DOMAIN txs
           /\ DOMAIN txs' = DOMAIN txs \cup {NewTxid}
           /\ \A n \in DOMAIN txs : txs'[n] = txs[n] /\ n < NewTxid
           /\ txs'[NewTxid].outs = outs
           /\ txs'[NewTxid].ins = [k \in DOMAIN claims |-> claims[k].out]
           /\ \A k \in DOMAIN claims :
                 OutExists(claims[k].out) /\ ~IsSpent(claims[k].out)
           /\ \A o : OutExists(o) => OutExists(o)' /\ OutputAt(o)' = OutputAt(o)
<1>1. /\ UtxoShape(Event) /\ Taken(claims, outs)
      /\ claims \in Seq(Claim) /\ outs \in Seq(OutputOf(Event))
  BY DEF TokenInv, UtxoInv, Call
<1>2. /\ txs' \in Seq(TxOf(Event))
      /\ NewTxid \in 1 .. MaxTxs /\ NewTxid \notin DOMAIN txs
      /\ DOMAIN txs' = DOMAIN txs \cup {NewTxid}
      /\ \A n \in DOMAIN txs : txs'[n] = txs[n] /\ n < NewTxid
      /\ txs'[NewTxid].outs = outs
      /\ DOMAIN txs'[NewTxid].ins = DOMAIN claims
      /\ \A k \in DOMAIN claims :
            /\ txs'[NewTxid].ins[k] = claims[k].out
            /\ OutExists(claims[k].out) /\ ~IsSpent(claims[k].out)
  BY <1>1, TakenAppends
<1>3. DOMAIN txs = 1 .. Len(txs) /\ Len(txs) \in Nat /\ NewTxid = Len(txs) + 1
  BY <1>1 DEF UtxoShape, NewTxid
<1>4. txs'[NewTxid].ins = [k \in DOMAIN claims |-> claims[k].out]
  <2>1. txs'[NewTxid] \in TxOf(Event)
    BY <1>2
  <2>2. txs'[NewTxid].ins \in Seq(Outpoint)
    BY <2>1 DEF TxOf
  <2> QED
    BY <1>2, <2>2
<1>5. \A o : OutExists(o) => OutExists(o)' /\ OutputAt(o)' = OutputAt(o)
  BY <1>2 DEF OutExists, OutputAt
<1> QED
  BY <1>2, <1>3, <1>4, <1>5

LEMMA LegalStays ==
    ASSUME NEW ins, NEW outs, LegalTx(ins, outs),
           \A k \in DOMAIN ins : OutputAt(ins[k])' = OutputAt(ins[k])
    PROVE  LegalTx(ins, outs)'
  BY DEF LegalTx, Continues

\* A call keeps the invariant: what other outputs hold stays as it was or gets
\* spent.
LEMMA CallStep ==
    ASSUME TokenInv, NEW claims, NEW outs, Call(claims, outs)
    PROVE  TokenInv'
<1>1. /\ DOMAIN txs' = DOMAIN txs \cup {NewTxid}
      /\ \A n \in DOMAIN txs : txs'[n] = txs[n]
      /\ txs'[NewTxid].outs = outs
      /\ txs'[NewTxid].ins = [k \in DOMAIN claims |-> claims[k].out]
      /\ \A k \in DOMAIN claims : OutExists(claims[k].out)
      /\ \A o : OutExists(o) => OutExists(o)' /\ OutputAt(o)' = OutputAt(o)
  BY CallAppends
<1>2. UtxoInv(Event)'
  BY TakenStep DEF TokenInv, Call
<1>3. lost \subseteq lost'
  BY DEF Call, Outcome, WalletMovesTo, AnswerLost
<1>4. TitlesHeld'
  <2> SUFFICES ASSUME NEW n \in DOMAIN txs' \ lost', NEW i \in DOMAIN txs'[n].outs,
                      txs'[n].outs[i].record # NoRecord,
                      ~(IsSpent(<<n, i>>))',
                      txs'[n].outs[i].record.kind # "redeem"
               PROVE  \E in \in instances' :
                         /\ in.out = <<n, i>> /\ in.holder = txs'[n].outs[i].key
                         /\ in.sats = txs'[n].outs[i].sats
                         /\ in.seq = txs'[n].outs[i].record.seq
                         /\ in.tokenId = txs'[n].outs[i].record.row
                         /\ in.value = txs'[n].outs[i].record.value
    BY DEF TitlesHeld, StateOutputs
  <2>1. CASE n \in DOMAIN txs
    <3>1. ~IsSpent(<<n, i>>)
      <4>1. \A m \in DOMAIN txs' : <<n, i>> \notin Range(txs'[m].ins)
        BY DEF IsSpent
      <4>2. \A m \in DOMAIN txs : m \in DOMAIN txs' /\ txs'[m] = txs[m]
        BY <1>1
      <4>3. \A m \in DOMAIN txs : <<n, i>> \notin Range(txs[m].ins)
        BY <4>1, <4>2
      <4> QED
        BY <4>3 DEF IsSpent
    <3>2. i \in StateOutputs(n) /\ txs'[n].outs[i] = txs[n].outs[i]
      BY <1>1, <2>1 DEF StateOutputs
    <3>3. n \in DOMAIN txs \ lost
      BY <1>3, <2>1
    <3>4. PICK in \in instances :
             /\ in.out = <<n, i>> /\ in.holder = txs[n].outs[i].key
             /\ in.sats = txs[n].outs[i].sats
             /\ in.seq = txs[n].outs[i].record.seq
             /\ in.tokenId = txs[n].outs[i].record.row
             /\ in.value = txs[n].outs[i].record.value
      <4>1. txs[n].outs[i].record.kind # "redeem" /\ TitlesHeld
        BY <3>2 DEF TokenInv
      <4> QED
        BY <3>1, <3>2, <3>3, <4>1 DEF TitlesHeld
    <3>5. in \in instances'
      BY DEF Call
    <3> QED
      BY <3>2, <3>4, <3>5
  <2>2. CASE n = NewTxid
    <3>1. Handed(outs[i], <<NewTxid, i>>)
      BY <1>1, <2>2 DEF Call
    <3> QED
      BY <1>1, <2>2, <3>1 DEF Handed, Says
  <2> QED
    BY <1>1, <2>1, <2>2
<1>5. HandleInv'
  <2> SUFFICES ASSUME NEW in \in instances'
               PROVE  OutExists(in.out)' /\ Says(in, OutputAt(in.out)')
    BY DEF HandleInv, Says
  <2>1. CASE in \in instances
    <3>1. OutExists(in.out) /\ Says(in, OutputAt(in.out))
      BY <2>1 DEF TokenInv, HandleInv
    <3> QED
      BY <1>1, <3>1
  <2>2. CASE in \notin instances
    <3>1. PICK i \in DOMAIN outs : in.out = <<NewTxid, i>> /\ Says(in, outs[i])
      BY <2>2 DEF Call
    <3>2. in.out[1] = NewTxid /\ in.out[2] = i
      BY <3>1
    <3>3. OutExists(in.out)' /\ OutputAt(in.out)' = outs[i]
      BY <1>1, <3>2 DEF OutExists, OutputAt
    <3> QED
      BY <3>1, <3>3
  <2> QED
    BY <2>1, <2>2
<1>6. TrailInv'
  <2> SUFFICES ASSUME NEW n \in DOMAIN txs'
               PROVE  LegalTx(txs[n].ins, txs[n].outs)'
    BY DEF TrailInv
  <2>1. PICK ins, made : ins = txs'[n].ins /\ made = txs'[n].outs
    OBVIOUS
  <2>2. LegalTx(ins, made) /\ \A k \in DOMAIN ins : OutExists(ins[k])
    <3>1. CASE n \in DOMAIN txs
      BY <1>1, <2>1, <3>1 DEF TokenInv, TrailInv, UtxoInv, InputsExist
    <3>2. CASE n = NewTxid
      BY <1>1, <2>1, <3>2 DEF Call
    <3> QED
      BY <1>1, <3>1, <3>2
  <2>3. LegalTx(ins, made)'
    BY <1>1, <2>2, LegalStays
  <2> QED
    BY <2>1, <2>3 DEF LegalTx, Continues
<1> QED
  BY <1>2, <1>4, <1>5, <1>6 DEF TokenInv, Call

-----------------------------------------------------------------------------
(* Types of what the calls put into transactions.                          *)

LEMMA FeeClaimType ==
    ASSUME TokenInv
    PROVE  WalletClaim \in Claim /\ wallet.sats \in Amount
  BY DEF TokenInv, UtxoInv, UtxoShape, WalletClaim, Claim, Amount

LEMMA InstanceTypes ==
    ASSUME TokenInv, NEW in \in instances
    PROVE  /\ in \in Instance /\ in.sats \in Amount
           /\ InstanceClaim(in) \in Claim
<1>1. in \in Instance
  BY DEF TokenInv
<1> QED
  BY <1>1 DEF Instance, InstanceClaim, Claim, Amount

LEMMA NextEventType ==
    ASSUME NEW in \in Instance, NEW kind \in Kind, NEW c \in Party
    PROVE  /\ NextEvent(in, kind, c) \in Event
           /\ StateOutput(NextEvent(in, kind, c), c, in.sats) \in OutputOf(Event)
<1>1. in.out[1] \in 0 .. MaxTxs /\ in.seq + 1 \in Nat
  BY DEF Instance, Outpoint
<1>2. NextEvent(in, kind, c) \in Event
  BY <1>1 DEF NextEvent, Instance, Event
<1> QED
  BY <1>2 DEF StateOutput, OutputOf, Instance

LEMMA SuccessorType ==
    ASSUME NEW in \in Instance, NEW c \in Party, NEW v \in Nat,
           NewTxid \in 1 .. MaxTxs
    PROVE  /\ Successor(in, c, v) \in Instance
           /\ Successor(in, c, v).out = <<NewTxid, v>>
           /\ Successor(in, c, v).holder = c
           /\ Successor(in, c, v).sats = in.sats
           /\ Successor(in, c, v).seq = in.seq + 1
           /\ Successor(in, c, v).tokenId = in.tokenId
           /\ Successor(in, c, v).value = in.value
<1>1. <<NewTxid, v>> \in Outpoint /\ in.seq + 1 \in Nat
  BY StateUtxoAssumption DEF Outpoint, Instance
<1> QED
  BY <1>1 DEF Successor, Instance

\* The backing of a token is an amount, whatever wraps.
LEMMA QuantityType ==
    ASSUME NEW t \in TypeID, NEW value \in MintValue
    PROVE  SatoshiQuantity(Def[t], value) \in Amount
<1>1. /\ Width \in Nat \ {0} /\ Micro \in Nat \ {0} /\ 1 \in Amount
      /\ Def[t].peg \in Amount /\ Def[t].threshold \in Amount
      /\ value \in Amount
  BY StateUtxoAssumption, TokenAssumption
<1>2. value * Def[t].peg \in Nat
  BY <1>1 DEF Amount
<1>3. (value * Def[t].peg) % Width \in Amount
  BY <1>1, <1>2 DEF Amount
<1>4. \A x \in Amount : x \div Micro \in Amount
  <2> SUFFICES ASSUME NEW x \in Amount
               PROVE  x \div Micro \in Amount
    OBVIOUS
  <2> DEFINE q == x \div Micro
  <2>1. x \in Nat /\ x < Width /\ Micro >= 1
    BY <1>1 DEF Amount
  <2>2. q \in Int /\ q * Micro <= x /\ x < (q + 1) * Micro
    BY <1>1, <2>1
  <2>3. q >= 0
    BY <1>1, <2>1, <2>2
  <2>4. q <= q * Micro
    BY <1>1, <2>2, <2>3
  <2> QED
    BY <1>1, <2>1, <2>2, <2>3, <2>4 DEF Amount
<1>5. \A x, y \in Amount : AtLeast(x, y) \in Amount
  BY DEF AtLeast
<1> QED
  BY <1>1, <1>3, <1>4, <1>5 DEF SatoshiQuantity

-----------------------------------------------------------------------------
(* The calls.                                                              *)

\* Output k goes on, by an event of this kind and locked to h, with the token
\* of handle in, which input k spends.
Moves(claims, outs, k, in, kind, h) ==
    /\ k \in DOMAIN claims /\ k \in DOMAIN outs /\ claims[k].out = in.out
    /\ outs[k].record # NoRecord /\ outs[k].record.prev # 0
    /\ outs[k].record.kind = kind /\ outs[k].key = h
NoStateBut(outs, K) ==
    \A i \in DOMAIN outs : outs[i].record # NoRecord => i \in K
Issues(outs) ==
    \E i \in DOMAIN outs : outs[i].record # NoRecord /\ outs[i].record.prev = 0

\* Output o goes on with the token of the state output q.
Leg(q, o) ==
    /\ o.record # NoRecord /\ o.key = o.record.controller
    /\ o.record.prev # 0 /\ Continues(q, o.record)

\* The state outputs first and the fee last, each paired with its input.
LEMMA LegsAreLegal ==
    ASSUME NEW m \in {1, 2}, NEW claims, NEW outs,
           DOMAIN claims = 1 .. m + 1, DOMAIN outs = 1 .. m + 1,
           \A j, k \in DOMAIN claims : j # k => claims[j].out # claims[k].out,
           \A k \in 1 .. m : Leg(claims[k].out, outs[k]),
           outs[m + 1].record = NoRecord,
           OutputAt(claims[m + 1].out).record = NoRecord
    PROVE  LegalTx([k \in DOMAIN claims |-> claims[k].out], outs)
<1> DEFINE ins == [k \in DOMAIN claims |-> claims[k].out]
<1>1. DOMAIN ins = 1 .. m + 1 /\ \A k \in 1 .. m + 1 : ins[k] = claims[k].out
  OBVIOUS
<1> HIDE DEF ins
<1>2. \A k \in 1 .. m + 1 : k \in 1 .. 3 /\ (k \in 1 .. m \/ k = m + 1)
  OBVIOUS
<1>3. DOMAIN ins \subseteq 1 .. 3
  BY <1>1, <1>2
<1>4. \A j, k \in DOMAIN ins : j # k => ins[j] # ins[k]
  BY <1>1
<1>5. ASSUME NEW i \in DOMAIN outs, outs[i].record # NoRecord
      PROVE  /\ outs[i].key = outs[i].record.controller
             /\ outs[i].record.prev # 0
             /\ i \in DOMAIN ins /\ Continues(ins[i], outs[i].record)
  <2>1. i \in 1 .. m
    BY <1>2, <1>5
  <2>2. Leg(claims[i].out, outs[i])
    BY <2>1
  <2> QED
    BY <1>1, <2>2 DEF Leg
<1>6. ASSUME NEW k \in DOMAIN ins, OutputAt(ins[k]).record # NoRecord
      PROVE  /\ k \in DOMAIN outs /\ outs[k].record # NoRecord
             /\ outs[k].record.prev # 0
  <2>1. k \in 1 .. m
    BY <1>1, <1>2, <1>6
  <2>2. Leg(claims[k].out, outs[k])
    BY <2>1
  <2> QED
    BY <1>1, <2>2 DEF Leg
<1>7. LegalTx(ins, outs)
  BY <1>3, <1>4, <1>5, <1>6 DEF LegalTx
<1> QED
  BY <1>7 DEF ins

LEMMA NextEventIsLeg ==
    ASSUME TokenInv, NEW in \in instances, NEW kind \in {"transfer", "redeem"},
           NEW h \in Party, NEW o, o = StateOutput(NextEvent(in, kind, h), h, in.sats)
    PROVE  /\ o \in OutputOf(Event) /\ Leg(in.out, o)
           /\ o.record # NoRecord /\ o.record.prev # 0
           /\ o.record.kind = kind /\ o.key = h
<1>1. in \in Instance /\ OutExists(in.out) /\ Says(in, OutputAt(in.out))
  BY DEF TokenInv, HandleInv
<1>2. in.out[1] \in 1 .. Len(txs) /\ Len(txs) \in Nat
  BY <1>1 DEF OutExists, TokenInv, UtxoInv, UtxoShape
<1>3. NextEvent(in, kind, h) \in Event /\ o \in OutputOf(Event)
  BY <1>1, NextEventType DEF Kind
<1>4. o.record = NextEvent(in, kind, h) /\ o.key = h
  BY DEF StateOutput
<1>5. o.record # NoRecord
  BY <1>3, <1>4, TokenRecordAssumption
<1>6. /\ o.record.prev = in.out[1] /\ o.record.kind = kind
      /\ o.record.type = in.type /\ o.record.row = in.tokenId
      /\ o.record.value = in.value /\ o.record.seq = in.seq + 1
      /\ o.record.controller = h
  BY <1>4 DEF NextEvent
<1>7. o.record.prev # 0
  BY <1>2, <1>6
<1>8. Continues(in.out, o.record)
  BY <1>1, <1>6 DEF Continues, Says
<1> QED
  BY <1>3, <1>4, <1>5, <1>6, <1>7, <1>8 DEF Leg

LEMMA SuccessorSays ==
    ASSUME NEW in \in Instance, NEW h \in Party, NEW v \in Nat,
           NewTxid \in 1 .. MaxTxs,
           NEW o, o = StateOutput(NextEvent(in, "transfer", h), h, in.sats),
           NEW s, s = Successor(in, h, v)
    PROVE  s \in Instance /\ s.out = <<NewTxid, v>> /\ Says(s, o)
<1>1. /\ s \in Instance /\ s.out = <<NewTxid, v>> /\ s.holder = h
      /\ s.sats = in.sats /\ s.seq = in.seq + 1
      /\ s.tokenId = in.tokenId /\ s.value = in.value
  BY SuccessorType
<1>2. s.type = in.type
  BY DEF Successor, Instance
<1>3. NextEvent(in, "transfer", h) \in Event
  BY NextEventType DEF Kind
<1>4. o.record = NextEvent(in, "transfer", h) /\ o.key = h /\ o.sats = in.sats
  BY DEF StateOutput
<1>5. o.record # NoRecord
  BY <1>3, <1>4, TokenRecordAssumption
<1>6. /\ o.record.kind = "transfer" /\ o.record.type = in.type
      /\ o.record.row = in.tokenId /\ o.record.value = in.value
      /\ o.record.seq = in.seq + 1
  BY <1>4 DEF NextEvent
<1> QED
  BY <1>1, <1>2, <1>4, <1>5, <1>6 DEF Says

\* A token's output and the fee output are not the same, and the fee output
\* carries no state.
LEMMA BroadcastClaims ==
    ASSUME TokenInv, NEW claims, NEW outs, Broadcast(claims, outs),
           NEW k \in DOMAIN claims, claims[k] = WalletClaim
    PROVE  /\ Taken(claims, outs)
           /\ \A i, j \in DOMAIN claims : i # j => claims[i].out # claims[j].out
           /\ OutputAt(claims[k].out).record = NoRecord
<1>1. Taken(claims, outs)
      /\ \A i, j \in DOMAIN claims : i # j => claims[i].out # claims[j].out
  BY DEF Broadcast, Accepts, Taken
<1>2. claims[k].out = wallet.out /\ OutExists(wallet.out)
  BY <1>1 DEF Taken, WalletClaim
<1>3. OutputAt(wallet.out).record = NoRecord
  BY <1>2, WalletHoldsNoState DEF TokenInv
<1> QED
  BY <1>1, <1>2, <1>3

LEMMA FundCall ==
    ASSUME TokenInv, FundFromWallet, UNCHANGED instances
    PROVE  \E claims, outs : Call(claims, outs) /\ NoStateBut(outs, {})
<1> DEFINE claims == <<>>
           outs == <<FeeOutput(Funding)>>
<1>1. Taken(claims, outs) /\ Outcome(outs)
  BY FundingIsTaken
<1>2. FeeOutput(Funding) \in OutputOf(Event)
  BY StateUtxoAssumption, FeeOutputType DEF Amount
<1>3. FeeOutput(Funding).record = NoRecord
  BY DEF FeeOutput
<1>4. outs \in Seq(OutputOf(Event)) /\ \A i \in DOMAIN outs : outs[i].record = NoRecord
  BY <1>2, <1>3
<1>5. claims \in Seq(Claim) /\ DOMAIN claims = {}
  OBVIOUS
<1> HIDE DEF outs, claims
<1>6. LegalTx([k \in DOMAIN claims |-> claims[k].out], outs)
  BY <1>4, <1>5 DEF LegalTx
<1>7. Call(claims, outs) /\ NoStateBut(outs, {})
  BY <1>1, <1>4, <1>5, <1>6 DEF Call, NoStateBut, TokenInv
<1> QED
  BY <1>7

LEMMA MintCall ==
    ASSUME TokenInv, NEW t \in TypeID, NEW id \in TokenID, NEW h \in Party,
           NEW value \in MintValue, Mint(t, id, h, value)
    PROVE  \E claims, outs : Call(claims, outs) /\ Issues(outs)
<1> DEFINE sats == SatoshiQuantity(Def[t], value)
           event == [type |-> t, row |-> id, kind |-> "mint",
                     value |-> value, controller |-> h, seq |-> 0, prev |-> 0]
           in == [type |-> t, tokenId |-> id, holder |-> h, value |-> value,
                  seq |-> 0, out |-> <<NewTxid, 1>>, sats |-> sats]
           claims == <<WalletClaim>>
           outs == <<StateOutput(event, h, sats), FeeOutput(ChangeLeft(sats))>>
<1>1. sats \in Amount /\ ChangeLeft(sats) \in Amount
  BY QuantityType, ChangeInRange DEF TokenInv, UtxoInv
<1>2. event \in Event
  BY StateUtxoAssumption DEF Event, Kind
<1>a. Broadcast(claims, outs)
      /\ \/ WalletMovesTo(2, ChangeLeft(sats)) /\ instances' = instances \cup {in}
         \/ AnswerLost /\ UNCHANGED instances
  BY DEF Mint
<1> HIDE DEF sats
<1>3. StateOutput(event, h, sats) \in OutputOf(Event)
  BY <1>1, <1>2 DEF StateOutput, OutputOf
<1>4. claims \in Seq(Claim)
  BY FeeClaimType
<1>5. outs \in Seq(OutputOf(Event))
  BY <1>1, <1>3, FeeOutputType
<1>6. Taken(claims, outs) /\ OutputAt(claims[1].out).record = NoRecord
      /\ DOMAIN claims = {1}
  <2>1. 1 \in DOMAIN claims /\ claims[1] = WalletClaim /\ DOMAIN claims = {1}
    OBVIOUS
  <2> HIDE DEF claims, outs
  <2> QED
    BY <1>a, <2>1, BroadcastClaims
<1>7. NewTxid \in 1 .. MaxTxs
  BY <1>4, <1>5, <1>6, TakenAppends DEF TokenInv, UtxoInv
<1>8. in \in Instance
  BY <1>1, <1>7 DEF Instance, Outpoint
<1>9. /\ DOMAIN outs = {1, 2} /\ outs[2].record = NoRecord
      /\ outs[1].record = event /\ outs[1].key = h /\ outs[1].sats = sats
  BY DEF StateOutput, FeeOutput
<1>10. outs[1].record # NoRecord
  BY <1>2, <1>9, TokenRecordAssumption
<1>11. /\ outs[1].record.kind = "mint" /\ outs[1].record.seq = 0
       /\ outs[1].record.prev = 0 /\ outs[1].record.controller = h
       /\ outs[1].record.type = t /\ outs[1].record.row = id
       /\ outs[1].record.value = value
  BY <1>9
<1>12. Says(in, outs[1]) /\ in.out = <<NewTxid, 1>>
  <2>1. /\ in.holder = h /\ in.sats = sats /\ in.type = t /\ in.tokenId = id
        /\ in.value = value /\ in.seq = 0 /\ in.out = <<NewTxid, 1>>
    OBVIOUS
  <2> HIDE DEF in, outs
  <2> QED
    BY <1>9, <1>10, <1>11, <2>1 DEF Says
<1>13. outs[2] = FeeOutput(ChangeLeft(sats))
  OBVIOUS
<1> HIDE DEF in, outs, claims, event
<1>14. LegalTx([k \in DOMAIN claims |-> claims[k].out], outs)
  <2> DEFINE ins == [k \in DOMAIN claims |-> claims[k].out]
  <2>1. DOMAIN ins = {1} /\ ins[1] = claims[1].out
    BY <1>6
  <2> HIDE DEF ins
  <2>2. LegalTx(ins, outs)
    BY <1>6, <1>9, <1>10, <1>11, <2>1 DEF LegalTx
  <2> QED
    BY <2>2 DEF ins
<1>15. CASE WalletMovesTo(2, ChangeLeft(sats)) /\ instances' = instances \cup {in}
  <2>1. Outcome(outs)
    BY <1>1, <1>9, <1>13, <1>15 DEF Outcome
  <2>2. Handed(outs[1], <<NewTxid, 1>>)
    BY <1>12, <1>15 DEF Handed
  <2>3. \A x \in instances' \ instances :
           \E i \in DOMAIN outs : x.out = <<NewTxid, i>> /\ Says(x, outs[i])
    BY <1>9, <1>12, <1>15
  <2>4. instances \subseteq instances' /\ instances' \subseteq Instance
    BY <1>8, <1>15 DEF TokenInv
  <2>5. Call(claims, outs)
    BY <1>4, <1>5, <1>6, <1>9, <1>14, <2>1, <2>2, <2>3, <2>4 DEF Call
  <2> QED
    BY <1>9, <1>10, <1>11, <2>5 DEF Issues
<1>16. CASE AnswerLost /\ UNCHANGED instances
  <2>1. Call(claims, outs)
    BY <1>4, <1>5, <1>6, <1>14, <1>16 DEF Call, TokenInv, Outcome, AnswerLost
  <2> QED
    BY <1>9, <1>10, <1>11, <2>1 DEF Issues
<1> QED
  BY <1>a, <1>15, <1>16

LEMMA TransferCall ==
    ASSUME TokenInv, NEW in \in instances, NEW h \in Party, Transfer(in, h)
    PROVE  \E claims, outs :
              /\ Call(claims, outs) /\ NoStateBut(outs, {1})
              /\ Moves(claims, outs, 1, in, "transfer", h)
<1> DEFINE one == StateOutput(NextEvent(in, "transfer", h), h, in.sats)
           next == Successor(in, h, 1)
           claims == <<InstanceClaim(in), WalletClaim>>
           outs == <<one, FeeOutput(wallet.sats)>>
<1>1. /\ in \in Instance /\ wallet.sats \in Amount
      /\ InstanceClaim(in) \in Claim /\ WalletClaim \in Claim
  BY InstanceTypes, FeeClaimType
<1>2. /\ one \in OutputOf(Event) /\ Leg(in.out, one)
      /\ one.record # NoRecord /\ one.record.prev # 0
      /\ one.record.kind = "transfer" /\ one.key = h
  BY NextEventIsLeg
<1>3. Broadcast(claims, outs)
      /\ \/ WalletMovesTo(2, wallet.sats) /\ instances' = instances \cup {next}
         \/ AnswerLost /\ UNCHANGED instances
  BY DEF Transfer
<1> HIDE DEF one
<1>4. /\ claims \in Seq(Claim) /\ DOMAIN claims = 1 .. 1 + 1
      /\ claims[1].out = in.out /\ claims[2] = WalletClaim
  BY <1>1 DEF InstanceClaim
<1>5. /\ outs \in Seq(OutputOf(Event)) /\ DOMAIN outs = 1 .. 1 + 1
      /\ outs[1] = one /\ outs[2] = FeeOutput(wallet.sats)
  BY <1>1, <1>2, FeeOutputType
<1>6. outs[2].record = NoRecord
  BY <1>5 DEF FeeOutput
<1> HIDE DEF claims, outs
<1>7. /\ Taken(claims, outs) /\ OutputAt(claims[2].out).record = NoRecord
      /\ \A i, j \in DOMAIN claims : i # j => claims[i].out # claims[j].out
  <2>1. 2 \in DOMAIN claims
    BY <1>4
  <2> QED
    BY <1>3, <1>4, <2>1, BroadcastClaims
<1>8. LegalTx([k \in DOMAIN claims |-> claims[k].out], outs)
  <2>1. \A k \in 1 .. 1 : Leg(claims[k].out, outs[k])
    BY <1>2, <1>4, <1>5
  <2>2. outs[1 + 1].record = NoRecord /\ OutputAt(claims[1 + 1].out).record = NoRecord
    BY <1>6, <1>7
  <2> QED
    BY <1>4, <1>5, <1>7, <2>1, <2>2, LegsAreLegal
<1>9. NewTxid \in 1 .. MaxTxs
  BY <1>4, <1>5, <1>7, TakenAppends DEF TokenInv, UtxoInv
<1>10. next \in Instance /\ next.out = <<NewTxid, 1>> /\ Says(next, outs[1])
  BY <1>1, <1>5, <1>9, SuccessorSays DEF one
<1> HIDE DEF next
<1>11. DOMAIN outs = {1, 2} /\ DOMAIN claims = {1, 2}
  BY <1>4, <1>5
<1>12. Moves(claims, outs, 1, in, "transfer", h) /\ NoStateBut(outs, {1})
  BY <1>2, <1>4, <1>5, <1>6, <1>11 DEF Moves, NoStateBut
<1>13. CASE WalletMovesTo(2, wallet.sats) /\ instances' = instances \cup {next}
  <2>1. Outcome(outs)
    BY <1>1, <1>5, <1>11, <1>13 DEF Outcome
  <2>2. Handed(outs[1], <<NewTxid, 1>>)
    BY <1>10, <1>13 DEF Handed
  <2>3. \A x \in instances' \ instances :
           \E i \in DOMAIN outs : x.out = <<NewTxid, i>> /\ Says(x, outs[i])
    BY <1>10, <1>11, <1>13
  <2>4. instances \subseteq instances' /\ instances' \subseteq Instance
    BY <1>10, <1>13 DEF TokenInv
  <2>5. Call(claims, outs)
    BY <1>4, <1>5, <1>6, <1>7, <1>8, <1>11, <2>1, <2>2, <2>3, <2>4 DEF Call
  <2> QED
    BY <1>12, <2>5
<1>14. CASE AnswerLost /\ UNCHANGED instances
  <2>1. Call(claims, outs)
    BY <1>4, <1>5, <1>7, <1>8, <1>14 DEF Call, TokenInv, Outcome, AnswerLost
  <2> QED
    BY <1>12, <2>1
<1> QED
  BY <1>3, <1>13, <1>14

\* Nobody is handed the issuer's output; it is not a live token's.
LEMMA RedeemCall ==
    ASSUME TokenInv, NEW in \in instances, NEW h \in Party, Redeem(in, h)
    PROVE  \E claims, outs :
              /\ Call(claims, outs) /\ NoStateBut(outs, {1})
              /\ Moves(claims, outs, 1, in, "redeem", h)
<1> DEFINE one == StateOutput(NextEvent(in, "redeem", h), h, in.sats)
           claims == <<InstanceClaim(in), WalletClaim>>
           outs == <<one, FeeOutput(wallet.sats)>>
<1>1. /\ in \in Instance /\ wallet.sats \in Amount
      /\ InstanceClaim(in) \in Claim /\ WalletClaim \in Claim
  BY InstanceTypes, FeeClaimType
<1>2. /\ one \in OutputOf(Event) /\ Leg(in.out, one)
      /\ one.record # NoRecord /\ one.record.prev # 0
      /\ one.record.kind = "redeem" /\ one.key = h
  BY NextEventIsLeg
<1>3. Broadcast(claims, outs) /\ instances' = instances
      /\ (WalletMovesTo(2, wallet.sats) \/ AnswerLost)
  BY DEF Redeem
<1> HIDE DEF one
<1>4. /\ claims \in Seq(Claim) /\ DOMAIN claims = 1 .. 1 + 1
      /\ claims[1].out = in.out /\ claims[2] = WalletClaim
  BY <1>1 DEF InstanceClaim
<1>5. /\ outs \in Seq(OutputOf(Event)) /\ DOMAIN outs = 1 .. 1 + 1
      /\ outs[1] = one /\ outs[2] = FeeOutput(wallet.sats)
  BY <1>1, <1>2, FeeOutputType
<1>6. outs[2].record = NoRecord
  BY <1>5 DEF FeeOutput
<1> HIDE DEF claims, outs
<1>7. /\ Taken(claims, outs) /\ OutputAt(claims[2].out).record = NoRecord
      /\ \A i, j \in DOMAIN claims : i # j => claims[i].out # claims[j].out
  <2>1. 2 \in DOMAIN claims
    BY <1>4
  <2> QED
    BY <1>3, <1>4, <2>1, BroadcastClaims
<1>8. LegalTx([k \in DOMAIN claims |-> claims[k].out], outs)
  <2>1. \A k \in 1 .. 1 : Leg(claims[k].out, outs[k])
    BY <1>2, <1>4, <1>5
  <2>2. outs[1 + 1].record = NoRecord /\ OutputAt(claims[1 + 1].out).record = NoRecord
    BY <1>6, <1>7
  <2> QED
    BY <1>4, <1>5, <1>7, <2>1, <2>2, LegsAreLegal
<1>9. DOMAIN outs = {1, 2} /\ DOMAIN claims = {1, 2}
  BY <1>4, <1>5
<1>10. Moves(claims, outs, 1, in, "redeem", h) /\ NoStateBut(outs, {1})
  BY <1>2, <1>4, <1>5, <1>6, <1>9 DEF Moves, NoStateBut
<1>11. Outcome(outs)
  BY <1>1, <1>3, <1>5, <1>9 DEF Outcome
<1>12. Call(claims, outs)
  BY <1>2, <1>3, <1>4, <1>5, <1>6, <1>7, <1>8, <1>9, <1>11 DEF Call, TokenInv
<1> QED
  BY <1>10, <1>12

LEMMA SwapCall ==
    ASSUME TokenInv, NEW a \in instances, NEW b \in instances, Swap(a, b)
    PROVE  \E claims, outs :
              /\ Call(claims, outs) /\ NoStateBut(outs, {1, 2})
              /\ Moves(claims, outs, 1, a, "transfer", b.holder)
              /\ Moves(claims, outs, 2, b, "transfer", a.holder)
<1> DEFINE one == StateOutput(NextEvent(a, "transfer", b.holder), b.holder, a.sats)
           two == StateOutput(NextEvent(b, "transfer", a.holder), a.holder, b.sats)
           nextA == Successor(a, b.holder, 1)
           nextB == Successor(b, a.holder, 2)
           claims == <<InstanceClaim(a), InstanceClaim(b), WalletClaim>>
           outs == <<one, two, FeeOutput(wallet.sats)>>
<1>1. /\ a \in Instance /\ b \in Instance /\ wallet.sats \in Amount
      /\ a.holder \in Party /\ b.holder \in Party
      /\ InstanceClaim(a) \in Claim /\ InstanceClaim(b) \in Claim
      /\ WalletClaim \in Claim
  BY InstanceTypes, FeeClaimType DEF Instance
<1>2. /\ one \in OutputOf(Event) /\ Leg(a.out, one)
      /\ one.record # NoRecord /\ one.record.prev # 0
      /\ one.record.kind = "transfer" /\ one.key = b.holder
  BY <1>1, NextEventIsLeg
<1>3. /\ two \in OutputOf(Event) /\ Leg(b.out, two)
      /\ two.record # NoRecord /\ two.record.prev # 0
      /\ two.record.kind = "transfer" /\ two.key = a.holder
  BY <1>1, NextEventIsLeg
<1>4. Broadcast(claims, outs)
      /\ \/ WalletMovesTo(3, wallet.sats) /\ instances' = instances \cup {nextA, nextB}
         \/ AnswerLost /\ UNCHANGED instances
  BY DEF Swap, SwapTx
<1> HIDE DEF one, two
<1>5. /\ claims \in Seq(Claim) /\ DOMAIN claims = 1 .. 2 + 1
      /\ claims[1].out = a.out /\ claims[2].out = b.out
      /\ claims[3] = WalletClaim
  <2>1. InstanceClaim(a).out = a.out /\ InstanceClaim(b).out = b.out
    BY DEF InstanceClaim
  <2> QED
    BY <1>1, <2>1
<1>6. /\ outs \in Seq(OutputOf(Event)) /\ DOMAIN outs = 1 .. 2 + 1
      /\ outs[1] = one /\ outs[2] = two /\ outs[3] = FeeOutput(wallet.sats)
  BY <1>1, <1>2, <1>3, FeeOutputType
<1>7. outs[3].record = NoRecord
  BY <1>6 DEF FeeOutput
<1> HIDE DEF claims, outs
<1>8. /\ Taken(claims, outs) /\ OutputAt(claims[3].out).record = NoRecord
      /\ \A i, j \in DOMAIN claims : i # j => claims[i].out # claims[j].out
  <2>1. 3 \in DOMAIN claims
    BY <1>5
  <2> QED
    BY <1>4, <1>5, <2>1, BroadcastClaims
<1>9. LegalTx([k \in DOMAIN claims |-> claims[k].out], outs)
  <2>1. \A k \in 1 .. 2 : Leg(claims[k].out, outs[k])
    BY <1>2, <1>3, <1>5, <1>6
  <2>2. outs[2 + 1].record = NoRecord /\ OutputAt(claims[2 + 1].out).record = NoRecord
    BY <1>7, <1>8
  <2> QED
    BY <1>5, <1>6, <1>8, <2>1, <2>2, LegsAreLegal
<1>10. NewTxid \in 1 .. MaxTxs
  BY <1>5, <1>6, <1>8, TakenAppends DEF TokenInv, UtxoInv
<1>11. nextA \in Instance /\ nextA.out = <<NewTxid, 1>> /\ Says(nextA, outs[1])
  BY <1>1, <1>6, <1>10, SuccessorSays DEF one
<1>12. nextB \in Instance /\ nextB.out = <<NewTxid, 2>> /\ Says(nextB, outs[2])
  BY <1>1, <1>6, <1>10, SuccessorSays DEF two
<1> HIDE DEF nextA, nextB
<1>13. DOMAIN outs = {1, 2, 3} /\ DOMAIN claims = {1, 2, 3}
  BY <1>5, <1>6
<1>14. /\ Moves(claims, outs, 1, a, "transfer", b.holder)
       /\ Moves(claims, outs, 2, b, "transfer", a.holder)
       /\ NoStateBut(outs, {1, 2})
  BY <1>2, <1>3, <1>5, <1>6, <1>7, <1>13 DEF Moves, NoStateBut
<1>15. CASE WalletMovesTo(3, wallet.sats) /\ instances' = instances \cup {nextA, nextB}
  <2>1. Outcome(outs)
    BY <1>1, <1>6, <1>13, <1>15 DEF Outcome
  <2>2. Handed(outs[1], <<NewTxid, 1>>) /\ Handed(outs[2], <<NewTxid, 2>>)
    BY <1>11, <1>12, <1>15 DEF Handed
  <2>3. \A x \in instances' \ instances :
           \E i \in DOMAIN outs : x.out = <<NewTxid, i>> /\ Says(x, outs[i])
    BY <1>11, <1>12, <1>13, <1>15
  <2>4. instances \subseteq instances' /\ instances' \subseteq Instance
    BY <1>11, <1>12, <1>15 DEF TokenInv
  <2>5. \A i \in DOMAIN outs :
           outs[i].record = NoRecord \/ Handed(outs[i], <<NewTxid, i>>)
    BY <1>7, <1>13, <2>2
  <2>6. Call(claims, outs)
    BY <1>5, <1>6, <1>8, <1>9, <2>1, <2>3, <2>4, <2>5 DEF Call
  <2> QED
    BY <1>14, <2>6
<1>16. CASE AnswerLost /\ UNCHANGED instances
  <2>1. Call(claims, outs)
    BY <1>5, <1>6, <1>8, <1>9, <1>16 DEF Call, TokenInv, Outcome, AnswerLost
  <2> QED
    BY <1>14, <2>1
<1> QED
  BY <1>4, <1>15, <1>16

-----------------------------------------------------------------------------
LEMMA TokenInitInv == TokenInit => TokenInv
<1> SUFFICES ASSUME TokenInit
             PROVE  TokenInv
  OBVIOUS
<1>1. UtxoInv(Event)
  BY UtxoInitInv DEF TokenInit
<1>2. TitlesHeld
  BY DEF TokenInit, UtxoInit, TitlesHeld
<1>3. HandleInv /\ TrailInv
  BY DEF TokenInit, UtxoInit, HandleInv, TrailInv
<1> QED
  BY <1>1, <1>2, <1>3 DEF TokenInit, TokenInv

LEMMA TokenStepInv == TokenInv /\ [TokenNext]_tokenVars => TokenInv'
<1> SUFFICES ASSUME TokenInv, [TokenNext]_tokenVars
             PROVE  TokenInv'
  OBVIOUS
<1>1. CASE FundFromWallet /\ UNCHANGED instances
  BY <1>1, FundCall, CallStep
<1>2. ASSUME NEW t \in TypeID, NEW id \in TokenID, NEW h \in Party,
             NEW v \in MintValue, Mint(t, id, h, v)
      PROVE  TokenInv'
  BY <1>2, MintCall, CallStep
<1>3. ASSUME NEW in \in instances, NEW h \in Party, Transfer(in, h)
      PROVE  TokenInv'
  BY <1>3, TransferCall, CallStep
<1>4. ASSUME NEW in \in instances, NEW h \in Party, Redeem(in, h)
      PROVE  TokenInv'
  BY <1>4, RedeemCall, CallStep
<1>5. ASSUME NEW a \in instances, NEW b \in instances, Swap(a, b)
      PROVE  TokenInv'
  BY <1>5, SwapCall, CallStep
<1>6. CASE UNCHANGED tokenVars
  <2>1. txs' = txs /\ lost' = lost /\ instances' = instances /\ UNCHANGED utxoVars
    BY <1>6 DEF tokenVars, utxoVars
  <2>2. UtxoInv(Event)'
    BY <2>1, UtxoUnchanged DEF TokenInv
  <2>3. TitlesHeld'
    BY <2>1 DEF TokenInv, TitlesHeld, StateOutputs, IsSpent
  <2>4. HandleInv'
    BY <2>1 DEF TokenInv, HandleInv, OutExists, OutputAt
  <2>5. TrailInv'
    <3>1. \A o : OutputAt(o)' = OutputAt(o)
      BY <2>1 DEF OutputAt
    <3>2. ASSUME NEW ins, NEW outs, LegalTx(ins, outs)
          PROVE  LegalTx(ins, outs)'
      BY <3>1, <3>2, LegalStays
    <3> SUFFICES ASSUME NEW n \in DOMAIN txs
                 PROVE  LegalTx(txs[n].ins, txs[n].outs)'
      BY <2>1 DEF TrailInv
    <3>3. PICK ins, outs : ins = txs[n].ins /\ outs = txs[n].outs
      OBVIOUS
    <3>4. LegalTx(ins, outs)'
      BY <3>2, <3>3 DEF TokenInv, TrailInv
    <3> QED
      BY <2>1, <3>3, <3>4 DEF LegalTx, Continues
  <2> QED
    BY <2>1, <2>2, <2>3, <2>4, <2>5 DEF TokenInv
<1> QED
  BY <1>1, <1>2, <1>3, <1>4, <1>5, <1>6 DEF TokenNext

\* What transactions, the fee output and handles satisfy together.
THEOREM TokenInvariant == TokenSpec => []TokenInv
<1> QED
  BY TokenInitInv, TokenStepInv, PTL DEF TokenSpec

\* Amounts stay unsigned, whatever wraps, and state outputs carry events
\* (token.go:58-69, engine.go:216).
THEOREM TokenTypeCorrect == TokenSpec => []TokenTypeOK
<1>1. TokenInv => TokenTypeOK
  <2> SUFFICES ASSUME TokenInv
               PROVE  TokenTypeOK
    OBVIOUS
  <2>1. UtxoTypeOK
    BY ShapeIsType DEF TokenInv, UtxoInv
  <2>2. ASSUME NEW n \in DOMAIN txs, NEW i \in StateOutputs(n)
        PROVE  txs[n].outs[i].record \in Event
    <3>1. txs[n] \in TxOf(Event)
      BY DEF TokenInv, UtxoInv, UtxoShape
    <3>2. txs[n].outs[i] \in OutputOf(Event)
      BY <3>1 DEF TxOf, StateOutputs
    <3> QED
      BY <3>2 DEF OutputOf, StateOutputs
  <2> QED
    BY <2>1, <2>2 DEF TokenInv, TokenTypeOK
<1> QED
  BY <1>1, TokenInvariant, PTL

\* The fee output in memory can be spent, unless a call that returned an
\* error has spent it (engine.go:183-195, 223, 345).
THEOREM WalletSoundTheorem == TokenSpec => []WalletSound
<1>1. TokenInv => WalletSound
  BY InvIsWalletSound DEF TokenInv
<1> QED
  BY <1>1, TokenInvariant, PTL

\* Every unspent output of a live token is what some handle says of it,
\* unless a call that returned an error made it (engine.go:224, 259, 346).
THEOREM TitlesHeldTheorem == TokenSpec => []TitlesHeld
<1>1. TokenInv => TitlesHeld
  BY DEF TokenInv
<1> QED
  BY <1>1, TokenInvariant, PTL

-----------------------------------------------------------------------------
(* Cold verification: the outputs of a token make one chain.               *)

StateRec == [sats : Amount, key : Party \cup {WalletKey}, record : Event]

\* Output i of transaction n is a state of token id.
Of(id, n, i) ==
    n \in DOMAIN txs /\ i \in StateOutputs(n) /\ txs[n].outs[i].record.row = id
SeqAt(n, i) == txs[n].outs[i].record.seq

\* It is the first one, or goes on from output b of transaction a.
Starts(n, i) ==
    LET r == txs[n].outs[i].record
    IN  r.prev = 0 /\ r.kind = "mint" /\ r.seq = 0 /\ i = 1
        /\ StateOutputs(n) = {1}
GoesOn(a, b, n, i) ==
    LET r == txs[n].outs[i].record
        p == txs[a].outs[b].record
    IN  /\ a \in DOMAIN txs /\ b \in StateOutputs(a) /\ a < n
        /\ i \in DOMAIN txs[n].ins /\ txs[n].ins[i] = <<a, b>>
        /\ r.prev = a /\ r.type = p.type /\ r.row = p.row /\ r.value = p.value
        /\ r.seq = p.seq + 1 /\ p.kind # "redeem"
        /\ r.kind \in {"transfer", "redeem"}

LEMMA StateFacts ==
    ASSUME TokenInv, NEW n \in DOMAIN txs, NEW i \in StateOutputs(n)
    PROVE  /\ n \in 1 .. Len(txs) /\ Len(txs) \in Nat /\ i \in 1 .. 3
           /\ txs[n].outs[i] \in StateRec /\ txs[n].outs[i] # NoRecord
           /\ SeqAt(n, i) \in Nat
           /\ txs[n].outs[i].key = txs[n].outs[i].record.controller
           /\ Starts(n, i) \/ \E a, b : GoesOn(a, b, n, i)
<1> DEFINE o == txs[n].outs[i]
<1>1. n \in 1 .. Len(txs) /\ Len(txs) \in Nat /\ txs[n] \in TxOf(Event)
  BY DEF TokenInv, UtxoInv, UtxoShape
<1>2. /\ txs[n].outs \in Seq(OutputOf(Event)) /\ txs[n].ins \in Seq(Outpoint)
      /\ i \in DOMAIN txs[n].outs /\ o.record # NoRecord
  BY <1>1 DEF TxOf, StateOutputs
<1>3. o \in OutputOf(Event)
  BY <1>2
<1>4. o \in StateRec /\ o.record.seq \in Nat /\ i \in Nat
  BY <1>2, <1>3 DEF OutputOf, StateRec, Event
<1>5. o # NoRecord
  BY <1>4, TokenRecordAssumption DEF StateRec
<1>6. LegalTx(txs[n].ins, txs[n].outs)
  BY DEF TokenInv, TrailInv
<1>7. o.key = o.record.controller
  BY <1>2, <1>6 DEF LegalTx
<1>8. CASE o.record.prev = 0
  <2>1. /\ o.record.kind = "mint" /\ o.record.seq = 0 /\ i = 1
        /\ \A j \in DOMAIN txs[n].outs : txs[n].outs[j].record # NoRecord => j = 1
    BY <1>2, <1>6, <1>8 DEF LegalTx
  <2>2. StateOutputs(n) = {1}
    BY <1>2, <2>1 DEF StateOutputs
  <2> QED
    BY <1>1, <1>4, <1>5, <1>7, <1>8, <2>1, <2>2 DEF Starts, SeqAt
<1>9. CASE o.record.prev # 0
  <2>1. i \in DOMAIN txs[n].ins /\ Continues(txs[n].ins[i], o.record)
        /\ i \in 1 .. 3
    BY <1>2, <1>6, <1>9 DEF LegalTx
  <2>2. txs[n].ins[i] \in Outpoint
    BY <1>2, <2>1
  <2>3. PICK a, b : txs[n].ins[i] = <<a, b>>
    BY <2>2 DEF Outpoint
  <2>4. OutExists(<<a, b>>) /\ a < n
    BY <2>1, <2>3 DEF TokenInv, UtxoInv, InputsExist
  <2> DEFINE p == txs[a].outs[b].record
  <2>a. /\ a = o.record.prev /\ p # NoRecord /\ p.kind # "redeem"
        /\ p.type = o.record.type /\ p.row = o.record.row
        /\ p.value = o.record.value /\ o.record.seq = p.seq + 1
        /\ o.record.kind \in {"transfer", "redeem"}
    <3>1. txs[a].outs[b] = OutputAt(txs[n].ins[i]) /\ txs[n].ins[i][1] = a
      BY <2>3 DEF OutputAt
    <3> QED
      BY <2>1, <3>1 DEF Continues
  <2>b. a \in DOMAIN txs /\ b \in StateOutputs(a)
    <3>1. a \in DOMAIN txs /\ b \in DOMAIN txs[a].outs
      BY <2>4 DEF OutExists
    <3>2. p # NoRecord
      BY <2>a
    <3> QED
      BY <3>1, <3>2 DEF StateOutputs
  <2>5. GoesOn(a, b, n, i)
    BY <2>1, <2>3, <2>4, <2>a, <2>b DEF GoesOn
  <2> QED
    BY <1>1, <1>4, <1>5, <1>7, <2>1, <2>5 DEF SeqAt
<1> QED
  BY <1>8, <1>9

\* What goes on is older, of the same token, one behind.
LEMMA GoesOnFacts ==
    ASSUME TokenInv, NEW id, NEW n, NEW i, Of(id, n, i),
           NEW a, NEW b, GoesOn(a, b, n, i)
    PROVE  /\ Of(id, a, b) /\ a \in Nat /\ n \in Nat /\ a < n
           /\ SeqAt(a, b) \in Nat /\ SeqAt(n, i) = SeqAt(a, b) + 1
<1>1. n \in DOMAIN txs /\ i \in StateOutputs(n)
      /\ a \in DOMAIN txs /\ b \in StateOutputs(a) /\ a < n
  BY DEF Of, GoesOn
<1>2. SeqAt(a, b) \in Nat /\ a \in Nat /\ n \in Nat
  BY <1>1, StateFacts
<1> QED
  BY <1>1, <1>2 DEF Of, GoesOn, SeqAt

\* The mints are the transactions with a state without predecessor.
LEMMA MintsStart ==
    ASSUME TokenInv
    PROVE  /\ \A n \in Mints : n \in DOMAIN txs /\ 1 \in StateOutputs(n) /\ Starts(n, 1)
           /\ \A n \in DOMAIN txs : \A i \in StateOutputs(n) :
                 Starts(n, i) => n \in Mints /\ i = 1
<1>1. ASSUME NEW n \in Mints
      PROVE  n \in DOMAIN txs /\ 1 \in StateOutputs(n) /\ Starts(n, 1)
  <2>1. PICK i \in StateOutputs(n) : txs[n].outs[i].record.kind = "mint"
    BY DEF Mints
  <2>2. n \in DOMAIN txs
    BY DEF Mints
  <2>3. ~\E a, b : GoesOn(a, b, n, i)
    BY <2>1 DEF GoesOn
  <2>4. Starts(n, i)
    BY <2>1, <2>2, <2>3, StateFacts
  <2>5. i = 1
    BY <2>4 DEF Starts
  <2> QED
    BY <2>1, <2>2, <2>4, <2>5
<1>2. ASSUME NEW n \in DOMAIN txs, NEW i \in StateOutputs(n), Starts(n, i)
      PROVE  n \in Mints /\ i = 1
  BY <1>2 DEF Starts, Mints
<1> QED
  BY <1>1, <1>2

\* A token minted once has one output without predecessor.
LEMMA OneStart ==
    ASSUME TokenInv, NEW id, MintedOnce(id)
    PROVE  \E g : \A n, i : Of(id, n, i) /\ SeqAt(n, i) = 0 =>
                                n = g /\ i = 1
<1> DEFINE M == {n \in Mints : txs[n].outs[1].record.row = id}
<1>1. IsFiniteSet(M)
  <2>1. M \subseteq 1 .. Len(txs) /\ Len(txs) \in Nat
    BY DEF Mints, TokenInv, UtxoInv, UtxoShape
  <2>2. IsFiniteSet(1 .. Len(txs))
    BY <2>1, FS_Interval
  <2> QED
    BY <2>1, <2>2, FS_Subset
<1>2. PICK g : M = {g}
  BY <1>1, FS_Singleton DEF MintedOnce
<1>3. ASSUME NEW n, NEW i, Of(id, n, i), SeqAt(n, i) = 0
      PROVE  n = g /\ i = 1
  <2>1. n \in DOMAIN txs /\ i \in StateOutputs(n)
    BY <1>3 DEF Of
  <2>2. ~\E a, b : GoesOn(a, b, n, i)
    <3> SUFFICES ASSUME NEW a, NEW b, GoesOn(a, b, n, i) PROVE FALSE
      OBVIOUS
    <3>1. SeqAt(a, b) \in Nat /\ SeqAt(n, i) = SeqAt(a, b) + 1
      BY <1>3, GoesOnFacts
    <3> QED
      BY <1>3, <3>1
  <2>3. n \in Mints /\ i = 1
    BY <2>1, <2>2, StateFacts, MintsStart
  <2>4. n \in M
    BY <1>3, <2>3 DEF Of
  <2> QED
    BY <1>2, <2>3, <2>4
<1> QED
  BY <1>3

\* So its outputs are told apart by their sequence numbers.
SameSeq(id, s) ==
    \A n, i, m, j :
        Of(id, n, i) /\ Of(id, m, j) /\ SeqAt(n, i) = s /\ SeqAt(m, j) = s =>
            n = m /\ i = j

LEMMA SeqNames ==
    ASSUME TokenInv, NEW id, MintedOnce(id), NEW s \in Nat
    PROVE  SameSeq(id, s)
<1> DEFINE T == {t \in Nat : SameSeq(id, t)}
<1>1. 0 \in T
  BY OneStart DEF SameSeq
<1>2. ASSUME NEW t \in Nat, t \in T PROVE t + 1 \in T
  <2> SUFFICES ASSUME NEW n, NEW i, NEW m, NEW j, Of(id, n, i), Of(id, m, j),
                      SeqAt(n, i) = t + 1, SeqAt(m, j) = t + 1
               PROVE  n = m /\ i = j
    BY DEF SameSeq
  <2>1. n \in DOMAIN txs /\ i \in StateOutputs(n)
        /\ m \in DOMAIN txs /\ j \in StateOutputs(m)
    BY DEF Of
  <2>2. ~Starts(n, i) /\ ~Starts(m, j)
    BY DEF Starts, SeqAt
  <2>3. PICK a, b : GoesOn(a, b, n, i)
    BY <2>1, <2>2, StateFacts
  <2>4. PICK c, d : GoesOn(c, d, m, j)
    BY <2>1, <2>2, StateFacts
  <2>5. Of(id, a, b) /\ SeqAt(a, b) = t
    <3>1. Of(id, a, b) /\ SeqAt(a, b) \in Nat /\ SeqAt(n, i) = SeqAt(a, b) + 1
      BY <2>3, GoesOnFacts
    <3> QED
      BY <3>1
  <2>6. Of(id, c, d) /\ SeqAt(c, d) = t
    <3>1. Of(id, c, d) /\ SeqAt(c, d) \in Nat /\ SeqAt(m, j) = SeqAt(c, d) + 1
      BY <2>4, GoesOnFacts
    <3> QED
      BY <3>1
  <2>7. a = c /\ b = d
    BY <1>2, <2>5, <2>6 DEF SameSeq
  <2>8. /\ i \in DOMAIN txs[n].ins /\ txs[n].ins[i] = <<a, b>>
        /\ j \in DOMAIN txs[m].ins /\ txs[m].ins[j] = <<a, b>>
    BY <2>3, <2>4, <2>7 DEF GoesOn
  <2>9. n = m
    BY <2>1, <2>8 DEF TokenInv, UtxoInv, SpentOnce, Range
  <2>10. i = j
    BY <2>1, <2>8, <2>9 DEF TokenInv, TrailInv, LegalTx
  <2> QED
    BY <2>9, <2>10
<1>3. s \in T
  <2> HIDE DEF T
  <2> QED
    BY <1>1, <1>2, SetInduction
<1> QED
  BY <1>3

\* Every earlier state of a token is on an earlier transaction.
EarlierFirst(id, s) ==
    \A n, i : Of(id, n, i) /\ SeqAt(n, i) = s =>
        \A t \in 0 .. s - 1 : \E m, j : Of(id, m, j) /\ SeqAt(m, j) = t /\ m < n

LEMMA EarlierIsOlder ==
    ASSUME TokenInv, NEW id, NEW s \in Nat
    PROVE  EarlierFirst(id, s)
<1> DEFINE T == {x \in Nat : EarlierFirst(id, x)}
<1>1. 0 \in T
  BY DEF EarlierFirst
<1>2. ASSUME NEW x \in Nat, x \in T PROVE x + 1 \in T
  <2> SUFFICES ASSUME NEW n, NEW i, Of(id, n, i), SeqAt(n, i) = x + 1,
                      NEW t \in 0 .. x
               PROVE  \E m, j : Of(id, m, j) /\ SeqAt(m, j) = t /\ m < n
    BY DEF EarlierFirst
  <2>1. n \in DOMAIN txs /\ i \in StateOutputs(n)
    BY DEF Of
  <2>2. ~Starts(n, i)
    BY DEF Starts, SeqAt
  <2>3. PICK a, b : GoesOn(a, b, n, i)
    BY <2>1, <2>2, StateFacts
  <2>4. /\ Of(id, a, b) /\ a \in Nat /\ n \in Nat /\ a < n /\ SeqAt(a, b) = x
    <3>1. /\ Of(id, a, b) /\ a \in Nat /\ n \in Nat /\ a < n
          /\ SeqAt(a, b) \in Nat /\ SeqAt(n, i) = SeqAt(a, b) + 1
      BY <2>3, GoesOnFacts
    <3> QED
      BY <3>1
  <2>5. CASE t = x
    BY <2>4, <2>5
  <2>6. CASE t # x
    <3>1. t \in 0 .. x - 1
      BY <2>6
    <3>2. PICK m, j : Of(id, m, j) /\ SeqAt(m, j) = t /\ m < a
      BY <1>2, <2>4, <3>1 DEF EarlierFirst
    <3>3. m \in Nat
      <4>1. m \in DOMAIN txs /\ j \in StateOutputs(m)
        BY <3>2 DEF Of
      <4> QED
        BY <4>1, StateFacts
    <3>4. m < n
      BY <2>4, <3>2, <3>3
    <3> QED
      BY <3>2, <3>4
  <2> QED
    BY <2>5, <2>6
<1>3. s \in T
  <2> HIDE DEF T
  <2> QED
    BY <1>1, <1>2, SetInduction
<1> QED
  BY <1>3

\* And a transaction holds at most one state of a token.
LEMMA OnePerTx ==
    ASSUME TokenInv, NEW id, MintedOnce(id),
           NEW n, NEW i, NEW j, Of(id, n, i), Of(id, n, j)
    PROVE  i = j
<1>1. ASSUME NEW x, NEW y, Of(id, n, x), Of(id, n, y), SeqAt(n, x) < SeqAt(n, y)
      PROVE  FALSE
  <2>1. n \in DOMAIN txs /\ x \in StateOutputs(n) /\ y \in StateOutputs(n)
    BY <1>1 DEF Of
  <2>2. SeqAt(n, x) \in Nat /\ SeqAt(n, y) \in Nat /\ n \in Nat
    BY <2>1, StateFacts
  <2>3. SeqAt(n, x) \in 0 .. SeqAt(n, y) - 1
    BY <1>1, <2>2
  <2>4. PICK m, k : Of(id, m, k) /\ SeqAt(m, k) = SeqAt(n, x) /\ m < n
    BY <1>1, <2>2, <2>3, EarlierIsOlder DEF EarlierFirst
  <2>5. m = n
    BY <1>1, <2>2, <2>4, SeqNames DEF SameSeq
  <2> QED
    BY <2>2, <2>4, <2>5
<1>2. n \in DOMAIN txs /\ i \in StateOutputs(n) /\ j \in StateOutputs(n)
  BY DEF Of
<1>3. SeqAt(n, i) \in Nat /\ SeqAt(n, j) \in Nat
  BY <1>2, StateFacts
<1>4. SeqAt(n, i) = SeqAt(n, j)
  BY <1>1, <1>3
<1> QED
  BY <1>3, <1>4, SeqNames DEF SameSeq

\* What the verifier looks for on a transaction is that state.
LEMMA RecordOnState ==
    ASSUME TokenInv, NEW id, MintedOnce(id), NEW n, NEW i, Of(id, n, i)
    PROVE  RecordOn(n, id) = txs[n].outs[i]
<1> DEFINE matching == {j \in StateOutputs(n) : txs[n].outs[j].record.row = id}
<1>1. matching = {i}
  <2>1. \A j \in matching : j = i
    BY OnePerTx DEF Of
  <2> QED
    BY <2>1 DEF Of
<1>2. i \in Nat
  BY StateFacts DEF Of
<1> HIDE DEF matching
<1>3. (CHOOSE j \in matching : \A k \in matching : j <= k) = i
  BY <1>1, <1>2
<1>4. matching # {}
  BY <1>1
<1>5. RecordOn(n, id) = IF matching = {} THEN NoRecord
         ELSE txs[n].outs[CHOOSE j \in matching : \A k \in matching : j <= k]
  BY DEF RecordOn, matching
<1> QED
  BY <1>3, <1>4, <1>5

\* And for any token it is some state, whose predecessor is older.
LEMMA TokenLooksBack ==
    ASSUME TokenInv, NEW id
    PROVE  RowLooksBack(id)
<1> SUFFICES ASSUME NEW n \in DOMAIN txs, RecordOn(n, id) # NoRecord
             PROVE  RecordOn(n, id).record.prev \in 0 .. n - 1
  BY DEF RowLooksBack
<1> DEFINE matching == {j \in StateOutputs(n) : txs[n].outs[j].record.row = id}
<1>1. RecordOn(n, id) = IF matching = {} THEN NoRecord
         ELSE txs[n].outs[CHOOSE j \in matching : \A k \in matching : j <= k]
  BY DEF RecordOn
<1>2. matching # {} /\ matching \subseteq StateOutputs(n)
  BY <1>1
<1>3. \A j \in StateOutputs(n) : j \in Nat
  BY StateFacts
<1> HIDE DEF matching
<1>4. \E j \in matching : \A k \in matching : j <= k
  BY <1>2, <1>3, LeastNatural
<1>5. PICK i \in StateOutputs(n) : RecordOn(n, id) = txs[n].outs[i]
  BY <1>1, <1>2, <1>4
<1>6. n \in Nat /\ n >= 1
  BY <1>5, StateFacts
<1>7. CASE Starts(n, i)
  BY <1>5, <1>6, <1>7 DEF Starts
<1>8. CASE \E a, b : GoesOn(a, b, n, i)
  <2>1. PICK a, b : GoesOn(a, b, n, i)
    BY <1>8
  <2>2. a \in DOMAIN txs /\ b \in StateOutputs(a) /\ a < n
        /\ txs[n].outs[i].record.prev = a
    BY <2>1 DEF GoesOn
  <2>3. a \in Nat
    BY <2>2, StateFacts
  <2> QED
    BY <1>5, <1>6, <2>2, <2>3
<1> QED
  BY <1>5, <1>7, <1>8, StateFacts

\* The lineage l of the state output o: all states, alive before o.
Story(l, o) ==
    /\ l \in Seq(StateRec) /\ Len(l) = o.record.seq + 1 /\ l[Len(l)] = o
    /\ \A j \in 1 .. Len(l) - 1 : l[j].record.kind # "redeem"

LEMMA StoryExtends ==
    ASSUME NEW l, NEW p \in StateRec, NEW o \in StateRec, Story(l, p),
           o.record.seq = p.record.seq + 1, p.record.kind # "redeem"
    PROVE  Story(Append(l, o), o)
<1> DEFINE m == Append(l, o)
<1>1. p.record.seq \in Nat
  BY DEF StateRec, Event
<1>2. l \in Seq(StateRec) /\ Len(l) \in Nat \ {0}
  BY <1>1 DEF Story
<1>3. /\ m \in Seq(StateRec) /\ Len(m) = Len(l) + 1 /\ m[Len(m)] = o
      /\ \A j \in 1 .. Len(l) : m[j] = l[j]
  BY <1>2
<1> HIDE DEF m
<1>4. Len(m) = o.record.seq + 1
  BY <1>1, <1>3 DEF Story
<1>5. ASSUME NEW j \in 1 .. Len(m) - 1
      PROVE  m[j].record.kind # "redeem"
  <2>1. j \in 1 .. Len(l) /\ m[j] = l[j]
    BY <1>2, <1>3
  <2>2. CASE j = Len(l)
    BY <2>1, <2>2 DEF Story
  <2>3. CASE j # Len(l)
    <3>1. j \in 1 .. Len(l) - 1
      BY <1>2, <2>1, <2>3
    <3> QED
      BY <2>1, <3>1 DEF Story
  <2> QED
    BY <2>2, <2>3
<1>6. Story(m, o)
  BY <1>3, <1>4, <1>5 DEF Story
<1> QED
  BY <1>6 DEF m

Told(id, s) ==
    \A n, i : Of(id, n, i) /\ SeqAt(n, i) = s =>
        Story(Lineage(id)[n], txs[n].outs[i])

LEMMA LineageStarts ==
    ASSUME TokenInv, NEW id
    PROVE  Lineage(id)[0] = <<>>
<1>1. UtxoShape(Event) /\ RowLooksBack(id)
  BY TokenLooksBack DEF TokenInv, UtxoInv
<1>2. 0 \in 0 .. Len(txs)
  BY <1>1 DEF UtxoShape
<1> QED
  BY <1>1, <1>2, RowUnfolds

\* What is read back from transaction n is what is read from the one before
\* it, and output i.
ReadsOn(id, n, i) ==
    Lineage(id)[n] =
        Append(Lineage(id)[txs[n].outs[i].record.prev], txs[n].outs[i])

LEMMA LineageAppends ==
    ASSUME TokenInv, NEW id, MintedOnce(id), NEW n, NEW i, Of(id, n, i)
    PROVE  ReadsOn(id, n, i)
<1>1. n \in DOMAIN txs /\ i \in StateOutputs(n)
  BY DEF Of
<1>2. n \in 1 .. Len(txs) /\ Len(txs) \in Nat /\ txs[n].outs[i] # NoRecord
  BY <1>1, StateFacts
<1>3. UtxoShape(Event) /\ RowLooksBack(id)
  BY TokenLooksBack DEF TokenInv, UtxoInv
<1>4. RecordOn(n, id) = txs[n].outs[i]
  BY RecordOnState
<1>5. n \in 0 .. Len(txs) /\ n # 0
  BY <1>2
<1>6. Lineage(id)[n] = IF n = 0 THEN <<>>
              ELSE IF RecordOn(n, id) = NoRecord THEN <<NoRecord>>
              ELSE Append(Lineage(id)[RecordOn(n, id).record.prev],
                          RecordOn(n, id))
  BY <1>3, <1>5, RowUnfolds
<1> QED
  BY <1>2, <1>4, <1>5, <1>6 DEF ReadsOn

LEMMA StoriesTold ==
    ASSUME TokenInv, NEW id, MintedOnce(id), NEW s \in Nat
    PROVE  Told(id, s)
<1> DEFINE T == {x \in Nat : Told(id, x)}
<1>1. 0 \in T
  <2> SUFFICES ASSUME NEW n, NEW i, Of(id, n, i), SeqAt(n, i) = 0
               PROVE  Story(Lineage(id)[n], txs[n].outs[i])
    BY DEF Told
  <2> DEFINE o == txs[n].outs[i]
  <2>1. n \in DOMAIN txs /\ i \in StateOutputs(n)
    BY DEF Of
  <2>2. ~\E a, b : GoesOn(a, b, n, i)
    <3> SUFFICES ASSUME NEW a, NEW b, GoesOn(a, b, n, i) PROVE FALSE
      OBVIOUS
    <3>1. SeqAt(a, b) \in Nat /\ SeqAt(n, i) = SeqAt(a, b) + 1
      BY GoesOnFacts
    <3> QED
      BY <3>1
  <2>3. o \in StateRec /\ Starts(n, i)
    BY <2>1, <2>2, StateFacts
  <2>4. o.record.prev = 0 /\ o.record.seq = 0
    BY <2>3 DEF Starts
  <2>5. Lineage(id)[n] = Append(<<>>, o)
    <3>1. ReadsOn(id, n, i) /\ Lineage(id)[0] = <<>>
      BY LineageAppends, LineageStarts
    <3> QED
      BY <2>4, <3>1 DEF ReadsOn
  <2> HIDE DEF o
  <2>6. Lineage(id)[n] = <<o>>
    BY <2>5
  <2>7. Story(<<o>>, o)
    BY <2>3, <2>4 DEF Story
  <2> QED
    BY <2>6, <2>7 DEF o
<1>2. ASSUME NEW x \in Nat, x \in T PROVE x + 1 \in T
  <2> SUFFICES ASSUME NEW n, NEW i, Of(id, n, i), SeqAt(n, i) = x + 1
               PROVE  Story(Lineage(id)[n], txs[n].outs[i])
    BY DEF Told
  <2>1. n \in DOMAIN txs /\ i \in StateOutputs(n)
    BY DEF Of
  <2>2. ~Starts(n, i)
    BY DEF Starts, SeqAt
  <2>3. PICK a, b : GoesOn(a, b, n, i)
    BY <2>1, <2>2, StateFacts
  <2>4. Of(id, a, b) /\ SeqAt(a, b) = x
    <3>1. Of(id, a, b) /\ SeqAt(a, b) \in Nat /\ SeqAt(n, i) = SeqAt(a, b) + 1
      BY <2>3, GoesOnFacts
    <3> QED
      BY <3>1
  <2>5. Story(Lineage(id)[a], txs[a].outs[b])
    BY <1>2, <2>4 DEF Told
  <2>6. txs[n].outs[i] \in StateRec /\ txs[a].outs[b] \in StateRec
    BY <2>1, <2>4, StateFacts DEF Of
  <2>7. /\ txs[n].outs[i].record.prev = a
        /\ txs[n].outs[i].record.seq = txs[a].outs[b].record.seq + 1
        /\ txs[a].outs[b].record.kind # "redeem"
    BY <2>3 DEF GoesOn
  <2>8. Story(Append(Lineage(id)[a], txs[n].outs[i]), txs[n].outs[i])
    BY <2>5, <2>6, <2>7, StoryExtends
  <2>9. ReadsOn(id, n, i)
    BY LineageAppends
  <2>10. Lineage(id)[n] = Append(Lineage(id)[a], txs[n].outs[i])
    BY <2>7, <2>9 DEF ReadsOn
  <2> QED
    BY <2>8, <2>10
<1>3. s \in T
  <2> HIDE DEF T
  <2> QED
    BY <1>1, <1>2, SetInduction
<1> QED
  BY <1>3

LEMMA VerifiedHolds ==
    ASSUME TokenInv
    PROVE  VerifiedState
<1> SUFFICES ASSUME NEW n \in DOMAIN txs, NEW i \in StateOutputs(n),
                    MintedOnce(txs[n].outs[i].record.row)
             PROVE  Reports(n, i)
  BY DEF VerifiedState
<1> DEFINE o == txs[n].outs[i]
           id == o.record.row
           l == Lineage(id)[n]
<1>1. o \in StateRec /\ SeqAt(n, i) \in Nat /\ o.key = o.record.controller
  BY StateFacts
<1>2. Story(l, o)
  <2>1. Of(id, n, i)
    BY DEF Of
  <2> QED
    BY <1>1, <2>1, StoriesTold DEF Told
<1>3. o.record.seq \in Nat
  BY <1>1 DEF SeqAt
<1> HIDE DEF l
<1>4. /\ l \in Seq(StateRec) /\ Len(l) \in Nat \ {0} /\ DOMAIN l = 1 .. Len(l)
      /\ Len(l) = o.record.seq + 1 /\ l[Len(l)] = o
      /\ \A j \in 1 .. Len(l) - 1 : l[j].record.kind # "redeem"
  <2> HIDE DEF o
  <2> QED
    BY <1>2, <1>3 DEF Story
<1>5. NoRecord \notin Range(l)
  <2>1. NoRecord \notin StateRec
    BY TokenRecordAssumption DEF StateRec
  <2>2. \A j \in DOMAIN l : l[j] \in StateRec
    BY <1>4
  <2> QED
    BY <2>1, <2>2 DEF Range
<1>6. Last(l) = o
  BY <1>4 DEF Last
<1>7. (\A j \in DOMAIN l : l[j].record.kind # "redeem") <=> o.record.kind # "redeem"
  <2> HIDE DEF o
  <2>1. ASSUME NEW j \in DOMAIN l PROVE j \in 1 .. Len(l) - 1 \/ j = Len(l)
    BY <1>4
  <2>2. Len(l) \in DOMAIN l
    BY <1>4
  <2> QED
    BY <1>4, <2>1, <2>2
<1>8. VerifyLineage(n, id) =
         [entries |-> Len(l), value |-> Last(l).record.value,
          controller |-> Last(l).record.controller,
          alive |-> \A j \in DOMAIN l : l[j].record.kind # "redeem"]
  BY <1>5 DEF VerifyLineage, l
<1>9. VerifyLineage(n, id) =
         [entries |-> o.record.seq + 1, value |-> o.record.value,
          controller |-> o.key, alive |-> o.record.kind # "redeem"]
  <2> HIDE DEF o, id
  <2>1. (\A j \in DOMAIN l : l[j].record.kind # "redeem") = (o.record.kind # "redeem")
    BY <1>7, Zenon
  <2> QED
    BY <1>1, <1>4, <1>6, <1>8, <2>1
<1> QED
  BY <1>9 DEF Reports

\* What cold verification reports of any state output is that output's own
\* state, for every token whose id was minted once (engine.go:359-436).
THEOREM VerifiedStateTheorem == TokenSpec => []VerifiedState
<1> QED
  BY VerifiedHolds, TokenInvariant, PTL

-----------------------------------------------------------------------------
(* The current output of a token: a walk forward, along the inputs.        *)

Places == (DOMAIN txs) \X (1 .. 3)

\* An unspent output is its own current output; a spent one has that of the
\* output across from the input that spends it.
Unfolds ==
    /\ \A o \in Places : ~IsSpent(o) => Current[o] = o
    /\ \A n \in DOMAIN txs : \A i \in DOMAIN txs[n].ins :
          txs[n].ins[i] \in Places => Current[txs[n].ins[i]] = Current[<<n, i>>]

\* Input i of transaction n, the only one to spend the output, is after it.
LEMMA SpenderIsUnique ==
    ASSUME TokenInv, NEW n \in DOMAIN txs, NEW i \in DOMAIN txs[n].ins
    PROVE  /\ n \in Nat /\ i \in 1 .. 3 /\ txs[n].ins[i][1] < n
           /\ \A m \in DOMAIN txs : \A j \in DOMAIN txs[m].ins :
                 txs[m].ins[j] = txs[n].ins[i] => m = n /\ j = i
<1>1. n \in Nat /\ txs[n].ins[i][1] < n
  BY DEF TokenInv, UtxoInv, UtxoShape, InputsExist
<1>2. i \in 1 .. 3
  BY DEF TokenInv, TrailInv, LegalTx
<1>3. ASSUME NEW m \in DOMAIN txs, NEW j \in DOMAIN txs[m].ins,
             txs[m].ins[j] = txs[n].ins[i]
      PROVE  m = n /\ j = i
  <2>1. m = n
    BY <1>3 DEF TokenInv, UtxoInv, SpentOnce, Range
  <2> QED
    BY <1>3, <2>1 DEF TokenInv, TrailInv, LegalTx
<1> QED
  BY <1>1, <1>2, <1>3

LEMMA CurrentUnfolds ==
    ASSUME TokenInv
    PROVE  Unfolds
<1> DEFINE N == Len(txs)
           K == 3 * N
           code(o) == 3 * (N - o[1]) + o[2]
           tx(o) == CHOOSE m \in DOMAIN txs : o \in Range(txs[m].ins)
           at(o) == CHOOSE j \in DOMAIN txs[tx(o)].ins : txs[tx(o)].ins[j] = o
           across(o) == <<tx(o), at(o)>>
           place == [k \in 1 .. K |-> CHOOSE o \in Places : code(o) = k]
           moved == {k \in 1 .. K : \E o \in Places : code(o) = k /\ IsSpent(o)}
           V == Places \cup {place[k] : k \in 1 .. K} \cup {0}
           back == [k \in 1 .. K |-> IF k \in moved THEN code(across(place[k])) ELSE 0]
           step == [k \in 1 .. K |-> [v \in V |-> IF k \in moved THEN v ELSE place[k]]]
           body(c) == [o \in Places |-> IF ~IsSpent(o) THEN o ELSE c[across(o)]]
<1>1. N \in Nat /\ DOMAIN txs = 1 .. N /\ K \in Nat
  BY DEF TokenInv, UtxoInv, UtxoShape
<1>2. \A o \in Places : code(o) \in 1 .. K
  <2> SUFFICES ASSUME NEW n \in 1 .. N, NEW i \in 1 .. 3
               PROVE  3 * (N - n) + i \in 1 .. K
    BY <1>1 DEF Places
  <2> QED
    BY <1>1
<1>3. \A o, p \in Places : code(o) = code(p) => o = p
  <2> SUFFICES ASSUME NEW o \in Places, NEW p \in Places, code(o) = code(p)
               PROVE  o = p
    OBVIOUS
  <2>1. PICK n \in 1 .. N, i \in 1 .. 3 : o = <<n, i>>
    BY <1>1 DEF Places
  <2>2. PICK m \in 1 .. N, j \in 1 .. 3 : p = <<m, j>>
    BY <1>1 DEF Places
  <2>3. 3 * (N - n) + i = 3 * (N - m) + j
    BY <2>1, <2>2
  <2>4. n = m /\ i = j
    BY <1>1, <2>3
  <2> QED
    BY <2>1, <2>2, <2>4
<1>4. \A o \in Places : place[code(o)] = o
  BY <1>2, <1>3
<1>5. ASSUME NEW o \in Places, IsSpent(o)
      PROVE  /\ across(o) \in Places /\ code(across(o)) < code(o)
             /\ \A n \in DOMAIN txs : \A i \in DOMAIN txs[n].ins :
                   txs[n].ins[i] = o => across(o) = <<n, i>>
  <2>1. \E m \in DOMAIN txs : o \in Range(txs[m].ins)
    BY <1>5 DEF IsSpent
  <2>2. tx(o) \in DOMAIN txs /\ o \in Range(txs[tx(o)].ins)
    BY <2>1
  <2>3. at(o) \in DOMAIN txs[tx(o)].ins /\ txs[tx(o)].ins[at(o)] = o
    BY <2>2 DEF Range
  <2> HIDE DEF tx, at
  <2>4. /\ tx(o) \in Nat /\ at(o) \in 1 .. 3 /\ o[1] < tx(o)
        /\ \A n \in DOMAIN txs : \A i \in DOMAIN txs[n].ins :
              txs[n].ins[i] = o => n = tx(o) /\ i = at(o)
    BY <2>2, <2>3, SpenderIsUnique
  <2>5. o[1] \in 1 .. N /\ o[2] \in 1 .. 3 /\ tx(o) \in 1 .. N
    BY <1>1, <2>2 DEF Places
  <2>6. 3 * (N - tx(o)) + at(o) < 3 * (N - o[1]) + o[2]
    <3>1. PICK a, b, t, k : a = o[1] /\ b = o[2] /\ t = tx(o) /\ k = at(o)
      OBVIOUS
    <3>2. a \in Nat /\ b \in 1 .. 3 /\ t \in Nat /\ k \in 1 .. 3 /\ a < t
      BY <1>1, <2>4, <2>5, <3>1
    <3>3. 3 * (N - t) + k < 3 * (N - a) + b
      BY <1>1, <3>2
    <3> QED
      BY <3>1, <3>3
  <2> QED
    BY <2>2, <2>4, <2>6 DEF Places
<1> HIDE DEF tx, at
<1>6. \A k \in moved : \E o \in Places : code(o) = k /\ IsSpent(o) /\ place[k] = o
  BY <1>4
<1>7. \A o \in Places : code(o) \in moved <=> IsSpent(o)
  BY <1>2, <1>3
<1> HIDE DEF code, across, place, moved
<1>8. ASSUME NEW k \in 1 .. K PROVE back[k] \in 0 .. k - 1
  <2>1. CASE k \in moved
    <3>1. PICK o \in Places : code(o) = k /\ IsSpent(o) /\ place[k] = o
      BY <1>6, <2>1
    <3>2. across(o) \in Places /\ code(across(o)) < k
      BY <1>5, <3>1
    <3>3. code(across(o)) \in 1 .. K
      BY <1>2, <3>2
    <3> QED
      BY <1>1, <2>1, <3>1, <3>2, <3>3
  <2>2. CASE k \notin moved
    BY <2>2
  <2> QED
    BY <2>1, <2>2
<1>9. \A k \in 1 .. K : \A v \in V : step[k][v] \in V
  OBVIOUS
<1>10. PICK h : Follows(h, K, V, 0, back, step)
  <2>1. 0 \in V
    OBVIOUS
  <2> HIDE DEF V, back, step, K
  <2>2. StepsBack(K, V, 0, back, step)
    BY <1>8, <1>9, <2>1 DEF StepsBack
  <2> QED
    BY <1>1, <2>2, LooksBack
<1> DEFINE f == [o \in Places |-> h[code(o)]]
<1>11. f = body(f)
  <2> SUFFICES ASSUME NEW o \in Places
               PROVE  h[code(o)] = IF ~IsSpent(o) THEN o ELSE f[across(o)]
    OBVIOUS
  <2>1. code(o) \in 1 .. K /\ code(o) \in 0 .. K /\ place[code(o)] = o
    BY <1>1, <1>2, <1>4
  <2>2. back[code(o)] \in 0 .. K
    <3>1. back[code(o)] \in 0 .. code(o) - 1
      BY <1>8, <2>1
    <3> HIDE DEF back, K
    <3> QED
      BY <1>1, <2>1, <3>1
  <2>3. /\ h[back[code(o)]] \in V
        /\ h[code(o)] = step[code(o)][h[back[code(o)]]]
    <3> HIDE DEF V, back, step, K
    <3> QED
      BY <2>1, <2>2, <1>10 DEF Follows
  <2>4. h[code(o)] = IF code(o) \in moved THEN h[back[code(o)]] ELSE place[code(o)]
    <3> HIDE DEF back, V
    <3> QED
      BY <2>1, <2>3
  <2>5. CASE IsSpent(o)
    <3>1. code(o) \in moved /\ back[code(o)] = code(across(o))
      BY <1>7, <2>1, <2>5
    <3>2. across(o) \in Places
      BY <1>5, <2>5
    <3> HIDE DEF back
    <3> QED
      BY <2>4, <2>5, <3>1, <3>2
  <2>6. CASE ~IsSpent(o)
    <3>1. code(o) \notin moved
      BY <1>7, <2>6
    <3> QED
      BY <2>1, <2>4, <2>6, <3>1
  <2> QED
    BY <2>5, <2>6
<1> HIDE DEF f
<1>12. Current = CHOOSE c : c = body(c)
  BY DEF Current, Places, across, tx, at
<1> HIDE DEF body
<1>13. Current = body(Current)
  BY <1>11, <1>12
<1> USE DEF body
<1>14. \A o \in Places : ~IsSpent(o) => Current[o] = o
  BY <1>13
<1>15. ASSUME NEW n \in DOMAIN txs, NEW i \in DOMAIN txs[n].ins,
              txs[n].ins[i] \in Places
       PROVE  Current[txs[n].ins[i]] = Current[<<n, i>>]
  <2>1. IsSpent(txs[n].ins[i])
    BY DEF IsSpent, Range
  <2>2. across(txs[n].ins[i]) = <<n, i>>
    BY <1>5, <1>15, <2>1
  <2> QED
    BY <1>13, <1>15, <2>1, <2>2
<1> QED
  BY <1>14, <1>15 DEF Unfolds

LEMMA CurrentUnfoldsNext == TokenInv' => Unfolds'
<1>1. TokenInv => Unfolds
  BY CurrentUnfolds
<1> QED
  BY <1>1, PTL


-----------------------------------------------------------------------------
(* The register of titles.                                                 *)

\* Outpoint o holds the state of a token, which nobody has spent.
StateAt(o) == o \in Places /\ o[2] \in StateOutputs(o[1])
LiveAt(o) == StateAt(o) /\ ~IsSpent(o)

\* Each minted token has a live output of its own, and there are no others.
TitleInv ==
    /\ \A m \in Mints : LiveAt(Current[<<m, 1>>])
    /\ \A m, k \in Mints : Current[<<m, 1>>] = Current[<<k, 1>>] => m = k
    /\ \A o : LiveAt(o) => \E m \in Mints : Current[<<m, 1>>] = o

\* A call spends what it claims, and its own outputs are unspent.
LEMMA SpentNext ==
    ASSUME TokenInv, NEW claims, NEW outs, Call(claims, outs), NEW o
    PROVE  /\ IsSpent(o)' <=> IsSpent(o) \/ \E k \in DOMAIN claims : claims[k].out = o
           /\ IsSpent(o)' => OutExists(o) /\ o[1] # NewTxid
<1>1. /\ NewTxid \notin DOMAIN txs
      /\ DOMAIN txs' = DOMAIN txs \cup {NewTxid}
      /\ \A n \in DOMAIN txs : txs'[n] = txs[n]
      /\ txs'[NewTxid].ins = [k \in DOMAIN claims |-> claims[k].out]
      /\ \A k \in DOMAIN claims : OutExists(claims[k].out)
  BY CallAppends
<1>2. o \in Range(txs'[NewTxid].ins) <=> \E k \in DOMAIN claims : claims[k].out = o
  BY <1>1 DEF Range
<1>3. IsSpent(o)' <=> \E n \in DOMAIN txs' : o \in Range(txs'[n].ins)
  BY DEF IsSpent
<1>4. IsSpent(o)' <=> IsSpent(o) \/ \E k \in DOMAIN claims : claims[k].out = o
  BY <1>1, <1>2, <1>3 DEF IsSpent
<1>5. IsSpent(o) => OutExists(o)
  BY DEF IsSpent, Range, TokenInv, UtxoInv, InputsExist
<1>6. OutExists(o) => o[1] # NewTxid
  BY <1>1 DEF OutExists
<1> QED
  BY <1>1, <1>4, <1>5, <1>6

\* A state output is one of the three places.
LEMMA StatePlace ==
    ASSUME TokenInv, NEW n \in DOMAIN txs, NEW i \in StateOutputs(n)
    PROVE  StateAt(<<n, i>>)
<1>1. i \in 1 .. 3
  BY StateFacts
<1> QED
  BY <1>1 DEF StateAt, Places

LEMMA StateNext ==
    ASSUME TokenInv, NEW claims, NEW outs, Call(claims, outs), NEW o
    PROVE  /\ StateAt(o) => StateAt(o)' /\ OutputAt(o)' = OutputAt(o)
                            /\ o[1] # NewTxid
           /\ StateAt(o)' => \/ StateAt(o)
                             \/ \E i \in DOMAIN outs :
                                   o = <<NewTxid, i>> /\ outs[i].record # NoRecord
           /\ \A i \in DOMAIN outs :
                 o = <<NewTxid, i>> /\ outs[i].record # NoRecord =>
                    StateAt(o)' /\ OutputAt(o)' = outs[i]
<1>1. /\ DOMAIN txs = 1 .. Len(txs) /\ Len(txs) \in Nat /\ NewTxid = Len(txs) + 1
      /\ NewTxid \notin DOMAIN txs
      /\ DOMAIN txs' = DOMAIN txs \cup {NewTxid}
      /\ \A n \in DOMAIN txs : txs'[n] = txs[n]
      /\ txs'[NewTxid].outs = outs
      /\ txs'[NewTxid].ins = [k \in DOMAIN claims |-> claims[k].out]
      /\ \A k \in DOMAIN claims : OutExists(claims[k].out)
  BY CallAppends
<1>2. StateAt(o) <=> /\ o \in (DOMAIN txs) \X (1 .. 3)
                     /\ o[2] \in DOMAIN txs[o[1]].outs
                     /\ txs[o[1]].outs[o[2]].record # NoRecord
  BY DEF StateAt, Places, StateOutputs
<1>3. StateAt(o)' <=> /\ o \in (DOMAIN txs') \X (1 .. 3)
                      /\ o[2] \in DOMAIN txs'[o[1]].outs
                      /\ txs'[o[1]].outs[o[2]].record # NoRecord
  BY DEF StateAt, Places, StateOutputs
<1>4. StateAt(o) => StateAt(o)' /\ OutputAt(o)' = OutputAt(o) /\ o[1] # NewTxid
  <2> SUFFICES ASSUME StateAt(o)
               PROVE  StateAt(o)' /\ OutputAt(o)' = OutputAt(o) /\ o[1] # NewTxid
    OBVIOUS
  <2>1. o[1] \in DOMAIN txs /\ o[1] # NewTxid /\ o \in (DOMAIN txs') \X (1 .. 3)
    BY <1>1, <1>2
  <2>2. txs'[o[1]] = txs[o[1]]
    BY <1>1, <2>1
  <2>3. StateAt(o)'
    BY <1>2, <1>3, <2>1, <2>2
  <2>4. OutputAt(o)' = OutputAt(o)
    BY <2>2 DEF OutputAt
  <2> QED
    BY <2>1, <2>3, <2>4
<1>5. ASSUME StateAt(o)', ~StateAt(o)
      PROVE  \E i \in DOMAIN outs : o = <<NewTxid, i>> /\ outs[i].record # NoRecord
  <2>1. PICK n \in DOMAIN txs', i \in 1 .. 3 : o = <<n, i>>
    BY <1>3, <1>5
  <2>2. i \in DOMAIN txs'[n].outs /\ txs'[n].outs[i].record # NoRecord
    BY <1>3, <1>5, <2>1
  <2>3. n \notin DOMAIN txs
    BY <1>1, <1>2, <1>5, <2>1, <2>2
  <2> QED
    BY <1>1, <2>1, <2>2, <2>3
<1>6. ASSUME NEW i \in DOMAIN outs, o = <<NewTxid, i>>, outs[i].record # NoRecord
      PROVE  StateAt(o)' /\ OutputAt(o)' = outs[i]
  <2>1. i \in 1 .. 3
    <3> DEFINE ins == [k \in DOMAIN claims |-> claims[k].out]
    <3>1. LegalTx(ins, outs)
      BY DEF Call
    <3> HIDE DEF ins
    <3>2. DOMAIN ins \subseteq 1 .. 3
      BY <3>1 DEF LegalTx
    <3>3. i = 1 \/ i \in DOMAIN ins
      BY <1>6, <3>1 DEF LegalTx
    <3> QED
      BY <3>2, <3>3
  <2>2. o[1] = NewTxid /\ o[2] = i /\ o \in (DOMAIN txs') \X (1 .. 3)
    BY <1>1, <1>6, <2>1
  <2>3. StateAt(o)'
    BY <1>1, <1>3, <1>6, <2>2
  <2>4. OutputAt(o)' = outs[i]
    BY <1>1, <2>2 DEF OutputAt
  <2> QED
    BY <2>3, <2>4
<1> QED
  BY <1>4, <1>5, <1>6

\* Input k of a call, when a state, continues in output k.
LEMMA ClaimContinues ==
    ASSUME TokenInv, NEW claims, NEW outs, Call(claims, outs),
           NEW k \in DOMAIN claims, StateAt(claims[k].out)
    PROVE  /\ k \in DOMAIN outs /\ outs[k].record # NoRecord
           /\ outs[k].record.prev # 0
           /\ outs[k].record.value = OutputAt(claims[k].out).record.value
           /\ OutputAt(claims[k].out).record.kind # "redeem"
<1> DEFINE ins == [j \in DOMAIN claims |-> claims[j].out]
<1>1. LegalTx(ins, outs)
  BY DEF Call
<1>2. k \in DOMAIN ins /\ ins[k] = claims[k].out
  OBVIOUS
<1> HIDE DEF ins
<1>3. OutputAt(ins[k]).record # NoRecord
  BY <1>2 DEF StateAt, StateOutputs, OutputAt
<1>4. k \in DOMAIN outs /\ outs[k].record # NoRecord /\ outs[k].record.prev # 0
  BY <1>1, <1>2, <1>3 DEF LegalTx
<1>5. Continues(ins[k], outs[k].record)
  BY <1>1, <1>4 DEF LegalTx
<1> QED
  BY <1>2, <1>4, <1>5 DEF Continues

\* What a call does to the current output of every token.
Moved(claims, o) ==
    /\ \A k \in DOMAIN claims : Current[o] = claims[k].out => Current'[o] = <<NewTxid, k>>
    /\ (\A k \in DOMAIN claims : Current[o] # claims[k].out) => Current'[o] = Current[o]

LEMMA CurrentStands ==
    ASSUME TokenInv, TokenInv', NEW claims, NEW outs, Call(claims, outs),
           NEW i \in 1 .. 3
    PROVE  Current'[<<NewTxid, i>>] = <<NewTxid, i>>
<1>1. PICK o : o = <<NewTxid, i>>
  OBVIOUS
<1>2. o \in Places'
  BY <1>1, CallAppends DEF Places
<1>3. ~IsSpent(o)'
  BY <1>1, SpentNext
<1>4. Unfolds'
  BY CurrentUnfoldsNext
<1>5. Current'[o] = o
  BY <1>2, <1>3, <1>4 DEF Unfolds
<1> QED
  BY <1>1, <1>5

LEMMA CurrentMoves ==
    ASSUME TokenInv, TokenInv', NEW claims, NEW outs, Call(claims, outs),
           NEW o \in Places
    PROVE  Moved(claims, o)
<1> DEFINE N == Len(txs)
           bad == {n \in 0 .. N : \E p \in Places : p[1] = n /\ ~Moved(claims, p)}
<1>1. /\ DOMAIN txs = 1 .. N /\ N \in Nat /\ NewTxid \notin DOMAIN txs
      /\ DOMAIN txs' = DOMAIN txs \cup {NewTxid}
      /\ \A n \in DOMAIN txs : txs'[n] = txs[n] /\ n < NewTxid
      /\ txs'[NewTxid].ins = [k \in DOMAIN claims |-> claims[k].out]
  BY CallAppends
<1>2. Unfolds /\ Unfolds'
  BY CurrentUnfolds, CurrentUnfoldsNext
<1>3. Places \subseteq Places'
  BY <1>1 DEF Places
<1>4. ASSUME NEW p \in Places, ~IsSpent(p)
      PROVE  Moved(claims, p)
  <2>1. Current[p] = p
    BY <1>2, <1>4 DEF Unfolds
  <2>2. ASSUME NEW k \in DOMAIN claims, p = claims[k].out
        PROVE  Current'[p] = <<NewTxid, k>>
    <3>1. k \in DOMAIN txs'[NewTxid].ins /\ txs'[NewTxid].ins[k] = p
      BY <1>1, <2>2
    <3>2. NewTxid \in DOMAIN txs' /\ p \in Places'
      BY <1>1, <1>3
    <3>3. PICK n : n = NewTxid
      OBVIOUS
    <3>4. Current'[p] = Current'[<<n, k>>]
      BY <1>2, <3>1, <3>2, <3>3 DEF Unfolds
    <3>5. k \in 1 .. 3
      <4>1. LegalTx([j \in DOMAIN claims |-> claims[j].out], outs)
        BY DEF Call
      <4> QED
        BY <4>1 DEF LegalTx
    <3>6. Current'[<<NewTxid, k>>] = <<NewTxid, k>>
      BY <3>5, CurrentStands
    <3> QED
      BY <3>3, <3>4, <3>6
  <2>3. ASSUME \A k \in DOMAIN claims : p # claims[k].out
        PROVE  Current'[p] = p
    <3>1. ~IsSpent(p)'
      BY <1>4, <2>3, SpentNext
    <3> QED
      BY <1>2, <1>3, <3>1 DEF Unfolds
  <2> QED
    BY <2>1, <2>2, <2>3 DEF Moved
<1> SUFFICES ASSUME ~Moved(claims, o) PROVE FALSE
  OBVIOUS
<1>5. bad # {} /\ bad \subseteq 0 .. N
  <2>1. o[1] \in 0 .. N
    BY <1>1 DEF Places
  <2> QED
    BY <2>1
<1>6. PICK n \in bad : \A m \in bad : m <= n
  BY <1>1, <1>5, GreatestBelow
<1>7. PICK p \in Places : p[1] = n /\ ~Moved(claims, p)
  BY <1>6
<1>8. IsSpent(p)
  BY <1>4, <1>7
<1>a. PICK m \in DOMAIN txs : p \in Range(txs[m].ins)
  BY <1>8 DEF IsSpent
<1>9. PICK i \in DOMAIN txs[m].ins : txs[m].ins[i] = p
  BY <1>a DEF Range
<1>10. m \in 1 .. N /\ i \in 1 .. 3 /\ n < m
  BY <1>1, <1>7, <1>9, SpenderIsUnique
<1>11. <<m, i>> \in Places
  BY <1>10, <1>9 DEF Places
<1>12. Moved(claims, <<m, i>>)
  <2> SUFFICES ASSUME ~Moved(claims, <<m, i>>) PROVE FALSE
    OBVIOUS
  <2>1. m \in bad
    BY <1>10, <1>11
  <2>2. m <= n /\ n \in Nat
    BY <1>6, <2>1
  <2> QED
    BY <1>10, <2>2
<1>13. Current[p] = Current[<<m, i>>]
  BY <1>2, <1>9 DEF Unfolds
<1>14. Current'[p] = Current'[<<m, i>>]
  <2>1. m \in DOMAIN txs' /\ i \in DOMAIN txs'[m].ins /\ txs'[m].ins[i] = p
    BY <1>1, <1>9
  <2> QED
    BY <1>2, <1>3, <2>1 DEF Unfolds
<1>15. Moved(claims, p)
  BY <1>12, <1>13, <1>14 DEF Moved
<1> QED
  BY <1>7, <1>15


\* Live outputs after a call: those it does not claim, and its own.
LEMMA LiveNext ==
    ASSUME TokenInv, NEW claims, NEW outs, Call(claims, outs), NEW o
    PROVE  /\ LiveAt(o) /\ (\A k \in DOMAIN claims : o # claims[k].out) => LiveAt(o)'
           /\ LiveAt(o)' => \/ LiveAt(o) /\ \A k \in DOMAIN claims : o # claims[k].out
                            \/ \E i \in DOMAIN outs :
                                  o = <<NewTxid, i>> /\ outs[i].record # NoRecord
           /\ \A i \in DOMAIN outs :
                 o = <<NewTxid, i>> /\ outs[i].record # NoRecord => LiveAt(o)'
<1>1. LiveAt(o)' <=> StateAt(o)' /\ ~IsSpent(o)'
  BY DEF LiveAt
<1>2. /\ IsSpent(o)' <=> IsSpent(o) \/ \E k \in DOMAIN claims : claims[k].out = o
      /\ IsSpent(o)' => o[1] # NewTxid
  BY SpentNext
<1>3. /\ StateAt(o) => StateAt(o)'
      /\ StateAt(o)' => \/ StateAt(o)
                        \/ \E i \in DOMAIN outs :
                              o = <<NewTxid, i>> /\ outs[i].record # NoRecord
      /\ \A i \in DOMAIN outs :
            o = <<NewTxid, i>> /\ outs[i].record # NoRecord => StateAt(o)'
  BY StateNext
<1>4. \A i : o = <<NewTxid, i>> => o[1] = NewTxid
  OBVIOUS
<1> QED
  BY <1>1, <1>2, <1>3, <1>4 DEF LiveAt

LEMMA MintsNext ==
    ASSUME TokenInv, NEW claims, NEW outs, Call(claims, outs)
    PROVE  /\ Mints' = Mints \cup {n \in {NewTxid} : Issues(outs)}
           /\ NewTxid \notin Mints /\ \A m \in Mints : <<m, 1>> \in Places
           /\ Issues(outs) => /\ 1 \in DOMAIN outs /\ outs[1].record # NoRecord
                              /\ outs[1].record.prev = 0
                              /\ outs[1].record.kind = "mint"
                              /\ NoStateBut(outs, {1})
<1>1. /\ NewTxid \notin DOMAIN txs
      /\ DOMAIN txs' = DOMAIN txs \cup {NewTxid}
      /\ \A n \in DOMAIN txs : txs'[n] = txs[n]
      /\ txs'[NewTxid].outs = outs
  BY CallAppends
<1> DEFINE ins == [k \in DOMAIN claims |-> claims[k].out]
<1>2. LegalTx(ins, outs)
  BY DEF Call
<1> HIDE DEF ins
<1> DEFINE minted == \E i \in DOMAIN outs :
                        outs[i].record # NoRecord /\ outs[i].record.kind = "mint"
<1>3. minted <=> Issues(outs)
  BY <1>2 DEF LegalTx, Continues, Issues
<1>4. ASSUME Issues(outs)
      PROVE  /\ 1 \in DOMAIN outs /\ outs[1].record # NoRecord
             /\ outs[1].record.prev = 0 /\ outs[1].record.kind = "mint"
             /\ NoStateBut(outs, {1})
  BY <1>2, <1>4 DEF LegalTx, Issues, NoStateBut
<1>5. Mints' = {n \in DOMAIN txs' : \E i \in DOMAIN txs'[n].outs :
                   /\ txs'[n].outs[i].record # NoRecord
                   /\ txs'[n].outs[i].record.kind = "mint"}
  BY DEF Mints, StateOutputs
<1>6. Mints = {n \in DOMAIN txs : \E i \in DOMAIN txs[n].outs :
                   /\ txs[n].outs[i].record # NoRecord
                   /\ txs[n].outs[i].record.kind = "mint"}
  BY DEF Mints, StateOutputs
<1>7. \A n \in DOMAIN txs : n \in Mints' <=> n \in Mints
  BY <1>1, <1>5, <1>6
<1>8. NewTxid \in Mints' <=> Issues(outs)
  BY <1>1, <1>3, <1>5
<1>9. Mints \subseteq DOMAIN txs /\ Mints' \subseteq DOMAIN txs \cup {NewTxid}
  BY <1>1, <1>5, <1>6
<1>10. Mints' = Mints \cup {n \in {NewTxid} : Issues(outs)}
  BY <1>1, <1>7, <1>8, <1>9
<1>11. \A m \in Mints : <<m, 1>> \in Places
  BY <1>9 DEF Places
<1> QED
  BY <1>1, <1>4, <1>9, <1>10, <1>11

\* The current output of an old token after a call: that of the input that
\* claims it, or the same.
Passed(claims, outs, c, d, k) ==
    /\ k \in DOMAIN claims /\ c = claims[k].out /\ d = <<NewTxid, k>>
    /\ k \in DOMAIN outs /\ outs[k].record # NoRecord /\ outs[k].record.prev # 0
    /\ outs[k].record.value = OutputAt(c).record.value
    /\ OutputAt(c).record.kind # "redeem"
Kept(claims, c, d) ==
    d = c /\ c[1] # NewTxid /\ \A k \in DOMAIN claims : c # claims[k].out

LEMMA OldToken ==
    ASSUME TokenInv, TokenInv', TitleInv,
           NEW claims, NEW outs, Call(claims, outs), NEW m \in Mints
    PROVE  LET c == Current[<<m, 1>>]
               d == Current'[<<m, 1>>]
           IN  /\ LiveAt(c)
               /\ Kept(claims, c, d) \/ \E k : Passed(claims, outs, c, d, k)
<1>1. PICK c, d : c = Current[<<m, 1>>] /\ d = Current'[<<m, 1>>]
  OBVIOUS
<1>2. LiveAt(c)
  BY <1>1 DEF TitleInv
<1>3. PICK o : o = <<m, 1>>
  OBVIOUS
<1>4. o \in Places
  BY <1>3, MintsNext
<1>5. Moved(claims, o)
  BY <1>4, CurrentMoves
<1>6. CASE \E k \in DOMAIN claims : c = claims[k].out
  <2>1. PICK k \in DOMAIN claims : c = claims[k].out
    BY <1>6
  <2>2. d = <<NewTxid, k>>
    BY <1>1, <1>3, <1>5, <2>1 DEF Moved
  <2>3. StateAt(claims[k].out)
    BY <1>2, <2>1 DEF LiveAt
  <2>4. Passed(claims, outs, c, d, k)
    BY <2>1, <2>2, <2>3, ClaimContinues DEF Passed
  <2> QED
    BY <1>1, <1>2, <2>4
<1>7. CASE \A k \in DOMAIN claims : c # claims[k].out
  <2>1. d = c
    BY <1>1, <1>3, <1>5, <1>7 DEF Moved
  <2>2. c[1] # NewTxid
    BY <1>2, StateNext DEF LiveAt
  <2>3. Kept(claims, c, d)
    BY <1>7, <2>1, <2>2 DEF Kept
  <2> QED
    BY <1>1, <1>2, <2>3
<1> QED
  BY <1>6, <1>7

LEMMA TitleStep ==
    ASSUME TokenInv, TokenInv', TitleInv,
           NEW claims, NEW outs, Call(claims, outs)
    PROVE  TitleInv'
<1>1. /\ Mints' = Mints \cup {n \in {NewTxid} : Issues(outs)} /\ NewTxid \notin Mints
      /\ Issues(outs) => /\ 1 \in DOMAIN outs /\ outs[1].record # NoRecord
                         /\ outs[1].record.prev = 0
  BY MintsNext
<1>2. Current'[<<NewTxid, 1>>] = <<NewTxid, 1>>
  BY CurrentStands
<1> DEFINE c(m) == Current[<<m, 1>>]
           d(m) == Current'[<<m, 1>>]
<1>3. ASSUME NEW m \in Mints
      PROVE  /\ LiveAt(c(m))
             /\ Kept(claims, c(m), d(m)) \/ \E k : Passed(claims, outs, c(m), d(m), k)
  BY OldToken
<1>4. ASSUME NEW m \in Mints', m \notin Mints
      PROVE  m = NewTxid /\ d(m) = <<NewTxid, 1>> /\ Issues(outs)
  BY <1>1, <1>2, <1>4
<1>5. ASSUME NEW m \in Mints', NEW e, e = d(m)
      PROVE  LiveAt(e)'
  <2>1. CASE m \in Mints
    <3>1. PICK b : b = c(m)
      OBVIOUS
    <3>2. LiveAt(b) /\ (Kept(claims, b, e) \/ \E k : Passed(claims, outs, b, e, k))
      BY <1>3, <1>5, <2>1, <3>1
    <3>3. CASE Kept(claims, b, e)
      BY <3>2, <3>3, LiveNext DEF Kept
    <3>4. ASSUME NEW k, Passed(claims, outs, b, e, k)
          PROVE  LiveAt(e)'
      BY <3>4, LiveNext DEF Passed
    <3> QED
      BY <3>2, <3>3, <3>4
  <2>2. CASE m \notin Mints
    <3>1. e = <<NewTxid, 1>> /\ Issues(outs)
      BY <1>4, <1>5, <2>2
    <3> QED
      BY <1>1, <3>1, LiveNext
  <2> QED
    BY <2>1, <2>2
<1>6. ASSUME NEW m \in Mints', NEW k \in Mints', d(m) = d(k)
      PROVE  m = k
  <2>1. ASSUME NEW x \in Mints, NEW y \in Mints, d(x) = d(y)
        PROVE  x = y
    <3>1. PICK a, b, e : a = c(x) /\ b = c(y) /\ e = d(x)
      OBVIOUS
    <3>2. /\ Kept(claims, a, e) \/ \E j : Passed(claims, outs, a, e, j)
          /\ Kept(claims, b, e) \/ \E j : Passed(claims, outs, b, e, j)
      BY <1>3, <2>1, <3>1
    <3>3. \A j : <<NewTxid, j>>[1] = NewTxid /\ <<NewTxid, j>>[2] = j
      OBVIOUS
    <3>4. a = b
      BY <3>2, <3>3 DEF Kept, Passed
    <3> QED
      BY <3>1, <3>4 DEF TitleInv
  <2>2. ASSUME NEW x \in Mints, NEW y \in Mints', y \notin Mints, d(x) = d(y)
        PROVE  FALSE
    <3>1. PICK a, e : a = c(x) /\ e = d(x)
      OBVIOUS
    <3>2. e = <<NewTxid, 1>> /\ Issues(outs)
      BY <1>4, <2>2, <3>1
    <3>3. Kept(claims, a, e) \/ \E j : Passed(claims, outs, a, e, j)
      BY <1>3, <3>1
    <3>4. e[1] = NewTxid /\ e[2] = 1
      BY <3>2
    <3>5. ~Kept(claims, a, e)
      BY <3>4 DEF Kept
    <3>6. PICK j : Passed(claims, outs, a, e, j)
      BY <3>3, <3>5
    <3>7. j = 1
      BY <3>4, <3>6 DEF Passed
    <3> QED
      BY <1>1, <3>2, <3>6, <3>7 DEF Passed
  <2> QED
    BY <1>4, <1>6, <2>1, <2>2
<1>7. ASSUME NEW o, LiveAt(o)'
      PROVE  \E m \in Mints' : d(m) = o
  <2>1. CASE LiveAt(o) /\ \A k \in DOMAIN claims : o # claims[k].out
    <3>1. PICK m \in Mints : c(m) = o
      BY <2>1 DEF TitleInv
    <3>2. Kept(claims, o, d(m)) \/ \E k : Passed(claims, outs, o, d(m), k)
      BY <1>3, <3>1
    <3>3. d(m) = o
      BY <2>1, <3>2 DEF Kept, Passed
    <3> QED
      BY <1>1, <3>3
  <2>2. ASSUME NEW i \in DOMAIN outs, o = <<NewTxid, i>>, outs[i].record # NoRecord
        PROVE  \E m \in Mints' : d(m) = o
    <3> DEFINE ins == [k \in DOMAIN claims |-> claims[k].out]
    <3>1. LegalTx(ins, outs)
      BY DEF Call
    <3>2. DOMAIN ins = DOMAIN claims /\ \A k \in DOMAIN claims : ins[k] = claims[k].out
      OBVIOUS
    <3> HIDE DEF ins
    <3>3. CASE outs[i].record.prev = 0
      <4>1. i = 1 /\ Issues(outs)
        BY <2>2, <3>1, <3>3 DEF LegalTx, Issues
      <4> QED
        BY <1>1, <1>2, <2>2, <4>1
    <3>4. CASE outs[i].record.prev # 0
      <4>1. i \in DOMAIN claims /\ Continues(claims[i].out, outs[i].record)
        BY <2>2, <3>1, <3>2, <3>4 DEF LegalTx
      <4>2. PICK b : b = claims[i].out
        OBVIOUS
      <4>3. OutExists(b) /\ ~IsSpent(b) /\ OutputAt(b).record # NoRecord
        BY <4>1, <4>2, CallAppends DEF Continues
      <4>4. b[1] \in DOMAIN txs /\ b[2] \in StateOutputs(b[1])
        BY <4>3 DEF OutExists, OutputAt, StateOutputs
      <4>5. StateAt(<<b[1], b[2]>>)
        BY <4>4, StatePlace
      <4>6. b = <<b[1], b[2]>>
        <5>1. claims[i] \in Claim
          BY <4>1 DEF Call
        <5> QED
          BY <4>2, <5>1 DEF Claim, Outpoint
      <4>7. LiveAt(b)
        BY <4>3, <4>5, <4>6 DEF LiveAt
      <4>8. PICK m \in Mints : c(m) = b
        BY <4>7 DEF TitleInv
      <4>9. Kept(claims, b, d(m)) \/ \E k : Passed(claims, outs, b, d(m), k)
        BY <1>3, <4>8
      <4>10. PICK k : Passed(claims, outs, b, d(m), k)
        BY <4>1, <4>2, <4>9 DEF Kept
      <4>11. k = i
        <5>1. k \in DOMAIN ins /\ i \in DOMAIN ins /\ ins[k] = ins[i]
          BY <3>2, <4>1, <4>2, <4>10 DEF Passed
        <5> QED
          BY <3>1, <5>1 DEF LegalTx
      <4>12. d(m) = o
        BY <2>2, <4>10, <4>11 DEF Passed
      <4> QED
        BY <1>1, <4>12
    <3> QED
      BY <3>3, <3>4
  <2> QED
    BY <1>7, <2>1, <2>2, LiveNext
<1>8. \A m \in Mints' : LiveAt(Current[<<m, 1>>])'
  <2> SUFFICES ASSUME NEW m \in Mints' PROVE LiveAt(Current[<<m, 1>>])'
    OBVIOUS
  <2>1. PICK e : e = d(m)
    OBVIOUS
  <2>2. LiveAt(e)'
    BY <1>5, <2>1
  <2> QED
    BY <2>1, <2>2 DEF LiveAt, StateAt, Places, StateOutputs, IsSpent
<1> QED
  BY <1>6, <1>7, <1>8 DEF TitleInv


-----------------------------------------------------------------------------
(* What a call does to the register.                                       *)

\* The title an output stands for.
Entry(h, v, a) == [holder |-> h, value |-> v, alive |-> a]
TitleAt(o) == Entry(o.key, o.record.value, o.record.kind # "redeem")

\* S is R with another holder of title m, or with title m ended.
Passes(R, S, m, h) == S = [R EXCEPT ![m].holder = h]
Ends(R, S, m, b, h) == S = [R EXCEPT ![m].alive = b, ![m].holder = h]
Swaps(R, S, m, n) ==
    S = [R EXCEPT ![m].holder = R[n].holder, ![n].holder = R[m].holder]

LEMMA TitleEntry ==
    ASSUME NEW o, NEW a, a = (o.record.kind # "redeem")
    PROVE  TitleAt(o) = Entry(o.key, o.record.value, a)
  BY Zenon DEF TitleAt

LEMMA EntryIs ==
    ASSUME NEW e, e = [f \in {"holder", "value", "alive"} |-> e[f]]
    PROVE  e = Entry(e.holder, e.value, e.alive)
  BY DEF Entry

LEMMA HolderChanges ==
    ASSUME NEW R, NEW m \in DOMAIN R, NEW h, NEW v, NEW a, NEW x,
           R[m] = Entry(h, v, a), NEW S, S = [R EXCEPT ![m] = Entry(x, v, a)]
    PROVE  Passes(R, S, m, x)
<1>1. PICK r, s : r = R[m] /\ s = [r EXCEPT !.holder = x]
  OBVIOUS
<1>2. r = [f \in {"holder", "value", "alive"} |-> r[f]] /\ r.value = v /\ r.alive = a
  BY <1>1 DEF Entry
<1>3. s = [f \in {"holder", "value", "alive"} |-> s[f]]
      /\ s.holder = x /\ s.value = v /\ s.alive = a
  BY <1>1, <1>2
<1>4. s = Entry(x, v, a)
  BY <1>3, EntryIs
<1> QED
  BY <1>1, <1>4 DEF Passes

LEMMA TitleEnds ==
    ASSUME NEW R, NEW m \in DOMAIN R, NEW h, NEW v, NEW a, NEW x, NEW b,
           R[m] = Entry(h, v, a), NEW S, S = [R EXCEPT ![m] = Entry(x, v, b)]
    PROVE  Ends(R, S, m, b, x)
<1>1. PICK r, s : r = R[m] /\ s = [r EXCEPT !.alive = b, !.holder = x]
  OBVIOUS
<1>2. r = [f \in {"holder", "value", "alive"} |-> r[f]] /\ r.value = v
  BY <1>1 DEF Entry
<1>3. s = [f \in {"holder", "value", "alive"} |-> s[f]] /\ s.holder = x /\ s.value = v
  BY <1>1, <1>2
<1>4. s.alive = b
  BY <1>1, <1>2
<1>5. s = Entry(x, v, b)
  BY <1>3, <1>4, EntryIs
<1> QED
  BY <1>1, <1>5 DEF Ends

LEMMA HoldersSwap ==
    ASSUME NEW R, NEW m \in DOMAIN R, NEW n \in DOMAIN R, m # n,
           NEW g, NEW h, NEW v, NEW w, NEW a,
           R[m] = Entry(g, v, a), R[n] = Entry(h, w, a),
           NEW d, NEW e, d = Entry(h, v, a), e = Entry(g, w, a),
           NEW S, S = [R EXCEPT ![m] = d, ![n] = e]
    PROVE  Swaps(R, S, m, n)
<1>1. R[n].holder = h /\ R[m].holder = g
  BY DEF Entry
<1>2. PICK T, U : T = [R EXCEPT ![m] = d] /\ U = [T EXCEPT ![n] = e]
  OBVIOUS
<1>3. Passes(R, T, m, h)
  BY <1>2, HolderChanges
<1>4. n \in DOMAIN T /\ T[n] = Entry(h, w, a)
  BY <1>2
<1>5. Passes(T, U, n, g)
  BY <1>2, <1>4, HolderChanges
<1>6. S = U
  BY <1>2, Zenon
<1>7. S = [[R EXCEPT ![m].holder = h] EXCEPT ![n].holder = g]
  BY <1>3, <1>5, <1>6, Zenon DEF Passes
<1> QED
  BY <1>1, <1>7, Zenon DEF Swaps

LEMMA RegisterIs ==
    ASSUME TRUE
    PROVE  /\ DOMAIN Register = Mints /\ DOMAIN Register' = Mints'
           /\ \A m \in Mints : \A c : c = Current[<<m, 1>>] =>
                 Register[m] = TitleAt(OutputAt(c))
           /\ \A m \in Mints' : \A c : c = Current'[<<m, 1>>] =>
                 Register'[m] = TitleAt(OutputAt(c)')
           /\ Register' = [m \in Mints' |-> Register'[m]]
           /\ Register = [m \in Mints |-> Register[m]]
  BY DEF Register, TitleOf, TitleAt, Entry, OutputAt

\* Who gets what: input k of the call spends the current output of title m,
\* and output k says who holds it now.
Gets(claims, outs, m, k) ==
    LET p == OutputAt(claims[k].out)
    IN  /\ k \in DOMAIN claims /\ k \in DOMAIN outs /\ outs[k].record # NoRecord
        /\ Current[<<m, 1>>] = claims[k].out
        /\ p.record.kind # "redeem" /\ p.record.value = outs[k].record.value
        /\ Register[m] = TitleAt(p) /\ Register'[m] = TitleAt(outs[k])

LEMMA RegisterMoves ==
    ASSUME TokenInv, TokenInv', TitleInv,
           NEW claims, NEW outs, Call(claims, outs), NEW m \in Mints
    PROVE  \/ /\ Register'[m] = Register[m]
              /\ \A k \in DOMAIN claims : Current[<<m, 1>>] # claims[k].out
           \/ \E k : Gets(claims, outs, m, k)
<1>1. PICK c, d : c = Current[<<m, 1>>] /\ d = Current'[<<m, 1>>]
  OBVIOUS
<1>2. LiveAt(c) /\ (Kept(claims, c, d) \/ \E k : Passed(claims, outs, c, d, k))
  BY <1>1, OldToken
<1>3. m \in Mints'
  BY MintsNext
<1>4. Register[m] = TitleAt(OutputAt(c)) /\ Register'[m] = TitleAt(OutputAt(d)')
  BY <1>1, <1>3, RegisterIs
<1>5. CASE Kept(claims, c, d)
  <2>1. OutputAt(d)' = OutputAt(c)
    BY <1>2, <1>5, StateNext DEF Kept, LiveAt
  <2> QED
    BY <1>1, <1>4, <1>5, <2>1 DEF Kept
<1>6. ASSUME NEW k, Passed(claims, outs, c, d, k)
      PROVE  Gets(claims, outs, m, k)
  <2>1. k \in DOMAIN outs /\ d = <<NewTxid, k>> /\ outs[k].record # NoRecord
    BY <1>6 DEF Passed
  <2>2. OutputAt(d)' = outs[k]
    BY <2>1, StateNext
  <2>3. Register'[m] = TitleAt(outs[k])
    BY <1>4, <2>2
  <2> QED
    BY <1>1, <1>4, <1>6, <2>3 DEF Gets, Passed
<1> QED
  BY <1>2, <1>5, <1>6

\* Title m stands for output p, which the handle speaks of, and output q
\* goes on with it, for holder h.
TitleMoves(m, p, q, in, kind, h) ==
    /\ Register[m] = TitleAt(p) /\ Register'[m] = TitleAt(q)
    /\ p.key = in.holder /\ p.record.kind # "redeem"
    /\ p.record.value = q.record.value /\ q.key = h /\ q.record.kind = kind

\* A token handed in by its handle has a title, held by the handle's holder.
LEMMA HandleTitle ==
    ASSUME TokenInv, TokenInv', TitleInv,
           NEW claims, NEW outs, Call(claims, outs),
           NEW in \in instances, NEW k, NEW kind, NEW h,
           Moves(claims, outs, k, in, kind, h)
    PROVE  \E m \in Mints :
              /\ Current[<<m, 1>>] = claims[k].out /\ k \in DOMAIN claims
              /\ TitleMoves(m, OutputAt(in.out), outs[k], in, kind, h)
<1>1. k \in DOMAIN claims /\ claims[k].out = in.out
  BY DEF Moves
<1>2. OutExists(in.out) /\ Says(in, OutputAt(in.out)) /\ ~IsSpent(in.out)
  BY <1>1, CallAppends DEF TokenInv, HandleInv
<1>3. in.out = <<in.out[1], in.out[2]>>
  BY DEF TokenInv, Instance, Outpoint
<1>4. in.out[1] \in DOMAIN txs /\ in.out[2] \in StateOutputs(in.out[1])
  BY <1>2 DEF OutExists, StateOutputs, Says, OutputAt
<1>5. StateAt(<<in.out[1], in.out[2]>>)
  BY <1>4, StatePlace
<1>6. LiveAt(in.out)
  BY <1>2, <1>3, <1>5 DEF LiveAt
<1>7. PICK m \in Mints : Current[<<m, 1>>] = in.out
  BY <1>6 DEF TitleInv
<1>8. PICK j : Gets(claims, outs, m, j)
  BY <1>1, <1>7, RegisterMoves
<1>9. j = k
  <2> DEFINE ins == [x \in DOMAIN claims |-> claims[x].out]
  <2>1. LegalTx(ins, outs)
    BY DEF Call
  <2>2. k \in DOMAIN ins /\ j \in DOMAIN ins /\ ins[j] = ins[k]
    BY <1>1, <1>7, <1>8 DEF Gets
  <2> HIDE DEF ins
  <2> QED
    BY <2>1, <2>2 DEF LegalTx
<1>10. outs[k].key = h /\ outs[k].record.kind = kind
  BY DEF Moves
<1>11. TitleMoves(m, OutputAt(in.out), outs[k], in, kind, h)
  BY <1>1, <1>2, <1>8, <1>9, <1>10 DEF Gets, Says, TitleMoves
<1> QED
  BY <1>1, <1>7, <1>11

\* Titles that no output of the call speaks of stay as they are.
LEMMA RegisterStays ==
    ASSUME TokenInv, TokenInv', TitleInv,
           NEW claims, NEW outs, Call(claims, outs), NEW K, NoStateBut(outs, K),
           NEW m \in Mints, \A k \in K : ~Gets(claims, outs, m, k)
    PROVE  Register'[m] = Register[m]
<1>1. \A k : ~Gets(claims, outs, m, k)
  BY DEF Gets, NoStateBut
<1> QED
  BY <1>1, RegisterMoves

\* A current output names its title.
LEMMA GetsOnce ==
    ASSUME TitleInv, NEW claims, NEW outs, NEW m \in Mints, NEW x \in Mints, NEW k,
           Current[<<m, 1>>] = claims[k].out, Gets(claims, outs, x, k)
    PROVE  x = m
  BY DEF TitleInv, Gets

-----------------------------------------------------------------------------
(* Each call is a step of the register.                                    *)

NoIssue(outs) == \A i \in DOMAIN outs :
    outs[i].record # NoRecord => outs[i].record.prev # 0

LEMMA FundTitles ==
    ASSUME TokenInv, TokenInv', TitleInv, FundFromWallet, UNCHANGED instances
    PROVE  Register' = Register
<1>1. PICK claims, outs : Call(claims, outs) /\ NoStateBut(outs, {})
  BY FundCall
<1>2. Mints' = Mints
  BY <1>1, MintsNext DEF Issues, NoStateBut
<1>3. \A m \in Mints : Register'[m] = Register[m]
  BY <1>1, RegisterStays
<1>4. Register' = [m \in Mints' |-> Register'[m]] /\ Register = [m \in Mints |-> Register[m]]
  BY RegisterIs
<1> QED
  BY <1>2, <1>3, <1>4

LEMMA MintTitles ==
    ASSUME TokenInv, TokenInv', TitleInv,
           NEW t \in TypeID, NEW id \in TokenID, NEW h \in Party,
           NEW v \in MintValue, Mint(t, id, h, v)
    PROVE  Titles!IssueNew
<1>1. PICK claims, outs : Call(claims, outs) /\ Issues(outs)
  BY MintCall
<1>2. PICK n : n = NewTxid
  OBVIOUS
<1>3. /\ Mints' = Mints \cup {n} /\ n \notin Mints
      /\ 1 \in DOMAIN outs /\ outs[1].record # NoRecord
      /\ outs[1].record.prev = 0 /\ outs[1].record.kind = "mint"
      /\ NoStateBut(outs, {1})
  BY <1>1, <1>2, MintsNext
<1>4. ASSUME NEW m \in Mints PROVE Register'[m] = Register[m]
  <2>1. ~Gets(claims, outs, m, 1)
    <3> SUFFICES ASSUME Gets(claims, outs, m, 1) PROVE FALSE
      OBVIOUS
    <3>1. PICK c, d : c = Current[<<m, 1>>] /\ d = Current'[<<m, 1>>]
      OBVIOUS
    <3>2. LiveAt(c) /\ 1 \in DOMAIN claims /\ c = claims[1].out
      BY <3>1 DEF TitleInv, Gets
    <3> QED
      BY <1>1, <1>3, <3>2, ClaimContinues DEF LiveAt
  <2> QED
    BY <1>1, <1>3, <2>1, RegisterStays
<1>5. PICK yes : yes = TRUE
  OBVIOUS
<1>a. Register'[n] = Entry(outs[1].key, outs[1].record.value, yes)
  <2>1. PICK o : o = <<n, 1>>
    OBVIOUS
  <2>2. o = Current'[<<n, 1>>]
    BY <1>1, <1>2, <2>1, CurrentStands
  <2>3. OutputAt(o)' = outs[1]
    BY <1>1, <1>2, <1>3, <2>1, StateNext
  <2>4. Register'[n] = TitleAt(outs[1])
    BY <1>3, <2>2, <2>3, RegisterIs
  <2>5. outs[1].record.kind # "redeem"
    BY <1>3
  <2>6. yes = (outs[1].record.kind # "redeem")
    BY <1>5, <2>5, Zenon
  <2> QED
    BY <2>4, <2>6, TitleEntry
<1>b. Register'[n] = Entry(Register'[n].holder, Register'[n].value, yes)
  BY <1>a DEF Entry
<1>6. /\ DOMAIN Register = Mints /\ DOMAIN Register' = Mints'
      /\ Register' = [m \in Mints' |-> Register'[m]]
  BY RegisterIs
<1>7. Titles!Issue(n, Register'[n].holder, Register'[n].value)
  <2>1. n \notin DOMAIN Register
    BY <1>3, <1>6
  <2>2. Register' = [u \in DOMAIN Register \cup {n} |->
            IF u = n THEN Entry(Register'[n].holder, Register'[n].value, yes)
            ELSE Register[u]]
    BY <1>3, <1>4, <1>b, <1>6
  <2>3. Register' = [u \in DOMAIN Register \cup {n} |->
            IF u = n THEN [holder |-> Register'[n].holder,
                           value |-> Register'[n].value, alive |-> TRUE]
            ELSE Register[u]]
    BY <1>5, <2>2, Zenon DEF Entry
  <2> QED
    BY <2>1, <2>3, Zenon DEF Titles!Issue
<1>8. n \in DOMAIN Register' \ DOMAIN Register
  BY <1>3, <1>6
<1> QED
  BY <1>7, <1>8 DEF Titles!IssueNew

\* A call without a new token, of which one title m is spoken of.
LEMMA OneTitle ==
    ASSUME TokenInv, TokenInv', TitleInv,
           NEW claims, NEW outs, Call(claims, outs), NoStateBut(outs, {1}),
           NEW in \in instances, NEW kind, NEW h,
           Moves(claims, outs, 1, in, kind, h)
    PROVE  \E m \in DOMAIN Register :
              /\ TitleMoves(m, OutputAt(in.out), outs[1], in, kind, h)
              /\ Register' = [Register EXCEPT ![m] = TitleAt(outs[1])]
<1>1. PICK m \in Mints :
         /\ Current[<<m, 1>>] = claims[1].out
         /\ TitleMoves(m, OutputAt(in.out), outs[1], in, kind, h)
  BY HandleTitle
<1>2. \A x \in Mints : x # m => Register'[x] = Register[x]
  <2> SUFFICES ASSUME NEW x \in Mints, x # m PROVE Register'[x] = Register[x]
    OBVIOUS
  <2>1. ~Gets(claims, outs, x, 1)
    BY <1>1, GetsOnce
  <2> QED
    BY <2>1, RegisterStays
<1>3. Mints' = Mints
  BY MintsNext DEF Issues, NoStateBut, Moves
<1>4. /\ DOMAIN Register = Mints /\ DOMAIN Register' = Mints'
      /\ Register' = [x \in Mints' |-> Register'[x]]
      /\ Register = [x \in Mints |-> Register[x]]
  BY RegisterIs
<1>5. Register'[m] = TitleAt(outs[1])
  BY <1>1 DEF TitleMoves
<1>6. Register' = [Register EXCEPT ![m] = TitleAt(outs[1])]
  BY <1>2, <1>3, <1>4, <1>5
<1> QED
  BY <1>1, <1>4, <1>6

LEMMA TransferTitles ==
    ASSUME TokenInv, TokenInv', TitleInv,
           NEW in \in instances, NEW h \in Party, Transfer(in, h)
    PROVE  \E m \in DOMAIN Register : Titles!Transfer(m, h)
<1>1. PICK claims, outs :
         /\ Call(claims, outs) /\ NoStateBut(outs, {1})
         /\ Moves(claims, outs, 1, in, "transfer", h)
  BY TransferCall
<1>2. PICK p, q, yes : p = OutputAt(in.out) /\ q = outs[1] /\ yes = TRUE
  OBVIOUS
<1>3. PICK m \in DOMAIN Register :
         /\ TitleMoves(m, p, q, in, "transfer", h)
         /\ Register' = [Register EXCEPT ![m] = TitleAt(q)]
  BY <1>1, <1>2, OneTitle
<1>4. TitleAt(p) = Entry(p.key, p.record.value, yes)
      /\ TitleAt(q) = Entry(q.key, q.record.value, yes)
  <2>1. p.record.kind # "redeem" /\ q.record.kind # "redeem"
    BY <1>3 DEF TitleMoves
  <2>2. yes = (p.record.kind # "redeem") /\ yes = (q.record.kind # "redeem")
    BY <1>2, <2>1, Zenon
  <2> QED
    BY <2>2, TitleEntry
<1>5. /\ Register[m] = Entry(p.key, p.record.value, yes)
      /\ Register' = [Register EXCEPT ![m] = Entry(h, p.record.value, yes)]
  BY <1>3, <1>4 DEF TitleMoves
<1>6. Register[m].alive = yes
  BY <1>5 DEF Entry
<1>7. Passes(Register, Register', m, h)
  BY <1>5, HolderChanges
<1>8. Register' = [Register EXCEPT ![m].holder = h]
  BY <1>7, Zenon DEF Passes
<1>9. Register[m].alive
  BY <1>2, <1>6
<1> QED
  BY <1>8, <1>9, Zenon DEF Titles!Transfer

LEMMA RedeemTitles ==
    ASSUME TokenInv, TokenInv', TitleInv,
           NEW in \in instances, NEW h \in Party, Redeem(in, h)
    PROVE  \E m \in DOMAIN Register : Titles!Redeem(m, h)
<1>1. PICK claims, outs :
         /\ Call(claims, outs) /\ NoStateBut(outs, {1})
         /\ Moves(claims, outs, 1, in, "redeem", h)
  BY RedeemCall
<1>2. PICK p, q, yes, no :
         p = OutputAt(in.out) /\ q = outs[1] /\ yes = TRUE /\ no = FALSE
  OBVIOUS
<1>3. PICK m \in DOMAIN Register :
         /\ TitleMoves(m, p, q, in, "redeem", h)
         /\ Register' = [Register EXCEPT ![m] = TitleAt(q)]
  BY <1>1, <1>2, OneTitle
<1>4. TitleAt(p) = Entry(p.key, p.record.value, yes)
      /\ TitleAt(q) = Entry(q.key, q.record.value, no)
  <2>1. p.record.kind # "redeem" /\ q.record.kind = "redeem"
    BY <1>3 DEF TitleMoves
  <2>2. yes = (p.record.kind # "redeem") /\ no = (q.record.kind # "redeem")
    BY <1>2, <2>1, Zenon
  <2> QED
    BY <2>2, TitleEntry
<1>5. /\ Register[m] = Entry(p.key, p.record.value, yes)
      /\ Register' = [Register EXCEPT ![m] = Entry(h, p.record.value, no)]
  BY <1>3, <1>4 DEF TitleMoves
<1>6. Register[m].alive = yes
  BY <1>5 DEF Entry
<1>7. Ends(Register, Register', m, no, h)
  BY <1>5, TitleEnds
<1>8. Register' = [Register EXCEPT ![m].alive = FALSE, ![m].holder = h]
  BY <1>2, <1>7, Zenon DEF Ends
<1>9. Register[m].alive
  BY <1>2, <1>6
<1> QED
  BY <1>8, <1>9, Zenon DEF Titles!Redeem

LEMMA SwapTitles ==
    ASSUME TokenInv, TokenInv', TitleInv,
           NEW a \in instances, NEW b \in instances, Swap(a, b)
    PROVE  \E m, n \in DOMAIN Register : Titles!Exchange(m, n)
<1>1. PICK claims, outs :
         /\ Call(claims, outs) /\ NoStateBut(outs, {1, 2})
         /\ Moves(claims, outs, 1, a, "transfer", b.holder)
         /\ Moves(claims, outs, 2, b, "transfer", a.holder)
  BY SwapCall
<1>2. PICK p, q, r, s, yes :
         /\ p = OutputAt(a.out) /\ q = outs[1] /\ r = OutputAt(b.out) /\ s = outs[2]
         /\ yes = TRUE
  OBVIOUS
<1>3. PICK m \in Mints :
         /\ Current[<<m, 1>>] = claims[1].out /\ 1 \in DOMAIN claims
         /\ TitleMoves(m, p, q, a, "transfer", b.holder)
  BY <1>1, <1>2, HandleTitle
<1>4. PICK n \in Mints :
         /\ Current[<<n, 1>>] = claims[2].out /\ 2 \in DOMAIN claims
         /\ TitleMoves(n, r, s, b, "transfer", a.holder)
  BY <1>1, <1>2, HandleTitle
<1>5. m # n
  <2> DEFINE ins == [x \in DOMAIN claims |-> claims[x].out]
  <2>1. LegalTx(ins, outs)
    BY <1>1 DEF Call
  <2>2. /\ 1 \in DOMAIN ins /\ 2 \in DOMAIN ins
        /\ ins[1] = claims[1].out /\ ins[2] = claims[2].out
    BY <1>3, <1>4
  <2> HIDE DEF ins
  <2>3. ins[1] # ins[2]
    BY <2>1, <2>2 DEF LegalTx
  <2> QED
    BY <1>3, <1>4, <2>2, <2>3
<1>6. \A x \in Mints : x # m /\ x # n => Register'[x] = Register[x]
  <2> SUFFICES ASSUME NEW x \in Mints, x # m, x # n PROVE Register'[x] = Register[x]
    OBVIOUS
  <2>1. ~Gets(claims, outs, x, 1)
    BY <1>3, GetsOnce
  <2>2. ~Gets(claims, outs, x, 2)
    BY <1>4, GetsOnce
  <2> QED
    BY <1>1, <2>1, <2>2, RegisterStays
<1>7. Mints' = Mints
  <2>1. ~Issues(outs)
    BY <1>1 DEF Issues, NoStateBut, Moves
  <2> QED
    BY <1>1, <2>1, MintsNext
<1>8. /\ DOMAIN Register = Mints /\ DOMAIN Register' = Mints'
      /\ Register' = [x \in Mints' |-> Register'[x]]
      /\ Register = [x \in Mints |-> Register[x]]
  BY RegisterIs
<1>9. Register' = [Register EXCEPT ![m] = TitleAt(q), ![n] = TitleAt(s)]
  <2>1. Register'[m] = TitleAt(q) /\ Register'[n] = TitleAt(s)
    BY <1>3, <1>4 DEF TitleMoves
  <2>2. PICK d, e : d = TitleAt(q) /\ e = TitleAt(s)
    OBVIOUS
  <2>3. Register' = [Register EXCEPT ![m] = d, ![n] = e]
    BY <1>5, <1>6, <1>7, <1>8, <2>1, <2>2
  <2> QED
    BY <2>2, <2>3
<1>10. /\ TitleAt(p) = Entry(p.key, p.record.value, yes)
       /\ TitleAt(q) = Entry(q.key, q.record.value, yes)
       /\ TitleAt(r) = Entry(r.key, r.record.value, yes)
       /\ TitleAt(s) = Entry(s.key, s.record.value, yes)
  <2>1. /\ p.record.kind # "redeem" /\ q.record.kind # "redeem"
        /\ r.record.kind # "redeem" /\ s.record.kind # "redeem"
    BY <1>3, <1>4 DEF TitleMoves
  <2>2. /\ yes = (p.record.kind # "redeem") /\ yes = (q.record.kind # "redeem")
        /\ yes = (r.record.kind # "redeem") /\ yes = (s.record.kind # "redeem")
    BY <1>2, <2>1, Zenon
  <2> QED
    BY <2>2, TitleEntry
<1>11. /\ Register[m] = Entry(a.holder, p.record.value, yes)
       /\ Register[n] = Entry(b.holder, r.record.value, yes)
       /\ TitleAt(q) = Entry(b.holder, p.record.value, yes)
       /\ TitleAt(s) = Entry(a.holder, r.record.value, yes)
  BY <1>3, <1>4, <1>10 DEF TitleMoves
<1>12. Swaps(Register, Register', m, n)
  BY <1>5, <1>8, <1>9, <1>11, HoldersSwap
<1>13. Register' = [Register EXCEPT ![m].holder = Register[n].holder,
                                    ![n].holder = Register[m].holder]
  BY <1>12, Zenon DEF Swaps
<1>14. Register[m].alive = yes /\ Register[n].alive = yes
  BY <1>11 DEF Entry
<1>15. Register[m].alive /\ Register[n].alive
  BY <1>2, <1>14
<1>16. Titles!Exchange(m, n)
  BY <1>5, <1>13, <1>15, Zenon DEF Titles!Exchange
<1> QED
  BY <1>8, <1>16

-----------------------------------------------------------------------------
(* The engine implements the register.                                     *)

\* The mapped state a step of the register reads and writes.
TitlesNext == [Titles!Next]_Register

LEMMA TitlesInit ==
    ASSUME TokenInit
    PROVE  TitleInv /\ Titles!Init
<1>1. DOMAIN txs = {}
  BY DEF TokenInit, UtxoInit
<1>2. Mints = {} /\ \A o : ~LiveAt(o)
  BY <1>1 DEF Mints, LiveAt, StateAt, Places
<1>3. Register = [t \in {} |-> TitleOf(t)]
  BY <1>2 DEF Register
<1>4. Register = [t \in {} |-> t]
  BY <1>3
<1> QED
  BY <1>2, <1>4 DEF TitleInv, Titles!Init

LEMMA TitlesStutter ==
    ASSUME TitleInv, UNCHANGED tokenVars
    PROVE  TitleInv' /\ Register' = Register
<1>1. txs' = txs
  BY DEF tokenVars, utxoVars
<1>2. Mints' = Mints
  BY <1>1 DEF Mints, StateOutputs
<1>3. Current' = Current
  BY <1>1 DEF Current, IsSpent
<1>4. Register' = Register
  BY <1>1, <1>2, <1>3 DEF Register, TitleOf, OutputAt
<1>5. TitleInv'
  BY <1>1, <1>2, <1>3 DEF TitleInv, LiveAt, StateAt, Places, StateOutputs, IsSpent
<1> QED
  BY <1>4, <1>5

\* Every step keeps TitleInv and is a step of the register or leaves it alone.
LEMMA TitlesStep ==
    ASSUME TokenInv, TokenInv', TitleInv, [TokenNext]_tokenVars
    PROVE  TitleInv' /\ TitlesNext
<1>1. CASE FundFromWallet /\ UNCHANGED instances
  <2>1. PICK claims, outs : Call(claims, outs)
    BY <1>1, FundCall
  <2> QED
    BY <1>1, <2>1, TitleStep, FundTitles DEF TitlesNext
<1>2. ASSUME NEW t \in TypeID, NEW id \in TokenID, NEW h \in Party,
             NEW v \in MintValue, Mint(t, id, h, v)
      PROVE  TitleInv' /\ TitlesNext
  <2>1. PICK claims, outs : Call(claims, outs)
    BY <1>2, MintCall
  <2>2. Titles!IssueNew
    BY <1>2, MintTitles
  <2> QED
    BY <2>1, <2>2, TitleStep DEF TitlesNext, Titles!Next
<1>3. ASSUME NEW in \in instances, NEW h \in Party, Transfer(in, h)
      PROVE  TitleInv' /\ TitlesNext
  <2>1. PICK claims, outs : Call(claims, outs)
    BY <1>3, TransferCall
  <2>2. \E m \in DOMAIN Register : Titles!Transfer(m, h)
    BY <1>3, TransferTitles
  <2> QED
    BY <2>1, <2>2, TitleStep DEF TitlesNext, Titles!Next
<1>4. ASSUME NEW in \in instances, NEW h \in Party, Redeem(in, h)
      PROVE  TitleInv' /\ TitlesNext
  <2>1. PICK claims, outs : Call(claims, outs)
    BY <1>4, RedeemCall
  <2>2. \E m \in DOMAIN Register : Titles!Redeem(m, h)
    BY <1>4, RedeemTitles
  <2> QED
    BY <2>1, <2>2, TitleStep DEF TitlesNext, Titles!Next
<1>5. ASSUME NEW a \in instances, NEW b \in instances, Swap(a, b)
      PROVE  TitleInv' /\ TitlesNext
  <2>1. PICK claims, outs : Call(claims, outs)
    BY <1>5, SwapCall
  <2>2. \E m, n \in DOMAIN Register : Titles!Exchange(m, n)
    BY <1>5, SwapTitles
  <2> QED
    BY <2>1, <2>2, TitleStep DEF TitlesNext, Titles!Next
<1>6. CASE UNCHANGED tokenVars
  BY <1>6, TitlesStutter DEF TitlesNext
<1> QED
  BY <1>1, <1>2, <1>3, <1>4, <1>5, <1>6 DEF TokenNext

\* Each minted token has one live output of its own, found along the inputs
\* from the mint, and no other output is live (engine.go:209-348).
THEOREM TitleInvariant == TokenSpec => []TitleInv
<1>1. TokenInit => TitleInv
  BY TitlesInit
<1>2. TokenInv /\ TokenInv' /\ TitleInv /\ [TokenNext]_tokenVars => TitleInv'
  BY TitlesStep
<1>3. TokenSpec => []TokenInv
  BY TokenInvariant
<1> QED
  BY <1>1, <1>2, <1>3, PTL DEF TokenSpec

\* The engine implements the register of titles: whatever calls are made, with
\* handles used again at will and calls that fail after the node took the
\* transaction, a title is issued, transferred, exchanged or ended in one step
\* or not at all (engine.go:209-348).
THEOREM TitlesImplemented == TokenSpec => ImplementsTitles
<1>1. TokenInit => Titles!Init
  BY TitlesInit
<1>2. TokenInv /\ TokenInv' /\ TitleInv /\ [TokenNext]_tokenVars
         => [Titles!Next]_Register
  BY TitlesStep DEF TitlesNext
<1>3. TokenSpec => []TokenInv
  BY TokenInvariant
<1>4. TokenSpec => []TitleInv
  BY TitleInvariant
<1> QED
  BY <1>1, <1>2, <1>3, <1>4, PTL DEF TokenSpec, ImplementsTitles, Titles!Spec

=============================================================================
