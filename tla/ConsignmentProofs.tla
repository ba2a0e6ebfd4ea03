------------------------- MODULE ConsignmentProofs -------------------------
(***************************************************************************)
(* The document engine: every state on the chain is a legal step of its    *)
(* document, for any automata, parties, bodies and number of calls, with   *)
(* handles used again at will and calls that fail.                         *)
(*                                                                         *)
(* The consignment client upon it: delivery versus payment holds for any   *)
(* automata in which an instruction settles nothing, any amounts and any   *)
(* number of events: the documents the client holds are on the chain       *)
(* (DocInv), a payment note moves only by the two calls of the client, and *)
(* what was reached stays reached.  The register and the anchored hash     *)
(* agree with the chain (CustodyInv): there is one standing consignment    *)
(* and the store is one call behind it.                                    *)
(***************************************************************************)
EXTENDS Consignment, UtxoProofs, FiniteSetTheorems

-----------------------------------------------------------------------------
(* The document engine.                                                    *)

\* A handle says what its output is, spent or not.
Describes(d, o) ==
    \E prev \in 0 .. MaxTxs :
        o = StateOutput(RecordOf(d, prev), d.controller, d.sats)
DocsOnChain ==
    \A d \in docs :
        OutExists(d.out) /\ d.out[2] = 1 /\ Describes(d, OutputAt(d.out))

\* A transaction has one state output, the first, locked to its controller,
\* and spends the state output it continues and no other.
OneState(outs) ==
    \A i \in DOMAIN outs : outs[i].record # NoRecord =>
        i = 1 /\ outs[i].key = outs[i].record.controller
Predecessor(outs) ==
    IF 1 \in DOMAIN outs /\ outs[1].record # NoRecord /\ outs[1].record.prev # 0
    THEN {<<outs[1].record.prev, 1>>} ELSE {}
StateInputs(n) ==
    {o \in Range(txs[n].ins) : OutputAt(o).record # NoRecord}
LineInv ==
    \A n \in DOMAIN txs :
        OneState(txs[n].outs) /\ StateInputs(n) = Predecessor(txs[n].outs)

DocInv ==
    /\ UtxoInv(StateRecord)
    /\ docs \subseteq Doc
    /\ DocsOnChain
    /\ LineInv
    /\ StepsLegal

\* A record that a transaction with these claims may carry, and the state
\* outputs they claim.
LegalRecord(claims, r) ==
    IF r.prev = 0 THEN r.seq = 0 /\ r.state = DocDef[r.type].initial
    ELSE \E k \in DOMAIN claims : Continues(claims[k].out, r)
StateClaims(claims) ==
    {o \in {claims[k].out : k \in DOMAIN claims} :
        OutputAt(o).record # NoRecord}

\* The call makes document d of the state outputs spent, and hands it out or
\* fails.
Makes(d, spent) ==
    \E claims \in Seq(Claim), outs \in Seq(OutputOf(StateRecord)) :
        /\ Taken(claims, outs) /\ Outcome(outs)
        /\ OneState(outs) /\ LegalRecord(claims, outs[1].record)
        /\ StateClaims(claims) = spent /\ Predecessor(outs) = spent
        /\ d \in Doc /\ d.out = <<NewTxid, 1>>
        /\ 1 \in DOMAIN outs /\ Describes(d, outs[1])
        /\ docs' = docs \cup {d} \/ (AnswerLost /\ docs' = docs)

-----------------------------------------------------------------------------
\* A call that carries a legal record, and hands out at most the handle of
\* what it made, keeps the invariant.
LEMMA CallStep ==
    ASSUME DocInv,
           NEW claims \in Seq(Claim), NEW outs \in Seq(OutputOf(StateRecord)),
           Taken(claims, outs), Outcome(outs),
           OneState(outs), StateClaims(claims) = Predecessor(outs),
           \A i \in DOMAIN outs :
              outs[i].record = NoRecord \/ LegalRecord(claims, outs[i].record),
           \/ docs' = docs
           \/ \E d \in Doc :
                 /\ docs' = docs \cup {d} /\ d.out = <<NewTxid, 1>>
                 /\ 1 \in DOMAIN outs /\ Describes(d, outs[1])
    PROVE  DocInv'
<1>1. /\ DOMAIN txs' = DOMAIN txs \cup {NewTxid}
      /\ \A n \in DOMAIN txs : txs'[n] = txs[n]
      /\ txs'[NewTxid].outs = outs
      /\ DOMAIN txs'[NewTxid].ins = DOMAIN claims
      /\ \A i \in DOMAIN claims :
            txs'[NewTxid].ins[i] = claims[i].out /\ OutExists(claims[i].out)
  BY TakenAppends DEF DocInv, UtxoInv
<1>2. UtxoInv(StateRecord)'
  BY TakenStep DEF DocInv
<1>3. \A o : OutExists(o) => (OutExists(o))' /\ (OutputAt(o))' = OutputAt(o)
  BY <1>1 DEF OutExists, OutputAt
<1>4. \A o, r : OutExists(o) /\ Continues(o, r) => (Continues(o, r))'
  BY <1>3 DEF Continues
<1>5. DocsOnChain'
  <2> SUFFICES ASSUME NEW d \in docs'
               PROVE  /\ (OutExists(d.out))' /\ d.out[2] = 1
                      /\ Describes(d, (OutputAt(d.out))')
    BY DEF DocsOnChain
  <2>1. CASE d \in docs
    BY <1>3, <2>1 DEF DocInv, DocsOnChain
  <2>2. CASE /\ d.out = <<NewTxid, 1>>
             /\ 1 \in DOMAIN outs /\ Describes(d, outs[1])
    BY <1>1, <2>2 DEF OutExists, OutputAt
  <2> QED
    BY <2>1, <2>2
<1>6. StepsLegal'
  <2> SUFFICES ASSUME NEW n \in DOMAIN txs', NEW i \in DOMAIN txs'[n].outs,
                      txs'[n].outs[i].record # NoRecord,
                      NEW r, r = txs'[n].outs[i].record
               PROVE  IF r.prev = 0
                      THEN r.seq = 0 /\ r.state = DocDef[r.type].initial
                      ELSE \E o \in Range(txs'[n].ins) : (Continues(o, r))'
    BY DEF StepsLegal, StateOutputs
  <2>1. CASE n \in DOMAIN txs
    <3>1. i \in StateOutputs(n) /\ r = txs[n].outs[i].record
      BY <1>1, <2>1 DEF StateOutputs
    <3>2. CASE r.prev = 0
      BY <2>1, <3>1, <3>2 DEF DocInv, StepsLegal
    <3>3. CASE r.prev # 0
      <4>1. PICK o \in Range(txs[n].ins) : Continues(o, r)
        BY <2>1, <3>1, <3>3 DEF DocInv, StepsLegal
      <4>2. OutExists(o)
        BY <2>1, <4>1 DEF DocInv, UtxoInv, InputsExist, Range
      <4>3. o \in Range(txs'[n].ins)
        BY <1>1, <2>1, <4>1
      <4> QED
        BY <1>4, <3>3, <4>1, <4>2, <4>3
    <3> QED
      BY <3>2, <3>3
  <2>2. CASE n = NewTxid
    <3>1. LegalRecord(claims, r)
      BY <1>1, <2>2
    <3>2. CASE r.prev = 0
      BY <3>1, <3>2 DEF LegalRecord
    <3>3. CASE r.prev # 0
      <4>1. PICK k \in DOMAIN claims : Continues(claims[k].out, r)
        BY <3>1, <3>3 DEF LegalRecord
      <4>2. claims[k].out \in Range(txs'[n].ins)
        BY <1>1, <2>2, <4>1 DEF Range
      <4>3. (Continues(claims[k].out, r))'
        BY <1>1, <1>4, <4>1
      <4> QED
        BY <3>3, <4>2, <4>3
    <3> QED
      BY <3>2, <3>3
  <2> QED
    BY <1>1, <2>1, <2>2
<1>7. LineInv'
  <2> SUFFICES ASSUME NEW n \in DOMAIN txs'
               PROVE  /\ OneState(txs'[n].outs)
                      /\ (StateInputs(n))' = Predecessor(txs'[n].outs)
    BY DEF LineInv, OneState, Predecessor
  <2>1. CASE n \in DOMAIN txs
    <3>1. \A o \in Range(txs[n].ins) : OutExists(o)
      BY <2>1 DEF DocInv, UtxoInv, InputsExist, Range
    <3>2. (StateInputs(n))' = StateInputs(n)
      BY <1>1, <1>3, <2>1, <3>1 DEF StateInputs
    <3> QED
      BY <1>1, <2>1, <3>2 DEF DocInv, LineInv
  <2>2. CASE n = NewTxid
    <3>1. Range(txs'[n].ins) = {claims[k].out : k \in DOMAIN claims}
      BY <1>1, <2>2 DEF Range
    <3>2. (StateInputs(n))' = StateClaims(claims)
      BY <1>1, <1>3, <3>1 DEF StateInputs, StateClaims
    <3> QED
      BY <1>1, <2>2, <3>2
  <2> QED
    BY <1>1, <2>1, <2>2
<1> QED
  BY <1>2, <1>5, <1>6, <1>7 DEF DocInv

-----------------------------------------------------------------------------
\* The next state is reached by an edge of the table from the present one.
LEMMA NextStateIsEdge ==
    ASSUME NEW t \in DocType, NEW from, NEW event,
           NextState(t, from, event) # NoState
    PROVE  /\ NextState(t, from, event) \in DocState
           /\ \E x \in Range(Transitions(t)) :
                 /\ x[1] = from /\ x[2] = event
                 /\ x[3] = NextState(t, from, event)
<1>1. PICK i \in DOMAIN Transitions(t) :
         /\ FirstMatch(t, i, from, event)
         /\ NextState(t, from, event) = Transitions(t)[i][3]
  BY DEF NextState
<1>2. Transitions(t)[i] \in Range(Transitions(t))
  BY DEF Range
<1>3. Transitions(t)[i][1] = from /\ Transitions(t)[i][2] = event
  BY <1>1 DEF FirstMatch, Matches
<1>4. Transitions(t)[i][3] \in DocState
  BY <1>2 DEF DocState
<1> QED
  BY <1>1, <1>2, <1>3, <1>4

LEMMA RecordType ==
    ASSUME NEW d \in Doc, NEW prev \in 0 .. MaxTxs
    PROVE  /\ RecordOf(d, prev) \in StateRecord
           /\ StateOutput(RecordOf(d, prev), d.controller, d.sats)
                  \in OutputOf(StateRecord)
<1>1. RecordOf(d, prev) \in StateRecord
  BY DEF RecordOf, Doc, StateRecord
<1> QED
  BY <1>1 DEF StateOutput, OutputOf, Doc

LEMMA FeeClaimType ==
    ASSUME DocInv
    PROVE  WalletClaim \in Claim /\ wallet.sats \in Amount
  BY DEF DocInv, UtxoInv, UtxoShape, WalletClaim, Claim, Amount

-----------------------------------------------------------------------------
(* The calls.                                                              *)

LEMMA FundStep ==
    ASSUME DocInv, FundFromWallet, UNCHANGED docs
    PROVE  DocInv'
<1> DEFINE outs == <<FeeOutput(Funding)>>
<1>1. Taken(<<>>, outs) /\ Outcome(outs)
  BY FundingIsTaken
<1>2. FeeOutput(Funding) \in OutputOf(StateRecord)
  BY StateUtxoAssumption, FeeOutputType DEF Amount
<1>3. FeeOutput(Funding).record = NoRecord
  BY DEF FeeOutput
<1>4. outs \in Seq(OutputOf(StateRecord))
      /\ \A i \in DOMAIN outs : outs[i].record = NoRecord
  BY <1>2, <1>3
<1>5. <<>> \in Seq(Claim)
  OBVIOUS
<1>6. OneState(outs) /\ Predecessor(outs) = {}
  BY <1>4 DEF OneState, Predecessor
<1>7. StateClaims(<<>>) = {}
  BY DEF StateClaims
<1> HIDE DEF outs
<1> QED
  BY <1>1, <1>4, <1>5, <1>6, <1>7, CallStep

LEMMA MakesStep ==
    ASSUME DocInv, NEW d, NEW spent, Makes(d, spent)
    PROVE  DocInv'
<1> PICK claims \in Seq(Claim), outs \in Seq(OutputOf(StateRecord)) :
        /\ Taken(claims, outs) /\ Outcome(outs)
        /\ OneState(outs) /\ LegalRecord(claims, outs[1].record)
        /\ StateClaims(claims) = Predecessor(outs)
        /\ d \in Doc /\ d.out = <<NewTxid, 1>>
        /\ 1 \in DOMAIN outs /\ Describes(d, outs[1])
        /\ docs' = docs \/ docs' = docs \cup {d}
  BY DEF Makes
<1>1. \A i \in DOMAIN outs :
         outs[i].record = NoRecord \/ LegalRecord(claims, outs[i].record)
  BY DEF OneState
<1> QED
  BY <1>1, CallStep

LEMMA OriginateMakes ==
    ASSUME DocInv, NEW t \in DocType, NEW id \in ObjectID, NEW c \in Party,
           NEW body \in BodyHash, Originate(t, id, c, body)
    PROVE  \E d : /\ Makes(d, {}) /\ d.type = t /\ d.row = id
                  /\ d.state = DocDef[t].initial
                  /\ d.controller = c /\ d.body = body /\ d.seq = 0
<1> DEFINE d == [type |-> t, row |-> id, state |-> DocDef[t].initial,
                 body |-> body, controller |-> c, seq |-> 0,
                 out |-> <<NewTxid, 1>>, sats |-> StateSats]
           one == StateOutput(RecordOf(d, 0), d.controller, d.sats)
           two == FeeOutput(ChangeLeft(StateSats))
           claims == <<WalletClaim>>
           outs == <<one, two>>
<1>1. StateSats \in Amount /\ ChangeLeft(StateSats) \in Amount
      /\ DocDef[t].initial \in DocState /\ 0 \in 0 .. MaxTxs
  BY DocumentAssumption, StateUtxoAssumption, ChangeInRange
     DEF DocInv, UtxoInv, DocState
<1>2. claims \in Seq(Claim)
  BY FeeClaimType
<1>3. Taken(claims, outs)
  BY BroadcastIsTaken DEF Originate
<1>4. NewTxid \in 1 .. MaxTxs
  BY <1>3, NewTxidBound DEF Taken, DocInv, UtxoInv
<1>5. d \in Doc
  BY <1>1, <1>4 DEF Doc, Outpoint
<1>6. one.record.prev = 0 /\ one.record.seq = 0
      /\ one.record.state = DocDef[one.record.type].initial
      /\ one.key = one.record.controller
      /\ two.record = NoRecord
  BY DEF StateOutput, RecordOf, FeeOutput
<1>7. Describes(d, one) /\ d.out = <<NewTxid, 1>> /\ d.type = t /\ d.row = id
      /\ d.state = DocDef[t].initial
      /\ d.controller = c /\ d.body = body /\ d.seq = 0
  BY <1>1 DEF Describes
<1> HIDE DEF d
<1>8. one \in OutputOf(StateRecord)
  BY <1>1, <1>5, RecordType
<1>9. two \in OutputOf(StateRecord)
  BY <1>1, FeeOutputType
<1>10. \/ WalletMovesTo(2, ChangeLeft(StateSats)) /\ docs' = docs \cup {d}
       \/ AnswerLost /\ docs' = docs
  BY DEF Originate, d
<1>11. Outcome(outs)
  BY <1>1, <1>10 DEF Outcome
<1> HIDE DEF one, two
<1>12. /\ outs \in Seq(OutputOf(StateRecord)) /\ DOMAIN outs = {1, 2}
       /\ outs[1] = one /\ outs[2] = two
  BY <1>8, <1>9
<1>13. LegalRecord(claims, one.record)
  BY <1>6 DEF LegalRecord
<1>14. StateClaims(claims) = {}
  <2>1. OutExists(wallet.out)
    BY <1>3 DEF Taken, WalletClaim
  <2>2. OutputAt(wallet.out).record = NoRecord
    BY <2>1, WalletHoldsNoState DEF DocInv
  <2> QED
    BY <2>2 DEF StateClaims, WalletClaim
<1> HIDE DEF claims, outs
<1>15. OneState(outs) /\ Predecessor(outs) = {}
  BY <1>6, <1>12 DEF OneState, Predecessor
<1>20. docs' = docs \cup {d} \/ (AnswerLost /\ docs' = docs)
  BY <1>10
<1>16. Makes(d, {})
  BY <1>20, <1>2, <1>3, <1>5, <1>7, <1>11, <1>12, <1>13, <1>14, <1>15
     DEF Makes
<1> QED
  BY <1>7, <1>16

\* Document nd is made of d by an event, under controller c.
Follower(nd, d, event, c) ==
    /\ Makes(nd, {d.out})
    /\ nd.type = d.type /\ nd.row = d.row /\ nd.controller = c
    /\ nd.body = d.body /\ nd.seq = d.seq + 1
    /\ \E x \in Range(Transitions(d.type)) :
          x[1] = d.state /\ x[2] = event /\ x[3] = nd.state

LEMMA TransitionMakes ==
    ASSUME DocInv, NEW d \in docs, NEW event, NEW c \in Party,
           Transition(d, event, c)
    PROVE  \E nd : Follower(nd, d, event, c)
<1> DEFINE nd == NextDoc(d, event, c)
           one == StateOutput(RecordOf(nd, d.out[1]), nd.controller, nd.sats)
           two == FeeOutput(wallet.sats)
           claims == <<DocClaim(d), WalletClaim>>
           outs == <<one, two>>
<1>1. d \in Doc /\ wallet.sats \in Amount /\ WalletClaim \in Claim
  BY FeeClaimType DEF DocInv
<1>2. OutExists(d.out) /\ d.out[2] = 1 /\ Describes(d, OutputAt(d.out))
  BY DEF DocInv, DocsOnChain
<1>3. d.out[1] \in 1 .. MaxTxs /\ d.out = <<d.out[1], 1>>
  BY <1>1, <1>2 DEF OutExists, Doc, Outpoint, DocInv, UtxoInv, UtxoShape
<1>4. claims \in Seq(Claim)
  <2>1. DocClaim(d) \in Claim
    BY <1>1 DEF DocClaim, Doc, Claim, Amount
  <2> QED
    BY <1>1, <2>1
<1>5. /\ nd.controller = c /\ nd.sats = d.sats /\ nd.type = d.type
      /\ nd.row = d.row /\ nd.body = d.body /\ nd.seq = d.seq + 1
      /\ nd.out = <<NewTxid, 1>>
      /\ nd.state = NextState(d.type, d.state, event)
  BY <1>1 DEF NextDoc, Doc
<1>6. Taken(claims, outs)
  BY <1>5, BroadcastIsTaken DEF Transition
<1>7. NewTxid \in 1 .. MaxTxs
  BY <1>6, NewTxidBound DEF Taken, DocInv, UtxoInv
<1>8. d.type \in DocType /\ nd.state # NoState
  BY <1>1, <1>5 DEF Transition, Doc
<1>9. /\ nd.state \in DocState
      /\ \E x \in Range(Transitions(d.type)) :
            x[1] = d.state /\ x[2] = event /\ x[3] = nd.state
  BY <1>5, <1>8, NextStateIsEdge
<1>10. nd \in Doc
  <2>1. NextState(d.type, d.state, event) \in DocState
    BY <1>5, <1>9
  <2>2. <<NewTxid, 1>> \in Outpoint /\ d.seq + 1 \in Nat
    BY <1>1, <1>7 DEF Doc, Outpoint
  <2> QED
    BY <1>1, <2>1, <2>2 DEF NextDoc, Doc
<1>11. \/ WalletMovesTo(2, wallet.sats) /\ docs' = docs \cup {nd}
       \/ AnswerLost /\ docs' = docs
  BY DEF Transition
<1> HIDE DEF nd
<1>12. Describes(nd, one)
  BY <1>3 DEF Describes
<1>13. one \in OutputOf(StateRecord) /\ two \in OutputOf(StateRecord)
  BY <1>1, <1>3, <1>10, RecordType, FeeOutputType
<1>14. /\ Continues(d.out, one.record) /\ one.record.prev = d.out[1]
       /\ OutputAt(d.out).record # NoRecord
  <2>1. PICK prev \in 0 .. MaxTxs :
           OutputAt(d.out) = StateOutput(RecordOf(d, prev), d.controller, d.sats)
    BY <1>2 DEF Describes
  <2>2. /\ OutputAt(d.out).key = d.controller
        /\ OutputAt(d.out).record = RecordOf(d, prev)
    BY <2>1 DEF StateOutput
  <2>3. one.record = RecordOf(nd, d.out[1])
    BY DEF StateOutput
  <2>4. RecordOf(d, prev) # NoRecord
    BY <1>1, RecordType, RecordAssumption
  <2> HIDE DEF one
  <2> QED
    BY <1>5, <1>9, <2>2, <2>3, <2>4 DEF Continues, RecordOf
<1>15. /\ two.record = NoRecord
       /\ one.record # NoRecord /\ one.key = one.record.controller
  <2>1. RecordOf(nd, d.out[1]) \in StateRecord
    BY <1>3, <1>10, RecordType
  <2> QED
    BY <2>1, RecordAssumption DEF FeeOutput, StateOutput, RecordOf
<1>16. Outcome(outs)
  BY <1>1, <1>11 DEF Outcome
<1> HIDE DEF one, two
<1>17. /\ outs \in Seq(OutputOf(StateRecord)) /\ DOMAIN outs = {1, 2}
       /\ outs[1] = one /\ outs[2] = two
       /\ DOMAIN claims = {1, 2}
       /\ claims[1].out = d.out /\ claims[2].out = wallet.out
  BY <1>13 DEF DocClaim, WalletClaim
<1> HIDE DEF claims, outs
<1>18. LegalRecord(claims, one.record)
  BY <1>3, <1>14, <1>17 DEF LegalRecord
<1>19. StateClaims(claims) = {d.out}
  <2>1. OutExists(wallet.out)
    BY <1>6, <1>17 DEF Taken
  <2>2. OutputAt(wallet.out).record = NoRecord
    BY <2>1, WalletHoldsNoState DEF DocInv
  <2> QED
    BY <1>14, <1>17, <2>2 DEF StateClaims
<1>20. OneState(outs) /\ Predecessor(outs) = {d.out}
  BY <1>3, <1>14, <1>15, <1>17 DEF OneState, Predecessor
<1>22. docs' = docs \cup {nd} \/ (AnswerLost /\ docs' = docs)
  BY <1>11
<1>21. Makes(nd, {d.out})
  BY <1>22, <1>4, <1>5, <1>6, <1>10, <1>12, <1>16, <1>17, <1>18, <1>19,
     <1>20 DEF Makes
<1>23. Follower(nd, d, event, c)
  BY <1>5, <1>9, <1>21 DEF Follower
<1> QED
  BY <1>23

-----------------------------------------------------------------------------
(* Reading a document back.                                                *)

\* What the outputs of a transaction are.
LEMMA OutputTypes ==
    ASSUME DocInv, NEW n \in DOMAIN txs
    PROVE  /\ DOMAIN txs = 1 .. Len(txs) /\ Len(txs) \in Nat /\ n \in Nat
           /\ \A i \in DOMAIN txs[n].outs :
                 txs[n].outs[i] \in OutputOf(StateRecord)
<1>1. txs[n] \in TxOf(StateRecord)
  BY DEF DocInv, UtxoInv, UtxoShape
<1>2. txs[n].outs \in Seq(OutputOf(StateRecord))
  BY <1>1 DEF TxOf
<1> QED
  BY <1>2 DEF DocInv, UtxoInv, UtxoShape

\* A state output is the first of its transaction, and what it continues is
\* an older one that the transaction spends.
LEMMA StateOutputFacts ==
    ASSUME DocInv, NEW n \in DOMAIN txs, NEW i \in StateOutputs(n),
           NEW o, o = txs[n].outs[i]
    PROVE  /\ i = 1 /\ o = txs[n].outs[1] /\ StateOutputs(n) = {1}
           /\ o \in [sats : Amount, key : Party, record : StateRecord]
           /\ o # NoRecord /\ o.record # NoRecord
           /\ o.key = o.record.controller
           /\ o.record.prev = 0 =>
                 /\ o.record.seq = 0
                 /\ o.record.state = DocDef[o.record.type].initial
           /\ o.record.prev # 0 =>
                 /\ o.record.prev \in DOMAIN txs /\ o.record.prev < n
                 /\ StateOutputs(o.record.prev) = {1}
                 /\ <<o.record.prev, 1>> \in Range(txs[n].ins)
                 /\ Continues(<<o.record.prev, 1>>, o.record)
<1>1. i = 1 /\ StateOutputs(n) = {1} /\ o.record # NoRecord
      /\ o.key = o.record.controller
  BY DEF DocInv, LineInv, OneState, StateOutputs
<1>2. o \in OutputOf(StateRecord)
  BY OutputTypes DEF StateOutputs
<1>3. o.record \in StateRecord
  BY <1>1, <1>2 DEF OutputOf
<1>4. o.record.controller \in Party /\ o.record.prev \in 0 .. MaxTxs
  BY <1>3 DEF StateRecord
<1>5. o \in [sats : Amount, key : Party, record : StateRecord]
  BY <1>1, <1>2, <1>3, <1>4 DEF OutputOf
<1>6. o.record.prev = 0 => /\ o.record.seq = 0
                           /\ o.record.state = DocDef[o.record.type].initial
  BY DEF DocInv, StepsLegal
<1>7. ASSUME o.record.prev # 0
      PROVE  /\ o.record.prev \in DOMAIN txs /\ o.record.prev < n
             /\ StateOutputs(o.record.prev) = {1}
             /\ <<o.record.prev, 1>> \in Range(txs[n].ins)
             /\ Continues(<<o.record.prev, 1>>, o.record)
  <2>1. PICK q \in Range(txs[n].ins) : Continues(q, o.record)
    BY <1>7 DEF DocInv, StepsLegal
  <2>2. q \in StateInputs(n)
    BY <2>1 DEF Continues, StateInputs
  <2>3. q = <<o.record.prev, 1>>
    BY <1>1, <1>7, <2>2 DEF DocInv, LineInv, Predecessor
  <2>4. OutExists(q) /\ q[1] < n
    BY <2>1 DEF DocInv, UtxoInv, InputsExist, Range
  <2>5. o.record.prev \in DOMAIN txs /\ 1 \in StateOutputs(o.record.prev)
    BY <2>1, <2>3, <2>4
       DEF OutExists, Continues, OutputAt, StateOutputs
  <2>6. StateOutputs(o.record.prev) = {1}
    BY <2>5 DEF DocInv, LineInv, OneState, StateOutputs
  <2> QED
    BY <2>1, <2>3, <2>4, <2>5, <2>6
<1> QED
  BY <1>1, <1>5, <1>6, <1>7, RecordAssumption

\* The record Verify takes from a transaction is that of its state output, if
\* it is of the row.
LEMMA RecordOnIs ==
    ASSUME DocInv, NEW n \in DOMAIN txs, NEW row
    PROVE  IF StateOutputs(n) # {} /\ txs[n].outs[1].record.row = row
           THEN RecordOn(n, row) = txs[n].outs[1]
           ELSE RecordOn(n, row) = NoRecord
<1> DEFINE matching == {i \in StateOutputs(n) : txs[n].outs[i].record.row = row}
<1>1. StateOutputs(n) = {} \/ StateOutputs(n) = {1}
  BY StateOutputFacts
<1>2. matching = IF StateOutputs(n) # {} /\ txs[n].outs[1].record.row = row
                 THEN {1} ELSE {}
  BY <1>1
<1>3. (CHOOSE i \in {1} : \A j \in {1} : i <= j) = 1
  OBVIOUS
<1>4. RecordOn(n, row) =
         IF matching = {} THEN NoRecord
         ELSE txs[n].outs[CHOOSE i \in matching : \A j \in matching : i <= j]
  BY DEF RecordOn
<1> HIDE DEF matching
<1> QED
  BY <1>2, <1>3, <1>4

\* The record points back.
LEMMA RecordOnLooksBack ==
    ASSUME DocInv, NEW n \in DOMAIN txs, NEW row, RecordOn(n, row) # NoRecord
    PROVE  RecordOn(n, row).record.prev \in 0 .. n - 1
<1>1. StateOutputs(n) # {} /\ RecordOn(n, row) = txs[n].outs[1]
  BY RecordOnIs
<1>2. PICK i \in StateOutputs(n) : TRUE
  BY <1>1
<1>3. DOMAIN txs = 1 .. Len(txs) /\ Len(txs) \in Nat
  BY OutputTypes
<1> DEFINE o == txs[n].outs[1]
<1>4. o.record.prev # 0 => o.record.prev \in DOMAIN txs /\ o.record.prev < n
  BY <1>2, StateOutputFacts
<1> QED
  BY <1>1, <1>3, <1>4

LEMMA LineageUnfolds ==
    ASSUME DocInv, NEW row, NEW n \in 0 .. Len(txs)
    PROVE  Lineage(row)[n] =
              IF n = 0 THEN <<>>
              ELSE IF RecordOn(n, row) = NoRecord THEN <<NoRecord>>
              ELSE Append(Lineage(row)[RecordOn(n, row).record.prev],
                          RecordOn(n, row))
<1>1. UtxoShape(StateRecord) /\ RowLooksBack(row)
  BY RecordOnLooksBack DEF DocInv, UtxoInv, RowLooksBack
<1> QED
  BY <1>1, RowUnfolds

\* The lineage of a state output is a run of its automaton that ends in it.
StateOut == [sats : Amount, key : Party, record : StateRecord]
Run(l, o) ==
    /\ l \in Seq(StateOut) /\ Len(l) = o.record.seq + 1 /\ l[Len(l)] = o
    /\ l[1].record.state = DocDef[o.record.type].initial
    /\ \A j \in 1 .. Len(l) - 1 :
          \E x \in Range(Transitions(o.record.type)) :
              x[1] = l[j].record.state /\ x[3] = l[j + 1].record.state
LineageRuns(n) == Run(Lineage(txs[n].outs[1].record.row)[n], txs[n].outs[1])

LEMMA RunExtends ==
    ASSUME NEW l, NEW p \in StateOut, Run(l, p), NEW o \in StateOut,
           o.record.type = p.record.type, o.record.seq = p.record.seq + 1,
           \E x \in Range(Transitions(o.record.type)) :
               x[1] = p.record.state /\ x[3] = o.record.state
    PROVE  Run(Append(l, o), o)
<1> DEFINE m == Append(l, o)
<1>1. p.record.seq \in Nat
  BY DEF StateOut, StateRecord
<1>2. Len(l) \in Nat \ {0} /\ l \in Seq(StateOut)
  BY <1>1 DEF Run
<1>3. /\ m \in Seq(StateOut) /\ Len(m) = Len(l) + 1 /\ m[Len(m)] = o
      /\ \A j \in 1 .. Len(l) : m[j] = l[j]
  BY <1>2
<1> HIDE DEF m
<1>4. Len(m) = o.record.seq + 1
  BY <1>1, <1>3 DEF Run
<1>5. m[1].record.state = DocDef[o.record.type].initial
  <2>1. m[1] = l[1]
    BY <1>2, <1>3
  <2> QED
    BY <2>1 DEF Run
<1>6. ASSUME NEW j \in 1 .. Len(m) - 1
      PROVE  \E x \in Range(Transitions(o.record.type)) :
                 x[1] = m[j].record.state /\ x[3] = m[j + 1].record.state
  <2>1. CASE j = Len(l)
    <3>1. j + 1 = Len(m) /\ j \in 1 .. Len(l)
      BY <1>2, <1>3, <2>1
    <3>2. m[j] = l[j] /\ l[j] = p
      BY <1>3, <2>1, <3>1 DEF Run
    <3>3. m[j + 1] = o
      BY <1>3, <3>1
    <3> QED
      BY <3>2, <3>3
  <2>2. CASE j # Len(l)
    <3>1. j \in 1 .. Len(l) - 1 /\ m[j] = l[j] /\ m[j + 1] = l[j + 1]
      BY <1>2, <1>3, <2>2
    <3> QED
      BY <3>1 DEF Run
  <2> QED
    BY <2>1, <2>2
<1>7. Run(m, o)
  BY <1>3, <1>4, <1>5, <1>6 DEF Run
<1> QED
  BY <1>7 DEF m

LEMMA LineageStep ==
    ASSUME DocInv, NEW n \in DOMAIN txs, StateOutputs(n) # {},
           NEW o, o = txs[n].outs[1],
           o.record.prev # 0 => LineageRuns(o.record.prev)
    PROVE  LineageRuns(n)
<1> DEFINE row == o.record.row
<1>1. /\ n \in 1 .. Len(txs) /\ Len(txs) \in Nat
      /\ o \in StateOut /\ o # NoRecord
      /\ o.record.prev = 0 =>
            o.record.seq = 0 /\ o.record.state = DocDef[o.record.type].initial
      /\ o.record.prev # 0 => /\ o.record.prev \in DOMAIN txs
                              /\ Continues(<<o.record.prev, 1>>, o.record)
  <2>1. n \in 1 .. Len(txs) /\ Len(txs) \in Nat
    BY OutputTypes
  <2> QED
    BY ZenonT(30), <2>1, StateOutputFacts DEF StateOut
<1>2. RecordOn(n, row) = o
  BY RecordOnIs
<1> HIDE DEF row
<1>3. Lineage(row)[n] = Append(Lineage(row)[o.record.prev], o)
  <2>1. n \in 0 .. Len(txs) /\ n # 0 /\ RecordOn(n, row) # NoRecord
    BY <1>1, <1>2
  <2>2. Lineage(row)[n] = Append(Lineage(row)[RecordOn(n, row).record.prev],
                                 RecordOn(n, row))
    BY <2>1, LineageUnfolds
  <2> QED
    BY <1>2, <2>2
<1>4. CASE o.record.prev = 0
  <2>1. Lineage(row)[0] = <<>>
    BY <1>1, LineageUnfolds
  <2>2. Lineage(row)[n] = <<o>>
    BY <1>3, <1>4, <2>1
  <2>3. Run(<<o>>, o)
    BY <1>1, <1>4 DEF Run
  <2> QED
    BY <2>2, <2>3 DEF LineageRuns, row
<1>5. CASE o.record.prev # 0
  <2> DEFINE p == txs[o.record.prev].outs[1]
  <2>1. StateOutputs(o.record.prev) = {1} /\ o.record.prev \in DOMAIN txs
    BY ZenonT(30), <1>5, StateOutputFacts
  <2>2. p \in StateOut
    BY <2>1, StateOutputFacts DEF StateOut
  <2>3. /\ p.record.row = row /\ o.record.type = p.record.type
        /\ o.record.seq = p.record.seq + 1
        /\ \E x \in Range(Transitions(o.record.type)) :
               x[1] = p.record.state /\ x[3] = o.record.state
    BY <1>1, <1>5 DEF Continues, OutputAt, row
  <2>4. Run(Lineage(row)[o.record.prev], p)
    BY <1>5, <2>3 DEF LineageRuns
  <2>5. Run(Append(Lineage(row)[o.record.prev], o), o)
    BY <1>1, <2>2, <2>3, <2>4, RunExtends
  <2> QED
    BY <1>3, <2>5 DEF LineageRuns, row
<1> QED
  BY <1>4, <1>5

LEMMA LineagesRun ==
    ASSUME DocInv, NEW n \in DOMAIN txs, StateOutputs(n) # {}
    PROVE  LineageRuns(n)
<1> DEFINE bad == {m \in DOMAIN txs : StateOutputs(m) # {} /\ ~LineageRuns(m)}
<1> SUFFICES ASSUME bad # {} PROVE FALSE
  OBVIOUS
<1>1. bad \subseteq Nat
  BY OutputTypes
<1>2. PICK m \in bad : \A k \in bad : m <= k
  BY <1>1, LeastNatural
<1> DEFINE q == txs[m].outs[1].record.prev
<1>3. q # 0 => q \in DOMAIN txs /\ q < m /\ StateOutputs(q) = {1}
  <2>1. PICK i \in StateOutputs(m) : TRUE
    BY <1>2
  <2> QED
    BY ZenonT(30), <1>2, <2>1, StateOutputFacts
<1>4. q # 0 => LineageRuns(q)
  <2> SUFFICES ASSUME q # 0, ~LineageRuns(q) PROVE FALSE
    OBVIOUS
  <2>1. q \in bad /\ q \in Nat /\ m \in Nat /\ q < m
    BY <1>1, <1>2, <1>3
  <2> QED
    BY <1>2, <2>1
<1>5. LineageRuns(m)
  BY <1>2, <1>4, LineageStep
<1> QED
  BY <1>2, <1>5

LEMMA HistoriesLegal ==
    ASSUME DocInv
    PROVE  LegalHistory
<1> SUFFICES ASSUME NEW n \in DOMAIN txs, NEW i \in StateOutputs(n)
             PROVE  LET o == txs[n].outs[i]
                        h == Verify(n, o.record.row)
                        s == h.states
                    IN
                    /\ h # NoRecord
                    /\ s[1] = DocDef[o.record.type].initial
                    /\ \A j \in 1 .. Len(s) - 1 :
                          \E x \in Range(Transitions(o.record.type)) :
                              x[1] = s[j] /\ x[3] = s[j + 1]
                    /\ h.final = o.record /\ h.verified = o.record.seq + 1
                    /\ o.record.controller = o.key
  BY DEF LegalHistory
<1> DEFINE o == txs[n].outs[1]
           l == Lineage(o.record.row)[n]
           s == [j \in DOMAIN l |-> l[j].record.state]
           h == [states |-> s, final |-> Last(l).record, verified |-> Len(l)]
<1>1. i = 1 /\ o.key = o.record.controller /\ o \in StateOut
  BY StateOutputFacts DEF StateOut
<1>2. Run(l, o)
  BY LineagesRun DEF LineageRuns
<1>3. o.record.seq \in Nat
  BY <1>1 DEF StateOut, StateRecord
<1>4. l \in Seq(StateOut) /\ Len(l) \in Nat \ {0}
  <2> HIDE DEF l, o
  <2> QED
    BY <1>2, <1>3 DEF Run
<1>5. NoRecord \notin Range(l)
  <2> HIDE DEF l
  <2>1. NoRecord \notin StateOut
    BY RecordAssumption DEF StateOut
  <2>2. \A j \in DOMAIN l : l[j] \in StateOut
    BY <1>4
  <2> QED
    BY <2>1, <2>2 DEF Range
<1>6. Verify(n, o.record.row) = h
  BY <1>5 DEF Verify
<1> HIDE DEF l
<1>7. /\ DOMAIN s = 1 .. Len(l) /\ Len(s) = Len(l) /\ s \in Seq(DocState)
      /\ \A j \in 1 .. Len(l) : s[j] = l[j].record.state
  <2>1. \A j \in 1 .. Len(l) : l[j].record.state \in DocState
    <3>1. \A j \in 1 .. Len(l) : l[j] \in StateOut
      BY <1>4
    <3> QED
      BY <3>1 DEF StateOut, StateRecord
  <2> QED
    BY <1>4, <2>1
<1>8. Last(l) = o
  BY <1>2 DEF Run, Last
<1> HIDE DEF s, o
<1>9. h.states = s /\ h.final = o.record /\ h.verified = o.record.seq + 1
  BY <1>2, <1>8 DEF Run
<1>10. h # NoRecord
  <2>1. h \in [states : Seq(DocState), final : StateRecord, verified : Nat]
    BY <1>1, <1>4, <1>7, <1>8 DEF StateOut
  <2> QED
    BY <2>1, RecordAssumption
<1> HIDE DEF h
<1>11. s[1] = DocDef[o.record.type].initial
  BY <1>2, <1>4, <1>7 DEF Run
<1>12. ASSUME NEW j \in 1 .. Len(s) - 1
       PROVE  \E x \in Range(Transitions(o.record.type)) :
                  x[1] = s[j] /\ x[3] = s[j + 1]
  <2>1. s[j] = l[j].record.state /\ s[j + 1] = l[j + 1].record.state
        /\ j \in 1 .. Len(l) - 1
    BY <1>4, <1>7
  <2> QED
    BY <1>2, <2>1 DEF Run
<1> QED
  BY <1>1, <1>6, <1>9, <1>10, <1>11, <1>12 DEF o

-----------------------------------------------------------------------------
(* One state per document.                                                 *)

\* A forest on the numbers S in which nobody has two children: P is the
\* parent, 0 for a root, and G the root.
Forest(S, P, G) ==
    /\ S \subseteq Nat \ {0}
    /\ \A n \in S : \/ P[n] = 0 /\ G[n] = n
                    \/ P[n] \in S /\ P[n] < n /\ G[n] = G[P[n]]
    /\ \A n, m \in S : P[n] = P[m] /\ P[n] # 0 => n = m
Tips(S, P, G, g) == {n \in S : G[n] = g /\ \A m \in S : P[m] # n}

LEMMA RootIsOldest ==
    ASSUME NEW S, NEW P, NEW G, Forest(S, P, G), NEW n \in S
    PROVE  G[n] \in Nat /\ G[n] <= n
<1> DEFINE bad == {m \in S : ~(G[m] \in Nat /\ G[m] <= m)}
<1> SUFFICES ASSUME bad # {} PROVE FALSE
  OBVIOUS
<1>0. S \subseteq Nat \ {0}
  BY DEF Forest
<1>1. PICK m \in bad : \A k \in bad : m <= k
  BY <1>0, LeastNatural
<1>2. P[m] \in S /\ P[m] < m /\ G[m] = G[P[m]]
  BY <1>1 DEF Forest
<1>3. m \in Nat /\ P[m] \in Nat
  BY <1>0, <1>1, <1>2
<1>4. P[m] \notin bad
  <2> HIDE DEF bad
  <2> QED
    BY <1>1, <1>2, <1>3
<1>5. G[P[m]] \in Nat /\ G[P[m]] <= P[m]
  BY <1>2, <1>4
<1>6. G[m] \in Nat /\ G[m] <= m
  BY <1>2, <1>3, <1>5
<1> QED
  BY <1>1, <1>6

\* Of two members of a tree, the older has a child no younger than the other.
Forks(S, P, G, y) ==
    \A x \in S : x < y /\ G[x] = G[y] => \E k \in S : k <= y /\ P[k] = x
Branching(S, P, G) == \A y \in S : Forks(S, P, G, y)

LEMMA OlderHasChild ==
    ASSUME NEW S, NEW P, NEW G, Forest(S, P, G)
    PROVE  Branching(S, P, G)
<1> DEFINE bad == {n \in S : ~Forks(S, P, G, n)}
<1> SUFFICES ASSUME bad # {} PROVE FALSE
  BY DEF Branching
<1>1. S \subseteq Nat \ {0}
  BY DEF Forest
<1>2. PICK n \in bad : \A k \in bad : n <= k
  BY <1>1, LeastNatural
<1>3. PICK m \in S : /\ m < n /\ G[m] = G[n]
                     /\ ~ \E k \in S : k <= n /\ P[k] = m
  BY <1>2 DEF Forks
<1>4. P[n] \in S /\ P[n] < n /\ G[n] = G[P[n]]
  <2>1. G[m] <= m /\ G[m] \in Nat
    BY RootIsOldest
  <2>2. G[n] # n
    BY <1>1, <1>3, <2>1
  <2> QED
    BY <1>2, <2>2 DEF Forest
<1>5. n \in S /\ n \in Nat /\ m \in Nat /\ P[n] \in Nat /\ P[n] # 0
  BY <1>1, <1>2, <1>4
<1>6. ASSUME NEW j \in S, j < n PROVE Forks(S, P, G, j)
  <2>1. j \in Nat
    BY <1>1
  <2>2. j \notin bad
    <3> HIDE DEF bad
    <3> QED
      BY <1>2, <1>5, <1>6, <2>1
  <2> QED
    BY <2>2
<1> HIDE DEF bad
<1>7. CASE m = P[n]
  BY <1>3, <1>5, <1>7
<1>8. CASE m < P[n]
  <2>1. PICK k \in S : k <= P[n] /\ P[k] = m
    BY <1>3, <1>4, <1>6, <1>8 DEF Forks
  <2>2. k \in Nat
    BY <1>1
  <2>3. k <= n
    BY <1>4, <1>5, <2>1, <2>2
  <2> QED
    BY <1>3, <2>1, <2>3
<1>9. CASE P[n] < m
  <2>1. PICK k \in S : k <= m /\ P[k] = P[n]
    BY <1>3, <1>4, <1>6, <1>9 DEF Forks
  <2>2. k = n
    BY <1>5, <2>1 DEF Forest
  <2> QED
    BY <1>3, <1>5, <2>1, <2>2
<1> QED
  BY <1>5, <1>7, <1>8, <1>9

\* A tree has exactly one member without a child.
LEMMA OneTip ==
    ASSUME NEW N \in Nat, NEW S, S \subseteq 1 .. N, NEW P, NEW G,
           Forest(S, P, G), NEW g \in S, P[g] = 0
    PROVE  \E x \in S : Tips(S, P, G, g) = {x}
<1> DEFINE tree == {n \in S : G[n] = g}
<1>5. ASSUME NEW a \in S, NEW b \in S
      PROVE  a < b /\ G[a] = G[b] => \E k \in S : k <= b /\ P[k] = a
  <2>1. Branching(S, P, G)
    BY OlderHasChild
  <2> QED
    BY <2>1 DEF Branching, Forks
<1>1. g \in tree
  <2>1. G[g] = g
    BY DEF Forest
  <2> QED
    BY <2>1
<1>2. PICK x \in tree : \A y \in tree : y <= x
  <2>1. 1 .. N \subseteq 0 .. N /\ tree \subseteq S
    OBVIOUS
  <2>3. tree \subseteq 0 .. N
    BY <2>1
  <2> HIDE DEF tree
  <2> QED
    BY <1>1, <2>3, GreatestBelow
<1>3. x \in Tips(S, P, G, g)
  <2> SUFFICES ASSUME NEW m \in S, P[m] = x PROVE FALSE
    BY DEF Tips
  <2>1. m \in tree /\ x < m
    BY <1>2 DEF Forest
  <2> QED
    BY <1>2, <2>1
<1>4. ASSUME NEW y \in Tips(S, P, G, g), y # x PROVE FALSE
  <2>1. y \in tree /\ y < x
    BY <1>2, <1>4 DEF Tips
  <2>2. x \in S /\ y \in S /\ G[y] = G[x]
    BY <2>1
  <2> HIDE DEF tree
  <2>3. \E k \in S : k <= x /\ P[k] = y
    BY <1>5, <2>1, <2>2
  <2> QED
    BY <2>3 DEF Tips
<1> QED
  BY <1>3, <1>4 DEF Tips

\* The recursive definition of the genesis has a solution.
RootBody(row, r) ==
    [m \in DOMAIN txs |->
        LET o == RecordOn(m, row)
        IN  IF o = NoRecord \/ o.record.prev = 0 THEN m ELSE r[o.record.prev]]
Root(row) == CHOOSE r : r = RootBody(row, r)

LEMMA RootUnfolds ==
    ASSUME DocInv, NEW row
    PROVE  Root(row) = RootBody(row, Root(row))
<1> DEFINE N == Len(txs)
           rec == [m \in 1 .. N |-> RecordOn(m, row)]
           back == [m \in 1 .. N |->
                       IF rec[m] = NoRecord THEN 0 ELSE rec[m].record.prev]
           step == [m \in 1 .. N |-> [v \in Nat |->
                       IF rec[m] = NoRecord \/ rec[m].record.prev = 0 THEN m
                       ELSE v]]
<1>1. N \in Nat /\ DOMAIN txs = 1 .. N
  BY DEF DocInv, UtxoInv, UtxoShape
<1>2. \A m \in 1 .. N : rec[m] = RecordOn(m, row)
  OBVIOUS
<1>3. \A m \in 1 .. N : back[m] \in 0 .. m - 1
  BY <1>1, <1>2, RecordOnLooksBack
<1>4. \A m \in 1 .. N : \A v \in Nat : step[m][v] \in Nat
  BY <1>1
<1>5. PICK f : Follows(f, N, Nat, 0, back, step)
  <2> HIDE DEF back, step
  <2>1. StepsBack(N, Nat, 0, back, step)
    BY <1>3, <1>4 DEF StepsBack
  <2> QED
    BY <1>1, <2>1, LooksBack
<1> DEFINE r == [m \in DOMAIN txs |-> f[m]]
<1>6. ASSUME NEW m \in 1 .. N
      PROVE  r[m] = IF rec[m] = NoRecord \/ rec[m].record.prev = 0 THEN m
                    ELSE r[rec[m].record.prev]
  <2>1. f \in [0 .. N -> Nat] /\ back[m] \in 0 .. m - 1
    BY <1>3, <1>5 DEF Follows
  <2>2. f[back[m]] \in Nat
    BY <1>1, <2>1
  <2>3. f[m] = step[m][f[back[m]]]
    BY <1>5 DEF Follows
  <2>4. f[m] = IF rec[m] = NoRecord \/ rec[m].record.prev = 0 THEN m
               ELSE f[back[m]]
    <3> HIDE DEF rec, back
    <3> QED
      BY <2>2, <2>3
  <2>5. CASE rec[m] = NoRecord \/ rec[m].record.prev = 0
    BY <1>1, <2>4, <2>5
  <2>6. CASE ~(rec[m] = NoRecord \/ rec[m].record.prev = 0)
    <3>1. back[m] = rec[m].record.prev /\ back[m] \in DOMAIN txs
      BY <1>1, <2>1, <2>6
    <3> HIDE DEF rec, back
    <3> QED
      BY <1>1, <2>4, <2>6, <3>1
  <2> QED
    BY <2>5, <2>6
<1> HIDE DEF rec, back, step
<1>7. r = RootBody(row, r)
  BY <1>1, <1>2, <1>6 DEF RootBody
<1> HIDE DEF r
<1> QED
  BY <1>7 DEF Root

LEMMA GenesisUnfolds ==
    ASSUME DocInv, NEW n \in DOMAIN txs, StateOutputs(n) # {}
    PROVE  LET prev == txs[n].outs[1].record.prev
           IN  IF prev = 0 THEN Genesis(n, 1) = n
               ELSE Genesis(n, 1) = Genesis(prev, 1)
<1> DEFINE o == txs[n].outs[1]
           row == o.record.row
<1>1. /\ o # NoRecord
      /\ o.record.prev # 0 => /\ o.record.prev \in DOMAIN txs
                              /\ Continues(<<o.record.prev, 1>>, o.record)
  BY StateOutputFacts
<1>2. Genesis(n, 1) = Root(row)[n]
  BY DEF Genesis, Root, RootBody
<1>3. RecordOn(n, row) = o
  BY RecordOnIs
<1>4. Root(row)[n] = IF o.record.prev = 0 THEN n
                     ELSE Root(row)[o.record.prev]
  <2>1. Root(row) = RootBody(row, Root(row))
    BY RootUnfolds
  <2> HIDE DEF o, row
  <2>2. Root(row)[n] = RootBody(row, Root(row))[n]
    BY <2>1
  <2> QED
    BY <1>1, <1>3, <2>2 DEF RootBody
<1>5. o.record.prev # 0 => Genesis(o.record.prev, 1) = Root(row)[o.record.prev]
  <2> SUFFICES ASSUME o.record.prev # 0
               PROVE  Genesis(o.record.prev, 1) = Root(row)[o.record.prev]
    OBVIOUS
  <2>1. txs[o.record.prev].outs[1].record.row = row
    BY <1>1 DEF Continues, OutputAt
  <2>2. Genesis(o.record.prev, 1)
           = Root(txs[o.record.prev].outs[1].record.row)[o.record.prev]
    BY DEF Genesis, Root, RootBody
  <2> HIDE DEF row
  <2> QED
    BY <2>1, <2>2
<1> QED
  BY <1>2, <1>4, <1>5

LEMMA StatesSingle ==
    ASSUME DocInv
    PROVE  SingleState
<1> DEFINE S == {n \in DOMAIN txs : StateOutputs(n) # {}}
           P == [n \in S |-> txs[n].outs[1].record.prev]
           G == [n \in S |-> Genesis(n, 1)]
<1>1. Len(txs) \in Nat /\ DOMAIN txs = 1 .. Len(txs)
  BY DEF DocInv, UtxoInv, UtxoShape
<1>2. ASSUME NEW n \in S
      PROVE  /\ StateOutputs(n) = {1} /\ n \in DOMAIN txs
             /\ P[n] = txs[n].outs[1].record.prev
             /\ P[n] = 0 \/ /\ P[n] \in S /\ P[n] < n
                            /\ <<P[n], 1>> \in Range(txs[n].ins)
  <2>1. PICK i \in StateOutputs(n) : n \in DOMAIN txs
    OBVIOUS
  <2> DEFINE p == txs[n].outs[1].record.prev
  <2>2. /\ StateOutputs(n) = {1}
        /\ p # 0 => /\ p \in DOMAIN txs /\ p < n
                    /\ StateOutputs(p) = {1}
                    /\ <<p, 1>> \in Range(txs[n].ins)
    BY ZenonT(30), <2>1, StateOutputFacts
  <2> QED
    BY <2>1, <2>2
<1>3. Forest(S, P, G)
  <2>1. ASSUME NEW n \in S
        PROVE  \/ P[n] = 0 /\ G[n] = n
               \/ P[n] \in S /\ P[n] < n /\ G[n] = G[P[n]]
    <3>1. IF P[n] = 0 THEN Genesis(n, 1) = n
          ELSE Genesis(n, 1) = Genesis(P[n], 1)
      BY <1>2, GenesisUnfolds
    <3>2. G[n] = Genesis(n, 1) /\ (P[n] \in S => G[P[n]] = Genesis(P[n], 1))
      OBVIOUS
    <3> HIDE DEF S, P, G
    <3> QED
      BY <1>2, <3>1, <3>2
  <2>2. ASSUME NEW n \in S, NEW m \in S, P[n] = P[m], P[n] # 0
        PROVE  n = m
    <3>1. <<P[n], 1>> \in Range(txs[n].ins) \cap Range(txs[m].ins)
      <4> HIDE DEF S, P, G
      <4> QED
        BY <1>2, <2>2
    <3>2. n \in DOMAIN txs /\ m \in DOMAIN txs
      OBVIOUS
    <3> QED
      BY <3>1, <3>2 DEF DocInv, UtxoInv, SpentOnce
  <2>3. S \subseteq Nat \ {0}
    BY <1>1
  <2> HIDE DEF S, P, G
  <2> QED
    BY <2>1, <2>2, <2>3 DEF Forest
<1>4. ASSUME NEW n \in S
      PROVE  IsSpent(<<n, 1>>) <=> \E m \in S : P[m] = n
  <2>1. ASSUME IsSpent(<<n, 1>>) PROVE \E m \in S : P[m] = n
    <3>1. PICK m \in DOMAIN txs : <<n, 1>> \in Range(txs[m].ins)
      BY <2>1 DEF IsSpent
    <3>2. OutputAt(<<n, 1>>).record # NoRecord
      <4>1. 1 \in StateOutputs(n)
        BY ZenonT(30), <1>2
      <4> QED
        BY <4>1 DEF StateOutputs, OutputAt
    <3>3. <<n, 1>> \in StateInputs(m)
      BY <3>1, <3>2 DEF StateInputs
    <3>4. <<n, 1>> \in Predecessor(txs[m].outs)
      BY <3>3 DEF DocInv, LineInv
    <3>5. /\ 1 \in DOMAIN txs[m].outs /\ txs[m].outs[1].record # NoRecord
          /\ txs[m].outs[1].record.prev = n
      BY <3>4 DEF Predecessor
    <3>6. 1 \in StateOutputs(m)
      BY <3>5 DEF StateOutputs
    <3>7. m \in S
      BY <3>6
    <3> QED
      BY <3>5, <3>7
  <2>2. ASSUME NEW m \in S, P[m] = n PROVE IsSpent(<<n, 1>>)
    <3>1. n # 0
      BY <1>1
    <3> HIDE DEF S, P, G
    <3>2. m \in DOMAIN txs /\ <<n, 1>> \in Range(txs[m].ins)
      BY <1>2, <2>2, <3>1
    <3> QED
      BY <3>2 DEF IsSpent
  <2> QED
    BY <2>1, <2>2
<1> SUFFICES ASSUME NEW g \in DOMAIN txs, NEW k \in StateOutputs(g),
                    txs[g].outs[k].record.prev = 0
             PROVE  Cardinality({n \in DOMAIN txs : \E i \in StateOutputs(n) :
                            Genesis(n, i) = g /\ ~IsSpent(<<n, i>>)}) = 1
  BY DEF SingleState
<1>5. g \in S /\ P[g] = 0
  <2>1. g \in S
    <3>1. StateOutputs(g) # {}
      OBVIOUS
    <3> QED
      BY <3>1
  <2>2. k = 1
    <3>1. StateOutputs(g) = {1}
      BY <1>2, <2>1
    <3> QED
      BY <3>1
  <2> QED
    BY <2>1, <2>2
<1>6. {n \in DOMAIN txs : \E i \in StateOutputs(n) :
          Genesis(n, i) = g /\ ~IsSpent(<<n, i>>)} = Tips(S, P, G, g)
  <2>1. \A n \in S : G[n] = Genesis(n, 1)
    OBVIOUS
  <2>2. \A n \in DOMAIN txs : n \notin S => StateOutputs(n) = {}
    OBVIOUS
  <2> HIDE DEF S, P, G
  <2>3. ASSUME NEW n \in DOMAIN txs
        PROVE  (\E i \in StateOutputs(n) :
                   Genesis(n, i) = g /\ ~IsSpent(<<n, i>>))
               <=> n \in Tips(S, P, G, g)
    <3>1. CASE n \in S
      <4>1. StateOutputs(n) = {1} /\ G[n] = Genesis(n, 1)
        BY <1>2, <2>1, <3>1
      <4>2. (\E i \in StateOutputs(n) :
                Genesis(n, i) = g /\ ~IsSpent(<<n, i>>))
            <=> Genesis(n, 1) = g /\ ~IsSpent(<<n, 1>>)
        BY <4>1
      <4>3. IsSpent(<<n, 1>>) <=> \E m \in S : P[m] = n
        BY <1>4, <3>1
      <4> QED
        BY <3>1, <4>1, <4>2, <4>3 DEF Tips
    <3>2. CASE n \notin S
      BY <2>2, <3>2 DEF Tips
    <3> QED
      BY <3>1, <3>2
  <2>4. Tips(S, P, G, g) \subseteq DOMAIN txs
    BY <1>2 DEF Tips
  <2> QED
    BY <2>3, <2>4
<1>7. PICK x \in S : Tips(S, P, G, g) = {x}
  <2>1. S \subseteq 1 .. Len(txs)
    BY <1>1
  <2> HIDE DEF S, P, G
  <2> QED
    BY <1>1, <1>3, <1>5, <2>1, OneTip
<1> HIDE DEF S, P, G
<1>8. Cardinality({x}) = 1
  BY FS_Singleton
<1> QED
  BY <1>6, <1>7, <1>8

-----------------------------------------------------------------------------
LEMMA DocInitInv == DocInit => DocInv
<1> SUFFICES ASSUME DocInit
             PROVE  DocInv
  OBVIOUS
<1>1. UtxoInv(StateRecord)
  BY UtxoInitInv DEF DocInit
<1>2. StepsLegal /\ LineInv
  BY DEF DocInit, UtxoInit, StepsLegal, LineInv
<1> QED
  BY <1>1, <1>2 DEF DocInit, DocInv, DocsOnChain

LEMMA DocStepInv == DocInv /\ [DocNext]_docVars => DocInv'
<1> SUFFICES ASSUME DocInv, [DocNext]_docVars
             PROVE  DocInv'
  OBVIOUS
<1>1. CASE FundFromWallet /\ UNCHANGED docs
  BY <1>1, FundStep
<1>2. ASSUME NEW t \in DocType, NEW id \in ObjectID, NEW c \in Party,
             NEW body \in BodyHash, Originate(t, id, c, body)
      PROVE  DocInv'
  BY <1>2, OriginateMakes, MakesStep
<1>3. ASSUME NEW d \in docs, NEW event \in DocEvent, NEW c \in Party,
             Transition(d, event, c)
      PROVE  DocInv'
  BY <1>3, TransitionMakes, MakesStep DEF Follower
<1>4. CASE UNCHANGED docVars
  <2>1. UNCHANGED utxoVars /\ UNCHANGED docs
    BY <1>4 DEF docVars
  <2>2. UtxoInv(StateRecord)'
    BY <2>1, UtxoUnchanged DEF DocInv
  <2>3. DocsOnChain' /\ StepsLegal'
    <3>1. txs' = txs /\ docs' = docs /\ DocsOnChain /\ StepsLegal
      BY <2>1 DEF utxoVars, DocInv
    <3>2. DocsOnChain'
      <4>1. ASSUME NEW d \in docs
            PROVE  /\ OutExists(d.out)' /\ d.out[2] = 1
                   /\ Describes(d, OutputAt(d.out)')
        <5>1. OutExists(d.out) /\ d.out[2] = 1 /\ Describes(d, OutputAt(d.out))
          BY <3>1 DEF DocsOnChain
        <5>2. OutExists(d.out)' /\ OutputAt(d.out)' = OutputAt(d.out)
          BY <3>1, <5>1 DEF OutExists, OutputAt
        <5> QED
          BY <5>1, <5>2
      <4> QED
        BY <3>1, <4>1 DEF DocsOnChain
    <3>3. StepsLegal'
      <4>1. \A n : StateOutputs(n)' = StateOutputs(n)
        BY <3>1 DEF StateOutputs
      <4>2. ASSUME NEW o, NEW r PROVE Continues(o, r)' <=> Continues(o, r)
        <5>1. OutputAt(o)' = OutputAt(o)
          BY <3>1 DEF OutputAt
        <5> QED
          BY <5>1 DEF Continues
      <4> QED
        BY <3>1, <4>1, <4>2 DEF StepsLegal
    <3> QED
      BY <3>2, <3>3
  <2>4. LineInv'
    BY <2>1 DEF utxoVars, DocInv, LineInv, OneState, Predecessor, StateInputs,
                OutputAt
  <2> QED
    BY <2>1, <2>2, <2>3, <2>4 DEF DocInv
<1> QED
  BY <1>1, <1>2, <1>3, <1>4 DEF DocNext

\* What transactions, the fee output and handles satisfy together.
THEOREM DocInvariant == DocSpec => []DocInv
<1> QED
  BY DocInitInv, DocStepInv, PTL DEF DocSpec

\* Amounts stay unsigned and state outputs carry state records
\* (dfa.go:140-170, 324).
THEOREM DocTypeCorrect == DocSpec => []DocTypeOK
<1>1. DocInv => DocTypeOK
  <2> SUFFICES ASSUME DocInv
               PROVE  DocTypeOK
    OBVIOUS
  <2>1. UtxoTypeOK
    BY ShapeIsType DEF DocInv, UtxoInv
  <2>2. ASSUME NEW n \in DOMAIN txs, NEW i \in StateOutputs(n)
        PROVE  txs[n].outs[i].record \in StateRecord
    <3>1. txs[n] \in TxOf(StateRecord)
      BY DEF DocInv, UtxoInv, UtxoShape
    <3>2. txs[n].outs[i] \in OutputOf(StateRecord)
      BY <3>1 DEF TxOf, StateOutputs
    <3> QED
      BY <3>2 DEF OutputOf, StateOutputs
  <2> QED
    BY <2>1, <2>2 DEF DocInv, DocTypeOK
<1> QED
  BY <1>1, DocInvariant, PTL

\* Every state on the chain is an origination or a legal step from an output
\* that its transaction spent (dfa.go:336-381).
THEOREM StepsLegalTheorem == DocSpec => []StepsLegal
<1>1. DocInv => StepsLegal
  BY DEF DocInv
<1> QED
  BY <1>1, DocInvariant, PTL

\* Whatever handles callers use again and whichever calls fail, what Verify
\* rebuilds from a state output is a complete run of its document's automaton
\* that ends in it (dfa.go:336-381, 401-473).
THEOREM LegalHistoryTheorem == DocSpec => []LegalHistory
<1>1. DocInv => LegalHistory
  BY HistoriesLegal
<1> QED
  BY <1>1, DocInvariant, PTL

\* A document is in one state: exactly one of the outputs that descend from
\* an origination is unspent (dfa.go:359-366).
THEOREM SingleStateTheorem == DocSpec => []SingleState
<1>1. DocInv => SingleState
  BY StatesSingle
<1> QED
  BY <1>1, DocInvariant, PTL

-----------------------------------------------------------------------------
(* The consignment client.                                                 *)

\* Handles of the payment are payment notes.
NoteInv == \A d \in docs : d.row = "PAY" => d.type = "payment_note"

PaidInv == DocInv /\ NoteInv /\ PaidOnDelivery

-----------------------------------------------------------------------------
\* States are reached by the records of new outputs, and never undone.
LEMMA TakenReaches ==
    ASSUME DocInv,
           NEW claims \in Seq(Claim), NEW outs \in Seq(OutputOf(StateRecord)),
           Taken(claims, outs), NEW id, NEW s
    PROVE  /\ Reached(id, s) => (Reached(id, s))'
           /\ (Reached(id, s))' =>
                 \/ Reached(id, s)
                 \/ \E i \in DOMAIN outs :
                       /\ outs[i].record # NoRecord
                       /\ outs[i].record.row = id /\ outs[i].record.state = s
<1>1. /\ DOMAIN txs' = DOMAIN txs \cup {NewTxid}
      /\ \A n \in DOMAIN txs : txs'[n] = txs[n]
      /\ txs'[NewTxid].outs = outs
  BY TakenAppends DEF DocInv, UtxoInv
<1>2. Reached(id, s) => (Reached(id, s))'
  BY <1>1 DEF Reached, StateOutputs
<1>3. ASSUME (Reached(id, s))'
      PROVE  \/ Reached(id, s)
             \/ \E i \in DOMAIN outs :
                   /\ outs[i].record # NoRecord
                   /\ outs[i].record.row = id /\ outs[i].record.state = s
  <2>1. PICK n \in DOMAIN txs' : \E i \in DOMAIN txs'[n].outs :
           /\ txs'[n].outs[i].record # NoRecord
           /\ txs'[n].outs[i].record.row = id
           /\ txs'[n].outs[i].record.state = s
    BY <1>3 DEF Reached, StateOutputs
  <2>2. CASE n \in DOMAIN txs
    BY <1>1, <2>1, <2>2 DEF Reached, StateOutputs
  <2>3. CASE n = NewTxid
    BY <1>1, <2>1, <2>3
  <2> QED
    BY <1>1, <2>2, <2>3
<1> QED
  BY <1>2, <1>3

\* A handle is evidence of its state.
LEMMA HandleReached ==
    ASSUME DocInv, NEW d \in docs
    PROVE  Reached(d.row, d.state)
<1>1. d \in Doc /\ OutExists(d.out)
  BY DEF DocInv, DocsOnChain
<1>2. PICK prev \in 0 .. MaxTxs :
         OutputAt(d.out) = StateOutput(RecordOf(d, prev), d.controller, d.sats)
  BY DEF DocInv, DocsOnChain, Describes
<1>3. OutputAt(d.out).record = RecordOf(d, prev)
  BY <1>2 DEF StateOutput
<1>4. RecordOf(d, prev) # NoRecord
  BY <1>1, RecordType, RecordAssumption
<1>5. RecordOf(d, prev).row = d.row /\ RecordOf(d, prev).state = d.state
  BY DEF RecordOf
<1> QED
  BY <1>1, <1>3, <1>4, <1>5 DEF Reached, OutExists, OutputAt, StateOutputs

\* What a call that makes a document adds to the chain: its record alone,
\* and no handle if it fails.
Adds(d, claims, outs) ==
    /\ Taken(claims, outs)
    /\ d.out = <<NewTxid, 1>>
    /\ 1 \in DOMAIN outs /\ outs[1].record # NoRecord
    /\ \A i \in DOMAIN outs :
          \/ outs[i].record = NoRecord
          \/ /\ i = 1
             /\ outs[i].record.row = d.row /\ outs[i].record.state = d.state
             /\ outs[i].record.body = d.body
             /\ outs[i].record.controller = d.controller
    /\ docs' = docs \cup {d} \/ (AnswerLost /\ docs' = docs)
    /\ lost \subseteq lost'

LEMMA MakesAdds ==
    ASSUME DocInv, NEW d, NEW spent, Makes(d, spent)
    PROVE  \E claims \in Seq(Claim), outs \in Seq(OutputOf(StateRecord)) :
               Adds(d, claims, outs) /\ StateClaims(claims) = spent
<1>1. PICK claims \in Seq(Claim), outs \in Seq(OutputOf(StateRecord)) :
         /\ Taken(claims, outs) /\ Outcome(outs)
         /\ OneState(outs) /\ StateClaims(claims) = spent
         /\ d \in Doc /\ d.out = <<NewTxid, 1>>
         /\ 1 \in DOMAIN outs /\ Describes(d, outs[1])
         /\ docs' = docs \cup {d} \/ (AnswerLost /\ docs' = docs)
  BY DEF Makes
<1>2. PICK prev \in 0 .. MaxTxs :
         outs[1] = StateOutput(RecordOf(d, prev), d.controller, d.sats)
  BY <1>1 DEF Describes
<1>3. outs[1].record = RecordOf(d, prev)
  BY <1>2 DEF StateOutput
<1>4. RecordOf(d, prev) # NoRecord
  BY <1>1, RecordType, RecordAssumption
<1>5. ASSUME NEW i \in DOMAIN outs, outs[i].record # NoRecord
      PROVE  /\ i = 1
             /\ outs[i].record.row = d.row /\ outs[i].record.state = d.state
             /\ outs[i].record.body = d.body
             /\ outs[i].record.controller = d.controller
  <2>1. i = 1
    BY <1>1, <1>5 DEF OneState
  <2> QED
    BY <1>3, <2>1 DEF RecordOf
<1>6. lost \subseteq lost'
  BY <1>1 DEF Outcome, WalletMovesTo, AnswerLost
<1>7. Adds(d, claims, outs)
  BY <1>1, <1>3, <1>4, <1>5, <1>6 DEF Adds
<1> QED
  BY <1>1, <1>7

\* A call that makes a document of another object, or a payment note that is
\* not settled or rightly so, keeps the invariant.
LEMMA PaidStep ==
    ASSUME PaidInv, NEW d, NEW spent, Makes(d, spent),
           d.row = "PAY" => d.type = "payment_note",
           d.row = "PAY" /\ d.state = "SETTLED" =>
               Reached("CON", "ACCEPTED") /\ Reached("POD", "SIGNED")
    PROVE  PaidInv'
<1>1. PICK claims \in Seq(Claim), outs \in Seq(OutputOf(StateRecord)) :
         Adds(d, claims, outs)
  BY MakesAdds DEF PaidInv
<1>2. DocInv'
  BY MakesStep DEF PaidInv
<1>3. NoteInv'
  BY <1>1 DEF PaidInv, NoteInv, Adds
<1>4. \A id, s : /\ Reached(id, s) => (Reached(id, s))'
                 /\ (Reached(id, s))' =>
                       Reached(id, s) \/ (id = d.row /\ s = d.state)
  <2>1. Taken(claims, outs)
    BY <1>1 DEF Adds
  <2>2. \A i \in DOMAIN outs :
           \/ outs[i].record = NoRecord
           \/ outs[i].record.row = d.row /\ outs[i].record.state = d.state
    BY <1>1 DEF Adds
  <2> QED
    BY <2>1, <2>2, TakenReaches DEF PaidInv
<1>5. PaidOnDelivery'
  BY <1>4 DEF PaidInv, PaidOnDelivery
<1> QED
  BY <1>2, <1>3, <1>5 DEF PaidInv

\* A step that leaves the chain and the documents alone.
LEMMA StillStep ==
    ASSUME PaidInv, UNCHANGED docVars
    PROVE  PaidInv'
<1>1. UNCHANGED utxoVars /\ UNCHANGED docs
  BY DEF docVars
<1>2. DocInv'
  BY DocStepInv DEF PaidInv
<1> QED
  BY <1>1, <1>2 DEF utxoVars, PaidInv, NoteInv, PaidOnDelivery, Reached,
                    StateOutputs

LEMMA FundClientStep ==
    ASSUME PaidInv, FundClient
    PROVE  PaidInv'
<1>1. FundFromWallet /\ docs' = docs
  BY DEF FundClient
<1>2. DocInv'
  BY <1>1, FundStep DEF PaidInv
<1>3. Taken(<<>>, <<FeeOutput(Funding)>>)
  BY <1>1, FundingIsTaken
<1>4. FeeOutput(Funding) \in OutputOf(StateRecord)
  BY StateUtxoAssumption, FeeOutputType DEF Amount
<1>5. FeeOutput(Funding).record = NoRecord
  BY DEF FeeOutput
<1>6. PICK claims \in Seq(Claim), outs \in Seq(OutputOf(StateRecord)) :
         Taken(claims, outs) /\ \A i \in DOMAIN outs : outs[i].record = NoRecord
  <2>1. <<>> \in Seq(Claim) /\ <<FeeOutput(Funding)>> \in Seq(OutputOf(StateRecord))
    BY <1>4
  <2>2. \A i \in DOMAIN <<FeeOutput(Funding)>> :
           <<FeeOutput(Funding)>>[i].record = NoRecord
    BY <1>5
  <2> QED
    BY <1>3, <2>1, <2>2, Zenon
<1>7. \A id, s : Reached(id, s) <=> (Reached(id, s))'
  BY <1>6, TakenReaches DEF PaidInv
<1> QED
  BY <1>1, <1>2, <1>7 DEF PaidInv, NoteInv, PaidOnDelivery

-----------------------------------------------------------------------------
(* The calls of the client.                                                *)

LEMMA BeginStep ==
    ASSUME PaidInv, NEW id \in ObjectID, NEW t \in DocType, NEW c \in Party,
           NEW body \in BodyHash, Begin(id, t, c, body),
           id = "PAY" => t = "payment_note"
    PROVE  PaidInv'
<1>1. PICK d : /\ Makes(d, {}) /\ d.type = t /\ d.row = id
               /\ d.state = DocDef[t].initial
  BY OriginateMakes DEF Begin, PaidInv
<1>2. d.row = "PAY" => d.state # "SETTLED"
  BY <1>1, PaymentAssumption
<1> QED
  BY <1>1, <1>2, PaidStep

LEMMA FireStep ==
    ASSUME PaidInv, NEW id, NEW d \in Held(id), NEW event, NEW c \in Party,
           Transition(d, event, c),
           id = "PAY" =>
               \/ event = "instruct"
               \/ Reached("CON", "ACCEPTED") /\ Reached("POD", "SIGNED")
    PROVE  PaidInv'
<1>1. d \in docs /\ d.row = id
  BY DEF Held
<1>2. PICK nd : Follower(nd, d, event, c)
  BY <1>1, TransitionMakes DEF PaidInv
<1>3. nd.row = "PAY" => nd.type = "payment_note"
  BY <1>1, <1>2 DEF PaidInv, NoteInv, Follower
<1>4. nd.row = "PAY" /\ nd.state = "SETTLED" =>
          Reached("CON", "ACCEPTED") /\ Reached("POD", "SIGNED")
  BY <1>1, <1>2, <1>3, PaymentAssumption DEF Follower
<1>5. Makes(nd, {d.out})
  BY <1>2 DEF Follower
<1> QED
  BY <1>3, <1>4, <1>5, PaidStep

LEMMA FireSameStep ==
    ASSUME PaidInv, NEW id, NEW event, FireSame(id, event),
           id = "PAY" =>
               \/ event = "instruct"
               \/ Reached("CON", "ACCEPTED") /\ Reached("POD", "SIGNED")
    PROVE  PaidInv'
<1>1. PICK d \in Held(id) : Transition(d, event, d.controller)
  BY DEF FireSame
<1>2. d.controller \in Party
  BY DEF Held, PaidInv, DocInv, Doc
<1> QED
  BY <1>1, <1>2, FireStep

LEMMA InStateReached ==
    ASSUME PaidInv, NEW id, NEW s, InState(id, s)
    PROVE  Reached(id, s)
  BY HandleReached DEF InState, Held, PaidInv

LEMMA ClientStep == PaidInv /\ [ConsignmentNext]_consignmentVars => PaidInv'
<1> SUFFICES ASSUME PaidInv, [ConsignmentNext]_consignmentVars
             PROVE  PaidInv'
  OBVIOUS
<1>0. /\ {"payment_note", "consignment", "proof_of_delivery",
          "bill_of_lading"} \subseteq DocType
      /\ {"PAY", "CON", "POD", "BL"} \subseteq ObjectID
      /\ {Shipper, Carrier, Consignee, Seller} \subseteq Party
      /\ GoodsH4 \in BodyHash /\ NoBody \in BodyHash
  BY ConsignmentAssumption, DocumentAssumption DEF GoodsH4
<1>1. CASE FundClient
  BY <1>1, FundClientStep
<1>2. CASE PreparePayment
  BY <1>0, <1>2, BeginStep, FireSameStep DEF PreparePayment
<1>3. CASE StoreGoods \/ RegisterCustodian \/ TamperWithGoods
  BY <1>3, StillStep DEF StoreGoods, RegisterCustodian, TamperWithGoods
<1>4. CASE BeginConsignment
  BY <1>0, <1>4, BeginStep DEF BeginConsignment
<1>5. ASSUME NEW event \in DocEvent, Move(event)
      PROVE  PaidInv'
  BY <1>5, FireSameStep DEF Move
<1>6. CASE TransferCustody
  BY <1>0, <1>6, FireStep DEF TransferCustody
<1>7. CASE Deliver
  BY <1>0, <1>7, FireStep DEF Deliver, Fire
<1>8. CASE ProveDelivery
  BY <1>0, <1>8, BeginStep, FireSameStep DEF ProveDelivery
<1>9. CASE SettlePayment
  <2>1. Reached("CON", "ACCEPTED") /\ Reached("POD", "SIGNED")
    BY <1>9, InStateReached DEF SettlePayment
  <2> QED
    BY <1>9, <2>1, FireSameStep DEF SettlePayment
<1>10. CASE SettleConsignment
  BY <1>10, FireSameStep DEF SettleConsignment
<1>11. CASE PassTitle
  <2>1. CASE Begin("BL", "bill_of_lading", Shipper, GoodsH4)
    BY <1>0, <2>1, BeginStep
  <2>2. CASE Fire("BL", "endorse", Consignee)
    BY <1>0, <2>2, FireStep DEF Fire
  <2>3. CASE FireSame("BL", "surrender")
    BY <2>3, FireSameStep
  <2> QED
    BY <1>11, <2>1, <2>2, <2>3 DEF PassTitle
<1>12. CASE UNCHANGED consignmentVars
  BY <1>12, StillStep DEF consignmentVars
<1> QED
  BY <1>1, <1>2, <1>3, <1>4, <1>5, <1>6, <1>7, <1>8, <1>9, <1>10, <1>11,
     <1>12 DEF ConsignmentNext

\* The documents of the consignment are sound and paid for on delivery.
THEOREM PaidInvariant == ConsignmentSpec => []PaidInv
<1>1. ConsignmentInit => PaidInv
  <2> SUFFICES ASSUME ConsignmentInit
               PROVE  PaidInv
    OBVIOUS
  <2>1. DocInv
    BY DocInitInv DEF ConsignmentInit
  <2> QED
    BY <2>1 DEF ConsignmentInit, DocInit, UtxoInit, PaidInv, NoteInv,
                PaidOnDelivery, Reached
<1> QED
  BY <1>1, ClientStep, PTL DEF ConsignmentSpec

\* The payment note is settled only on chain evidence of acceptance and of a
\* signed proof of delivery (main.go:139-143).
THEOREM PaidOnDeliveryTheorem == ConsignmentSpec => []PaidOnDelivery
<1>1. PaidInv => PaidOnDelivery
  BY DEF PaidInv
<1> QED
  BY <1>1, PaidInvariant, PTL

\* Every state in the consignment is a legal step of its document
\* (dfa.go:336-381).
THEOREM ConsignmentLegal == ConsignmentSpec => []StepsLegal
<1>1. PaidInv => StepsLegal
  BY DEF PaidInv, DocInv
<1> QED
  BY <1>1, PaidInvariant, PTL

-----------------------------------------------------------------------------
(* Custody: the register follows the chain until delivery.                 *)

ConOnChain ==
    \E n \in DOMAIN txs : \E i \in StateOutputs(n) :
        txs[n].outs[i].record.row = "CON"

\* The consignment carries the hash of the goods, on the chain and in the
\* client's hands.
AnchorInv ==
    /\ \A d \in docs :
          d.row = "CON" => d.type = "consignment" /\ d.body = GoodsH4
    /\ \A n \in DOMAIN txs : \A i \in StateOutputs(n) :
          txs[n].outs[i].record.row = "CON" =>
              txs[n].outs[i].record.body = GoodsH4

\* The store holds the goods and nothing else, and before the consignment.
Entry == [h4 : {GoodsH4}, body : {TheGoods} \X Int, location : {TheLocation},
          owner : Party]
StoreInv ==
    /\ DOMAIN store \subseteq {GoodsH2} /\ store \in [DOMAIN store -> Entry]
    /\ ConOnChain => GoodsH2 \in DOMAIN store

\* Unless a call failed there is one standing consignment at most, and until
\* delivery it is under the registered owner or the one about to be.
Registered ==
    ~Reached("CON", "DELIVERED") =>
        \A o \in Standing("CON") :
            OutputAt(o).record.controller =
                IF dueOwner = Nobody THEN store[GoodsH2].owner ELSE dueOwner
CustodianInv ==
    /\ dueOwner \in Party \cup {Nobody}
    /\ dueOwner # Nobody => lost = {} /\ ConOnChain
    /\ ~ConOnChain => \A h \in DOMAIN store : store[h].owner = Shipper
    /\ lost = {} =>
          /\ ConOnChain => Begun("CON")
          /\ \A o, p \in Standing("CON") : o = p
          /\ Registered

CustodyInv == DocInv /\ AnchorInv /\ StoreInv /\ CustodianInv

\* What a handle says is on the chain.
LEMMA HandleOnChain ==
    ASSUME DocInv, NEW d \in docs
    PROVE  /\ d.out[1] \in DOMAIN txs /\ 1 \in StateOutputs(d.out[1])
           /\ d.out = <<d.out[1], 1>>
           /\ txs[d.out[1]].outs[1].record.row = d.row
           /\ txs[d.out[1]].outs[1].record.controller = d.controller
<1>1. d \in Doc /\ OutExists(d.out) /\ d.out[2] = 1
  BY DEF DocInv, DocsOnChain
<1>2. PICK prev \in 0 .. MaxTxs :
         OutputAt(d.out) = StateOutput(RecordOf(d, prev), d.controller, d.sats)
  BY DEF DocInv, DocsOnChain, Describes
<1>3. OutputAt(d.out).record = RecordOf(d, prev)
  BY <1>2 DEF StateOutput
<1>4. RecordOf(d, prev) # NoRecord
  BY <1>1, RecordType, RecordAssumption
<1>5. /\ RecordOf(d, prev).row = d.row
      /\ RecordOf(d, prev).controller = d.controller
  BY DEF RecordOf
<1>6. d.out = <<d.out[1], 1>>
  BY <1>1 DEF Doc, Outpoint
<1> QED
  BY <1>1, <1>3, <1>4, <1>5, <1>6 DEF OutExists, OutputAt, StateOutputs

\* The records of the chain after a transaction: the old ones and its own.
LEMMA TakenRecords ==
    ASSUME DocInv,
           NEW claims \in Seq(Claim), NEW outs \in Seq(OutputOf(StateRecord)),
           Taken(claims, outs), NEW n \in DOMAIN txs',
           NEW i \in DOMAIN txs'[n].outs, txs'[n].outs[i].record # NoRecord
    PROVE  \/ /\ n \in DOMAIN txs /\ i \in StateOutputs(n)
              /\ txs'[n].outs = txs[n].outs
           \/ /\ n = NewTxid /\ i \in DOMAIN outs
              /\ txs'[n].outs = outs
<1>1. /\ DOMAIN txs' = DOMAIN txs \cup {NewTxid}
      /\ \A m \in DOMAIN txs : txs'[m] = txs[m]
      /\ txs'[NewTxid].outs = outs
  BY TakenAppends DEF DocInv, UtxoInv
<1> QED
  BY <1>1 DEF StateOutputs

\* The standing outputs after it: old ones it does not spend, and its own.
LEMMA TakenStands ==
    ASSUME DocInv,
           NEW claims \in Seq(Claim), NEW outs \in Seq(OutputOf(StateRecord)),
           Taken(claims, outs), NEW id, NEW o \in (Standing(id))'
    PROVE  \/ /\ o \in Standing(id)
              /\ \A k \in DOMAIN claims : claims[k].out # o
              /\ (OutputAt(o))' = OutputAt(o)
           \/ /\ o = <<NewTxid, 1>>
              /\ 1 \in DOMAIN outs /\ outs[1].record # NoRecord
              /\ outs[1].record.row = id
              /\ (OutputAt(o))' = outs[1]
<1>1. /\ DOMAIN txs' = DOMAIN txs \cup {NewTxid}
      /\ \A m \in DOMAIN txs : txs'[m] = txs[m]
      /\ txs'[NewTxid].outs = outs
      /\ DOMAIN txs'[NewTxid].ins = DOMAIN claims
      /\ \A k \in DOMAIN claims : txs'[NewTxid].ins[k] = claims[k].out
  BY TakenAppends DEF DocInv, UtxoInv
<1>2. /\ o \in (DOMAIN txs') \X {1}
      /\ 1 \in DOMAIN txs'[o[1]].outs
      /\ txs'[o[1]].outs[1].record # NoRecord
      /\ (OutputAt(o))'.record.row = id
      /\ \A m \in DOMAIN txs' : o \notin Range(txs'[m].ins)
  BY DEF Standing, StateOutputs, IsSpent
<1>3. o = <<o[1], 1>> /\ o[1] \in DOMAIN txs' /\ o[2] = 1
  BY <1>2
<1>4. \A k \in DOMAIN claims : claims[k].out # o
  BY <1>1, <1>2 DEF Range
<1>5. CASE o[1] \in DOMAIN txs
  <2>1. (OutputAt(o))' = OutputAt(o)
    BY <1>1, <1>5 DEF OutputAt
  <2>2. ~IsSpent(o)
    BY <1>1, <1>2 DEF IsSpent
  <2>3. 1 \in StateOutputs(o[1])
    BY <1>1, <1>2, <1>5 DEF StateOutputs
  <2>4. o \in (DOMAIN txs) \X {1}
    BY <1>3, <1>5
  <2> QED
    BY <1>2, <1>4, <2>1, <2>2, <2>3, <2>4 DEF Standing
<1>6. CASE o[1] = NewTxid
  BY <1>1, <1>2, <1>3, <1>6 DEF OutputAt
<1> QED
  BY <1>1, <1>3, <1>5, <1>6

LEMMA AnchorStep ==
    ASSUME CustodyInv, NEW d, NEW spent, Makes(d, spent),
           d.row = "CON" => d.type = "consignment" /\ d.body = GoodsH4
    PROVE  /\ DocInv' /\ AnchorInv'
           /\ ConOnChain' => ConOnChain \/ d.row = "CON"
           /\ ConOnChain => ConOnChain'
<1>1. PICK claims \in Seq(Claim), outs \in Seq(OutputOf(StateRecord)) :
         Adds(d, claims, outs)
  BY MakesAdds DEF CustodyInv
<1>2. DocInv'
  BY MakesStep DEF CustodyInv
<1>3. Taken(claims, outs)
  BY <1>1 DEF Adds
<1>4. ASSUME NEW n \in DOMAIN txs', NEW i \in DOMAIN txs'[n].outs,
             txs'[n].outs[i].record # NoRecord,
             txs'[n].outs[i].record.row = "CON"
      PROVE  /\ txs'[n].outs[i].record.body = GoodsH4
             /\ ConOnChain \/ d.row = "CON"
  <2>1. CASE /\ n \in DOMAIN txs /\ i \in StateOutputs(n)
             /\ txs'[n].outs = txs[n].outs
    BY <1>4, <2>1 DEF CustodyInv, AnchorInv, ConOnChain
  <2>2. CASE n = NewTxid /\ i \in DOMAIN outs /\ txs'[n].outs = outs
    BY <1>1, <1>4, <2>2 DEF Adds
  <2> QED
    BY <1>3, <1>4, <2>1, <2>2, TakenRecords DEF CustodyInv
<1>5. AnchorInv'
  <2>1. \A e \in docs' :
           e.row = "CON" => e.type = "consignment" /\ e.body = GoodsH4
    BY <1>1 DEF CustodyInv, AnchorInv, Adds
  <2>2. GoodsH4' = GoodsH4
    BY DEF GoodsH4
  <2> QED
    BY <1>4, <2>1, <2>2 DEF AnchorInv, StateOutputs
<1>6. ConOnChain' => ConOnChain \/ d.row = "CON"
  BY <1>4 DEF ConOnChain, StateOutputs
<1>7. ConOnChain => ConOnChain'
  <2>1. /\ DOMAIN txs \subseteq DOMAIN txs'
        /\ \A m \in DOMAIN txs : txs'[m] = txs[m]
    BY <1>3, TakenAppends DEF CustodyInv, DocInv, UtxoInv
  <2> QED
    BY <2>1 DEF ConOnChain, StateOutputs
<1> QED
  BY <1>2, <1>5, <1>6, <1>7

LEMMA StoreStays ==
    ASSUME StoreInv, UNCHANGED store,
           ConOnChain' => ConOnChain \/ GoodsH2 \in DOMAIN store
    PROVE  StoreInv'
<1>1. GoodsH2' = GoodsH2 /\ Entry' = Entry
  BY DEF GoodsH2, GoodsH4, Entry
<1> QED
  BY <1>1 DEF StoreInv

\* A call for another document leaves custody alone.
LEMMA OtherDocument ==
    ASSUME CustodyInv, NEW d, NEW spent, Makes(d, spent), d.row # "CON",
           UNCHANGED store, UNCHANGED dueOwner,
           dueOwner = Nobody
    PROVE  CustodyInv'
<1>1. PICK claims \in Seq(Claim), outs \in Seq(OutputOf(StateRecord)) :
         Adds(d, claims, outs)
  BY MakesAdds DEF CustodyInv
<1>2. DocInv' /\ AnchorInv' /\ (ConOnChain' <=> ConOnChain)
  BY AnchorStep
<1>3. StoreInv'
  BY <1>2, StoreStays DEF CustodyInv
<1>4. /\ Taken(claims, outs) /\ lost \subseteq lost' /\ docs \subseteq docs'
      /\ \A i \in DOMAIN outs :
            outs[i].record = NoRecord \/ outs[i].record.row # "CON"
  BY <1>1 DEF Adds
<1>5. ASSUME NEW o \in (Standing("CON"))'
      PROVE  o \in Standing("CON") /\ (OutputAt(o))' = OutputAt(o)
  BY <1>4, TakenStands DEF CustodyInv
<1>6. Reached("CON", "DELIVERED") => (Reached("CON", "DELIVERED"))'
  BY <1>4, TakenReaches DEF CustodyInv
<1>7. GoodsH2' = GoodsH2
  BY DEF GoodsH2, GoodsH4
<1>8. ASSUME lost' = {}
      PROVE  /\ ConOnChain' => Begun("CON")'
             /\ \A o, p \in (Standing("CON"))' : o = p
             /\ Registered'
  <2>1. lost = {}
    BY <1>4, <1>8
  <2>2. Begun("CON") => Begun("CON")'
    BY <1>4 DEF Begun
  <2>3. Registered'
    BY <1>5, <1>6, <1>7, <2>1 DEF CustodyInv, CustodianInv, Registered
  <2> QED
    BY <1>2, <1>5, <2>1, <2>2, <2>3 DEF CustodyInv, CustodianInv
<1>9. CustodianInv'
  BY <1>2, <1>8 DEF CustodyInv, CustodianInv
<1> QED
  BY <1>2, <1>3, <1>9 DEF CustodyInv

\* Its origination: the goods are in the store, under the shipper.
LEMMA BeginConsignmentStep ==
    ASSUME CustodyInv, BeginConsignment
    PROVE  CustodyInv'
<1>1. /\ Ready /\ DOMAIN store # {} /\ ~Begun("CON")
      /\ Originate("consignment", "CON", Shipper, GoodsH4)
      /\ store' = store /\ dueOwner' = dueOwner
  BY DEF BeginConsignment, Begin, UnchangedGoods
<1>2. /\ "consignment" \in DocType /\ "CON" \in ObjectID /\ Shipper \in Party
      /\ GoodsH4 \in BodyHash
  BY ConsignmentAssumption DEF GoodsH4
<1>3. PICK d : /\ Makes(d, {}) /\ d.type = "consignment" /\ d.row = "CON"
               /\ d.controller = Shipper /\ d.body = GoodsH4
  BY <1>1, <1>2, OriginateMakes DEF CustodyInv
<1>4. PICK claims \in Seq(Claim), outs \in Seq(OutputOf(StateRecord)) :
         Adds(d, claims, outs)
  BY <1>3, MakesAdds DEF CustodyInv
<1>5. DocInv' /\ AnchorInv'
  BY <1>3, AnchorStep
<1>6. ~ConOnChain /\ lost = {} /\ dueOwner = Nobody
  BY <1>1 DEF Ready, CustodyInv, CustodianInv
<1>7. GoodsH2 \in DOMAIN store /\ store[GoodsH2].owner = Shipper
  BY <1>1, <1>6 DEF CustodyInv, StoreInv, CustodianInv
<1>8. StoreInv'
  BY <1>1, <1>7, StoreStays DEF CustodyInv
<1>9. (Standing("CON"))' \subseteq {<<NewTxid, 1>>}
      /\ \A o \in (Standing("CON"))' : (OutputAt(o))'.record.controller = Shipper
  <2>1. Standing("CON") = {}
    BY <1>6 DEF ConOnChain, Standing, StateOutputs, OutputAt
  <2>2. Taken(claims, outs) /\ outs[1].record.controller = Shipper
    BY <1>3, <1>4 DEF Adds
  <2> QED
    BY <2>1, <2>2, TakenStands DEF CustodyInv
<1>10. GoodsH2' = GoodsH2
  BY DEF GoodsH2, GoodsH4
<1>11. ASSUME lost' = {} PROVE Begun("CON")'
  <2>1. docs' = docs \cup {d}
    BY <1>4, <1>11 DEF Adds, AnswerLost
  <2> QED
    BY <1>3, <2>1 DEF Begun
<1>12. Registered'
  BY <1>1, <1>6, <1>7, <1>9, <1>10 DEF Registered
<1>13. CustodianInv'
  BY <1>1, <1>6, <1>9, <1>11, <1>12 DEF CustodyInv, CustodianInv
<1> QED
  BY <1>5, <1>8, <1>13 DEF CustodyInv

\* An event of the consignment keeps its controller, makes its new controller
\* the one to register, or delivers.
LEMMA ConsignmentEvent ==
    ASSUME CustodyInv, Ready, NEW d \in docs, d.row = "CON",
           NEW event, NEW c \in Party, Transition(d, event, c),
           UNCHANGED store,
           dueOwner' = IF lost' = {} /\ event = "custody_transfer" THEN c
                       ELSE Nobody,
           event = "custody_transfer" \/ event = "deliver" \/ c = d.controller
    PROVE  CustodyInv'
<1>1. PICK nd : Follower(nd, d, event, c)
  BY TransitionMakes DEF CustodyInv
<1>2. /\ Makes(nd, {d.out}) /\ nd.row = "CON" /\ nd.controller = c
      /\ nd.body = d.body /\ nd.type = d.type
  BY <1>1 DEF Follower
<1>3. d.type = "consignment" /\ d.body = GoodsH4
  BY DEF CustodyInv, AnchorInv
<1>4. PICK claims \in Seq(Claim), outs \in Seq(OutputOf(StateRecord)) :
         Adds(nd, claims, outs) /\ StateClaims(claims) = {d.out}
  BY <1>2, MakesAdds DEF CustodyInv
<1>5. DocInv' /\ AnchorInv' /\ (ConOnChain => ConOnChain')
  BY <1>2, <1>3, AnchorStep
<1>6. /\ d.out[1] \in DOMAIN txs /\ 1 \in StateOutputs(d.out[1])
      /\ d.out = <<d.out[1], 1>>
      /\ txs[d.out[1]].outs[1].record.row = "CON"
      /\ txs[d.out[1]].outs[1].record.controller = d.controller
  BY HandleOnChain DEF CustodyInv
<1>7. ConOnChain /\ lost = {} /\ dueOwner = Nobody
  BY <1>6 DEF ConOnChain, Ready
<1>8. StoreInv'
  BY <1>7, StoreStays DEF CustodyInv
<1>9. d.out \in Standing("CON")
  <2>1. ~IsSpent(d.out)
    BY <1>4 DEF Adds, Taken, StateClaims
  <2>2. d.out \in (DOMAIN txs) \X {1}
    <3>1. PICK n \in DOMAIN txs : n = d.out[1]
      BY <1>6
    <3>2. d.out = <<n, 1>>
      BY <1>6, <3>1
    <3> QED
      BY <3>1, <3>2
  <2>3. OutputAt(d.out).record.row = "CON"
    BY <1>6 DEF OutputAt
  <2> QED
    BY <1>6, <2>1, <2>2, <2>3 DEF Standing
<1>10. \A o \in Standing("CON") : o = d.out
  BY <1>7, <1>9 DEF CustodyInv, CustodianInv
<1>11. \A o \in (Standing("CON"))' :
          o = <<NewTxid, 1>> /\ (OutputAt(o))'.record.controller = c
  <2>1. \E k \in DOMAIN claims : claims[k].out = d.out
    BY <1>4 DEF StateClaims
  <2>2. Taken(claims, outs) /\ outs[1].record.controller = c
    BY <1>2, <1>4 DEF Adds
  <2> QED
    BY <1>10, <2>1, <2>2, TakenStands DEF CustodyInv
<1>12. GoodsH2' = GoodsH2
  BY DEF GoodsH2, GoodsH4
<1>13. ASSUME lost' = {} PROVE Begun("CON")'
  <2>1. docs \subseteq docs'
    BY <1>4 DEF Adds
  <2> QED
    BY <2>1 DEF Begun
<1>14. ASSUME lost' = {} PROVE Registered'
  <2>1. CASE event = "custody_transfer"
    <3>1. dueOwner' = c /\ c # Nobody
      BY <1>14, <2>1, ConsignmentAssumption
    <3> QED
      BY <1>11, <3>1 DEF Registered
  <2>2. CASE event = "deliver"
    <3>1. nd.state = "DELIVERED"
      BY <1>1, <1>3, <2>2, DeliveryAssumption DEF Follower
    <3>2. /\ 1 \in DOMAIN outs /\ outs[1].record # NoRecord
          /\ outs[1].record.row = "CON" /\ outs[1].record.state = "DELIVERED"
      BY <1>2, <1>4, <3>1 DEF Adds
    <3>3. NewTxid \in DOMAIN txs' /\ txs'[NewTxid].outs = outs
      BY <1>4, TakenAppends DEF Adds, CustodyInv, DocInv, UtxoInv
    <3>4. (Reached("CON", "DELIVERED"))'
      <4>1. PICK n : n = NewTxid
        OBVIOUS
      <4>2. n \in DOMAIN txs' /\ txs'[n].outs = outs
        BY <3>3, <4>1
      <4>3. 1 \in (StateOutputs(n))'
        BY <3>2, <4>2 DEF StateOutputs
      <4> QED
        BY <3>2, <4>2, <4>3 DEF Reached
    <3> QED
      BY <3>4 DEF Registered
  <2>3. CASE event # "custody_transfer" /\ c = d.controller
    <3>1. Reached("CON", "DELIVERED") => (Reached("CON", "DELIVERED"))'
      BY <1>4, TakenReaches DEF Adds, CustodyInv
    <3>2. ~Reached("CON", "DELIVERED") =>
              store[GoodsH2].owner = d.controller
      BY <1>6, <1>7, <1>9 DEF CustodyInv, CustodianInv, Registered, OutputAt
    <3>3. dueOwner' = Nobody
      BY <2>3
    <3> QED
      BY <1>11, <1>12, <2>3, <3>1, <3>2, <3>3 DEF Registered
  <2> QED
    BY <2>1, <2>2, <2>3
<1>15. dueOwner' \in Party \cup {Nobody}
       /\ (dueOwner' # Nobody => lost' = {} /\ ConOnChain')
  BY <1>5, <1>7
<1>16. CustodianInv'
  BY <1>5, <1>7, <1>11, <1>13, <1>14, <1>15 DEF CustodianInv
<1> QED
  BY <1>5, <1>8, <1>16 DEF CustodyInv

\* A step that leaves the chain and the documents alone.
LEMMA ChainStill ==
    ASSUME CustodyInv, UNCHANGED docVars
    PROVE  /\ DocInv' /\ AnchorInv' /\ (ConOnChain' <=> ConOnChain)
           /\ lost' = lost /\ (Begun("CON")' <=> Begun("CON"))
           /\ (Standing("CON"))' = Standing("CON")
           /\ \A o : (OutputAt(o))' = OutputAt(o)
           /\ (Reached("CON", "DELIVERED"))' <=> Reached("CON", "DELIVERED")
           /\ GoodsH2' = GoodsH2 /\ Entry' = Entry
<1>1. txs' = txs /\ lost' = lost /\ docs' = docs
  BY DEF docVars, utxoVars
<1>2. DocInv'
  BY DocStepInv DEF CustodyInv
<1>3. GoodsH4' = GoodsH4 /\ GoodsH2' = GoodsH2 /\ Entry' = Entry
  BY DEF GoodsH2, GoodsH4, Entry
<1>4. AnchorInv'
  BY <1>1, <1>3 DEF CustodyInv, AnchorInv, StateOutputs
<1> QED
  BY <1>1, <1>2, <1>3, <1>4
     DEF ConOnChain, Begun, Standing, OutputAt, IsSpent, StateOutputs, Reached

LEMMA StoreGoodsStep ==
    ASSUME CustodyInv, StoreGoods
    PROVE  CustodyInv'
<1>1. /\ Ready /\ DOMAIN store = {} /\ UNCHANGED docVars /\ dueOwner' = dueOwner
      /\ PutGoods(<<TheGoods, 0>>, TheLocation, Shipper)
  BY DEF StoreGoods
<1>2. /\ DocInv' /\ AnchorInv' /\ (ConOnChain' <=> ConOnChain)
      /\ lost' = lost /\ (Begun("CON")' <=> Begun("CON"))
      /\ (Standing("CON"))' = Standing("CON")
      /\ \A o : (OutputAt(o))' = OutputAt(o)
      /\ GoodsH2' = GoodsH2 /\ Entry' = Entry
  BY <1>1, ChainStill
<1>3. ~ConOnChain /\ Standing("CON") = {} /\ dueOwner = Nobody
  <2>1. ~ConOnChain
    BY <1>1 DEF CustodyInv, StoreInv
  <2> QED
    BY <1>1, <2>1 DEF Ready, ConOnChain, Standing, StateOutputs, OutputAt
<1>4. /\ DOMAIN store' = {GoodsH2}
      /\ store' \in [{GoodsH2} -> Entry] /\ store'[GoodsH2].owner = Shipper
  <2>1. Shipper \in Party
    BY ConsignmentAssumption
  <2>2. store' = [x \in {GoodsH2} |->
                    [h4 |-> GoodsH4, body |-> <<TheGoods, 0>>,
                     location |-> TheLocation, owner |-> Shipper]]
    BY <1>1 DEF PutGoods, GoodsH2, GoodsH4
  <2>3. [h4 |-> GoodsH4, body |-> <<TheGoods, 0>>,
         location |-> TheLocation, owner |-> Shipper] \in Entry
    BY <2>1 DEF Entry
  <2> QED
    BY <2>2, <2>3
<1>5. StoreInv'
  BY <1>2, <1>4 DEF StoreInv
<1>6. CustodianInv'
  BY <1>1, <1>2, <1>3, <1>4 DEF CustodyInv, CustodianInv, Registered
<1> QED
  BY <1>2, <1>5, <1>6 DEF CustodyInv

LEMMA RegisterStep ==
    ASSUME CustodyInv, RegisterCustodian
    PROVE  CustodyInv'
<1>1. /\ dueOwner # Nobody /\ UNCHANGED docVars /\ dueOwner' = Nobody
      /\ UpdateOwner(GoodsH2, dueOwner)
  BY DEF RegisterCustodian
<1>2. /\ DocInv' /\ AnchorInv' /\ (ConOnChain' <=> ConOnChain)
      /\ lost' = lost /\ (Begun("CON")' <=> Begun("CON"))
      /\ (Standing("CON"))' = Standing("CON")
      /\ \A o : (OutputAt(o))' = OutputAt(o)
      /\ (Reached("CON", "DELIVERED"))' <=> Reached("CON", "DELIVERED")
      /\ GoodsH2' = GoodsH2 /\ Entry' = Entry
  BY <1>1, ChainStill
<1>3. /\ dueOwner \in Party /\ ConOnChain /\ GoodsH2 \in DOMAIN store
      /\ DOMAIN store = {GoodsH2} /\ store[GoodsH2] \in Entry
  BY <1>1 DEF CustodyInv, CustodianInv, StoreInv
<1>4. store' = [store EXCEPT ![GoodsH2].owner = dueOwner]
  BY <1>1, <1>3 DEF UpdateOwner
<1>5. /\ DOMAIN store' = {GoodsH2}
      /\ store' \in [{GoodsH2} -> Entry] /\ store'[GoodsH2].owner = dueOwner
  <2>1. [store[GoodsH2] EXCEPT !.owner = dueOwner] \in Entry
    BY <1>3 DEF Entry
  <2>2. store' = [x \in {GoodsH2} |-> [store[GoodsH2] EXCEPT !.owner = dueOwner]]
    <3>1. store \in [{GoodsH2} -> Entry]
      BY <1>3 DEF CustodyInv, StoreInv
    <3> QED
      BY <1>4, <3>1
  <2>3. [store[GoodsH2] EXCEPT !.owner = dueOwner].owner = dueOwner
    BY <1>3 DEF Entry
  <2> QED
    BY <2>1, <2>2, <2>3
<1>6. StoreInv'
  BY <1>2, <1>5 DEF StoreInv
<1>7. CustodianInv'
  BY <1>1, <1>2, <1>3, <1>5 DEF CustodyInv, CustodianInv, Registered
<1> QED
  BY <1>2, <1>6, <1>7 DEF CustodyInv

LEMMA TamperStep ==
    ASSUME CustodyInv, TamperWithGoods
    PROVE  CustodyInv'
<1>1. /\ UNCHANGED docVars /\ dueOwner' = dueOwner /\ GoodsH2 \in DOMAIN store
      /\ store' = [store EXCEPT ![GoodsH2].body = <<@[1], @[2] + 1>>]
  BY DEF TamperWithGoods, Tamper
<1>2. /\ DocInv' /\ AnchorInv' /\ (ConOnChain' <=> ConOnChain)
      /\ lost' = lost /\ (Begun("CON")' <=> Begun("CON"))
      /\ (Standing("CON"))' = Standing("CON")
      /\ \A o : (OutputAt(o))' = OutputAt(o)
      /\ (Reached("CON", "DELIVERED"))' <=> Reached("CON", "DELIVERED")
      /\ GoodsH2' = GoodsH2 /\ Entry' = Entry
  BY <1>1, ChainStill
<1> DEFINE old == store[GoodsH2]
           new == [old EXCEPT !.body = <<old.body[1], old.body[2] + 1>>]
<1>3. /\ DOMAIN store = {GoodsH2} /\ store \in [{GoodsH2} -> Entry]
      /\ old \in Entry
  BY <1>1 DEF CustodyInv, StoreInv
<1>4. new \in Entry /\ new.owner = old.owner
  <2>1. <<old.body[1], old.body[2] + 1>> \in {TheGoods} \X Int
    BY <1>3 DEF Entry
  <2> HIDE DEF old
  <2> QED
    BY <1>3, <2>1 DEF Entry
<1>5. store' = [x \in {GoodsH2} |-> new]
  BY <1>1, <1>3
<1> HIDE DEF new
<1>6. /\ DOMAIN store' = {GoodsH2} /\ store' \in [{GoodsH2} -> Entry]
      /\ store'[GoodsH2].owner = store[GoodsH2].owner
  BY <1>4, <1>5
<1>7. StoreInv'
  BY <1>2, <1>6 DEF StoreInv
<1>8. CustodianInv'
  BY <1>1, <1>2, <1>3, <1>6 DEF CustodyInv, CustodianInv, Registered
<1> QED
  BY <1>2, <1>7, <1>8 DEF CustodyInv

LEMMA FundCustody ==
    ASSUME CustodyInv, FundClient
    PROVE  CustodyInv'
<1>1. /\ Ready /\ FundFromWallet /\ docs' = docs
      /\ store' = store /\ dueOwner' = dueOwner
  BY DEF FundClient, UnchangedGoods
<1>2. DocInv'
  BY <1>1, FundStep DEF CustodyInv
<1>3. FeeOutput(Funding) \in OutputOf(StateRecord)
      /\ FeeOutput(Funding).record = NoRecord
  BY StateUtxoAssumption, FeeOutputType DEF Amount, FeeOutput
<1>4. PICK claims \in Seq(Claim), outs \in Seq(OutputOf(StateRecord)) :
         /\ Taken(claims, outs) /\ Outcome(outs)
         /\ \A i \in DOMAIN outs : outs[i].record = NoRecord
  <2>1. <<>> \in Seq(Claim) /\ <<FeeOutput(Funding)>> \in Seq(OutputOf(StateRecord))
    BY <1>3
  <2>2. \A i \in DOMAIN <<FeeOutput(Funding)>> :
           <<FeeOutput(Funding)>>[i].record = NoRecord
    BY <1>3
  <2>3. Taken(<<>>, <<FeeOutput(Funding)>>) /\ Outcome(<<FeeOutput(Funding)>>)
    BY <1>1, FundingIsTaken
  <2> QED
    BY <2>1, <2>2, <2>3, Zenon
<1>5. ASSUME NEW n \in DOMAIN txs', NEW i \in DOMAIN txs'[n].outs,
             txs'[n].outs[i].record # NoRecord
      PROVE  /\ n \in DOMAIN txs /\ i \in StateOutputs(n)
             /\ txs'[n].outs = txs[n].outs
  BY <1>4, <1>5, TakenRecords DEF CustodyInv
<1>6. AnchorInv' /\ (ConOnChain' => ConOnChain)
  <2>1. GoodsH4' = GoodsH4
    BY DEF GoodsH4
  <2> QED
    BY <1>1, <1>5, <2>1
       DEF CustodyInv, AnchorInv, ConOnChain, StateOutputs
<1>7. ConOnChain => ConOnChain'
  <2>1. /\ DOMAIN txs \subseteq DOMAIN txs'
        /\ \A m \in DOMAIN txs : txs'[m] = txs[m]
    BY <1>4, TakenAppends DEF CustodyInv, DocInv, UtxoInv
  <2> QED
    BY <2>1 DEF ConOnChain, StateOutputs
<1>8. StoreInv'
  BY <1>1, <1>6, StoreStays DEF CustodyInv
<1>9. \A o \in (Standing("CON"))' :
         o \in Standing("CON") /\ (OutputAt(o))' = OutputAt(o)
  BY <1>4, TakenStands DEF CustodyInv
<1>10. Reached("CON", "DELIVERED") => (Reached("CON", "DELIVERED"))'
  BY <1>4, TakenReaches DEF CustodyInv
<1>11. lost \subseteq lost' /\ (Begun("CON") => Begun("CON")')
  BY <1>1, <1>4 DEF Begun, Outcome, WalletMovesTo, AnswerLost
<1>12. GoodsH2' = GoodsH2 /\ dueOwner = Nobody
  BY <1>1 DEF GoodsH2, GoodsH4, Ready
<1>13. ASSUME lost' = {} PROVE Registered'
  <2>1. lost = {}
    BY <1>11, <1>13
  <2> QED
    BY <1>1, <1>9, <1>10, <1>12, <2>1 DEF CustodyInv, CustodianInv, Registered
<1>14. CustodianInv'
  BY <1>1, <1>6, <1>7, <1>9, <1>11, <1>12, <1>13 DEF CustodyInv, CustodianInv
<1> QED
  BY <1>2, <1>6, <1>8, <1>14 DEF CustodyInv

LEMMA BeginOther ==
    ASSUME CustodyInv, Ready, NEW id \in ObjectID, NEW t \in DocType,
           NEW c \in Party, NEW body \in BodyHash, Begin(id, t, c, body),
           id # "CON"
    PROVE  CustodyInv'
<1>1. PICK d : Makes(d, {}) /\ d.row = id
  BY OriginateMakes DEF Begin, CustodyInv
<1> QED
  BY <1>1, OtherDocument DEF Begin, UnchangedGoods, Ready

LEMMA FireOther ==
    ASSUME CustodyInv, Ready, NEW id, id # "CON", NEW d \in Held(id),
           NEW event, NEW c \in Party, Transition(d, event, c), UnchangedGoods
    PROVE  CustodyInv'
<1>1. d \in docs /\ d.row = id
  BY DEF Held
<1>2. PICK nd : Follower(nd, d, event, c)
  BY <1>1, TransitionMakes DEF CustodyInv
<1>3. Makes(nd, {d.out}) /\ nd.row = id
  BY <1>1, <1>2 DEF Follower
<1> QED
  BY <1>3, OtherDocument DEF UnchangedGoods, Ready

LEMMA FireSameOther ==
    ASSUME CustodyInv, Ready, NEW id, id # "CON", NEW event,
           FireSame(id, event)
    PROVE  CustodyInv'
<1>1. PICK d \in Held(id) : Transition(d, event, d.controller) /\ UnchangedGoods
  BY DEF FireSame
<1>2. d.controller \in Party
  BY DEF Held, CustodyInv, DocInv, Doc
<1> QED
  BY <1>1, <1>2, FireOther

LEMMA FireSameConsignment ==
    ASSUME CustodyInv, Ready, NEW event, event # "custody_transfer",
           FireSame("CON", event)
    PROVE  CustodyInv'
<1>1. PICK d \in Held("CON") :
         Transition(d, event, d.controller) /\ UnchangedGoods
  BY DEF FireSame
<1>2. d \in docs /\ d.row = "CON" /\ d.controller \in Party
  BY DEF Held, CustodyInv, DocInv, Doc
<1>3. store' = store /\ dueOwner' = Nobody
  BY <1>1 DEF UnchangedGoods, Ready
<1> QED
  BY <1>1, <1>2, <1>3, ConsignmentEvent

LEMMA CustodyStep == CustodyInv /\ [ConsignmentNext]_consignmentVars => CustodyInv'
<1> SUFFICES ASSUME CustodyInv, [ConsignmentNext]_consignmentVars
             PROVE  CustodyInv'
  OBVIOUS
<1>0. /\ {"payment_note", "consignment", "proof_of_delivery",
          "bill_of_lading"} \subseteq DocType
      /\ {"PAY", "CON", "POD", "BL"} \subseteq ObjectID
      /\ {Shipper, Carrier, Consignee, Seller} \subseteq Party
      /\ GoodsH4 \in BodyHash /\ NoBody \in BodyHash
  BY ConsignmentAssumption, DocumentAssumption DEF GoodsH4
<1>1. CASE FundClient
  BY <1>1, FundCustody
<1>2. CASE PreparePayment
  BY <1>0, <1>2, BeginOther, FireSameOther DEF PreparePayment
<1>3. CASE StoreGoods
  BY <1>3, StoreGoodsStep
<1>4. CASE BeginConsignment
  BY <1>4, BeginConsignmentStep
<1>5. ASSUME NEW event \in DocEvent, Move(event)
      PROVE  CustodyInv'
  BY <1>5, FireSameConsignment DEF Move
<1>6. CASE TransferCustody
  <2>1. PICK d \in Held("CON") : Transition(d, "custody_transfer", Carrier)
    BY <1>6 DEF TransferCustody
  <2>2. d \in docs /\ d.row = "CON"
    BY DEF Held
  <2>3. /\ Ready /\ store' = store
        /\ dueOwner' = IF lost' = {} THEN Carrier ELSE Nobody
    BY <1>6 DEF TransferCustody
  <2> QED
    BY <1>0, <2>1, <2>2, <2>3, ConsignmentEvent
<1>7. CASE RegisterCustodian
  BY <1>7, RegisterStep
<1>8. CASE Deliver
  <2>1. PICK d \in Held("CON") :
           Transition(d, "deliver", Consignee) /\ UnchangedGoods
    BY <1>8 DEF Deliver, Fire
  <2>2. d \in docs /\ d.row = "CON"
    BY DEF Held
  <2>3. Ready /\ store' = store /\ dueOwner' = Nobody
    BY <1>8, <2>1 DEF Deliver, UnchangedGoods, Ready
  <2> QED
    BY <1>0, <2>1, <2>2, <2>3, ConsignmentEvent
<1>9. CASE ProveDelivery
  BY <1>0, <1>9, BeginOther, FireSameOther DEF ProveDelivery
<1>10. CASE SettlePayment
  BY <1>10, FireSameOther DEF SettlePayment
<1>11. CASE SettleConsignment
  BY <1>11, FireSameConsignment DEF SettleConsignment
<1>12. CASE PassTitle
  <2>1. CASE Begin("BL", "bill_of_lading", Shipper, GoodsH4)
    BY <1>0, <1>12, <2>1, BeginOther DEF PassTitle
  <2>2. CASE Fire("BL", "endorse", Consignee)
    BY <1>0, <1>12, <2>2, FireOther DEF Fire, PassTitle
  <2>3. CASE FireSame("BL", "surrender")
    BY <1>12, <2>3, FireSameOther DEF PassTitle
  <2> QED
    BY <1>12, <2>1, <2>2, <2>3 DEF PassTitle
<1>13. CASE TamperWithGoods
  BY <1>13, TamperStep
<1>14. CASE UNCHANGED consignmentVars
  <2>1. UNCHANGED docVars /\ store' = store /\ dueOwner' = dueOwner
    BY <1>14 DEF consignmentVars
  <2>2. /\ DocInv' /\ AnchorInv' /\ (ConOnChain' <=> ConOnChain)
        /\ lost' = lost /\ (Begun("CON")' <=> Begun("CON"))
        /\ (Standing("CON"))' = Standing("CON")
        /\ \A o : (OutputAt(o))' = OutputAt(o)
        /\ (Reached("CON", "DELIVERED"))' <=> Reached("CON", "DELIVERED")
        /\ GoodsH2' = GoodsH2
    BY <2>1, ChainStill
  <2>3. StoreInv'
    BY <2>1, <2>2, StoreStays DEF CustodyInv
  <2>4. CustodianInv'
    BY <2>1, <2>2 DEF CustodyInv, CustodianInv, Registered
  <2> QED
    BY <2>2, <2>3, <2>4 DEF CustodyInv
<1> QED
  BY <1>1, <1>2, <1>3, <1>4, <1>5, <1>6, <1>7, <1>8, <1>9, <1>10, <1>11,
     <1>12, <1>13, <1>14 DEF ConsignmentNext

\* What the chain, the client's handles and the store satisfy together.
THEOREM CustodyInvariant == ConsignmentSpec => []CustodyInv
<1>1. ConsignmentInit => CustodyInv
  <2> SUFFICES ASSUME ConsignmentInit
               PROVE  CustodyInv
    OBVIOUS
  <2>1. DocInv
    BY DocInitInv DEF ConsignmentInit
  <2>2. txs = <<>> /\ docs = {} /\ store = [x \in {} |-> x] /\ dueOwner = Nobody
    BY DEF ConsignmentInit, DocInit, UtxoInit, GoodsInit
  <2>3. DOMAIN store = {} /\ store \in [DOMAIN store -> Entry]
    BY <2>2
  <2>4. ~ConOnChain /\ Standing("CON") = {}
    BY <2>2 DEF ConOnChain, Standing
  <2> QED
    BY <2>1, <2>2, <2>3, <2>4
       DEF CustodyInv, AnchorInv, StoreInv, CustodianInv, Registered
<1> QED
  BY <1>1, CustodyStep, PTL DEF ConsignmentSpec

\* The consignment that stands on the chain.
LEMMA StandingIsReal ==
    ASSUME Standing("CON") # {}
    PROVE  /\ ConOnChain
           /\ \E o \in Standing("CON") :
                 /\ StandingRecord("CON") = OutputAt(o).record
                 /\ o[1] \in DOMAIN txs /\ 1 \in StateOutputs(o[1])
                 /\ OutputAt(o) = txs[o[1]].outs[1]
                 /\ OutputAt(o).record.row = "CON"
<1> DEFINE o == CHOOSE p \in Standing("CON") : TRUE
<1>1. o \in Standing("CON") /\ StandingRecord("CON") = OutputAt(o).record
  BY DEF StandingRecord
<1> HIDE DEF o
<1>2. /\ o \in (DOMAIN txs) \X {1} /\ 1 \in StateOutputs(o[1])
      /\ OutputAt(o).record.row = "CON"
  BY <1>1 DEF Standing
<1>3. o[1] \in DOMAIN txs /\ OutputAt(o) = txs[o[1]].outs[1]
  BY <1>2 DEF OutputAt
<1> QED
  BY <1>1, <1>2, <1>3 DEF ConOnChain

\* Until delivery, and unless a call failed between the two updates, the
\* registered custodian is the key that controls the consignment on chain
\* (main.go:122-125, dht.go:54-60).
THEOREM CustodyRegisteredTheorem == ConsignmentSpec => []CustodyRegistered
<1>1. CustodyInv => CustodyRegistered
  <2> SUFFICES ASSUME CustodyInv, Ready, ~Reached("CON", "DELIVERED"),
                      Standing("CON") # {}
               PROVE  VerifyOwnership(GoodsH2, StandingRecord("CON").controller)
    BY DEF CustodyRegistered, OwnerVerifies
  <2>1. PICK o \in Standing("CON") : StandingRecord("CON") = OutputAt(o).record
    BY StandingIsReal
  <2>2. ConOnChain
    BY StandingIsReal
  <2>3. GoodsH2 \in DOMAIN store
        /\ OutputAt(o).record.controller = store[GoodsH2].owner
    BY <2>2 DEF CustodyInv, StoreInv, CustodianInv, Registered, Ready
  <2> QED
    BY <2>1, <2>3 DEF VerifyOwnership
<1> QED
  BY <1>1, CustodyInvariant, PTL

\* The hash on the standing consignment tells a changed body from the
\* stored one, whatever the client does (dfa.go:345, dht.go:44-51, 82-88).
THEOREM IntegrityExactTheorem == ConsignmentSpec => []IntegrityExact
<1>1. CustodyInv => IntegrityExact
  <2> SUFFICES ASSUME CustodyInv, Standing("CON") # {}
               PROVE  (/\ VerifyIntegrity(GoodsH2)
                       /\ AnchorMatches(GoodsH2, StandingRecord("CON").body))
                      <=> store[GoodsH2].body = <<TheGoods, 0>>
    BY DEF IntegrityExact
  <2>1. ConOnChain /\ StandingRecord("CON").body = GoodsH4
    BY StandingIsReal DEF CustodyInv, AnchorInv
  <2>2. GoodsH2 \in DOMAIN store /\ store[GoodsH2].h4 = GoodsH4
    BY <2>1 DEF CustodyInv, StoreInv, Entry
  <2> QED
    BY <2>1, <2>2 DEF VerifyIntegrity, AnchorMatches, GoodsH4, H
<1> QED
  BY <1>1, CustodyInvariant, PTL
=============================================================================
