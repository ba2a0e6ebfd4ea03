----------------------------- MODULE UtxoProofs -----------------------------
(***************************************************************************)
(* What a broadcast keeps, for both engines: amounts and outpoints have    *)
(* their types, every input names an output that was there before and that *)
(* no other transaction spends, and the fee output in memory is unspent    *)
(* but after a reported failure.  The verifiers of both engines walk       *)
(* backwards over transactions: the lemmas about such walks come first.    *)
(***************************************************************************)
EXTENDS StateUtxo, WalkProofs

\* Outputs and transactions whose state records are in R.
OutputOf(R) ==
    [sats : Amount, key : Party \cup {WalletKey}, record : R \cup {NoRecord}]
TxOf(R) == [ins : Seq(Outpoint), outs : Seq(OutputOf(R))]
Claim == [out : Outpoint, sats : Int, key : Party \cup {WalletKey}]

UtxoShape(R) ==
    /\ txs \in Seq(TxOf(R)) /\ Len(txs) <= MaxTxs
    /\ wallet \in [out : Outpoint, sats : Amount]
    /\ lost \subseteq 1 .. MaxTxs

\* An input is older than the transaction it is in.
InputsExist ==
    \A n \in DOMAIN txs : \A i \in DOMAIN txs[n].ins :
        OutExists(txs[n].ins[i]) /\ txs[n].ins[i][1] < n

SpentOnce ==
    \A n, m \in DOMAIN txs :
        n # m => Range(txs[n].ins) \cap Range(txs[m].ins) = {}

UtxoInv(R) == UtxoShape(R) /\ InputsExist /\ SpentOnce /\ WalletSound

-----------------------------------------------------------------------------
\* A transaction whose inputs exist and are unspent, whatever else the node
\* looks at.
Taken(claims, outs) ==
    /\ Len(txs) < MaxTxs
    /\ \A i \in DOMAIN claims :
          OutExists(claims[i].out) /\ ~IsSpent(claims[i].out)
    /\ txs' = Append(txs, [ins |-> [i \in DOMAIN claims |-> claims[i].out],
                           outs |-> outs])

\* What the node appends, and what of it the properties look at.
LEMMA TakenAppends ==
    ASSUME NEW R, UtxoShape(R),
           NEW claims \in Seq(Claim), NEW outs \in Seq(OutputOf(R)),
           Taken(claims, outs)
    PROVE  /\ txs' \in Seq(TxOf(R)) /\ Len(txs') = NewTxid
           /\ NewTxid \in 1 .. MaxTxs /\ NewTxid \notin DOMAIN txs
           /\ DOMAIN txs' = DOMAIN txs \cup {NewTxid} /\ DOMAIN txs' = 1 .. NewTxid
           /\ \A n \in DOMAIN txs : txs'[n] = txs[n] /\ n < NewTxid
           /\ txs'[NewTxid].outs = outs
           /\ DOMAIN txs'[NewTxid].ins = DOMAIN claims
           /\ \A i \in DOMAIN claims :
                 /\ txs'[NewTxid].ins[i] = claims[i].out
                 /\ OutExists(claims[i].out) /\ ~IsSpent(claims[i].out)
<1> DEFINE tx == [ins |-> [i \in DOMAIN claims |-> claims[i].out],
                  outs |-> outs]
<1>1. tx.ins \in Seq(Outpoint)
  <2>1. Len(claims) \in Nat /\ DOMAIN claims = 1 .. Len(claims)
        /\ \A i \in 1 .. Len(claims) : claims[i] \in Claim
    OBVIOUS
  <2>2. \A i \in 1 .. Len(claims) : claims[i].out \in Outpoint
    BY <2>1 DEF Claim
  <2>3. [i \in 1 .. Len(claims) |-> claims[i].out] \in Seq(Outpoint)
    BY <2>1, <2>2
  <2> QED
    BY <2>1, <2>3
<1>2. tx \in TxOf(R)
  BY <1>1 DEF TxOf
<1>3. tx.outs = outs /\ DOMAIN tx.ins = DOMAIN claims
      /\ \A i \in DOMAIN claims : tx.ins[i] = claims[i].out
  OBVIOUS
<1>4. txs' = Append(txs, tx) /\ Len(txs) < MaxTxs
      /\ \A i \in DOMAIN claims :
            OutExists(claims[i].out) /\ ~IsSpent(claims[i].out)
  BY DEF Taken
<1> HIDE DEF tx
<1>5. txs \in Seq(TxOf(R)) /\ MaxTxs \in Nat
  BY StateUtxoAssumption DEF UtxoShape
<1> QED
  BY <1>2, <1>3, <1>4, <1>5, AppendFacts DEF NewTxid

\* The outcome of a call: the wallet is an output of the transaction, or the
\* call failed and the transaction is lost.
Outcome(outs) ==
    \/ \E v \in DOMAIN outs, sats \in Amount :
          outs[v] = FeeOutput(sats) /\ WalletMovesTo(v, sats)
    \/ AnswerLost

LEMMA TakenStep ==
    ASSUME NEW R, UtxoInv(R),
           NEW claims \in Seq(Claim), NEW outs \in Seq(OutputOf(R)),
           Taken(claims, outs), Outcome(outs)
    PROVE  UtxoInv(R)'
<1>1. /\ txs' \in Seq(TxOf(R)) /\ Len(txs') = NewTxid
      /\ NewTxid \in 1 .. MaxTxs /\ NewTxid \notin DOMAIN txs
      /\ DOMAIN txs' = DOMAIN txs \cup {NewTxid} /\ DOMAIN txs' = 1 .. NewTxid
      /\ \A n \in DOMAIN txs : txs'[n] = txs[n] /\ n < NewTxid
      /\ txs'[NewTxid].outs = outs
      /\ DOMAIN txs'[NewTxid].ins = DOMAIN claims
      /\ \A i \in DOMAIN claims :
            /\ txs'[NewTxid].ins[i] = claims[i].out
            /\ OutExists(claims[i].out) /\ ~IsSpent(claims[i].out)
  BY TakenAppends DEF UtxoInv
<1>2. \A o : OutExists(o) => OutExists(o)' /\ OutputAt(o)' = OutputAt(o)
                             /\ o[1] < NewTxid
  BY <1>1 DEF OutExists, OutputAt
<1>3. InputsExist'
  <2> SUFFICES ASSUME NEW n \in DOMAIN txs', NEW i \in DOMAIN txs'[n].ins
               PROVE  (OutExists(txs[n].ins[i]))' /\ txs'[n].ins[i][1] < n
    BY DEF InputsExist
  <2>1. CASE n \in DOMAIN txs
    BY <1>1, <1>2, <2>1 DEF UtxoInv, InputsExist
  <2>2. CASE n = NewTxid
    <3>1. i \in DOMAIN claims /\ txs'[n].ins[i] = claims[i].out
          /\ OutExists(claims[i].out)
      BY <1>1, <2>2
    <3> QED
      BY <1>2, <2>2, <3>1
  <2> QED
    BY <1>1, <2>1, <2>2
<1>6. SpentOnce'
  <2>1. ASSUME NEW n \in DOMAIN txs, NEW o \in Range(txs'[n].ins)
        PROVE  o \in Range(txs[n].ins) /\ IsSpent(o)
    BY <1>1 DEF IsSpent
  <2>2. ASSUME NEW o \in Range(txs'[NewTxid].ins)
        PROVE  ~IsSpent(o)
    BY <1>1 DEF Range
  <2>3. ASSUME NEW n \in DOMAIN txs, NEW m \in DOMAIN txs, n # m
        PROVE  Range(txs'[n].ins) \cap Range(txs'[m].ins) = {}
    BY <2>1, <2>3 DEF UtxoInv, SpentOnce
  <2> QED
    BY <1>1, <2>1, <2>2, <2>3 DEF SpentOnce
<1>4. CASE \E v \in DOMAIN outs, sats \in Amount :
              outs[v] = FeeOutput(sats) /\ WalletMovesTo(v, sats)
  <2> PICK v \in DOMAIN outs, sats \in Amount :
              outs[v] = FeeOutput(sats) /\ WalletMovesTo(v, sats)
    BY <1>4
  <2>1. wallet' = [out |-> <<NewTxid, v>>, sats |-> sats] /\ lost' = lost
    BY DEF WalletMovesTo
  <2>2. v \in Nat
    OBVIOUS
  <2>3. UtxoShape(R)'
    BY <1>1, <2>1, <2>2 DEF UtxoInv, UtxoShape, Outpoint
  <2>4. (OutExists(wallet.out) /\ OutputAt(wallet.out) = FeeOutput(wallet.sats))'
    BY <1>1, <2>1 DEF OutExists, OutputAt, FeeOutput
  <2>5. \A n \in DOMAIN txs' : wallet'.out \notin Range(txs'[n].ins)
    <3> SUFFICES ASSUME NEW n \in DOMAIN txs', NEW i \in DOMAIN txs'[n].ins,
                        wallet'.out = txs'[n].ins[i]
                 PROVE  FALSE
      BY DEF Range
    <3>1. txs'[n].ins[i][1] < n
      BY <1>3 DEF InputsExist
    <3>2. n \in 1 .. NewTxid /\ NewTxid \in Nat
      BY <1>1
    <3> QED
      BY <2>1, <3>1, <3>2
  <2>6. WalletSound'
    BY <2>4, <2>5 DEF WalletSound, FeeOutput
  <2> QED
    BY <1>3, <1>6, <2>3, <2>6 DEF UtxoInv
<1>5. CASE AnswerLost
  <2>1. lost' = lost \cup {NewTxid} /\ wallet' = wallet
    BY <1>5 DEF AnswerLost
  <2>2. UtxoShape(R)'
    <3>1. lost' \subseteq 1 .. MaxTxs /\ Len(txs') <= MaxTxs
      BY <1>1, <2>1, StateUtxoAssumption DEF UtxoInv, UtxoShape
    <3> QED
      BY <1>1, <2>1, <3>1 DEF UtxoInv, UtxoShape
  <2>3. WalletSound'
    <3> SUFFICES ASSUME wallet.out # NoOutpoint
                 PROVE  /\ OutExists(wallet.out)'
                        /\ OutputAt(wallet.out)' = FeeOutput(wallet.sats)
                        /\ \A n \in DOMAIN txs' :
                              wallet.out \in Range(txs'[n].ins) => n \in lost'
      BY <2>1 DEF WalletSound, FeeOutput
    <3>1. OutExists(wallet.out) /\ OutputAt(wallet.out) = FeeOutput(wallet.sats)
          /\ \A n \in DOMAIN txs :
                wallet.out \in Range(txs[n].ins) => n \in lost
      BY DEF UtxoInv, WalletSound
    <3> QED
      BY <1>1, <1>2, <2>1, <3>1
  <2> QED
    BY <1>3, <1>6, <2>2, <2>3 DEF UtxoInv
<1> QED
  BY <1>4, <1>5 DEF Outcome

LEMMA NewTxidBound ==
    ASSUME NEW R, UtxoShape(R), Len(txs) < MaxTxs
    PROVE  NewTxid \in 1 .. MaxTxs
<1>1. Len(txs) \in Nat /\ MaxTxs \in Nat
  BY StateUtxoAssumption DEF UtxoShape
<1> QED
  BY <1>1 DEF NewTxid

LEMMA BroadcastIsTaken ==
    ASSUME NEW claims, NEW outs, Broadcast(claims, outs)
    PROVE  Taken(claims, outs)
  BY DEF Broadcast, Accepts, Taken

LEMMA FundingIsTaken ==
    ASSUME FundFromWallet
    PROVE  /\ Taken(<<>>, <<FeeOutput(Funding)>>)
           /\ Outcome(<<FeeOutput(Funding)>>)
<1>1. Funding \in Amount
  BY StateUtxoAssumption DEF Amount
<1>2. Taken(<<>>, <<FeeOutput(Funding)>>)
  BY DEF FundFromWallet, Taken
<1>3. Outcome(<<FeeOutput(Funding)>>)
  BY <1>1 DEF FundFromWallet, Outcome
<1> QED
  BY <1>2, <1>3

\* The fee output carries no state.
LEMMA WalletHoldsNoState ==
    ASSUME NEW R, UtxoInv(R), OutExists(wallet.out)
    PROVE  OutputAt(wallet.out).record = NoRecord
<1>1. DOMAIN txs = 1 .. Len(txs) /\ Len(txs) \in Nat
  BY DEF UtxoInv, UtxoShape
<1>2. wallet.out # NoOutpoint
  BY <1>1 DEF OutExists, NoOutpoint
<1> QED
  BY <1>2 DEF UtxoInv, WalletSound, FeeOutput

LEMMA UtxoInitInv ==
    ASSUME NEW R, UtxoInit
    PROVE  UtxoInv(R)
<1>1. txs = <<>> /\ wallet = [out |-> NoOutpoint, sats |-> 0] /\ lost = {}
  BY DEF UtxoInit
<1>2. NoOutpoint \in Outpoint /\ 0 \in Amount /\ MaxTxs \in Nat
  BY StateUtxoAssumption DEF NoOutpoint, Outpoint, Amount
<1> QED
  BY <1>1, <1>2 DEF UtxoInv, UtxoShape, InputsExist, SpentOnce, WalletSound

LEMMA UtxoUnchanged ==
    ASSUME NEW R, UtxoInv(R), UNCHANGED utxoVars
    PROVE  UtxoInv(R)'
  BY DEF utxoVars, UtxoInv, UtxoShape, InputsExist, SpentOnce, WalletSound,
         OutExists, OutputAt

\* The type invariant of the shared part.
LEMMA ShapeIsType ==
    ASSUME NEW R, UtxoShape(R)
    PROVE  UtxoTypeOK
<1> SUFFICES ASSUME NEW n \in DOMAIN txs
             PROVE  /\ \A i \in DOMAIN txs[n].ins : txs[n].ins[i] \in Outpoint
                    /\ \A i \in DOMAIN txs[n].outs :
                          /\ txs[n].outs[i].sats \in Amount
                          /\ txs[n].outs[i].key \in Party \cup {WalletKey}
  BY DEF UtxoShape, UtxoTypeOK
<1>1. txs[n].ins \in Seq(Outpoint) /\ txs[n].outs \in Seq(OutputOf(R))
  <2>1. txs[n] \in TxOf(R)
    BY DEF UtxoShape
  <2> QED
    BY <2>1 DEF TxOf
<1>2. \A i \in DOMAIN txs[n].outs : txs[n].outs[i] \in OutputOf(R)
  BY <1>1
<1> QED
  BY <1>1, <1>2 DEF OutputOf

\* The fee output is spendable, or a call that returned an error spent it.
LEMMA InvIsWalletSound ==
    ASSUME NEW R, UtxoInv(R)
    PROVE  WalletSound
  BY DEF UtxoInv

LEMMA FeeOutputType ==
    ASSUME NEW R, NEW sats \in Amount
    PROVE  FeeOutput(sats) \in OutputOf(R)
  BY DEF FeeOutput, OutputOf

\* Unsigned change stays in range.
LEMMA ChangeInRange ==
    ASSUME NEW R, UtxoShape(R), NEW sats \in Amount
    PROVE  ChangeLeft(sats) \in Amount
<1>1. wallet.sats \in Amount /\ Width \in Nat \ {0}
  BY StateUtxoAssumption DEF UtxoShape
<1>2. wallet.sats - sats \in Int
  BY <1>1 DEF Amount
<1>3. \A x \in Int : x % Width \in 0 .. Width - 1
  BY <1>1
<1> QED
  BY <1>2, <1>3 DEF ChangeLeft, Amount

-----------------------------------------------------------------------------
(* Cold verification.                                                      *)

\* The records of a row point back.
RowLooksBack(row) ==
    \A n \in DOMAIN txs :
        RecordOn(n, row) # NoRecord =>
            RecordOn(n, row).record.prev \in 0 .. n - 1

\* Then the recursive definition of its lineage has a solution, and unfolds.
LEMMA RowUnfolds ==
    ASSUME NEW R, UtxoShape(R), NEW row, RowLooksBack(row),
           NEW n \in 0 .. Len(txs)
    PROVE  Lineage(row)[n] =
              IF n = 0 THEN <<>>
              ELSE IF RecordOn(n, row) = NoRecord THEN <<NoRecord>>
              ELSE Append(Lineage(row)[RecordOn(n, row).record.prev],
                          RecordOn(n, row))
<1> DEFINE N == Len(txs)
           rec == [m \in 1 .. N |-> RecordOn(m, row)]
           V == Seq({NoRecord} \cup {rec[m] : m \in 1 .. N})
           back == [m \in 1 .. N |->
                       IF rec[m] = NoRecord THEN 0 ELSE rec[m].record.prev]
           step == [m \in 1 .. N |-> [v \in V |->
                       IF rec[m] = NoRecord THEN <<NoRecord>>
                       ELSE Append(v, rec[m])]]
           body(l) == [m \in 0 .. N |->
                          IF m = 0 THEN <<>>
                          ELSE IF RecordOn(m, row) = NoRecord THEN <<NoRecord>>
                          ELSE Append(l[RecordOn(m, row).record.prev],
                                      RecordOn(m, row))]
<1>1. N \in Nat /\ DOMAIN txs = 1 .. N
  BY DEF UtxoShape
<1>2. \A m \in 1 .. N : rec[m] = RecordOn(m, row)
  OBVIOUS
<1>3. \A m \in 1 .. N : back[m] \in 0 .. m - 1
  BY <1>1, <1>2 DEF RowLooksBack
<1>4. \A m \in 1 .. N : \A v \in V : step[m][v] \in V
  <2> HIDE DEF rec
  <2>1. ASSUME NEW m \in 1 .. N, NEW v \in V
        PROVE  <<NoRecord>> \in V /\ Append(v, rec[m]) \in V
    OBVIOUS
  <2> QED
    BY <2>1
<1>5. PICK f : Follows(f, N, V, <<>>, back, step)
  <2>1. <<>> \in V
    OBVIOUS
  <2> HIDE DEF V, back, step
  <2>2. StepsBack(N, V, <<>>, back, step)
    BY <1>3, <1>4, <2>1 DEF StepsBack
  <2> QED
    BY <1>1, <2>2, LooksBack
<1>6. f = body(f)
  <2>1. f \in [0 .. N -> V] /\ f[0] = <<>>
    BY <1>5 DEF Follows
  <2>2. ASSUME NEW m \in 1 .. N
        PROVE  f[m] = IF RecordOn(m, row) = NoRecord THEN <<NoRecord>>
                      ELSE Append(f[RecordOn(m, row).record.prev],
                                  RecordOn(m, row))
    <3>1. back[m] \in 0 .. N
      BY <1>1, <1>3
    <3>2. f[back[m]] \in V /\ f[m] = step[m][f[back[m]]]
      <4> HIDE DEF V, rec, back, step
      <4> QED
        BY <1>5, <2>1, <3>1 DEF Follows
    <3>3. f[m] = IF rec[m] = NoRecord THEN <<NoRecord>>
                 ELSE Append(f[back[m]], rec[m])
      <4> HIDE DEF V, rec, back
      <4> QED
        BY <3>2
    <3> QED
      BY <1>2, <3>3
  <2> HIDE DEF V, back, step, rec
  <2>3. \A m \in 0 .. N : f[m] = body(f)[m]
    BY <1>1, <2>1, <2>2
  <2>4. f = [m \in 0 .. N |-> f[m]] /\ body(f) = [m \in 0 .. N |-> body(f)[m]]
    BY <2>1
  <2> QED
    BY <2>3, <2>4
<1>7. Lineage(row) = CHOOSE l : l = body(l)
  BY DEF Lineage
<1> HIDE DEF body
<1>8. Lineage(row) = body(Lineage(row))
  BY <1>6, <1>7
<1> QED
  BY <1>8 DEF body
=============================================================================
