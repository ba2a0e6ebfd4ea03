-------------------------- MODULE TripleEntryProofs --------------------------
(***************************************************************************)
(* Proofs about the composed system.                                       *)
(*                                                                         *)
(* Part one, for any number of writers, crashes, restarts and concurrent   *)
(* sessions.  SentAnchored is not inductive: an UPDATE of te.outbox        *)
(* depends on the entry the writer has in hand since it sent it, several   *)
(* steps ago.  WriterInv adds that entry (HandInv), the rows still to do   *)
(* (TodoInv), the in-memory stream position (PositionInv), and the coin    *)
(* each writer holds with the outputs already spent (CoinInv, SpendInv).   *)
(*                                                                         *)
(* Part two, for what the code promises of a run only when nothing         *)
(* disturbs it.  DrainInv holds of any number of writers: the catalog is   *)
(* what it was (CatalogInv), and each writer knows every stream of a row,  *)
(* can pay for what is left to send, and hides the rows of the tables that *)
(* are registered as confidential (CleanInv).  RunInv and EntryInv are of  *)
(* one run of one writer: its memory and te.chain_index keep step with the *)
(* chain, whose entries record the rows that the query returned, in their  *)
(* order.  The walk from a head is then the whole stream, its replay the   *)
(* snapshot, and the chain a ThirdEntryLedger.  CellsInv says that of a    *)
(* stream with nothing pending the tables, read one by one, still are the  *)
(* snapshot.                                                               *)
(***************************************************************************)
EXTENDS TripleEntry, TeCaptureProofs, WalkProofs

InFlight == {"mine", "mark", "index", "blind", "leak"}
Loading == {"confirm", "find", "confidential", "streamConf", "pending", "drain"}

HandInv ==
    \A w \in Writer : pc[w] \in InFlight =>
        /\ txid[w] \in Txid
        /\ pc[w] # "mine" => txid[w] <= mined
        /\ cur[w] \in DOMAIN outbox
        /\ Records(chain[txid[w]], cur[w])
        /\ sats[w] >= 1

TodoInv == \A w \in Writer : todo[w] \subseteq DOMAIN outbox

PositionInv ==
    \A w \in Writer, st \in Stream :
        \/ prevLink[w][st] = 0 /\ streamSeq[w][st] = 0
        \/ /\ prevLink[w][st] \in Txid
           /\ chain[prevLink[w][st]].stream = st
           /\ chain[prevLink[w][st]].seq + 1 = streamSeq[w][st]

\* The output a writer owns: the change of the entry in flight, if any.
Holds(w) == pc[w] \in Loading \cup InFlight
Coin(w) == IF pc[w] \in InFlight THEN ChangeOf(txid[w]) ELSE utxo[w]

Exists(u) ==
    \/ \E n \in 1 .. fundings : u = Funded(n)
    \/ \E n \in Txid : u = ChangeOf(n)

CoinInv ==
    \A w \in Writer : Holds(w) =>
        /\ Unspent(Coin(w))
        /\ Exists(Coin(w))
        /\ \A v \in Writer \ {w} : Holds(v) => Coin(v) # Coin(w)

SpendInv == \A n \in Txid : Exists(chain[n].spends)

WriterInv ==
    /\ WriterTypeOK
    /\ HandInv
    /\ TodoInv
    /\ PositionInv
    /\ CoinInv
    /\ SpendInv
    /\ SentAnchored
    /\ IndexSound
    /\ ChainLinked

SystemInv == CaptureInv /\ WriterInv

-----------------------------------------------------------------------------
\* What the transaction graph looks like is all a quiet step keeps.
QuietVars == <<sent, chainIndex, blinding, chain, mined, fundings, utxo, sats,
               cur, txid, outbox>>

\* A step that moves one writer to p, and touches neither the chain nor what
\* the writer owns.
Quiet(w, p) ==
    /\ p \in Steps \ InFlight
    /\ p \in Loading => pc[w] \in Loading
    /\ pc' = [pc EXCEPT ![w] = p]
    /\ UNCHANGED QuietVars

LEMMA QuietStep ==
  ASSUME WriterInv, NEW w \in Writer, NEW p, Quiet(w, p), WriterTypeOK',
         TodoInv', PositionInv'
  PROVE  WriterInv'
<1> USE DEF WriterInv, Quiet, QuietVars
<1>1. /\ pc'[w] = p /\ \A v \in Writer : v # w => pc'[v] = pc[v]
      /\ p \notin InFlight
  BY DEF WriterTypeOK
<1>2. HandInv'
  BY <1>1 DEF HandInv, Records, Txid
<1>3. CoinInv'
  <2>1. \A v \in Writer : Holds(v)' => Holds(v) /\ Coin(v)' = Coin(v)
    <3>1. \A v \in Writer : v # w => Holds(v)' = Holds(v) /\ Coin(v)' = Coin(v)
      BY <1>1 DEF Holds, Coin, ChangeOf
    <3>2. Holds(w)' => Holds(w) /\ Coin(w)' = Coin(w)
      BY <1>1 DEF Holds, Coin, ChangeOf, Loading, InFlight
    <3> QED
      BY <3>1, <3>2
  <2>2. \A u : Unspent(u)' = Unspent(u) /\ Exists(u)' = Exists(u)
    BY DEF Unspent, Exists, Txid, Funded, ChangeOf
  <2> QED
    BY <2>1, <2>2 DEF CoinInv
<1>4. SpendInv'
  BY DEF SpendInv, Exists, Txid, Funded, ChangeOf
<1>5. SentAnchored' /\ IndexSound' /\ ChainLinked'
  BY DEF SentAnchored, IndexSound, ChainLinked, Records, Txid
<1> QED
  BY <1>2, <1>3, <1>4, <1>5

-----------------------------------------------------------------------------
\* The steps that touch neither the chain nor what the writer owns.
LEMMA StartStep ==
  ASSUME CaptureTypeOK, WriterInv, UNCHANGED captureVars, NEW w \in Writer,
         Start(w)
  PROVE  WriterInv'
<1> USE DEF Start, captureVars, schemaVars, dbVars, nodeVars, coinVars,
            drainVars, verifyVars
<1>1. WriterTypeOK'
  <2>1. runs[w] + 1 \in 0 .. MaxRuns
    BY WriterAssumption DEF WriterInv, WriterTypeOK
  <2> QED
    BY <2>1 DEF WriterInv, WriterTypeOK, CaptureTypeOK, Steps, Outcomes
<1>2. TodoInv' /\ PositionInv'
  BY DEF WriterInv, TodoInv, PositionInv, Txid
<1>3. Quiet(w, "fund")
  BY DEF Quiet, QuietVars, Steps, InFlight, Loading
<1> QED
  BY <1>1, <1>2, <1>3, QuietStep

LEMMA LoadConfidentialStep ==
  ASSUME CaptureTypeOK, WriterInv, UNCHANGED captureVars, NEW w \in Writer,
         LoadConfidential(w)
  PROVE  WriterInv'
<1> USE DEF LoadConfidential, Goto, At, captureVars, schemaVars, dbVars,
            nodeVars, coinVars, drainVars, verifyVars
<1>1. WriterTypeOK'
  <2>1. \A v \in Writer : IsPartialFcn(conf'[v], Table, BOOLEAN)
    BY DEF WriterInv, WriterTypeOK, CaptureTypeOK, IsPartialFcn, Registration
  <2> QED
    BY <2>1 DEF WriterInv, WriterTypeOK, Steps
<1>2. TodoInv' /\ PositionInv'
  BY DEF WriterInv, TodoInv, PositionInv, Txid
<1>3. Quiet(w, "streamConf")
  BY DEF Quiet, QuietVars, Steps, InFlight, Loading
<1> QED
  BY <1>1, <1>2, <1>3, QuietStep

LEMMA LoadStreamConfStep ==
  ASSUME CaptureTypeOK, WriterInv, UNCHANGED captureVars, NEW w \in Writer,
         LoadStreamConf(w)
  PROVE  WriterInv'
<1> USE DEF LoadStreamConf, Goto, At, captureVars, schemaVars, dbVars,
            nodeVars, coinVars, drainVars, verifyVars
<1>1. WriterTypeOK'
  <2>1. \A t \in DOMAIN journalled : journalled[t].stream \in Stream
    BY DEF CaptureTypeOK, IsPartialFcn, Registration
  <2>2. streamConf' \in [Writer -> SUBSET Stream]
    BY <2>1 DEF WriterInv, WriterTypeOK
  <2> QED
    BY <2>2 DEF WriterInv, WriterTypeOK, Steps
<1>2. TodoInv' /\ PositionInv'
  BY DEF WriterInv, TodoInv, PositionInv, Txid
<1>3. Quiet(w, "pending")
  BY DEF Quiet, QuietVars, Steps, InFlight, Loading
<1> QED
  BY <1>1, <1>2, <1>3, QuietStep

LEMMA LoadPendingStep ==
  ASSUME CaptureTypeOK, WriterInv, UNCHANGED captureVars, NEW w \in Writer,
         LoadPending(w)
  PROVE  WriterInv'
<1> USE DEF LoadPending, Goto, At, captureVars, schemaVars, dbVars, nodeVars,
            coinVars, verifyVars
<1>1. Pending \subseteq DOMAIN outbox /\ Pending \subseteq Nat \ {0}
  BY DEF Pending, CaptureTypeOK, IsPartialFcn
<1>2. WriterTypeOK'
  <2>1. todo' \in [Writer -> SUBSET (Nat \ {0})]
    BY <1>1 DEF WriterInv, WriterTypeOK
  <2>2. /\ streamSeq' \in [Writer -> [Stream -> Nat]]
        /\ prevLink' \in [Writer -> [Stream -> Nat]]
    BY DEF WriterInv, WriterTypeOK
  <2>3. pc' \in [Writer -> Steps]
    BY DEF WriterInv, WriterTypeOK, Steps
  <2>4. UNCHANGED <<sent, chainIndex, blinding, chain, mined, fundings, runs,
                    outcome, rels, conf, streamConf, utxo, sats, cur, txid,
                    toVerify, toRead, cells>>
    BY DEF catalogVars
  <2> HIDE DEF LoadPending, Goto
  <2> QED
    BY <2>1, <2>2, <2>3, <2>4 DEF WriterInv, WriterTypeOK
<1>3. TodoInv'
  BY <1>1 DEF WriterInv, TodoInv, WriterTypeOK
<1>4. PositionInv'
  BY DEF WriterInv, PositionInv, WriterTypeOK, Txid
<1>5. Quiet(w, "drain")
  BY DEF Quiet, QuietVars, Steps, InFlight, Loading
<1> QED
  BY <1>2, <1>3, <1>4, <1>5, QuietStep

\* The process ends, and nothing else changes.
LEMMA ExitStep ==
  ASSUME WriterInv, UNCHANGED captureVars, NEW w \in Writer,
         NEW how \in Outcomes, Exit(w, how),
         UNCHANGED <<dbVars, nodeVars, catalogVars, coinVars, drainVars>>,
         UNCHANGED <<toVerify, toRead, cells>>
  PROVE  WriterInv'
<1> USE DEF Exit, captureVars, schemaVars, dbVars, nodeVars, catalogVars,
            coinVars, drainVars
<1>1. WriterTypeOK'
  BY DEF WriterInv, WriterTypeOK, Steps
<1>2. TodoInv' /\ PositionInv'
  BY DEF WriterInv, TodoInv, PositionInv, Txid
<1>3. Quiet(w, "off")
  BY DEF Quiet, QuietVars, Steps, InFlight, Loading
<1> QED
  BY <1>1, <1>2, <1>3, QuietStep

\* The types of what the verification keeps.
ReadingTypes ==
    /\ toVerify \in [Writer -> SUBSET Stream]
    /\ toRead \in [Writer -> SUBSET Table]
    /\ DOMAIN cells = Writer
    /\ \A w \in Writer : IsPartialFcn(cells[w], Cell, Value)

\* The process moves on between the drain and the end of the verification.
LEMMA VerifyStep ==
  ASSUME WriterInv, UNCHANGED captureVars, NEW w \in Writer,
         NEW p \in {"verify", "rebuild", "tables", "cells"}, Goto(w, p),
         UNCHANGED <<dbVars, nodeVars, catalogVars, coinVars, drainVars>>,
         ReadingTypes'
  PROVE  WriterInv'
<1> USE DEF Goto, captureVars, schemaVars, dbVars, nodeVars, catalogVars,
            coinVars, drainVars
<1>1. WriterTypeOK'
  BY DEF WriterInv, WriterTypeOK, ReadingTypes, Steps
<1>2. TodoInv' /\ PositionInv'
  BY DEF WriterInv, TodoInv, PositionInv, Txid
<1>3. Quiet(w, p)
  BY DEF Quiet, QuietVars, Steps, InFlight, Loading
<1> QED
  BY <1>1, <1>2, <1>3, QuietStep

\* What a SELECT finds in a table has the types of cells.
LEMMA FoundTypes ==
  ASSUME CaptureTypeOK, NEW t \in Table
  PROVE  IsPartialFcn(CellsOf(live, t), Cell, Value)
<1>1. /\ DOMAIN CellsOf(live, t) \subseteq {t} \X Key \X {Balance}
      /\ \A c \in DOMAIN CellsOf(live, t) :
            /\ live[<<c[1], c[2]>>] # Absent
            /\ CellsOf(live, t)[c] = live[<<c[1], c[2]>>][Balance]
  BY DEF CellsOf
<1>2. Balance \in Column
  BY SchemaAssumption DEF Balance, Column
<1>3. \A c \in {t} \X Key \X {Balance} : c \in Cell /\ <<c[1], c[2]>> \in Loc
  BY <1>2 DEF Cell, Loc
<1>4. \A l \in Loc : live[l] # Absent => live[l][Balance] \in Value
  BY <1>2 DEF CaptureTypeOK, RowValue
<1> HIDE DEF Balance
<1> QED
  BY <1>1, <1>3, <1>4 DEF IsPartialFcn

LEMMA JoinTypes ==
  ASSUME NEW D, NEW R, NEW f, NEW g, IsPartialFcn(f, D, R),
         IsPartialFcn(g, D, R)
  PROVE  IsPartialFcn(Join(f, g), D, R)
  BY DEF IsPartialFcn, Join

LEMMA ReadTableTypes ==
  ASSUME CaptureTypeOK, WriterInv, NEW w \in Writer, NEW t \in Table,
         ReadTable(w, t)
  PROVE  ReadingTypes'
<1> DEFINE found == CellsOf(live, t)
<1>1. toVerify' = toVerify
  BY DEF ReadTable
<1>2. CASE UNCHANGED <<toRead, cells>>
  BY <1>1, <1>2 DEF WriterInv, WriterTypeOK, ReadingTypes
<1>3. CASE /\ cells' = [cells EXCEPT ![w] = Join(found, @)]
           /\ toRead' = [toRead EXCEPT ![w] = @ \ {t}]
  <2>1. /\ DOMAIN cells' = Writer /\ cells'[w] = Join(found, cells[w])
        /\ \A v \in Writer : v # w => cells'[v] = cells[v]
    BY <1>3 DEF WriterInv, WriterTypeOK
  <2>2. toRead' \in [Writer -> SUBSET Table]
    BY <1>3 DEF WriterInv, WriterTypeOK
  <2>3. \A v \in Writer : IsPartialFcn(cells[v], Cell, Value)
    BY DEF WriterInv, WriterTypeOK
  <2>4. toVerify \in [Writer -> SUBSET Stream]
    BY DEF WriterInv, WriterTypeOK
  <2>5. IsPartialFcn(found, Cell, Value)
    BY FoundTypes
  <2> HIDE DEF found
  <2>6. IsPartialFcn(Join(found, cells[w]), Cell, Value)
    BY <2>3, <2>5, JoinTypes
  <2>7. \A v \in Writer : IsPartialFcn(cells'[v], Cell, Value)
    BY <2>1, <2>3, <2>6
  <2> QED
    BY <1>1, <2>1, <2>2, <2>4, <2>7 DEF ReadingTypes
<1> QED
  BY <1>2, <1>3 DEF ReadTable

LEMMA RebuildStep ==
  ASSUME CaptureTypeOK, WriterInv, UNCHANGED captureVars, NEW w \in Writer,
         \/ BeginVerify(w) \/ ReadHead(w) \/ Rebuild(w) \/ ReadTables(w)
         \/ \E t \in Table : ReadTable(w, t)
         \/ Compare(w)
  PROVE  WriterInv'
<1>0. ASSUME \/ toVerify' = toVerify
             \/ \E S : toVerify' = [toVerify EXCEPT ![w] = @ \ S],
             UNCHANGED <<toRead, cells>>
      PROVE  ReadingTypes'
  <2>1. toVerify' \in [Writer -> SUBSET Stream]
    <3>1. toVerify \in [Writer -> SUBSET Stream]
      BY DEF WriterInv, WriterTypeOK
    <3>2. CASE toVerify' = toVerify
      BY <3>1, <3>2
    <3>3. ASSUME NEW S, toVerify' = [toVerify EXCEPT ![w] = @ \ S]
          PROVE  toVerify' \in [Writer -> SUBSET Stream]
      BY <3>1, <3>3
    <3> QED
      BY <1>0, <3>2, <3>3
  <2>2. UNCHANGED <<toRead, cells>>
    BY <1>0
  <2> QED
    BY <2>1, <2>2 DEF WriterInv, WriterTypeOK, ReadingTypes
<1>1. CASE BeginVerify(w)
  <2>1. ReadingTypes'
    BY <1>1 DEF BeginVerify, WriterInv, WriterTypeOK, ReadingTypes
  <2> QED
    BY <1>1, <2>1, VerifyStep DEF BeginVerify
<1>2. CASE ReadHead(w)
  <2>0. ReadingTypes'
    BY <1>0, <1>2 DEF ReadHead
  <2>1. CASE Goto(w, "rebuild")
    BY <1>2, <2>0, <2>1, VerifyStep DEF ReadHead
  <2>2. CASE UNCHANGED <<head, controlVars>>
    <3>1. Goto(w, "verify")
      BY <1>2, <2>2 DEF ReadHead, At, Goto, controlVars, WriterInv, WriterTypeOK
    <3> QED
      BY <1>2, <2>0, <3>1, VerifyStep DEF ReadHead
  <2> QED
    BY <1>2, <2>1, <2>2 DEF ReadHead
<1>3. CASE Rebuild(w)
  <2>0. ReadingTypes'
    BY <1>0, <1>3 DEF Rebuild, Verified
  <2>1. CASE Goto(w, "verify") \/ Goto(w, "tables")
    BY <1>3, <2>0, <2>1, VerifyStep DEF Rebuild
  <2>2. CASE /\ Exit(w, "not a commitment") \/ Exit(w, "bad image")
             /\ toVerify' = toVerify
    <3>1. {"not a commitment", "bad image"} \subseteq Outcomes
      BY DEF Outcomes
    <3> QED
      BY <1>3, <2>2, <3>1, ExitStep DEF Rebuild
  <2> QED
    BY <1>3, <2>1, <2>2 DEF Rebuild, Verified
<1>4. CASE ReadTables(w)
  <2>1. ReadingTypes'
    BY <1>4 DEF ReadTables, WriterInv, WriterTypeOK, ReadingTypes,
       CaptureTypeOK, IsPartialFcn, NoMap
  <2> QED
    BY <1>4, <2>1, VerifyStep DEF ReadTables
<1>5. CASE \E t \in Table : ReadTable(w, t)
  <2>1. PICK t \in Table : ReadTable(w, t)
    BY <1>5
  <2>2. ReadingTypes'
    BY <2>1, ReadTableTypes
  <2>3. CASE Exit(w, "null") /\ UNCHANGED <<toRead, cells>>
    <3>1. "null" \in Outcomes
      BY DEF Outcomes
    <3> QED
      BY <2>1, <2>3, <3>1, ExitStep DEF ReadTable
  <2>4. CASE UNCHANGED controlVars
    <3>1. Goto(w, "cells")
      BY <2>1, <2>4 DEF ReadTable, At, Goto, controlVars, WriterInv, WriterTypeOK
    <3> QED
      BY <2>1, <2>2, <3>1, VerifyStep DEF ReadTable
  <2> QED
    BY <2>1, <2>3, <2>4 DEF ReadTable
<1>6. CASE Compare(w)
  <2>1. CASE Verified(w, head[w][1])
    <3>1. ReadingTypes' /\ Goto(w, "verify")
      BY <1>0, <1>6, <2>1 DEF Compare, Verified
    <3> QED
      BY <1>6, <3>1, VerifyStep DEF Compare
  <2>2. CASE Exit(w, "mismatch") /\ toVerify' = toVerify
    <3>1. "mismatch" \in Outcomes
      BY DEF Outcomes
    <3> QED
      BY <1>6, <2>2, <3>1, ExitStep DEF Compare
  <2> QED
    BY <1>6, <2>1, <2>2 DEF Compare
<1> QED
  BY <1>1, <1>2, <1>3, <1>4, <1>5, <1>6

-----------------------------------------------------------------------------
\* A step that keeps the chain and every coin keeps what is said about them.
LEMMA CoinsKept ==
  ASSUME CoinInv, SpendInv, chain' = chain, fundings' = fundings,
         \A v \in Writer : Holds(v)' => Holds(v) /\ Coin(v)' = Coin(v)
  PROVE  CoinInv' /\ SpendInv'
<1>1. \A u : Unspent(u)' = Unspent(u) /\ Exists(u)' = Exists(u)
  BY DEF Unspent, Exists, Txid, Funded, ChangeOf
<1>2. CoinInv'
  BY <1>1 DEF CoinInv
<1>3. SpendInv'
  BY <1>1 DEF SpendInv, Txid
<1> QED
  BY <1>2, <1>3

LEMMA GotoType ==
  ASSUME WriterTypeOK, NEW w \in Writer, NEW p \in Steps, Goto(w, p)
  PROVE  /\ pc' \in [Writer -> Steps]
         /\ pc'[w] = p
         /\ \A v \in Writer : v # w => pc'[v] = pc[v]
  BY DEF WriterTypeOK, Goto

\* What HandInv says of the entry in flight, in the terms the steps use.
LEMMA InHand ==
  ASSUME WriterTypeOK, HandInv, NEW w \in Writer, pc[w] \in InFlight
  PROVE  /\ txid[w] \in Txid /\ txid[w] \in Nat \ {0}
         /\ chain[txid[w]] \in Entry
         /\ chain[txid[w]].seq \in Nat /\ chain[txid[w]].stream \in Stream
         /\ cur[w] \in DOMAIN outbox
         /\ Records(chain[txid[w]], cur[w])
         /\ sats[w] >= 1
<1>1. txid[w] \in Txid
  BY DEF HandInv
<1>2. txid[w] \in Nat \ {0} /\ chain[txid[w]] \in Entry
  BY <1>1 DEF Txid, WriterTypeOK
<1>3. chain[txid[w]].seq \in Nat /\ chain[txid[w]].stream \in Stream
  BY <1>2 DEF Entry
<1> QED
  BY <1>1, <1>2, <1>3 DEF HandInv

\* A crash leaves the writer with nothing, and the others with what they had.
LEMMA CrashStep ==
  ASSUME WriterInv, UNCHANGED captureVars, NEW w \in Writer, Crash(w)
  PROVE  WriterInv'
<1> USE DEF Crash, Exit, captureVars, schemaVars, dbVars, nodeVars
<1>1. /\ pc'[w] = "off" /\ todo'[w] = {}
      /\ \A st \in Stream : streamSeq'[w][st] = 0 /\ prevLink'[w][st] = 0
      /\ \A v \in Writer : v # w =>
            /\ pc'[v] = pc[v] /\ utxo'[v] = utxo[v] /\ sats'[v] = sats[v]
            /\ todo'[v] = todo[v] /\ cur'[v] = cur[v] /\ txid'[v] = txid[v]
            /\ streamSeq'[v] = streamSeq[v] /\ prevLink'[v] = prevLink[v]
  BY DEF WriterInv, WriterTypeOK
<1>2. WriterTypeOK'
  <2>1. NoOutput \in Output /\ 0 \in 0 .. Funding /\ 0 \in Nat
    BY WriterAssumption DEF NoOutput, Output
  <2>2. /\ pc' \in [Writer -> Steps] /\ outcome' \in [Writer -> Outcomes]
        /\ runs' = runs
    BY DEF WriterInv, WriterTypeOK, Steps, Outcomes
  <2>3. /\ DOMAIN conf' = Writer
        /\ \A v \in Writer : IsPartialFcn(conf'[v], Table, BOOLEAN)
    BY DEF WriterInv, WriterTypeOK, IsPartialFcn, NoMap
  <2>4. /\ utxo' \in [Writer -> Output] /\ sats' \in [Writer -> 0 .. Funding]
        /\ cur' \in [Writer -> Nat] /\ txid' \in [Writer -> Nat]
    BY <2>1 DEF WriterInv, WriterTypeOK
  <2>5. /\ streamSeq' \in [Writer -> [Stream -> Nat]]
        /\ prevLink' \in [Writer -> [Stream -> Nat]]
    BY <2>1 DEF WriterInv, WriterTypeOK
  <2>6. /\ rels' \in [Writer -> SUBSET Stream]
        /\ streamConf' \in [Writer -> SUBSET Stream]
        /\ todo' \in [Writer -> SUBSET (Nat \ {0})]
        /\ toVerify' \in [Writer -> SUBSET Stream]
        /\ toRead' \in [Writer -> SUBSET Table]
    BY DEF WriterInv, WriterTypeOK
  <2>7. /\ DOMAIN cells' = Writer
        /\ \A v \in Writer : IsPartialFcn(cells'[v], Cell, Value)
    BY DEF WriterInv, WriterTypeOK, IsPartialFcn, NoMap
  <2>8. UNCHANGED <<sent, chainIndex, blinding, chain, mined, fundings>>
    OBVIOUS
  <2> HIDE DEF Crash, Exit
  <2> QED
    BY <2>2, <2>3, <2>4, <2>5, <2>6, <2>7, <2>8 DEF WriterInv, WriterTypeOK
<1>3. chain' = chain /\ fundings' = fundings /\ mined' = mined
      /\ outbox' = outbox /\ sent' = sent /\ chainIndex' = chainIndex
  OBVIOUS
<1> HIDE DEF Crash, Exit, captureVars, schemaVars, dbVars, nodeVars
<1>4. HandInv'
  BY <1>1, <1>3 DEF WriterInv, HandInv, Records, Txid, InFlight
<1>5. TodoInv'
  BY <1>1, <1>3 DEF WriterInv, TodoInv
<1>6. PositionInv'
  BY <1>1, <1>3 DEF WriterInv, PositionInv, Txid
<1>7. CoinInv' /\ SpendInv'
  <2>1. \A v \in Writer : Holds(v)' => Holds(v) /\ Coin(v)' = Coin(v)
    BY <1>1 DEF Holds, Coin, ChangeOf, Loading, InFlight
  <2> QED
    BY <2>1, <1>3, CoinsKept DEF WriterInv
<1>8. SentAnchored' /\ IndexSound' /\ ChainLinked'
  BY <1>3 DEF WriterInv, SentAnchored, IndexSound, ChainLinked, Records, Txid,
              dbVars
<1> QED
  BY <1>2, <1>4, <1>5, <1>6, <1>7, <1>8 DEF WriterInv

LEMMA SendToAddressStep ==
  ASSUME WriterInv, UNCHANGED captureVars, NEW w \in Writer, SendToAddress(w)
  PROVE  WriterInv'
<1> USE DEF SendToAddress, Goto, At, captureVars, schemaVars, dbVars, catalogVars,
            drainVars, verifyVars
<1> DEFINE new == Funded(fundings + 1)
<1>0. PICK coin : coin = new
  OBVIOUS
<1>1. /\ fundings \in Nat /\ fundings' = fundings + 1 /\ chain' = chain
      /\ Len(chain) \in Nat /\ mined \in 0 .. Len(chain) /\ mined' = mined
  BY DEF WriterInv, WriterTypeOK
<1>2. /\ pc'[w] = "confirm" /\ utxo'[w] = coin
      /\ \A v \in Writer : v # w => pc'[v] = pc[v] /\ utxo'[v] = utxo[v]
      /\ txid' = txid /\ cur' = cur /\ sats' = sats
  BY <1>0 DEF WriterInv, WriterTypeOK
<1>3. WriterTypeOK'
  <2>1. coin \in Output
    BY <1>0, <1>1 DEF Funded, Output
  <2>2. pc' \in [Writer -> Steps]
    BY DEF WriterInv, WriterTypeOK, Steps
  <2>3. utxo' \in [Writer -> Output]
    BY <1>0, <2>1 DEF WriterInv, WriterTypeOK
  <2> QED
    BY <1>1, <2>1, <2>2, <2>3 DEF WriterInv, WriterTypeOK
<1>4. HandInv'
  BY <1>1, <1>2 DEF WriterInv, WriterTypeOK, HandInv, Records, Txid, InFlight
<1>5. TodoInv' /\ PositionInv'
  BY <1>1 DEF WriterInv, TodoInv, PositionInv, Txid
<1>6. \A u : /\ Unspent(u)' = Unspent(u)
             /\ Exists(u) => Exists(u)' /\ u # coin
  BY <1>0, <1>1 DEF Unspent, Exists, Txid, Funded, ChangeOf
<1>7. CoinInv'
  <2>1. Coin(w)' = coin
    BY <1>2 DEF Coin, InFlight
  <2>2. Unspent(coin)
    BY <1>6 DEF WriterInv, SpendInv, Unspent
  <2>3. Exists(coin)'
    BY <1>0, <1>1 DEF Exists, Funded
  <2>4. \A v \in Writer : v # w =>
           Holds(v)' = Holds(v) /\ Coin(v)' = Coin(v)
    BY <1>2 DEF Holds, Coin, ChangeOf
  <2>5. /\ Unspent(Coin(w))' /\ Exists(Coin(w))'
        /\ \A v \in Writer : v # w /\ Holds(v)' => Coin(v)' # Coin(w)'
    BY <1>6, <2>1, <2>2, <2>3, <2>4 DEF WriterInv, CoinInv
  <2>6. \A v \in Writer : v # w /\ Holds(v)' =>
           Unspent(Coin(v))' /\ Exists(Coin(v))'
    BY <1>6, <2>4 DEF WriterInv, CoinInv
  <2>7. \A v, x \in Writer : v # w /\ x # w /\ v # x /\ Holds(v)' /\ Holds(x)'
           => Coin(v)' # Coin(x)'
    BY <2>4 DEF WriterInv, CoinInv
  <2> QED
    BY <2>5, <2>6, <2>7 DEF CoinInv
<1>8. SpendInv'
  BY <1>1, <1>6 DEF WriterInv, SpendInv, Txid
<1>9. SentAnchored' /\ IndexSound' /\ ChainLinked'
  BY <1>1 DEF WriterInv, SentAnchored, IndexSound, ChainLinked, Records, Txid
<1> QED
  BY <1>3, <1>4, <1>5, <1>7, <1>8, <1>9 DEF WriterInv

LEMMA ConfirmFundingStep ==
  ASSUME WriterInv, UNCHANGED captureVars, NEW w \in Writer, ConfirmFunding(w)
  PROVE  WriterInv'
<1> USE DEF ConfirmFunding, Goto, At, captureVars, schemaVars, dbVars,
            catalogVars, coinVars, drainVars, verifyVars
<1>1. /\ chain' = chain /\ fundings' = fundings
      /\ Len(chain) \in Nat /\ mined \in 0 .. Len(chain) /\ mined' = Len(chain)
  BY DEF WriterInv, WriterTypeOK
<1>2. /\ pc[w] = "confirm" /\ pc'[w] = "find"
      /\ \A v \in Writer : v # w => pc'[v] = pc[v]
      /\ txid' = txid /\ cur' = cur /\ sats' = sats /\ utxo' = utxo
  BY DEF WriterInv, WriterTypeOK
<1>3. WriterTypeOK'
  <2>1. pc' \in [Writer -> Steps]
    BY DEF WriterInv, WriterTypeOK, Steps
  <2> QED
    BY <1>1, <2>1 DEF WriterInv, WriterTypeOK
<1>4. HandInv'
  BY <1>1, <1>2 DEF WriterInv, WriterTypeOK, HandInv, Records, Txid, InFlight
<1>5. TodoInv' /\ PositionInv'
  BY <1>1 DEF WriterInv, TodoInv, PositionInv, Txid
<1>6. CoinInv' /\ SpendInv'
  <2>1. \A v \in Writer : Holds(v)' = Holds(v) /\ Coin(v)' = Coin(v)
    BY <1>2 DEF Holds, Coin, InFlight, Loading, ChangeOf
  <2> QED
    BY <1>1, <2>1, CoinsKept DEF WriterInv
<1>7. SentAnchored' /\ IndexSound' /\ ChainLinked'
  BY <1>1 DEF WriterInv, SentAnchored, IndexSound, ChainLinked, Records, Txid
<1> QED
  BY <1>3, <1>4, <1>5, <1>6, <1>7 DEF WriterInv

LEMMA FindFundingStep ==
  ASSUME WriterInv, UNCHANGED captureVars, NEW w \in Writer, FindFunding(w)
  PROVE  WriterInv'
<1> USE DEF FindFunding, Goto, At, captureVars, schemaVars, dbVars, nodeVars,
            catalogVars, drainVars, verifyVars
<1>1. /\ pc[w] = "find" /\ pc'[w] = "confidential"
      /\ \A v \in Writer : v # w => pc'[v] = pc[v] /\ sats'[v] = sats[v]
      /\ txid' = txid /\ cur' = cur /\ utxo' = utxo /\ chain' = chain
      /\ mined' = mined /\ fundings' = fundings
  BY DEF WriterInv, WriterTypeOK
<1>2. WriterTypeOK'
  <2>1. pc' \in [Writer -> Steps]
    BY DEF WriterInv, WriterTypeOK, Steps
  <2>2. sats' \in [Writer -> 0 .. Funding]
    BY WriterAssumption DEF WriterInv, WriterTypeOK
  <2> QED
    BY <1>1, <2>1, <2>2 DEF WriterInv, WriterTypeOK
<1>3. HandInv'
  BY <1>1 DEF WriterInv, HandInv, Records, Txid, InFlight
<1>4. TodoInv' /\ PositionInv'
  BY <1>1 DEF WriterInv, TodoInv, PositionInv, Txid
<1>5. CoinInv' /\ SpendInv'
  <2>1. \A v \in Writer : Holds(v)' = Holds(v) /\ Coin(v)' = Coin(v)
    BY <1>1 DEF Holds, Coin, InFlight, Loading, ChangeOf
  <2> QED
    BY <1>1, <2>1, CoinsKept DEF WriterInv
<1>6. SentAnchored' /\ IndexSound' /\ ChainLinked'
  BY <1>1 DEF WriterInv, SentAnchored, IndexSound, ChainLinked, Records, Txid
<1> QED
  BY <1>2, <1>3, <1>4, <1>5, <1>6 DEF WriterInv

LEMMA MineEntryStep ==
  ASSUME WriterInv, UNCHANGED captureVars, NEW w \in Writer, MineEntry(w)
  PROVE  WriterInv'
<1> USE DEF MineEntry, Goto, At, captureVars, schemaVars, dbVars, catalogVars,
            coinVars, drainVars, verifyVars
<1>1. /\ chain' = chain /\ fundings' = fundings
      /\ Len(chain) \in Nat /\ mined \in 0 .. Len(chain) /\ mined' = Len(chain)
  BY DEF WriterInv, WriterTypeOK
<1>2. /\ pc[w] = "mine" /\ pc'[w] = "mark"
      /\ \A v \in Writer : v # w => pc'[v] = pc[v]
      /\ txid' = txid /\ cur' = cur /\ sats' = sats /\ utxo' = utxo
  BY DEF WriterInv, WriterTypeOK
<1>3. WriterTypeOK'
  <2>1. pc' \in [Writer -> Steps]
    BY DEF WriterInv, WriterTypeOK, Steps
  <2> QED
    BY <1>1, <2>1 DEF WriterInv, WriterTypeOK
<1>4. HandInv'
  BY <1>1, <1>2 DEF WriterInv, WriterTypeOK, HandInv, Records, Txid, InFlight
<1>5. TodoInv' /\ PositionInv'
  BY <1>1 DEF WriterInv, TodoInv, PositionInv, Txid
<1>6. CoinInv' /\ SpendInv'
  <2>1. \A v \in Writer : Holds(v)' = Holds(v) /\ Coin(v)' = Coin(v)
    BY <1>2 DEF Holds, Coin, InFlight, ChangeOf
  <2> QED
    BY <1>1, <2>1, CoinsKept DEF WriterInv
<1>7. SentAnchored' /\ IndexSound' /\ ChainLinked'
  BY <1>1 DEF WriterInv, SentAnchored, IndexSound, ChainLinked, Records, Txid
<1> QED
  BY <1>3, <1>4, <1>5, <1>6, <1>7 DEF WriterInv

LEMMA MarkSentStep ==
  ASSUME CaptureTypeOK, WriterInv, UNCHANGED captureVars, NEW w \in Writer,
         MarkSent(w)
  PROVE  WriterInv'
<1> USE DEF MarkSent, Goto, At, captureVars, schemaVars, nodeVars, catalogVars,
            coinVars, drainVars, verifyVars
<1>1. /\ pc[w] = "mark" /\ pc'[w] = "index"
      /\ \A v \in Writer : v # w => pc'[v] = pc[v]
      /\ txid' = txid /\ cur' = cur /\ sats' = sats /\ utxo' = utxo
      /\ chain' = chain /\ mined' = mined /\ fundings' = fundings
      /\ Len(chain) \in Nat /\ mined \in 0 .. Len(chain)
  BY DEF WriterInv, WriterTypeOK
<1>2. txid[w] \in 1 .. mined
  BY <1>1, InHand DEF WriterInv, HandInv, InFlight
<1>3. /\ cur[w] \in DOMAIN outbox /\ Records(chain[txid[w]], cur[w])
      /\ chain[txid[w]].seq \in Nat
  BY <1>1, InHand DEF WriterInv, InFlight
<1> DEFINE row == [stream_seq |-> chain[txid[w]].seq, txid |-> txid[w]]
<1>4. /\ DOMAIN sent' = DOMAIN sent \cup {cur[w]} /\ sent'[cur[w]] = row
      /\ \A n \in DOMAIN sent : n # cur[w] => sent'[n] = sent[n]
  BY DEF Put
<1>5. WriterTypeOK'
  <2>1. pc' \in [Writer -> Steps]
    BY GotoType DEF WriterInv, Steps
  <2>2. IsPartialFcn(sent', Nat \ {0}, SentRow)
    <3>1. row \in SentRow
      BY <1>1, <1>2, <1>3 DEF SentRow
    <3>2. cur[w] \in Nat \ {0}
      BY <1>3 DEF CaptureTypeOK, IsPartialFcn
    <3>3. IsPartialFcn(sent, Nat \ {0}, SentRow)
      BY DEF WriterInv, WriterTypeOK
    <3> HIDE DEF row, MarkSent
    <3> QED
      BY <1>4, <3>1, <3>2, <3>3 DEF IsPartialFcn
  <2> HIDE DEF MarkSent
  <2> QED
    BY <2>1, <2>2, <1>1 DEF WriterInv, WriterTypeOK, MarkSent
<1>6. HandInv' /\ TodoInv' /\ PositionInv'
  BY <1>1 DEF WriterInv, HandInv, Records, Txid, InFlight, TodoInv, PositionInv
<1>7. CoinInv' /\ SpendInv'
  <2>1. \A v \in Writer : Holds(v)' = Holds(v) /\ Coin(v)' = Coin(v)
    BY <1>1 DEF Holds, Coin, InFlight, ChangeOf
  <2> QED
    BY <1>1, <2>1, CoinsKept DEF WriterInv
<1>8. SentAnchored'
  <2> SUFFICES ASSUME NEW n \in DOMAIN sent'
               PROVE  /\ n \in DOMAIN outbox
                      /\ sent'[n].txid \in 1 .. mined
                      /\ Records(chain[sent'[n].txid], n)
                      /\ chain[sent'[n].txid].seq = sent'[n].stream_seq
    <3>1. chain' = chain /\ mined' = mined /\ outbox' = outbox
      BY <1>1
    <3> HIDE DEF MarkSent
    <3> QED
      BY <3>1 DEF SentAnchored, Records
  <2>1. CASE n = cur[w]
    BY <2>1, <1>1, <1>2, <1>3, <1>4
  <2>2. CASE n # cur[w]
    BY <2>2, <1>4 DEF WriterInv, SentAnchored
  <2> QED
    BY <2>1, <2>2
<1>9. IndexSound' /\ ChainLinked'
  BY <1>1 DEF WriterInv, IndexSound, ChainLinked, Txid
<1> QED
  BY <1>5, <1>6, <1>7, <1>8, <1>9 DEF WriterInv

-----------------------------------------------------------------------------
\* Advance, from either of the two steps that end a row.
Advances(w) ==
    /\ pc[w] \in {"index", "leak"}
    /\ Advance(w)
    /\ Goto(w, "drain")
    /\ UNCHANGED <<chain, fundings, mined, outbox, cur, txid>>

AdvanceTypes ==
    /\ pc' \in [Writer -> Steps]
    /\ utxo' \in [Writer -> Output]
    /\ sats' \in [Writer -> 0 .. Funding]
    /\ todo' \in [Writer -> SUBSET (Nat \ {0})]
    /\ streamSeq' \in [Writer -> [Stream -> Nat]]
    /\ prevLink' \in [Writer -> [Stream -> Nat]]

LEMMA AdvanceStep ==
  ASSUME WriterInv, NEW w \in Writer, Advances(w)
  PROVE  /\ AdvanceTypes
         /\ HandInv' /\ TodoInv' /\ PositionInv' /\ CoinInv' /\ SpendInv'
<1> DEFINE e == chain[txid[w]]
<1>1. /\ pc[w] \in InFlight /\ pc'[w] = "drain" /\ pc' \in [Writer -> Steps]
      /\ \A v \in Writer : v # w => pc'[v] = pc[v]
      /\ chain' = chain /\ fundings' = fundings /\ mined' = mined
      /\ outbox' = outbox /\ cur' = cur /\ txid' = txid
  BY GotoType DEF WriterInv, Advances, InFlight, Steps
<1>2. /\ txid[w] \in Txid /\ txid[w] \in Nat \ {0} /\ sats[w] >= 1
      /\ e.seq \in Nat /\ e.stream \in Stream
  BY <1>1, InHand DEF WriterInv
<1>3. /\ streamSeq' = [streamSeq EXCEPT ![w][e.stream] = e.seq + 1]
      /\ prevLink' = [prevLink EXCEPT ![w][e.stream] = txid[w]]
      /\ utxo' = [utxo EXCEPT ![w] = ChangeOf(txid[w])]
      /\ sats' = [sats EXCEPT ![w] = @ - 1]
      /\ todo' = [todo EXCEPT ![w] = @ \ {cur[w]}]
  BY DEF Advances, Advance
<1> HIDE DEF e
<1>4. AdvanceTypes
  <2>1. ChangeOf(txid[w]) \in Output
    BY <1>2 DEF ChangeOf, Output
  <2>2. utxo' \in [Writer -> Output]
    BY <1>3, <2>1 DEF WriterInv, WriterTypeOK
  <2>3. sats[w] - 1 \in 0 .. Funding
    BY <1>2, WriterAssumption DEF WriterInv, WriterTypeOK
  <2>4. sats' \in [Writer -> 0 .. Funding]
    BY <1>3, <2>3 DEF WriterInv, WriterTypeOK
  <2>5. e.seq + 1 \in Nat /\ txid[w] \in Nat
    BY <1>2
  <2>6. streamSeq' \in [Writer -> [Stream -> Nat]]
    BY <1>2, <1>3, <2>5 DEF WriterInv, WriterTypeOK
  <2>7. prevLink' \in [Writer -> [Stream -> Nat]]
    BY <1>2, <1>3, <2>5 DEF WriterInv, WriterTypeOK
  <2>8. todo' \in [Writer -> SUBSET (Nat \ {0})]
    BY <1>3 DEF WriterInv, WriterTypeOK
  <2> QED
    BY <1>1, <2>2, <2>4, <2>6, <2>7, <2>8 DEF AdvanceTypes
<1>5. HandInv'
  <2>1. \A v \in Writer : v # w => sats'[v] = sats[v]
    BY <1>3 DEF WriterInv, WriterTypeOK
  <2> QED
    BY <1>1, <2>1 DEF WriterInv, HandInv, Records, Txid, InFlight
<1>6. TodoInv'
  BY <1>1, <1>3 DEF WriterInv, TodoInv, WriterTypeOK
<1>7. PositionInv'
  <2> SUFFICES ASSUME NEW v \in Writer, NEW st \in Stream
               PROVE  \/ prevLink'[v][st] = 0 /\ streamSeq'[v][st] = 0
                      \/ /\ prevLink'[v][st] \in Txid
                         /\ chain[prevLink'[v][st]].stream = st
                         /\ chain[prevLink'[v][st]].seq + 1 = streamSeq'[v][st]
    BY <1>1 DEF PositionInv, Txid
  <2>1. CASE v = w /\ st = e.stream
    <3>1. prevLink'[v][st] = txid[w] /\ streamSeq'[v][st] = e.seq + 1
      BY <1>2, <1>3, <2>1 DEF WriterInv, WriterTypeOK
    <3> QED
      BY <1>2, <2>1, <3>1 DEF e
  <2>2. CASE ~(v = w /\ st = e.stream)
    <3>1. /\ prevLink'[v][st] = prevLink[v][st]
          /\ streamSeq'[v][st] = streamSeq[v][st]
      BY <1>2, <1>3, <2>2 DEF WriterInv, WriterTypeOK
    <3> QED
      BY <3>1 DEF WriterInv, PositionInv
  <2> QED
    BY <2>1, <2>2
<1>8. CoinInv' /\ SpendInv'
  <2>1. /\ utxo'[w] = ChangeOf(txid[w])
        /\ \A v \in Writer : v # w => utxo'[v] = utxo[v]
    BY <1>3 DEF WriterInv, WriterTypeOK
  <2>2. Holds(w) /\ Coin(w)' = Coin(w)
    BY <1>1, <2>1 DEF Holds, Coin, InFlight, ChangeOf
  <2>3. \A v \in Writer : v # w => Holds(v)' = Holds(v) /\ Coin(v)' = Coin(v)
    BY <1>1, <2>1 DEF Holds, Coin, ChangeOf
  <2> QED
    BY <1>1, <2>2, <2>3, CoinsKept DEF WriterInv
<1> QED
  BY <1>4, <1>5, <1>6, <1>7, <1>8

\* An entry is stored in te.chain_index under its own stream and position.
LEMMA IndexKept ==
  ASSUME WriterInv, NEW w \in Writer, pc[w] = "index",
         chainIndex' = Put(chainIndex, IndexKey(chain[txid[w]]), txid[w]),
         chain' = chain, mined' = mined
  PROVE  /\ IndexSound'
         /\ IsPartialFcn(chainIndex', Stream \X Nat, Nat \ {0})
<1> DEFINE i == IndexKey(chain[txid[w]])
<1>1. /\ txid[w] \in 1 .. mined /\ txid[w] \in Nat \ {0}
      /\ chain[txid[w]].seq \in Nat /\ chain[txid[w]].stream \in Stream
  BY InHand DEF WriterInv, HandInv, InFlight
<1>2. /\ i \in Stream \X Nat
      /\ i[1] = chain[txid[w]].stream /\ i[2] = chain[txid[w]].seq
  BY <1>1 DEF IndexKey
<1>3. /\ DOMAIN chainIndex' = DOMAIN chainIndex \cup {i}
      /\ chainIndex'[i] = txid[w]
      /\ \A j \in DOMAIN chainIndex : j # i => chainIndex'[j] = chainIndex[j]
  BY DEF Put
<1> HIDE DEF i
<1>4. IndexSound'
  BY <1>1, <1>2, <1>3 DEF WriterInv, IndexSound
<1>5. IsPartialFcn(chainIndex', Stream \X Nat, Nat \ {0})
  BY <1>1, <1>2, <1>3 DEF WriterInv, WriterTypeOK, IsPartialFcn
<1> QED
  BY <1>4, <1>5

LEMMA IndexEntryStep ==
  ASSUME WriterInv, UNCHANGED captureVars, NEW w \in Writer, IndexEntry(w)
  PROVE  WriterInv'
<1>1. /\ pc[w] = "index"
      /\ chainIndex' = Put(chainIndex, IndexKey(chain[txid[w]]), txid[w])
      /\ UNCHANGED <<sent, blinding, chain, mined, fundings, rels, conf,
                      streamConf, cur, txid, toVerify, toRead, cells, outbox>>
  BY DEF IndexEntry, At, nodeVars, catalogVars, verifyVars, captureVars,
         schemaVars
<1>2. IndexSound' /\ IsPartialFcn(chainIndex', Stream \X Nat, Nat \ {0})
  BY <1>1, IndexKept
<1>3. SentAnchored' /\ ChainLinked'
  BY <1>1 DEF WriterInv, SentAnchored, ChainLinked, Records, Txid
<1>4. CASE chain[txid[w]].committed
  <2>1. /\ Goto(w, "blind") /\ UNCHANGED <<runs, outcome>>
        /\ UNCHANGED <<utxo, sats, todo, streamSeq, prevLink>>
    BY <1>4 DEF IndexEntry, Goto, coinVars
  <2>2. /\ pc' \in [Writer -> Steps] /\ pc'[w] = "blind"
        /\ \A v \in Writer : v # w => pc'[v] = pc[v]
    BY <2>1, GotoType DEF WriterInv, Steps
  <2>3. WriterTypeOK'
    BY <1>1, <1>2, <2>1, <2>2 DEF WriterInv, WriterTypeOK
  <2>4. HandInv' /\ TodoInv' /\ PositionInv'
    BY <1>1, <2>1, <2>2 DEF WriterInv, HandInv, Records, Txid, InFlight,
       TodoInv, PositionInv
  <2>5. CoinInv' /\ SpendInv'
    <3>1. \A v \in Writer : Holds(v)' = Holds(v) /\ Coin(v)' = Coin(v)
      BY <1>1, <2>1, <2>2 DEF Holds, Coin, InFlight, ChangeOf
    <3> QED
      BY <1>1, <3>1, CoinsKept DEF WriterInv
  <2> QED
    BY <1>2, <1>3, <2>3, <2>4, <2>5 DEF WriterInv
<1>5. CASE ~chain[txid[w]].committed
  <2>1. Advances(w) /\ UNCHANGED <<runs, outcome>>
    BY <1>1, <1>5 DEF IndexEntry, Advances, Goto
  <2>2. /\ AdvanceTypes
        /\ HandInv' /\ TodoInv' /\ PositionInv' /\ CoinInv' /\ SpendInv'
    BY <2>1, AdvanceStep
  <2>3. WriterTypeOK'
    BY <1>1, <1>2, <2>1, <2>2 DEF WriterInv, WriterTypeOK, AdvanceTypes
  <2> QED
    BY <1>2, <1>3, <2>2, <2>3 DEF WriterInv
<1> QED
  BY <1>4, <1>5

LEMMA StoreBlindingStep ==
  ASSUME WriterInv, UNCHANGED captureVars, NEW w \in Writer, StoreBlinding(w)
  PROVE  WriterInv'
<1> DEFINE e == chain[txid[w]]
<1>1. /\ pc[w] = "blind" /\ Goto(w, "leak")
      /\ blinding' = Put(blinding, IndexKey(e), e.r)
      /\ UNCHANGED <<sent, chainIndex, chain, mined, fundings, rels, conf,
                      streamConf, utxo, sats, todo, cur, txid, streamSeq,
                      prevLink, toVerify, toRead, cells, outbox, runs, outcome>>
  BY DEF StoreBlinding, At, Goto, nodeVars, catalogVars, coinVars, drainVars,
         verifyVars, captureVars, schemaVars
<1>2. /\ pc' \in [Writer -> Steps] /\ pc'[w] = "leak"
      /\ \A v \in Writer : v # w => pc'[v] = pc[v]
  BY <1>1, GotoType DEF WriterInv, Steps
<1>3. HandInv' /\ TodoInv' /\ PositionInv'
  BY <1>1, <1>2 DEF WriterInv, HandInv, Records, Txid, InFlight, TodoInv,
     PositionInv
<1>4. IsPartialFcn(blinding', Stream \X Nat, Nat)
  <2>1. e \in Entry
    BY <1>1, InHand DEF WriterInv, InFlight
  <2>2. IndexKey(e) \in Stream \X Nat /\ e.r \in Nat
    BY <2>1 DEF Entry, IndexKey
  <2> HIDE DEF e
  <2>3. IsPartialFcn(blinding, Stream \X Nat, Nat)
    BY DEF WriterInv, WriterTypeOK
  <2> QED
    BY <1>1, <2>2, <2>3 DEF IsPartialFcn, Put
<1>5. WriterTypeOK'
  BY <1>1, <1>2, <1>4 DEF WriterInv, WriterTypeOK
<1>6. CoinInv' /\ SpendInv'
  <2>1. \A v \in Writer : Holds(v)' = Holds(v) /\ Coin(v)' = Coin(v)
    BY <1>1, <1>2 DEF Holds, Coin, InFlight, ChangeOf
  <2> QED
    BY <1>1, <2>1, CoinsKept DEF WriterInv
<1>7. SentAnchored' /\ IndexSound' /\ ChainLinked'
  BY <1>1 DEF WriterInv, SentAnchored, IndexSound, ChainLinked, Records, Txid
<1> QED
  BY <1>3, <1>5, <1>6, <1>7 DEF WriterInv

LEMMA CheckLeakStep ==
  ASSUME WriterInv, UNCHANGED captureVars, NEW w \in Writer, CheckLeak(w)
  PROVE  WriterInv'
<1>1. /\ pc[w] = "leak"
      /\ UNCHANGED <<sent, chainIndex, blinding, chain, mined, fundings, rels,
                      conf, streamConf, cur, txid, toVerify, toRead, cells,
                      outbox, runs>>
  BY DEF CheckLeak, At, Goto, Exit, dbVars, nodeVars, catalogVars, verifyVars,
         captureVars, schemaVars
<1>2. CASE Goto(w, "drain") /\ Advance(w)
  <2>1. Advances(w) /\ outcome' = outcome
    BY <1>1, <1>2 DEF Advances, Goto
  <2>2. /\ AdvanceTypes
        /\ HandInv' /\ TodoInv' /\ PositionInv' /\ CoinInv' /\ SpendInv'
    BY <2>1, AdvanceStep
  <2>3. WriterTypeOK'
    BY <1>1, <2>1, <2>2 DEF WriterInv, WriterTypeOK, AdvanceTypes
  <2>4. SentAnchored' /\ IndexSound' /\ ChainLinked'
    BY <1>1 DEF WriterInv, SentAnchored, IndexSound, ChainLinked, Records, Txid
  <2> QED
    BY <2>2, <2>3, <2>4 DEF WriterInv
<1>3. CASE /\ Exit(w, "leaked")
           /\ UNCHANGED <<coinVars, todo, streamSeq, prevLink>>
  <2>1. "leaked" \in Outcomes
    BY DEF Outcomes
  <2>2. /\ UNCHANGED <<dbVars, nodeVars, catalogVars, coinVars, drainVars>>
        /\ UNCHANGED <<toVerify, toRead, cells>>
    BY <1>3 DEF CheckLeak, drainVars, verifyVars
  <2> QED
    BY <1>3, <2>1, <2>2, ExitStep
<1> QED
  BY <1>2, <1>3 DEF CheckLeak

-----------------------------------------------------------------------------
\* The entry a writer sends: what the other steps need to know of it.
Continues(e, st) ==
    \/ e.prev = 0 /\ e.seq = 0
    \/ /\ e.prev \in Txid
       /\ chain[e.prev].stream = st
       /\ chain[e.prev].seq + 1 = e.seq

LEMMA NewEntryFacts ==
  ASSUME CaptureTypeOK, WriterInv, NEW w \in Writer, NEW n \in DOMAIN outbox
  PROVE  /\ NewEntry(w, n) \in Entry
         /\ Records(NewEntry(w, n), n)
         /\ NewEntry(w, n).spends = utxo[w]
         /\ Continues(NewEntry(w, n), NewEntry(w, n).stream)
<1> DEFINE o == outbox[n]
<1> DEFINE e == NewEntry(w, n)
<1>1. o \in Change /\ n \in Nat /\ Len(chain) \in Nat
  BY DEF CaptureTypeOK, IsPartialFcn, WriterInv, WriterTypeOK
<1>2. /\ o.stream \in Stream /\ o.table \in Table /\ o.row \in Key
      /\ o.column \in Column /\ o.op \in Op /\ o.value \in Value \cup {NULL}
  BY <1>1 DEF Change
<1>3. Image(o.value) \in Value \cup {EmptyString}
  BY <1>2 DEF Image
<1>4. Confidential(w, o.table) \in BOOLEAN
  BY DEF Confidential, WriterInv, WriterTypeOK, IsPartialFcn
<1>5. /\ streamSeq[w][o.stream] \in Nat /\ prevLink[w][o.stream] \in Nat
      /\ utxo[w] \in Output
  BY <1>2 DEF WriterInv, WriterTypeOK
<1>6. (IF Confidential(w, o.table) THEN Len(chain) + 1 ELSE 0) \in Nat
  BY <1>1
<1>7. e \in Entry
  <2> HIDE DEF o
  <2>1. e = [stream |-> o.stream, table |-> o.table, row |-> o.row,
             column |-> o.column, op |-> o.op,
             seq |-> streamSeq[w][o.stream], prev |-> prevLink[w][o.stream],
             value |-> Image(o.value), committed |-> Confidential(w, o.table),
             r |-> IF Confidential(w, o.table) THEN Len(chain) + 1 ELSE 0,
             spends |-> utxo[w], change |-> n]
    BY DEF NewEntry, o
  <2> HIDE DEF e
  <2> QED
    BY <2>1, <1>1, <1>2, <1>3, <1>4, <1>5, <1>6 DEF Entry
<1>8. /\ e.stream = o.stream /\ e.seq = streamSeq[w][o.stream]
      /\ e.prev = prevLink[w][o.stream] /\ e.spends = utxo[w]
  BY DEF NewEntry
<1>9. Records(e, n)
  BY DEF NewEntry, Records
<1>10. Continues(e, e.stream)
  <2> HIDE DEF o, e
  <2> QED
    BY <1>2, <1>8 DEF WriterInv, PositionInv, Continues
<1> QED
  BY <1>7, <1>8, <1>9, <1>10

\* What sending appends to the chain, with the entry as a rigid value.
Sends(w, n, e) ==
    /\ pc[w] = "drain" /\ n \in DOMAIN outbox /\ sats[w] >= 1
    /\ e \in Entry /\ Records(e, n) /\ e.spends = utxo[w]
    /\ Continues(e, e.stream)
    /\ chain' = Append(chain, e)
    /\ cur' = [cur EXCEPT ![w] = n]
    /\ txid' = [txid EXCEPT ![w] = Len(chain) + 1]
    /\ Goto(w, "mine")
    /\ UNCHANGED <<dbVars, mined, fundings, catalogVars, coinVars, todo,
                   streamSeq, prevLink, verifyVars, outbox>>

LEMMA SendEntrySends ==
  ASSUME CaptureTypeOK, WriterInv, UNCHANGED captureVars, NEW w \in Writer,
         SendEntry(w)
  PROVE  \E n, e : Sends(w, n, e)
<1>1. PICK n \in todo[w] :
         /\ Accepts(w) /\ chain' = Append(chain, NewEntry(w, n))
         /\ cur' = [cur EXCEPT ![w] = n]
  BY DEF SendEntry
<1>2. n \in DOMAIN outbox /\ n \in Nat
  BY DEF WriterInv, TodoInv, CaptureTypeOK, IsPartialFcn
<1>3. Sends(w, n, NewEntry(w, n))
  BY <1>1, <1>2, NewEntryFacts DEF SendEntry, Sends, At, Accepts, captureVars,
     schemaVars
<1> QED
  BY <1>3

LEMMA SendsStep ==
  ASSUME CaptureTypeOK, WriterInv, NEW w \in Writer, NEW n, NEW e,
         Sends(w, n, e)
  PROVE  WriterInv'
<1> DEFINE k == Len(chain) + 1
<1>1. /\ k \in Nat \ {0} /\ Len(chain) \in Nat
      /\ chain' \in Seq(Entry) /\ Len(chain') = k
      /\ \A i \in Txid : chain'[i] = chain[i]
      /\ chain'[k] = e
      /\ e.spends = utxo[w] /\ Records(e, n)
      /\ mined \in 0 .. Len(chain)
  BY AppendFacts DEF Sends, WriterInv, WriterTypeOK, Txid
<1>2. /\ pc[w] = "drain" /\ pc'[w] = "mine" /\ pc' \in [Writer -> Steps]
      /\ \A v \in Writer : v # w => pc'[v] = pc[v]
      /\ UNCHANGED <<runs, outcome>>
  BY GotoType DEF WriterInv, Sends, Steps, Goto
<1>3. UNCHANGED <<sent, chainIndex, blinding, mined, fundings, rels, conf,
                  streamConf, utxo, sats, todo, streamSeq, prevLink, toVerify,
                  toRead, cells, outbox>>
  BY DEF Sends, dbVars, catalogVars, coinVars, verifyVars
<1>4. /\ n \in DOMAIN outbox /\ n \in Nat
      /\ cur' \in [Writer -> Nat] /\ txid' \in [Writer -> Nat]
      /\ cur'[w] = n /\ txid'[w] = k
      /\ \A v \in Writer : v # w => cur'[v] = cur[v] /\ txid'[v] = txid[v]
      /\ sats[w] >= 1
  BY <1>1 DEF Sends, WriterInv, WriterTypeOK, CaptureTypeOK, IsPartialFcn
<1>5. \A i : i \in 1 .. k <=> i \in Txid \/ i = k
  BY <1>1 DEF Txid
<1>6. Txid' = 1 .. k /\ k \notin Txid
  BY <1>1 DEF Txid
<1> HIDE DEF k
<1>7. WriterTypeOK'
  <2>1. mined \in 0 .. k
    BY <1>1 DEF k
  <2> QED
    BY <1>1, <1>2, <1>3, <1>4, <2>1 DEF WriterInv, WriterTypeOK
<1>8. HandInv'
  <2> SUFFICES ASSUME NEW v \in Writer, pc'[v] \in InFlight
               PROVE  /\ txid'[v] \in 1 .. k
                      /\ pc'[v] # "mine" => txid'[v] <= mined
                      /\ cur'[v] \in DOMAIN outbox
                      /\ Records(chain'[txid'[v]], cur'[v])
                      /\ sats[v] >= 1
    BY <1>3, <1>6 DEF HandInv, Records
  <2>1. CASE v = w
    BY <2>1, <1>1, <1>2, <1>4, <1>5
  <2>2. CASE v # w
    BY <2>2, <1>1, <1>2, <1>4, <1>5 DEF WriterInv, HandInv
  <2> QED
    BY <2>1, <2>2
<1>9. TodoInv' /\ PositionInv'
  BY <1>1, <1>3, <1>5, <1>6 DEF WriterInv, TodoInv, PositionInv
<1>10. SentAnchored' /\ IndexSound'
  <2>1. 1 .. mined \subseteq Txid
    BY <1>1 DEF Txid
  <2> QED
    BY <2>1, <1>1, <1>3 DEF WriterInv, SentAnchored, IndexSound, Records
<1>11. ChainLinked'
  <2> SUFFICES ASSUME NEW i \in 1 .. k
               PROVE  \/ chain'[i].prev = 0 /\ chain'[i].seq = 0
                      \/ /\ chain'[i].prev \in 1 .. i - 1
                         /\ chain'[chain'[i].prev].stream = chain'[i].stream
                         /\ chain'[chain'[i].prev].seq + 1 = chain'[i].seq
    BY <1>6 DEF ChainLinked
  <2>1. CASE i = k
    <3>1. \A j \in Txid : j \in 1 .. k - 1
      BY <1>1 DEF Txid, k
    <3> QED
      BY <2>1, <3>1, <1>1 DEF Sends, Continues
  <2>2. CASE i \in Txid
    <3>1. \A j \in 1 .. i - 1 : j \in Txid
      BY <2>2, <1>1 DEF Txid
    <3> QED
      BY <2>2, <3>1, <1>1 DEF WriterInv, ChainLinked
  <2> QED
    BY <2>1, <2>2, <1>5
<1>12. /\ \A u : Exists(u) => Exists(u)' /\ u # ChangeOf(k)
       /\ Exists(ChangeOf(k)) = FALSE
       /\ \E u : u = ChangeOf(k) /\ Exists(u)'
       /\ \A u : Unspent(u)' <=> Unspent(u) /\ u # utxo[w]
  <2>1. \A u : Exists(u) => Exists(u)' /\ u # ChangeOf(k)
    BY <1>3, <1>5, <1>6 DEF Exists, Funded, ChangeOf
  <2>2. \A u : u = ChangeOf(k) => Exists(u)'
    BY <1>5, <1>6 DEF Exists
  <2>3. \A u : Unspent(u)' <=> Unspent(u) /\ u # utxo[w]
    BY <1>1, <1>5, <1>6 DEF Unspent
  <2> QED
    BY <2>1, <2>2, <2>3
<1>13. /\ Holds(w) /\ Coin(w) = utxo[w] /\ Holds(w)'
       /\ \A v \in Writer : v # w => Holds(v)' = Holds(v) /\ Coin(v)' = Coin(v)
  BY <1>2, <1>3, <1>4 DEF Holds, Coin, ChangeOf, InFlight, Loading
<1>14. Coin(w)' = ChangeOf(k)
  BY <1>2, <1>4 DEF Coin, InFlight, ChangeOf
<1>15. SpendInv'
  <2>1. Exists(utxo[w])
    BY <1>13 DEF WriterInv, CoinInv
  <2>2. \A i \in 1 .. k : Exists(chain'[i].spends)
    BY <2>1, <1>1, <1>5 DEF WriterInv, SpendInv
  <2>3. ASSUME NEW i \in 1 .. k PROVE Exists(chain[i].spends)'
    <3>1. PICK u : u = chain'[i].spends
      OBVIOUS
    <3> QED
      BY <3>1, <2>2, <1>12
  <2> QED
    BY <2>3, <1>6 DEF SpendInv
<1>16. CoinInv'
  <2>1. PICK c : c = ChangeOf(k)
    OBVIOUS
  <2>2. Exists(c)' /\ ~Exists(c)
    BY <2>1, <1>12
  <2>3. Unspent(c) /\ c # utxo[w]
    <3>1. \A i \in Txid : chain[i].spends # c
      BY <2>2 DEF WriterInv, SpendInv
    <3>2. Exists(utxo[w])
      BY <1>13 DEF WriterInv, CoinInv
    <3> QED
      BY <3>1, <3>2, <2>2 DEF Unspent
  <2>4. Unspent(c)' /\ Coin(w)' = c
    BY <2>1, <2>3, <1>12, <1>14
  <2>5. ASSUME NEW v \in Writer, v # w, Holds(v)'
        PROVE  /\ Unspent(Coin(v))' /\ Exists(Coin(v))' /\ Coin(v)' # c
    <3>1. PICK u : u = Coin(v)
      OBVIOUS
    <3>2. Unspent(u) /\ Exists(u) /\ u # utxo[w] /\ Coin(v)' = u
      BY <2>5, <3>1, <1>13 DEF WriterInv, CoinInv
    <3>3. Unspent(u)' /\ Exists(u)' /\ u # c
      BY <3>2, <2>2, <1>12
    <3> QED
      BY <3>2, <3>3
  <2>6. \A v, x \in Writer : v # w /\ x # w /\ v # x /\ Holds(v)' /\ Holds(x)'
           => Coin(v)' # Coin(x)'
    BY <1>13 DEF WriterInv, CoinInv
  <2>7. Unspent(Coin(w))' /\ Exists(Coin(w))'
    BY <2>2, <2>4
  <2> QED
    BY <2>4, <2>5, <2>6, <2>7 DEF CoinInv
<1> QED
  BY <1>7, <1>8, <1>9, <1>10, <1>11, <1>15, <1>16 DEF WriterInv

-----------------------------------------------------------------------------
LEMMA SessionStep ==
  ASSUME WriterInv, OutboxGrows, UNCHANGED writerVars
  PROVE  WriterInv'
<1> USE DEF writerVars, dbVars, nodeVars, controlVars, catalogVars, coinVars,
            drainVars, verifyVars
<1>1. WriterTypeOK'
  BY DEF WriterInv, WriterTypeOK
<1>2. HandInv' /\ TodoInv' /\ PositionInv'
  BY DEF OutboxGrows, WriterInv, HandInv, Records, Txid, TodoInv, PositionInv
<1>3. CoinInv' /\ SpendInv'
  <2>1. \A v \in Writer : Holds(v)' = Holds(v) /\ Coin(v)' = Coin(v)
    BY DEF Holds, Coin, ChangeOf
  <2> QED
    BY <2>1, CoinsKept DEF WriterInv
<1>4. SentAnchored' /\ IndexSound' /\ ChainLinked'
  BY DEF OutboxGrows, WriterInv, SentAnchored, IndexSound, ChainLinked,
     Records, Txid
<1> QED
  BY <1>1, <1>2, <1>3, <1>4 DEF WriterInv

LEMMA WriterInvInit == WriterInit => WriterInv
<1> SUFFICES ASSUME WriterInit PROVE WriterInv
  OBVIOUS
<1>1. /\ chain = <<>> /\ Txid = {} /\ Len(chain) = 0 /\ DOMAIN NoMap = {}
      /\ \A w \in Writer : pc[w] = "off"
  BY DEF WriterInit, Txid, NoMap
<1>2. WriterTypeOK
  BY <1>1, WriterAssumption DEF WriterInit, WriterTypeOK, IsPartialFcn, Steps,
     Outcomes, NoOutput, Output
<1>3. HandInv /\ TodoInv /\ CoinInv
  BY <1>1 DEF WriterInit, HandInv, TodoInv, CoinInv, InFlight, Holds, Loading
<1>4. PositionInv /\ SpendInv
  BY <1>1 DEF WriterInit, PositionInv, SpendInv
<1>5. SentAnchored /\ IndexSound /\ ChainLinked
  BY <1>1 DEF WriterInit, SentAnchored, IndexSound, ChainLinked
<1> QED
  BY <1>2, <1>3, <1>4, <1>5 DEF WriterInv

LEMMA WriterProgress ==
  ASSUME CaptureTypeOK, WriterInv, UNCHANGED captureVars, WriterNext
  PROVE  WriterInv'
<1>1. PICK w \in Writer : Start(w) \/ WriterStep(w) \/ Crash(w)
  BY DEF WriterNext
<1>2. CASE Start(w)
  BY <1>2, StartStep
<1>3. CASE SendToAddress(w) \/ ConfirmFunding(w) \/ FindFunding(w)
  BY <1>3, SendToAddressStep, ConfirmFundingStep, FindFundingStep
<1>4. CASE LoadConfidential(w)
  BY <1>4, LoadConfidentialStep
<1>5. CASE LoadStreamConf(w)
  BY <1>5, LoadStreamConfStep
<1>6. CASE LoadPending(w)
  BY <1>6, LoadPendingStep
<1>7. CASE SendEntry(w)
  BY <1>7, SendEntrySends, SendsStep
<1>8. CASE SendFails(w)
  <2>1. /\ Exit(w, "no keys") \/ Exit(w, "rejected")
        /\ {"no keys", "rejected"} \subseteq Outcomes
    BY <1>8 DEF SendFails, Outcomes
  <2> QED
    BY <1>8, <2>1, ExitStep DEF SendFails, verifyVars
<1>9. CASE MineEntry(w)
  BY <1>9, MineEntryStep
<1>10. CASE MarkSent(w)
  BY <1>10, MarkSentStep
<1>11. CASE IndexEntry(w)
  BY <1>11, IndexEntryStep
<1>12. CASE StoreBlinding(w)
  BY <1>12, StoreBlindingStep
<1>13. CASE CheckLeak(w)
  BY <1>13, CheckLeakStep
<1>14. CASE \/ BeginVerify(w) \/ ReadHead(w) \/ Rebuild(w) \/ ReadTables(w)
            \/ \E t \in Table : ReadTable(w, t)
            \/ Compare(w)
  BY <1>14, RebuildStep
<1>15. CASE Finish(w)
  <2>1. Exit(w, "pass") /\ "pass" \in Outcomes
    BY <1>15 DEF Finish, Outcomes
  <2> QED
    BY <1>15, <2>1, ExitStep DEF Finish, verifyVars
<1>16. CASE Crash(w)
  BY <1>16, CrashStep
<1> QED
  BY <1>1, <1>2, <1>3, <1>4, <1>5, <1>6, <1>7, <1>8, <1>9, <1>10, <1>11,
     <1>12, <1>13, <1>14, <1>15, <1>16 DEF WriterStep

LEMMA SystemInvStep == SystemInv /\ [Next]_vars => SystemInv'
<1> SUFFICES ASSUME SystemInv, [Next]_vars PROVE SystemInv'
  OBVIOUS
<1>1. CaptureInv /\ WriterInv /\ CaptureTypeOK
  BY DEF SystemInv, CaptureInv
<1>2. [CaptureNext]_captureVars
  BY DEF Next, vars
<1>3. CaptureInv' /\ OutboxGrows
  BY <1>1, <1>2, CaptureInvStep, OutboxOnlyGrows
<1>4. CASE UNCHANGED writerVars
  BY <1>1, <1>3, <1>4, SessionStep DEF SystemInv
<1>5. CASE WriterNext /\ UNCHANGED captureVars
  BY <1>1, <1>3, <1>5, WriterProgress DEF SystemInv
<1> QED
  BY <1>4, <1>5 DEF Next, vars

-----------------------------------------------------------------------------
\* In every state of the composed system the outbox and the tables agree, and
\* what each writer holds agrees with the database and the chain.
THEOREM SystemInvariant == Spec => []SystemInv
<1>1. Init => SystemInv
  BY CaptureInvInit, WriterInvInit DEF Init, SystemInv
<1> QED
  BY <1>1, SystemInvStep, PTL DEF Spec

\* Every variable of the database, the node and the writers keeps its type;
\* among them sats, the unsigned amount the writer subtracts from.
THEOREM TypeCorrect == Spec => []TypeOK
<1>1. SystemInv => TypeOK
  BY DEF SystemInv, CaptureInv, WriterInv, TypeOK
<1> QED
  BY <1>1, SystemInvariant, PTL

\* A row leaves 'pending' only for a mined entry with its content, whatever
\* crashes, restarts and concurrent writers do between sending and marking.
THEOREM SentAnchoredTheorem == Spec => []SentAnchored
<1>1. SystemInv => SentAnchored
  BY DEF SystemInv, WriterInv
<1> QED
  BY <1>1, SystemInvariant, PTL

\* te.chain_index never names an entry of another stream or position.
THEOREM IndexSoundTheorem == Spec => []IndexSound
<1>1. SystemInv => IndexSound
  BY DEF SystemInv, WriterInv
<1> QED
  BY <1>1, SystemInvariant, PTL

\* The walk along prev_txid that the verifier makes from any entry ends in a
\* genesis, in one stream, with consecutive positions.
THEOREM ChainLinkedTheorem == Spec => []ChainLinked
<1>1. SystemInv => ChainLinked
  BY DEF SystemInv, WriterInv
<1> QED
  BY <1>1, SystemInvariant, PTL

\* No two writers ever spend the same output.
THEOREM CoinsOwnedTheorem == Spec => []CoinsOwned
<1>1. SystemInv => CoinsOwned
  <2> SUFFICES ASSUME SystemInv, NEW w \in Writer, pc[w] = "drain"
               PROVE  /\ Unspent(utxo[w])
                      /\ \A v \in Writer \ {w} :
                            pc[v] = "drain" => utxo[v] # utxo[w]
    BY DEF CoinsOwned
  <2>1. \A v \in Writer : pc[v] = "drain" => Holds(v) /\ Coin(v) = utxo[v]
    BY DEF Holds, Coin, InFlight, Loading
  <2> QED
    BY <2>1 DEF SystemInv, WriterInv, CoinInv
<1> QED
  BY <1>1, SystemInvariant, PTL

\* What te.verify calls anchored is mined and is what the table holds: the
\* writer's SentAnchored and the trigger's LastChangeIsLive together.
THEOREM VerifyTellsTruthTheorem == Spec => []VerifyTellsTruth
<1>1. SystemInv => VerifyTellsTruth
  <2> SUFFICES ASSUME SystemInv, NEW t \in Table, NEW k \in Key,
                      NEW c \in Column, NEW n \in DOMAIN sent,
                      IsLatest(n, t, k, c), <<t, k>> \notin rekeyed
               PROVE  /\ sent[n].txid \in 1 .. mined
                      /\ IF chain[sent[n].txid].op = "DELETE"
                         THEN live[<<t, k>>] = Absent
                         ELSE /\ live[<<t, k>>] # Absent
                              /\ chain[sent[n].txid].value =
                                    Image(live[<<t, k>>][c])
    BY DEF VerifyTellsTruth
  <2>1. /\ n \in DOMAIN outbox /\ sent[n].txid \in 1 .. mined
        /\ Records(chain[sent[n].txid], n)
    BY DEF SystemInv, WriterInv, SentAnchored
  <2>2. IF outbox[n].op = "DELETE" THEN live[<<t, k>>] = Absent
        ELSE /\ live[<<t, k>>] # Absent
             /\ outbox[n].value = live[<<t, k>>][c]
    BY <2>1 DEF SystemInv, CaptureInv, LastChangeIsLive
  <2> QED
    BY <2>1, <2>2 DEF Records
<1> QED
  BY <1>1, SystemInvariant, PTL

-----------------------------------------------------------------------------
(* With no registration while clients run, the catalog stays what it was.  *)

InitialStreams == {InitialJournalled[t].stream : t \in DOMAIN InitialJournalled}

\* The row is of a registered table, and in its stream.
InCatalog(row) ==
    /\ row.table \in DOMAIN InitialJournalled
    /\ row.stream = InitialJournalled[row.table].stream

CatalogInv ==
    /\ journalled = InitialJournalled
    /\ InitialStreams \subseteq relationship
    /\ nextSeq <= MaxSeq + 1
    /\ \A n \in DOMAIN outbox : InCatalog(outbox[n])
    /\ \A s \in Session : \A n \in DOMAIN captured[s] : InCatalog(captured[s][n])
    /\ Rekeys = {} => rekeyed = {}

LEMMA CatalogInit == CaptureInit => CatalogInv
  BY CaptureAssumption DEF CaptureInit, CatalogInv, NoMap, InitialStreams

LEMMA CatalogStatement ==
  ASSUME CaptureInv, CatalogInv,
         NEW s \in Session, NEW t \in Table, NEW k \in Key, NEW op \in Op,
         NEW cols, NEW row, NEW W, Statement(s, t, k, op, cols, row, W)
  PROVE  /\ journalled' = journalled /\ relationship' = relationship
         /\ outbox' = outbox
         /\ nextSeq' <= MaxSeq + 1
         /\ \A o \in Session : \A n \in DOMAIN captured'[o] : InCatalog(captured'[o][n])
<1> DEFINE rows == CaptureRows(t, k, op, cols, row)
<1>1. UNCHANGED <<journalled, relationship, outbox>>
  BY DEF Statement, schemaVars
<1>2. CASE t \notin DOMAIN journalled \/ cols = {}
  <2>1. nextSeq' = nextSeq /\ captured' = captured
    BY <1>2 DEF Statement, Capture
  <2> QED
    BY <1>1, <2>1 DEF CatalogInv
<1>3. CASE t \in DOMAIN journalled /\ cols # {}
  <2>1. /\ nextSeq' = nextSeq + NumColumns /\ nextSeq + NumColumns <= MaxSeq + 1
        /\ captured' = [captured EXCEPT ![s] = Join(@, rows)]
    BY <1>3 DEF Statement, Capture
  <2>2. \A n \in DOMAIN rows : rows[n].table = t /\ rows[n].stream = journalled[t].stream
    BY DEF CaptureRows
  <2>3. \A n \in DOMAIN rows : InCatalog(rows[n])
    BY <1>3, <2>2 DEF CatalogInv, InCatalog
  <2> HIDE DEF rows
  <2>4. \A o \in Session : \A n \in DOMAIN captured'[o] : InCatalog(captured'[o][n])
    BY <2>1, <2>3 DEF CatalogInv, CaptureInv, CaptureTypeOK, Join
  <2> QED
    BY <1>1, <2>1, <2>4
<1> QED
  BY <1>2, <1>3

LEMMA CatalogStep ==
  ASSUME Registrations = {}, CaptureInv, CatalogInv, [CaptureNext]_captureVars
  PROVE  CatalogInv'
<1>1. ASSUME NEW s \in Session, SomeStatement(s), Rekeys = {} => rekeyed' = rekeyed
      PROVE  CatalogInv'
  <2>1. PICK t \in Table, k \in Key, op \in Op :
           \E cols, row, W : Statement(s, t, k, op, cols, row, W)
    BY <1>1 DEF SomeStatement
  <2>2. PICK cols, row, W : Statement(s, t, k, op, cols, row, W)
    BY <2>1
  <2> QED
    BY <1>1, <2>2, CatalogStatement DEF CatalogInv
<1>2. ASSUME NEW s \in Session, NEW t \in Table, NEW k \in Key,
             \/ Insert(s, t, k) \/ Update(s, t, k) \/ Delete(s, t, k)
             \/ \E k2 \in Key : UpdateKey(s, t, k, k2)
      PROVE  CatalogInv'
  <2>1. SomeStatement(s)
    BY <1>2, InsertIsStatement, UpdateIsStatement, DeleteIsStatement,
       UpdateKeyIsStatement
  <2>2. Rekeys = {} => rekeyed' = rekeyed
    BY <1>2 DEF Insert, Update, Delete, UpdateKey
  <2> QED
    BY <1>1, <2>1, <2>2
<1>3. ASSUME NEW s \in Session, Commit(s) PROVE CatalogInv'
  <2>1. /\ outbox' = Join(outbox, captured[s]) /\ DOMAIN NoMap = {}
        /\ captured' = [captured EXCEPT ![s] = NoMap]
        /\ UNCHANGED <<journalled, relationship, nextSeq, rekeyed>>
    BY <1>3 DEF Commit, NoMap
  <2> QED
    BY <2>1 DEF CatalogInv, Join, CaptureInv, CaptureTypeOK
<1>4. ASSUME NEW s \in Session, Rollback(s) PROVE CatalogInv'
  <2>1. /\ captured' = [captured EXCEPT ![s] = NoMap] /\ DOMAIN NoMap = {}
        /\ UNCHANGED <<journalled, relationship, outbox, nextSeq, rekeyed>>
    BY <1>4 DEF Rollback, NoMap, schemaVars
  <2> QED
    BY <2>1 DEF CatalogInv, CaptureInv, CaptureTypeOK
<1>5. ASSUME NEW t \in Table, NEW st \in Stream, NEW cf \in BOOLEAN,
             JournalTable(t, st, cf)
      PROVE  CatalogInv'
  BY <1>5 DEF JournalTable
<1>6. ASSUME NEW st \in Stream, AddRelationship(st) PROVE CatalogInv'
  BY <1>6 DEF AddRelationship, CatalogInv, sessionVars
<1>7. CASE UNCHANGED captureVars
  BY <1>7 DEF captureVars, schemaVars, sessionVars, CatalogInv
<1> QED
  BY <1>2, <1>3, <1>4, <1>5, <1>6, <1>7 DEF CaptureNext

-----------------------------------------------------------------------------
(* The walk along prev_txid.                                               *)

StepTo == [n \in Nat |-> [q \in Seq(Nat) |-> Append(q, n)]]

\* The equation of Path has a solution, and Path is one.
LEMMA PathUnfolds ==
  ASSUME WriterTypeOK, ChainLinked
  PROVE  /\ Path \in [0 .. Len(chain) -> Seq(Nat)]
         /\ Path[0] = <<>>
         /\ \A n \in Txid : Path[n] = Append(Path[chain[n].prev], n)
<1> DEFINE N == Len(chain)
           back == [n \in Txid |-> chain[n].prev]
<1>1. N \in Nat /\ Txid = 1 .. N
  BY DEF WriterTypeOK, Txid
<1>2. \A n \in 1 .. N : back[n] = chain[n].prev /\ back[n] \in 0 .. n - 1
  BY <1>1 DEF ChainLinked
<1>3. StepsBack(N, Seq(Nat), <<>>, back, StepTo)
  <2>1. \A n \in 1 .. N : \A v \in Seq(Nat) : StepTo[n][v] \in Seq(Nat)
    BY DEF StepTo
  <2> HIDE DEF N, back
  <2> QED
    BY <1>2, <2>1 DEF StepsBack
<1> HIDE DEF N, back
<1>4. PICK f : Follows(f, N, Seq(Nat), <<>>, back, StepTo)
  BY <1>1, <1>3, LooksBack
<1>5. f = [n \in 0 .. N |->
              IF n = 0 THEN <<>> ELSE Append(f[chain[n].prev], n)]
  <2>1. \A n \in 1 .. N : f[n] = Append(f[chain[n].prev], n)
    <3> SUFFICES ASSUME NEW n \in 1 .. N PROVE f[n] = Append(f[back[n]], n)
      BY <1>2
    <3>1. back[n] \in 0 .. N /\ n \in Nat
      BY <1>1, <1>2
    <3>2. f[back[n]] \in Seq(Nat)
      BY <1>4, <3>1 DEF Follows
    <3> QED
      BY <1>4, <3>1, <3>2 DEF Follows, StepTo
  <2> QED
    BY <1>4, <2>1 DEF Follows
<1>6. Path = [n \in 0 .. N |->
                 IF n = 0 THEN <<>> ELSE Append(Path[chain[n].prev], n)]
  BY <1>5 DEF Path, N
<1>7. Path \in [0 .. N -> Seq(Nat)]
  <2> DEFINE T == {k \in Nat : \A n \in 0 .. N : n <= k => Path[n] \in Seq(Nat)}
  <2>1. 0 \in T
    BY <1>6
  <2>2. ASSUME NEW k \in Nat, k \in T PROVE k + 1 \in T
    <3> SUFFICES ASSUME NEW n \in 0 .. N, n <= k + 1 PROVE Path[n] \in Seq(Nat)
      OBVIOUS
    <3>1. CASE n = 0
      BY <1>6, <3>1
    <3>2. CASE n # 0
      <4>1. n \in 1 .. N /\ n \in Nat
        BY <1>1, <3>2
      <4>2. chain[n].prev \in 0 .. n - 1
        BY <4>1, <1>2
      <4>3. chain[n].prev \in 0 .. N /\ chain[n].prev <= k
        BY <4>1, <4>2, <1>1
      <4>4. Path[chain[n].prev] \in Seq(Nat)
        BY <2>2, <4>3
      <4>5. Path[n] = Append(Path[chain[n].prev], n)
        BY <1>6, <3>2
      <4> QED
        BY <4>1, <4>4, <4>5
    <3> QED
      BY <3>1, <3>2
  <2> HIDE DEF T
  <2>3. N \in T
    BY <1>1, <2>1, <2>2, SetInduction
  <2>4. \A n \in 0 .. N : Path[n] \in Seq(Nat)
    BY <1>1, <2>3 DEF T
  <2> QED
    BY <1>6, <2>4
<1>8. Path[0] = <<>>
  BY <1>1, <1>6
<1>9. \A n \in 1 .. N : Path[n] = Append(Path[chain[n].prev], n)
  <2> SUFFICES ASSUME NEW n \in 1 .. N
               PROVE  Path[n] = Append(Path[chain[n].prev], n)
    OBVIOUS
  <2>1. n \in 0 .. N /\ n # 0
    BY <1>1
  <2> QED
    BY <1>6, <2>1
<1> QED
  BY <1>1, <1>7, <1>8, <1>9 DEF N

\* What a walk from transaction n meets.
OnWalk(n) == Range(Path[n])

LEMMA WalkMeets ==
  ASSUME WriterTypeOK, ChainLinked
  PROVE  /\ OnWalk(0) = {}
         /\ \A n \in Txid : /\ chain[n].prev \in 0 .. n - 1
                            /\ OnWalk(n) = OnWalk(chain[n].prev) \cup {n}
<1>1. OnWalk(0) = {}
  <2>1. Path[0] = <<>>
    BY PathUnfolds
  <2>2. Range(<<>>) = {}
    BY DEF Range
  <2> QED
    BY <2>1, <2>2 DEF OnWalk
<1>2. ASSUME NEW n \in Txid
      PROVE  /\ chain[n].prev \in 0 .. n - 1
             /\ OnWalk(n) = OnWalk(chain[n].prev) \cup {n}
  <2>1. chain[n].prev \in 0 .. n - 1 /\ n \in Nat /\ Len(chain) \in Nat
        /\ n <= Len(chain)
    BY DEF ChainLinked, Txid, WriterTypeOK
  <2>2. chain[n].prev \in 0 .. Len(chain)
    BY <2>1
  <2>3. PICK q : q = Path[chain[n].prev]
    OBVIOUS
  <2>4. q \in Seq(Nat) /\ Path[n] = Append(q, n)
    BY <2>2, <2>3, PathUnfolds
  <2>5. /\ Path[n] \in Seq(Nat) /\ Len(q) \in Nat
        /\ DOMAIN q = 1 .. Len(q) /\ DOMAIN Path[n] = 1 .. Len(q) + 1
        /\ \A i \in 1 .. Len(q) : Path[n][i] = q[i]
        /\ Path[n][Len(q) + 1] = n
    BY <2>1, <2>4, AppendFacts
  <2>6. Range(Path[n]) = Range(q) \cup {n}
    <3>1. \A i : i \in 1 .. Len(q) + 1 <=> i \in 1 .. Len(q) \/ i = Len(q) + 1
      BY <2>5
    <3> QED
      BY <2>5, <3>1 DEF Range
  <2> QED
    BY <2>1, <2>3, <2>6 DEF OnWalk
<1> QED
  BY <1>1, <1>2

\* A walk meets earlier transactions of one stream only.
OneStream(n) ==
    \A i \in OnWalk(n) : i \in Txid /\ i <= n /\ chain[i].stream = chain[n].stream

LEMMA WalkInStream ==
  ASSUME WriterTypeOK, ChainLinked, NEW n \in Txid
  PROVE  OneStream(n)
<1> DEFINE T == {k \in Nat : \A m \in Txid : m <= k => OneStream(m)}
<1>0. Txid \subseteq Nat \ {0}
  BY DEF Txid
<1>1. 0 \in T
  BY <1>0
<1>2. ASSUME NEW k \in Nat, k \in T PROVE k + 1 \in T
  <2> SUFFICES ASSUME NEW m \in Txid, m <= k + 1, NEW i \in OnWalk(m)
               PROVE  i \in Txid /\ i <= m /\ chain[i].stream = chain[m].stream
    BY DEF OneStream
  <2>1. PICK p : p = chain[m].prev
    OBVIOUS
  <2>2. /\ p \in 0 .. m - 1 /\ OnWalk(m) = OnWalk(p) \cup {m} /\ m \in Nat
    BY <2>1, WalkMeets, <1>0
  <2>3. CASE i = m
    BY <2>3, <1>0
  <2>4. CASE i \in OnWalk(p)
    <3>1. p # 0
      BY <2>4, WalkMeets
    <3>2. p \in Txid /\ p <= k /\ chain[p].stream = chain[m].stream
      BY <2>1, <2>2, <3>1 DEF ChainLinked, Txid
    <3>3. OneStream(p)
      BY <1>2, <3>2
    <3>4. i \in Txid /\ i <= p /\ chain[i].stream = chain[p].stream
      BY <2>4, <3>3 DEF OneStream
    <3> QED
      BY <2>2, <3>2, <3>4, <1>0
  <2> QED
    BY <2>2, <2>3, <2>4
<1>3. n \in T
  <2> HIDE DEF T
  <2> QED
    BY <1>0, <1>1, <1>2, SetInduction
<1> QED
  BY <1>0, <1>3

-----------------------------------------------------------------------------
(* No run fails on its own entries.                                        *)

Flags == [t \in DOMAIN InitialJournalled |-> InitialJournalled[t].confidential]
HiddenStreams ==
    {InitialJournalled[t].stream : t \in
        {u \in DOMAIN InitialJournalled : InitialJournalled[u].confidential}}

\* The tables of a stream are registered with different flags.
Blended(st) ==
    \E t, u \in DOMAIN InitialJournalled :
        /\ InitialJournalled[t].stream = st /\ InitialJournalled[u].stream = st
        /\ InitialJournalled[t].confidential # InitialJournalled[u].confidential

\* What a started writer has read from the catalogs, ...
Unread == {"off", "fund", "confirm", "find", "confidential"}
ReadsInv(w) ==
    /\ pc[w] # "off" => InitialStreams \subseteq rels[w]
    /\ pc[w] \notin Unread => conf[w] = Flags
    /\ pc[w] \notin Unread \cup {"streamConf"} => streamConf[w] = HiddenStreams

\* ... what it can still pay for, ...
PaysFor(w) == \A n \in todo[w] : sats[w] >= MaxSeq - n + 1
FundsInv(w) ==
    /\ pc[w] \in {"confidential", "streamConf", "pending"} => sats[w] = Funding
    /\ pc[w] = "drain" => PaysFor(w)
    /\ pc[w] \in InFlight =>
          PaysFor(w) /\ cur[w] \in todo[w] /\ \A n \in todo[w] : cur[w] <= n

\* ... the head it compares with, ...
Walking == {"rebuild", "tables", "cells"}
HasHead(h) == \E st, n : h = <<st, n>> /\ n \in Txid /\ chain[n].stream = st
CompareInv(w) == pc[w] \in Walking => HasHead(head[w])

\* ... what it has marked and indexed of the row in hand, ...
MarksInv(w) ==
    /\ pc[w] \in {"index", "blind", "leak"} => cur[w] \in DOMAIN sent
    /\ pc[w] \in {"blind", "leak"} =>
          /\ chain[txid[w]].committed
          /\ IndexKey(chain[txid[w]]) \in DOMAIN chainIndex

\* ... and how it ended.
EndInv(w) ==
    /\ pc[w] # "off" => outcome[w] = "none"
    /\ outcome[w] \notin {"no keys", "rejected", "bad image"}
    /\ outcome[w] = "not a commitment" => Blended(head[w][1])
    /\ outcome[w] = "leaked" =>
          /\ txid[w] \in 1 .. mined
          /\ chain[txid[w]].committed
          /\ chain[txid[w]].value \in Occurring
          /\ cur[w] \in DOMAIN sent
          /\ IndexKey(chain[txid[w]]) \in DOMAIN chainIndex

\* An entry is of a registered table, in its stream and under its flag.
Flagged(e) == InCatalog(e) /\ (e.committed <=> Flags[e.table])
FlagInv == \A i \in Txid : Flagged(chain[i])

CleanOf(w) == /\ ReadsInv(w) /\ FundsInv(w) /\ CompareInv(w)
              /\ MarksInv(w) /\ EndInv(w)

CleanInv ==
    /\ DOMAIN head = Writer
    /\ FlagInv
    /\ \A w \in Writer : CleanOf(w)

\* The state of one writer that CleanOf depends on.
Private(v) == <<pc[v], outcome[v], rels[v], conf[v], streamConf[v], sats[v],
                todo[v], cur[v], txid[v], head[v]>>

\* Nothing is taken back: entries, blocks, marks and index rows stay.
ChainGrows == \A n \in Txid : n \in Txid' /\ chain'[n] = chain[n]
MarksGrow ==
    /\ mined \in Nat /\ mined' \in Nat /\ mined <= mined' /\ mined <= Len(chain)
    /\ DOMAIN sent \subseteq DOMAIN sent'
    /\ DOMAIN chainIndex \subseteq DOMAIN chainIndex'

LEMMA MarksOnlyGrow ==
  ASSUME WriterTypeOK, HandInv, ChainGrows, NEW w \in Writer,
         Start(w) \/ WriterStep(w) \/ Crash(w)
  PROVE  MarksGrow
<1>1. mined \in Nat /\ Len(chain) \in Nat /\ mined <= Len(chain)
  BY DEF WriterTypeOK
<1>2. /\ mined' \in {mined, Len(chain)}
      /\ DOMAIN sent \subseteq DOMAIN sent'
      /\ DOMAIN chainIndex \subseteq DOMAIN chainIndex'
  <2> USE DEF dbVars, nodeVars, Put
  <2>1. CASE Start(w) \/ Crash(w)
    BY <2>1 DEF Start, Crash
  <2>2. CASE SendToAddress(w) \/ ConfirmFunding(w) \/ FindFunding(w)
    BY <2>2 DEF SendToAddress, ConfirmFunding, FindFunding
  <2>3. CASE LoadConfidential(w) \/ LoadStreamConf(w) \/ LoadPending(w)
    BY <2>3 DEF LoadConfidential, LoadStreamConf, LoadPending
  <2>4. CASE SendEntry(w) \/ SendFails(w) \/ MineEntry(w)
    BY <2>4 DEF SendEntry, SendFails, MineEntry
  <2>5. CASE MarkSent(w)
    BY <2>5 DEF MarkSent
  <2>6. CASE IndexEntry(w)
    BY <2>6 DEF IndexEntry
  <2>7. CASE StoreBlinding(w) \/ CheckLeak(w)
    BY <2>7 DEF StoreBlinding, CheckLeak
  <2>8. CASE BeginVerify(w) \/ ReadHead(w) \/ Rebuild(w) \/ ReadTables(w)
    BY <2>8 DEF BeginVerify, ReadHead, Rebuild, ReadTables
  <2>9. CASE (\E t \in Table : ReadTable(w, t)) \/ Compare(w) \/ Finish(w)
    BY <2>9 DEF ReadTable, Compare, Finish
  <2> QED
    BY <2>1, <2>2, <2>3, <2>4, <2>5, <2>6, <2>7, <2>8, <2>9 DEF WriterStep
<1> QED
  BY <1>1, <1>2 DEF MarksGrow

LEMMA OthersClean ==
  ASSUME ChainGrows, MarksGrow, HandInv, NEW v \in Writer, CleanOf(v),
         UNCHANGED Private(v)
  PROVE  CleanOf(v)'
<1>1. /\ pc'[v] = pc[v] /\ outcome'[v] = outcome[v] /\ rels'[v] = rels[v]
      /\ conf'[v] = conf[v] /\ streamConf'[v] = streamConf[v]
      /\ sats'[v] = sats[v] /\ todo'[v] = todo[v] /\ cur'[v] = cur[v]
      /\ txid'[v] = txid[v] /\ head'[v] = head[v]
  BY DEF Private
<1>2. ReadsInv(v)'
  BY <1>1 DEF ReadsInv, CleanOf
<1>3. FundsInv(v)'
  BY <1>1 DEF FundsInv, PaysFor, CleanOf
<1>4. CompareInv(v)'
  <2>1. PICK h : h = head[v]
    OBVIOUS
  <2>2. HasHead(h) => HasHead(h)'
    BY DEF HasHead, ChainGrows
  <2> QED
    BY <1>1, <2>1, <2>2 DEF CompareInv, CleanOf
<1>5. MarksInv(v)'
  <2>1. pc[v] \in {"blind", "leak"} => chain'[txid[v]] = chain[txid[v]]
    BY DEF HandInv, InFlight, ChainGrows
  <2> QED
    BY <1>1, <2>1 DEF MarksInv, CleanOf, MarksGrow, IndexKey
<1>6. EndInv(v)'
  <2>1. PICK n : n = txid[v]
    OBVIOUS
  <2>2. n \in 1 .. mined => n \in 1 .. mined' /\ chain'[n] = chain[n]
    BY DEF MarksGrow, ChainGrows, Txid
  <2>3. EndInv(v)
    BY DEF CleanOf
  <2>4. outcome[v] = "leaked" =>
           /\ n \in 1 .. mined' /\ chain'[n].committed
           /\ chain'[n].value \in Occurring
           /\ cur[v] \in DOMAIN sent' /\ IndexKey(chain'[n]) \in DOMAIN chainIndex'
    BY <2>1, <2>2, <2>3 DEF EndInv, MarksGrow, IndexKey
  <2>5. /\ pc[v] # "off" => outcome[v] = "none"
        /\ outcome[v] \notin {"no keys", "rejected", "bad image"}
        /\ outcome[v] = "not a commitment" => Blended(head[v][1])
    BY <2>3 DEF EndInv
  <2> QED
    BY <1>1, <2>1, <2>4, <2>5 DEF EndInv, IndexKey
<1> QED
  BY <1>1, <1>2, <1>3, <1>4, <1>5, <1>6 DEF CleanOf

\* Every action of a writer leaves the others what they had.
Alone(w) == \A v \in Writer \ {w} : UNCHANGED Private(v)

LEMMA LeavesOthers ==
  ASSUME WriterTypeOK, DOMAIN head = Writer, NEW w \in Writer,
         Start(w) \/ WriterStep(w) \/ Crash(w)
  PROVE  Alone(w) /\ DOMAIN head' = Writer
<1> USE DEF WriterTypeOK, Private, Alone, Goto, Exit
<1>1. CASE Start(w)
  BY <1>1 DEF Start, coinVars, drainVars, verifyVars
<1>2. CASE SendToAddress(w) \/ ConfirmFunding(w) \/ FindFunding(w)
  BY <1>2 DEF SendToAddress, ConfirmFunding, FindFunding, drainVars, verifyVars,
     catalogVars, coinVars
<1>3. CASE LoadConfidential(w)
  BY <1>3 DEF LoadConfidential, drainVars, verifyVars, coinVars
<1>4. CASE LoadStreamConf(w)
  BY <1>4 DEF LoadStreamConf, drainVars, verifyVars, coinVars
<1>5. CASE LoadPending(w)
  BY <1>5 DEF LoadPending, verifyVars, coinVars, catalogVars
<1>6. CASE SendEntry(w)
  <2>1. PICK n : cur' = [cur EXCEPT ![w] = n]
    BY <1>6 DEF SendEntry
  <2>2. txid' = [txid EXCEPT ![w] = Len(chain) + 1]
    BY <1>6 DEF SendEntry
  <2> QED
    BY <1>6, <2>1, <2>2 DEF SendEntry, verifyVars, coinVars, catalogVars
<1>7. CASE SendFails(w)
  <2>1. PICK how : Exit(w, how)
    BY <1>7 DEF SendFails
  <2> QED
    BY <1>7, <2>1 DEF SendFails, verifyVars, coinVars, catalogVars, drainVars
<1>8. CASE MineEntry(w)
  BY <1>8 DEF MineEntry, verifyVars, coinVars, catalogVars, drainVars
<1>9. CASE MarkSent(w)
  BY <1>9 DEF MarkSent, verifyVars, coinVars, catalogVars, drainVars
<1>10. CASE IndexEntry(w)
  <2>1. PICK p : Goto(w, p) /\ (UNCHANGED <<coinVars, todo>> \/ Advance(w))
    BY <1>10 DEF IndexEntry
  <2> QED
    BY <1>10, <2>1 DEF IndexEntry, Advance, verifyVars, coinVars, catalogVars
<1>11. CASE StoreBlinding(w)
  BY <1>11 DEF StoreBlinding, verifyVars, coinVars, catalogVars, drainVars
<1>17. CASE CheckLeak(w)
  <2>1. /\ \/ Goto(w, "drain") /\ Advance(w)
           \/ (\E how : Exit(w, how)) /\ UNCHANGED <<coinVars, todo>>
        /\ UNCHANGED <<catalogVars, cur, txid, verifyVars>>
    BY <1>17 DEF CheckLeak
  <2>2. CASE Goto(w, "drain") /\ Advance(w)
    BY <2>1, <2>2 DEF Advance, verifyVars, catalogVars
  <2>3. CASE (\E how : Exit(w, how)) /\ UNCHANGED <<coinVars, todo>>
    BY <2>1, <2>3 DEF verifyVars, coinVars, catalogVars
  <2> QED
    BY <2>1, <2>2, <2>3
<1>12. CASE BeginVerify(w)
  BY <1>12 DEF BeginVerify, coinVars, catalogVars, drainVars
<1>13. CASE ReadHead(w)
  <2>1. /\ \/ \E h : head' = [head EXCEPT ![w] = h] /\ Goto(w, "rebuild")
           \/ UNCHANGED <<head, controlVars>>
        /\ UNCHANGED <<catalogVars, coinVars, drainVars>>
    BY <1>13 DEF ReadHead
  <2>2. CASE UNCHANGED <<head, controlVars>>
    BY <2>1, <2>2 DEF controlVars, coinVars, catalogVars, drainVars
  <2>3. CASE \E h : head' = [head EXCEPT ![w] = h] /\ Goto(w, "rebuild")
    BY <2>1, <2>3 DEF coinVars, catalogVars, drainVars
  <2> QED
    BY <2>1, <2>2, <2>3
<1>14. CASE \/ Rebuild(w) \/ ReadTables(w) \/ Compare(w)
            \/ \E t \in Table : ReadTable(w, t)
  <2>1. /\ \/ \E p : Goto(w, p)
           \/ \E how : Exit(w, how)
           \/ UNCHANGED controlVars
        /\ UNCHANGED <<catalogVars, coinVars, drainVars, head>>
    <3>1. CASE Rebuild(w)
      BY <3>1 DEF Rebuild, Verified
    <3>2. CASE ReadTables(w)
      BY <3>2 DEF ReadTables
    <3>3. CASE Compare(w)
      BY <3>3 DEF Compare, Verified
    <3>4. CASE \E t \in Table : ReadTable(w, t)
      BY <3>4 DEF ReadTable
    <3> QED
      BY <1>14, <3>1, <3>2, <3>3, <3>4
  <2>2. CASE UNCHANGED controlVars
    BY <2>1, <2>2 DEF controlVars, coinVars, catalogVars, drainVars
  <2>3. CASE \E p : Goto(w, p)
    BY <2>1, <2>3 DEF coinVars, catalogVars, drainVars
  <2>4. CASE \E how : Exit(w, how)
    BY <2>1, <2>4 DEF coinVars, catalogVars, drainVars
  <2> QED
    BY <2>1, <2>2, <2>3, <2>4
<1>15. CASE Finish(w)
  BY <1>15 DEF Finish, verifyVars, coinVars, catalogVars, drainVars
<1>16. CASE Crash(w)
  BY <1>16 DEF Crash
<1> QED
  BY <1>1, <1>2, <1>3, <1>4, <1>5, <1>6, <1>7, <1>8, <1>9, <1>10, <1>11,
     <1>12, <1>13, <1>14, <1>15, <1>16, <1>17 DEF WriterStep

-----------------------------------------------------------------------------
\* What the clean steps assume; the catalog is the initial one.
CleanHypotheses ==
    /\ SystemInv /\ CatalogInv /\ CleanInv
    /\ UNCHANGED captureVars
    /\ MaxSeq <= Funding

\* A step of w that keeps the chain needs only what w itself becomes.
LEMMA CleanByOwn ==
  ASSUME CleanInv, WriterTypeOK, HandInv, NEW w \in Writer, chain' = chain,
         Start(w) \/ WriterStep(w) \/ Crash(w), CleanOf(w)'
  PROVE  CleanInv'
<1>1. Alone(w) /\ DOMAIN head' = Writer
  BY LeavesOthers DEF CleanInv
<1>2. ChainGrows /\ MarksGrow
  <2>1. ChainGrows
    BY DEF ChainGrows, Txid
  <2> QED
    BY <2>1, MarksOnlyGrow
<1>3. \A v \in Writer \ {w} : CleanOf(v)'
  BY <1>1, <1>2, OthersClean DEF Alone, CleanInv
<1>4. FlagInv'
  BY DEF FlagInv, Flagged, Txid, CleanInv
<1> QED
  BY <1>1, <1>3, <1>4 DEF CleanInv

LEMMA CleanStart ==
  ASSUME CleanHypotheses, NEW w \in Writer, Start(w)
  PROVE  CleanInv'
<1>1. WriterTypeOK /\ HandInv /\ CleanOf(w) /\ InitialStreams \subseteq relationship
  BY DEF CleanHypotheses, SystemInv, WriterInv, CatalogInv, CleanInv
<1>2. /\ pc'[w] = "fund" /\ outcome'[w] = "none" /\ rels'[w] = relationship
      /\ chain' = chain
  BY <1>1 DEF Start, WriterTypeOK, nodeVars
<1>3. CleanOf(w)'
  BY <1>1, <1>2 DEF CleanOf, ReadsInv, FundsInv, CompareInv, InFlight,
     MarksInv, EndInv, Unread, Walking
<1> QED
  BY <1>1, <1>2, <1>3, CleanByOwn DEF CleanHypotheses

LEMMA CleanFunding ==
  ASSUME CleanHypotheses, NEW w \in Writer,
         SendToAddress(w) \/ ConfirmFunding(w) \/ FindFunding(w)
  PROVE  CleanInv'
<1>1. WriterTypeOK /\ HandInv /\ CleanOf(w)
  BY DEF CleanHypotheses, SystemInv, WriterInv, CleanInv
<1>2. /\ pc[w] \in {"fund", "confirm", "find"}
      /\ pc'[w] \in {"confirm", "find", "confidential"} /\ outcome' = outcome
      /\ pc'[w] = "confidential" => sats'[w] = Funding
      /\ rels' = rels /\ chain' = chain
  BY <1>1 DEF SendToAddress, ConfirmFunding, FindFunding, WriterTypeOK, At, Goto,
     catalogVars, nodeVars
<1>3. CleanOf(w)'
  BY <1>1, <1>2 DEF CleanOf, ReadsInv, FundsInv, CompareInv, InFlight, MarksInv,
     EndInv, Unread, Walking
<1> QED
  BY <1>1, <1>2, <1>3, CleanByOwn DEF CleanHypotheses, WriterStep

LEMMA CleanLoadConfidential ==
  ASSUME CleanHypotheses, NEW w \in Writer, LoadConfidential(w)
  PROVE  CleanInv'
<1>1. WriterTypeOK /\ HandInv /\ CleanOf(w) /\ journalled = InitialJournalled
      /\ DOMAIN conf = Writer
  BY DEF CleanHypotheses, SystemInv, WriterInv, WriterTypeOK, CleanInv, CatalogInv
<1>2. /\ pc[w] = "confidential" /\ pc'[w] = "streamConf" /\ outcome' = outcome
      /\ rels' = rels /\ sats' = sats /\ chain' = chain
  BY <1>1 DEF LoadConfidential, WriterTypeOK, At, Goto, coinVars, nodeVars
<1>3. conf'[w] = Flags
  BY <1>1 DEF LoadConfidential, Flags
<1>4. CleanOf(w)'
  BY <1>1, <1>2, <1>3 DEF CleanOf, ReadsInv, FundsInv, CompareInv, InFlight,
     MarksInv, EndInv, Unread, Walking
<1> QED
  BY <1>1, <1>2, <1>4, CleanByOwn DEF CleanHypotheses, WriterStep

LEMMA CleanLoadStreamConf ==
  ASSUME CleanHypotheses, NEW w \in Writer, LoadStreamConf(w)
  PROVE  CleanInv'
<1>1. WriterTypeOK /\ HandInv /\ CleanOf(w) /\ journalled = InitialJournalled
  BY DEF CleanHypotheses, SystemInv, WriterInv, CleanInv, CatalogInv
<1>2. /\ pc[w] = "streamConf" /\ pc'[w] = "pending" /\ outcome' = outcome
      /\ rels' = rels /\ sats' = sats /\ chain' = chain /\ conf' = conf
  BY <1>1 DEF LoadStreamConf, WriterTypeOK, At, Goto, coinVars, nodeVars
<1>3. streamConf'[w] = HiddenStreams
  BY <1>1 DEF LoadStreamConf, HiddenStreams, WriterTypeOK
<1>4. CleanOf(w)'
  BY <1>1, <1>2, <1>3 DEF CleanOf, ReadsInv, FundsInv, CompareInv, InFlight,
     MarksInv, EndInv, Unread, Walking
<1> QED
  BY <1>1, <1>2, <1>4, CleanByOwn DEF CleanHypotheses, WriterStep

LEMMA CleanLoadPending ==
  ASSUME CleanHypotheses, NEW w \in Writer, LoadPending(w)
  PROVE  CleanInv'
<1>1. WriterTypeOK /\ HandInv /\ CleanOf(w) /\ CaptureTypeOK
  BY DEF CleanHypotheses, SystemInv, CaptureInv, WriterInv, CleanInv
<1>2. /\ pc[w] = "pending" /\ pc'[w] = "drain" /\ outcome' = outcome
      /\ rels' = rels /\ sats' = sats /\ chain' = chain /\ conf' = conf
      /\ streamConf' = streamConf /\ todo'[w] = Pending
  BY <1>1 DEF LoadPending, WriterTypeOK, At, Goto, coinVars, nodeVars, catalogVars
<1>3. PaysFor(w)'
  <2>1. sats'[w] = Funding /\ MaxSeq <= Funding /\ Funding \in Nat /\ MaxSeq \in Nat
    BY <1>1, <1>2, WriterAssumption, CaptureAssumption
       DEF CleanOf, FundsInv, CleanHypotheses
  <2>2. \A n \in Pending : n \in Nat \ {0}
    BY <1>1 DEF Pending, CaptureTypeOK, IsPartialFcn
  <2>3. \A n \in Pending : Funding >= MaxSeq - n + 1
    BY <2>1, <2>2
  <2> QED
    BY <1>2, <2>1, <2>3 DEF PaysFor
<1>4. CleanOf(w)'
  BY <1>1, <1>2, <1>3 DEF CleanOf, ReadsInv, FundsInv, CompareInv, InFlight,
     MarksInv, EndInv, Unread, Walking
<1> QED
  BY <1>1, <1>2, <1>4, CleanByOwn DEF CleanHypotheses, WriterStep

\* The table of a row that is read has the flag it was registered with.
LEMMA FlagOfTable ==
  ASSUME NEW w \in Writer, conf[w] = Flags, NEW o, InCatalog(o)
  PROVE  Confidential(w, o.table) <=> Flags[o.table]
  BY DEF InCatalog, Confidential, Flags

-----------------------------------------------------------------------------

\* The row that is sent is paid for, and its stream has keys.
LEMMA RowIsFunded ==
  ASSUME CleanHypotheses, NEW w \in Writer, pc[w] = "drain",
         NEW n \in todo[w]
  PROVE  /\ Accepts(w) /\ outbox[n].stream \in rels[w]
         /\ InCatalog(outbox[n]) /\ n \in DOMAIN outbox
<1>1. /\ WriterTypeOK /\ CaptureTypeOK /\ TodoInv /\ SeqInv /\ CoinInv
      /\ CleanOf(w) /\ CatalogInv
  BY DEF CleanHypotheses, SystemInv, WriterInv, CaptureInv, CleanInv
<1>2. n \in DOMAIN outbox /\ n \in Nat \ {0} /\ n < nextSeq
  BY <1>1 DEF TodoInv, CaptureTypeOK, IsPartialFcn, SeqInv
<1>3. InCatalog(outbox[n])
  BY <1>1, <1>2 DEF CatalogInv
<1>4. outbox[n].stream \in rels[w]
  BY <1>1, <1>3 DEF CleanOf, ReadsInv, InCatalog, InitialStreams
<1>5. sats[w] >= 1
  <2>1. sats[w] >= MaxSeq - n + 1
    BY <1>1 DEF CleanOf, FundsInv, PaysFor
  <2>2. nextSeq <= MaxSeq + 1 /\ nextSeq \in Nat /\ MaxSeq \in Nat
    BY <1>1, CaptureAssumption DEF CatalogInv, CaptureTypeOK
  <2>3. sats[w] \in Nat
    BY <1>1, WriterAssumption DEF WriterTypeOK
  <2> QED
    BY <1>2, <2>1, <2>2, <2>3
<1>6. Unspent(utxo[w])
  <2>1. Holds(w) /\ Coin(w) = utxo[w]
    BY DEF Holds, Coin, Loading, InFlight
  <2> QED
    BY <1>1, <2>1 DEF CoinInv
<1> QED
  BY <1>2, <1>3, <1>4, <1>5, <1>6 DEF Accepts

LEMMA CleanSendEntry ==
  ASSUME CleanHypotheses, NEW w \in Writer, SendEntry(w)
  PROVE  CleanInv'
<1>1. WriterTypeOK /\ HandInv /\ CleanOf(w) /\ WriterInv /\ CaptureTypeOK
  BY DEF CleanHypotheses, SystemInv, WriterInv, CaptureInv, CleanInv
<1>2. PICK n \in todo[w] : /\ NextRow(w, n)
                           /\ chain' = Append(chain, NewEntry(w, n))
                           /\ cur' = [cur EXCEPT ![w] = n]
  BY DEF SendEntry
<1>3. /\ pc[w] = "drain" /\ pc'[w] = "mine" /\ outcome' = outcome
      /\ rels' = rels /\ sats' = sats /\ conf' = conf
      /\ streamConf' = streamConf /\ todo' = todo /\ cur'[w] = n
  BY <1>1, <1>2 DEF SendEntry, WriterTypeOK, At, Goto, coinVars, nodeVars,
     catalogVars
<1>4. InCatalog(outbox[n]) /\ n \in DOMAIN outbox
  BY <1>3, RowIsFunded
<1>5. PICK e : e = NewEntry(w, n)
  OBVIOUS
<1>6. e \in Entry /\ Flagged(e)
  <2>1. e \in Entry
    BY <1>1, <1>4, <1>5, NewEntryFacts
  <2>2. /\ e.stream = outbox[n].stream /\ e.table = outbox[n].table
        /\ e.committed = Confidential(w, outbox[n].table)
    BY <1>5 DEF NewEntry
  <2>3. conf[w] = Flags
    BY <1>1, <1>3 DEF CleanOf, ReadsInv, Unread
  <2>4. Confidential(w, outbox[n].table) <=> Flags[outbox[n].table]
    BY <1>4, <2>3, FlagOfTable
  <2> QED
    BY <1>4, <2>1, <2>2, <2>4 DEF Flagged, InCatalog
<1>7. /\ Len(chain') = Len(chain) + 1 /\ Len(chain) \in Nat
      /\ \A i \in 1 .. Len(chain) : chain'[i] = chain[i]
      /\ chain'[Len(chain) + 1] = e
  BY <1>1, <1>2, <1>5, <1>6, AppendFacts DEF WriterTypeOK
<1>8. /\ Txid = 1 .. Len(chain) /\ Txid' = 1 .. Len(chain) + 1
      /\ \A i : i \in Txid' <=> i \in Txid \/ i = Len(chain) + 1
  BY <1>7 DEF Txid
<1>9. ChainGrows /\ MarksGrow
  <2>1. ChainGrows
    BY <1>7, <1>8 DEF ChainGrows
  <2> QED
    BY <1>1, <2>1, MarksOnlyGrow DEF WriterStep
<1>10. FlagInv'
  <2>1. \A i \in Txid' : i \in Txid \/ chain'[i] = e
    BY <1>7, <1>8
  <2>2. \A i \in Txid' : Flagged(chain'[i])
    BY <1>6, <1>9, <2>1 DEF FlagInv, CleanHypotheses, CleanInv, ChainGrows
  <2> QED
    BY <2>2 DEF FlagInv, Flagged, InCatalog
<1>11. Alone(w) /\ DOMAIN head' = Writer
  BY <1>1, LeavesOthers DEF CleanHypotheses, CleanInv, WriterStep
<1>12. CleanOf(w)'
  <2>1. PaysFor(w)'
    BY <1>1, <1>3 DEF PaysFor, CleanOf, FundsInv
  <2>2. FundsInv(w)'
    BY <1>2, <1>3, <2>1 DEF FundsInv, NextRow, InFlight
  <2> QED
    BY <1>1, <1>3, <2>2 DEF CleanOf, ReadsInv, CompareInv, MarksInv, EndInv,
       Unread, Walking
<1>13. \A v \in Writer \ {w} : CleanOf(v)'
  BY <1>1, <1>9, <1>11, OthersClean DEF Alone, CleanHypotheses, CleanInv
<1> QED
  BY <1>10, <1>11, <1>12, <1>13 DEF CleanInv

LEMMA CleanSendFails ==
  ASSUME CleanHypotheses, NEW w \in Writer, SendFails(w)
  PROVE  FALSE
<1>1. PICK n \in todo[w] :
         outbox[n].stream \notin rels[w] \/ ~Accepts(w)
  BY DEF SendFails
<1> QED
  BY <1>1, RowIsFunded DEF SendFails, At

\* What the steps on the row in hand keep of their writer.
Handles(w) ==
    /\ pc[w] \in InFlight /\ pc'[w] \in InFlight /\ outcome' = outcome
    /\ rels' = rels /\ sats' = sats /\ chain' = chain /\ conf' = conf
    /\ streamConf' = streamConf /\ todo' = todo /\ cur' = cur /\ txid' = txid

LEMMA CleanHandles ==
  ASSUME CleanHypotheses, NEW w \in Writer, WriterStep(w), Handles(w),
         MarksInv(w)'
  PROVE  CleanInv'
<1>1. WriterTypeOK /\ HandInv /\ CleanOf(w)
  BY DEF CleanHypotheses, SystemInv, WriterInv, CleanInv
<1>2. CleanOf(w)'
  BY <1>1 DEF Handles, CleanOf, ReadsInv, FundsInv, CompareInv, InFlight, PaysFor,
     EndInv, Unread, Walking
<1> QED
  BY <1>1, <1>2, CleanByOwn DEF CleanHypotheses, Handles

\* The node mines, ...
LEMMA CleanMineEntry ==
  ASSUME CleanHypotheses, NEW w \in Writer, MineEntry(w)
  PROVE  CleanInv'
<1>1. WriterTypeOK
  BY DEF CleanHypotheses, SystemInv, WriterInv
<1>2. Handles(w) /\ pc'[w] = "mark"
  BY <1>1 DEF MineEntry, WriterTypeOK, At, Goto, coinVars, nodeVars,
     catalogVars, drainVars, InFlight, Handles
<1> QED
  BY <1>2, CleanHandles DEF WriterStep, MarksInv

\* ... and the row is marked.
LEMMA CleanMarkSent ==
  ASSUME CleanHypotheses, NEW w \in Writer, MarkSent(w)
  PROVE  CleanInv'
<1>1. WriterTypeOK
  BY DEF CleanHypotheses, SystemInv, WriterInv
<1>2. /\ Handles(w) /\ pc'[w] = "index" /\ cur[w] \in DOMAIN sent'
  BY <1>1 DEF MarkSent, WriterTypeOK, At, Goto, coinVars, nodeVars,
     catalogVars, drainVars, InFlight, Handles, Put
<1> QED
  BY <1>2, CleanHandles DEF WriterStep, MarksInv, Handles

\* A row that is done is no longer to be paid for.
LEMMA CleanAdvance ==
  ASSUME CleanHypotheses, NEW w \in Writer, Advance(w), Goto(w, "drain"),
         IndexEntry(w) \/ CheckLeak(w),
         UNCHANGED <<nodeVars, catalogVars, cur>>
  PROVE  CleanInv'
<1>1. WriterTypeOK /\ HandInv /\ CleanOf(w) /\ CaptureTypeOK /\ TodoInv
  BY DEF CleanHypotheses, SystemInv, WriterInv, CaptureInv, CleanInv
<1>2. /\ pc[w] \in InFlight /\ pc'[w] = "drain" /\ outcome' = outcome
      /\ rels' = rels /\ chain' = chain /\ conf' = conf
      /\ streamConf' = streamConf
  BY <1>1 DEF IndexEntry, CheckLeak, WriterTypeOK, At, Goto, nodeVars,
     catalogVars, InFlight
<1>3. sats'[w] = sats[w] - 1 /\ todo'[w] = todo[w] \ {cur[w]}
  BY <1>1 DEF Advance, WriterTypeOK
<1>4. PaysFor(w)'
  <2>1. ASSUME NEW n \in todo[w] \ {cur[w]}
        PROVE  sats[w] - 1 >= MaxSeq - n + 1
    <3>1. /\ cur[w] \in todo[w] /\ cur[w] <= n
          /\ sats[w] >= MaxSeq - cur[w] + 1
      BY <1>1, <1>2 DEF CleanOf, FundsInv, PaysFor
    <3>2. n \in Nat /\ cur[w] \in Nat /\ sats[w] \in Int /\ MaxSeq \in Nat
      BY <1>1, <3>1, WriterAssumption, CaptureAssumption DEF WriterTypeOK
    <3> QED
      BY <3>1, <3>2
  <2> QED
    BY <1>3, <2>1 DEF PaysFor
<1>5. CleanOf(w)'
  BY <1>1, <1>2, <1>4 DEF CleanOf, ReadsInv, FundsInv, CompareInv, InFlight,
     MarksInv, EndInv, Unread, Walking
<1> QED
  BY <1>1, <1>2, <1>5, CleanByOwn DEF CleanHypotheses, WriterStep

LEMMA CleanIndexEntry ==
  ASSUME CleanHypotheses, NEW w \in Writer, IndexEntry(w)
  PROVE  CleanInv'
<1>1. CASE chain[txid[w]].committed
  <2>1. WriterTypeOK /\ MarksInv(w)
    BY DEF CleanHypotheses, SystemInv, WriterInv, CleanInv, CleanOf
  <2>2. /\ Handles(w) /\ pc[w] = "index" /\ pc'[w] = "blind" /\ sent' = sent
        /\ IndexKey(chain[txid[w]]) \in DOMAIN chainIndex'
    BY <1>1, <2>1 DEF IndexEntry, WriterTypeOK, At, Goto, coinVars, nodeVars,
       catalogVars, InFlight, Handles, Put
  <2>3. MarksInv(w)'
    BY <1>1, <2>1, <2>2 DEF MarksInv, Handles, IndexKey
  <2> QED
    BY <2>2, <2>3, CleanHandles DEF WriterStep
<1>2. CASE ~chain[txid[w]].committed
  <2>1. Advance(w) /\ Goto(w, "drain") /\ UNCHANGED <<nodeVars, catalogVars, cur>>
    BY <1>2 DEF IndexEntry
  <2> QED
    BY <2>1, CleanAdvance
<1> QED
  BY <1>1, <1>2

LEMMA CleanStoreBlinding ==
  ASSUME CleanHypotheses, NEW w \in Writer, StoreBlinding(w)
  PROVE  CleanInv'
<1>1. WriterTypeOK /\ MarksInv(w)
  BY DEF CleanHypotheses, SystemInv, WriterInv, CleanInv, CleanOf
<1>2. /\ Handles(w) /\ pc[w] = "blind" /\ pc'[w] = "leak" /\ sent' = sent
      /\ chainIndex' = chainIndex
  BY <1>1 DEF StoreBlinding, WriterTypeOK, At, Goto, coinVars, nodeVars,
     catalogVars, drainVars, InFlight, Handles
<1>3. MarksInv(w)'
  BY <1>1, <1>2 DEF MarksInv, Handles, IndexKey
<1> QED
  BY <1>2, <1>3, CleanHandles DEF WriterStep

\* The plaintext is found: the entry is mined, marked and indexed by then.
LEMMA CleanCheckLeak ==
  ASSUME CleanHypotheses, NEW w \in Writer, CheckLeak(w)
  PROVE  CleanInv'
<1>1. CASE Goto(w, "drain") /\ Advance(w)
  BY <1>1, CleanAdvance DEF CheckLeak
<1>2. CASE /\ MayOccur(chain[txid[w]])
           /\ Exit(w, "leaked")
           /\ UNCHANGED <<coinVars, todo, streamSeq, prevLink>>
  <2>1. WriterTypeOK /\ HandInv /\ CleanOf(w)
    BY DEF CleanHypotheses, SystemInv, WriterInv, CleanInv
  <2>2. /\ pc[w] = "leak" /\ pc'[w] = "off" /\ outcome'[w] = "leaked"
        /\ UNCHANGED <<chain, mined, sent, chainIndex, cur, txid>>
    BY <1>2, <2>1 DEF CheckLeak, WriterTypeOK, At, Exit, nodeVars, dbVars
  <2>3. /\ txid[w] \in 1 .. mined /\ chain[txid[w]].committed
        /\ chain[txid[w]].value \in Occurring
        /\ cur[w] \in DOMAIN sent /\ IndexKey(chain[txid[w]]) \in DOMAIN chainIndex
    BY <1>2, <2>1, <2>2 DEF HandInv, InFlight, Txid, CleanOf, MarksInv, MayOccur,
       WriterTypeOK
  <2>4. EndInv(w)'
    BY <2>2, <2>3 DEF EndInv, IndexKey
  <2>5. CleanOf(w)'
    BY <2>2, <2>4 DEF CleanOf, ReadsInv, FundsInv, CompareInv, MarksInv, InFlight,
       Unread, Walking
  <2> QED
    BY <2>1, <2>2, <2>5, CleanByOwn DEF CleanHypotheses, WriterStep
<1> QED
  BY <1>1, <1>2 DEF CheckLeak

-----------------------------------------------------------------------------
(* The verification.                                                       *)

\* What the steps after the drain keep of their writer.
Rebuilds(w) ==
    /\ pc[w] \in {"drain", "verify"} \cup Walking
    /\ pc'[w] \in {"verify", "off"} \cup Walking
    /\ rels' = rels /\ chain' = chain /\ conf' = conf
    /\ streamConf' = streamConf

LEMMA CleanRebuild ==
  ASSUME CleanHypotheses, NEW w \in Writer, WriterStep(w), Rebuilds(w),
         CompareInv(w)', EndInv(w)'
  PROVE  CleanInv'
<1>1. WriterTypeOK /\ HandInv /\ CleanOf(w)
  BY DEF CleanHypotheses, SystemInv, WriterInv, CleanInv
<1>2. CleanOf(w)'
  BY <1>1 DEF CleanOf, ReadsInv, FundsInv, InFlight, Rebuilds, MarksInv, Unread,
     Walking
<1> QED
  BY <1>1, <1>2, CleanByOwn DEF CleanHypotheses, Rebuilds

\* A step that does not end the process.
LEMMA CleanGoes ==
  ASSUME CleanHypotheses, NEW w \in Writer, WriterStep(w), Rebuilds(w),
         CompareInv(w)', outcome' = outcome
  PROVE  CleanInv'
<1>1. EndInv(w)'
  BY DEF CleanHypotheses, CleanInv, CleanOf, EndInv, Rebuilds, Walking
<1> QED
  BY <1>1, CleanRebuild

LEMMA CleanBeginVerify ==
  ASSUME CleanHypotheses, NEW w \in Writer, BeginVerify(w)
  PROVE  CleanInv'
<1>1. WriterTypeOK /\ HandInv /\ CleanOf(w)
  BY DEF CleanHypotheses, SystemInv, WriterInv, CleanInv
<1>2. Rebuilds(w) /\ pc'[w] = "verify" /\ outcome' = outcome
  BY <1>1 DEF BeginVerify, Rebuilds, WriterTypeOK, At, Goto, nodeVars, catalogVars
<1> QED
  BY <1>1, <1>2, CleanGoes DEF WriterStep, CompareInv, Walking

LEMMA CleanFinish ==
  ASSUME CleanHypotheses, NEW w \in Writer, Finish(w)
  PROVE  CleanInv'
<1>1. WriterTypeOK /\ HandInv /\ CleanOf(w)
  BY DEF CleanHypotheses, SystemInv, WriterInv, CleanInv
<1>2. Rebuilds(w) /\ pc'[w] = "off" /\ outcome'[w] = "pass"
  BY <1>1 DEF Finish, Rebuilds, WriterTypeOK, At, Exit, nodeVars, catalogVars
<1> QED
  BY <1>1, <1>2, CleanRebuild DEF WriterStep, CompareInv, EndInv, Walking

\* An entry's position counts earlier entries.
LEMMA SeqBounded ==
  ASSUME WriterTypeOK, ChainLinked, NEW n \in Txid
  PROVE  chain[n].seq \in 0 .. n - 1
<1> DEFINE T == {k \in Nat : \A m \in Txid : m <= k => chain[m].seq \in 0 .. m - 1}
<1>0. Txid \subseteq Nat \ {0}
  BY DEF Txid
<1>1. 0 \in T
  BY <1>0
<1>2. ASSUME NEW k \in Nat, k \in T PROVE k + 1 \in T
  <2> SUFFICES ASSUME NEW m \in Txid, m <= k + 1
               PROVE  chain[m].seq \in 0 .. m - 1
    OBVIOUS
  <2>1. CASE chain[m].prev = 0 /\ chain[m].seq = 0
    BY <2>1, <1>0
  <2>2. CASE /\ chain[m].prev \in 1 .. m - 1
             /\ chain[chain[m].prev].seq + 1 = chain[m].seq
    <3>1. PICK p : p = chain[m].prev
      OBVIOUS
    <3>2. p \in 1 .. m - 1 /\ chain[p].seq + 1 = chain[m].seq /\ m \in Nat
      BY <2>2, <3>1, <1>0
    <3>3. p \in Txid /\ p <= k
      BY <3>2 DEF Txid, WriterTypeOK
    <3>4. chain[p].seq \in 0 .. p - 1
      BY <1>2, <3>3
    <3> QED
      BY <3>2, <3>4
  <2> QED
    BY <2>1, <2>2 DEF ChainLinked
<1>3. n \in T
  <2> HIDE DEF T
  <2> QED
    BY <1>0, <1>1, <1>2, SetInduction
<1> QED
  BY <1>0, <1>3

\* The head is the index row with the greatest position of the stream.
IsHead(i, st) ==
    /\ i \in StreamIndex(st) /\ HeadOf(st) = chainIndex[i]
    /\ \A j \in StreamIndex(st) : j[2] <= i[2]

LEMMA HeadOfIsIndexed ==
  ASSUME WriterTypeOK, ChainLinked, IndexSound, NEW st, StreamIndex(st) # {}
  PROVE  \E i : IsHead(i, st)
<1> DEFINE X == {j[2] : j \in StreamIndex(st)}
<1>1. Len(chain) \in Nat /\ mined \in 0 .. Len(chain)
  BY DEF WriterTypeOK
<1>2. X \subseteq 0 .. Len(chain) /\ X # {}
  <2> SUFFICES ASSUME NEW j \in StreamIndex(st) PROVE j[2] \in 0 .. Len(chain)
    OBVIOUS
  <2>1. PICK n : n = chainIndex[j]
    OBVIOUS
  <2>2. n \in Txid /\ chain[n].seq = j[2]
    BY <1>1, <2>1 DEF IndexSound, StreamIndex, Txid
  <2>3. chain[n].seq \in 0 .. n - 1
    BY <2>2, SeqBounded
  <2> QED
    BY <1>1, <2>2, <2>3 DEF Txid
<1>3. PICK x \in X : \A y \in X : y <= x
  BY <1>1, <1>2, GreatestBelow
<1>4. \E i \in StreamIndex(st) : \A j \in StreamIndex(st) : j[2] <= i[2]
  BY <1>3
<1> HIDE DEF X
<1>5. PICK i : i = CHOOSE m \in StreamIndex(st) :
                       \A j \in StreamIndex(st) : j[2] <= m[2]
  OBVIOUS
<1>6. i \in StreamIndex(st) /\ \A j \in StreamIndex(st) : j[2] <= i[2]
  BY <1>4, <1>5
<1>7. HeadOf(st) = chainIndex[i]
  BY <1>5 DEF HeadOf
<1> QED
  BY <1>6, <1>7 DEF IsHead

LEMMA CleanReadHead ==
  ASSUME CleanHypotheses, NEW w \in Writer, ReadHead(w)
  PROVE  CleanInv'
<1>1. /\ WriterTypeOK /\ CleanOf(w) /\ DOMAIN head = Writer /\ IndexSound
      /\ ChainLinked /\ mined \in 0 .. Len(chain) /\ Len(chain) \in Nat
  BY DEF CleanHypotheses, SystemInv, WriterInv, WriterTypeOK, CleanInv
<1>2. PICK st \in toVerify[w] :
         IF HeadOf(st) = 0
         THEN UNCHANGED <<head, controlVars>>
         ELSE /\ head' = [head EXCEPT ![w] = <<st, HeadOf(st)>>]
              /\ Goto(w, "rebuild")
  BY DEF ReadHead
<1>3. pc[w] = "verify" /\ UNCHANGED <<nodeVars, catalogVars>>
  BY DEF ReadHead, At
<1>4. CASE HeadOf(st) = 0
  <2>1. Rebuilds(w) /\ pc'[w] = "verify" /\ outcome' = outcome
    BY <1>1, <1>2, <1>3, <1>4 DEF Rebuilds, nodeVars, catalogVars, controlVars
  <2> QED
    BY <1>1, <2>1, CleanGoes DEF WriterStep, CompareInv, Walking
<1>5. CASE HeadOf(st) # 0
  <2>1. /\ Rebuilds(w) /\ pc'[w] = "rebuild" /\ outcome' = outcome
        /\ head'[w] = <<st, HeadOf(st)>>
    BY <1>1, <1>2, <1>3, <1>5 DEF Rebuilds, nodeVars, catalogVars, Goto,
       WriterTypeOK, Walking
  <2>2. \E i \in DOMAIN chainIndex : i[1] = st /\ HeadOf(st) = chainIndex[i]
    <3>1. StreamIndex(st) # {}
      BY <1>5 DEF HeadOf
    <3>2. PICK i : IsHead(i, st)
      BY <1>1, <3>1, HeadOfIsIndexed
    <3> QED
      BY <3>2 DEF IsHead, StreamIndex
  <2>3. HeadOf(st) \in Txid /\ chain[HeadOf(st)].stream = st
    BY <1>1, <2>2 DEF IndexSound, Txid
  <2>4. CompareInv(w)'
    BY <1>3, <2>1, <2>3 DEF CompareInv, HasHead, Txid, nodeVars
  <2> QED
    BY <1>1, <2>1, <2>4, CleanGoes DEF WriterStep
<1> QED
  BY <1>4, <1>5

\* Every entry of a walk is of a table of the stream that is walked.
LEMMA WalkIsFlagged ==
  ASSUME WriterTypeOK, ChainLinked, FlagInv, NEW h, HasHead(h)
  PROVE  \A i \in Range(Path[h[2]]) :
            /\ i \in Txid /\ Flagged(chain[i])
            /\ InitialJournalled[chain[i].table].stream = h[1]
<1>1. PICK st, n : h = <<st, n>> /\ n \in Txid /\ chain[n].stream = st
  BY DEF HasHead
<1>2. h[1] = st /\ h[2] = n
  BY <1>1
<1>3. \A i \in Range(Path[n]) : i \in Txid /\ chain[i].stream = st
  BY <1>1, WalkInStream DEF OneStream, OnWalk
<1> QED
  BY <1>2, <1>3 DEF FlagInv, Flagged, InCatalog

\* A walk fails on its images only if the stream's flags differ: a plaintext
\* image where a table of the stream is confidential, for a commitment makes
\* its stream a confidential one.
LEMMA CleanWalk ==
  ASSUME CleanHypotheses, NEW w \in Writer, Rebuild(w)
  PROVE  CleanInv'
<1>1. /\ WriterTypeOK /\ CleanOf(w) /\ ChainLinked /\ FlagInv
      /\ pc[w] = "rebuild" /\ streamConf[w] = HiddenStreams /\ HasHead(head[w])
  BY DEF CleanHypotheses, SystemInv, WriterInv, CleanInv, Rebuild, At, CleanOf,
     ReadsInv, CompareInv, Unread, Walking
<1>2. PICK st, path : st = head[w][1] /\ path = Path[head[w][2]]
  OBVIOUS
<1>3. \A i \in Range(path) :
         /\ InCatalog(chain[i]) /\ (chain[i].committed <=> Flags[chain[i].table])
         /\ InitialJournalled[chain[i].table].stream = st
  BY <1>1, <1>2, WalkIsFlagged DEF Flagged
<1>4. \A t \in DOMAIN InitialJournalled :
         /\ InitialJournalled[t].confidential \in BOOLEAN
         /\ Flags[t] = InitialJournalled[t].confidential
  BY CaptureAssumption DEF Registration, Flags
<1>5. /\ UNCHANGED <<nodeVars, catalogVars, head>>
      /\ \/ Goto(w, "verify")
         \/ Goto(w, "tables")
         \/ /\ st \in streamConf[w] /\ ~AllCommitments(path)
            /\ Exit(w, "not a commitment")
         \/ /\ st \notin streamConf[w] /\ ~NoCommitments(path)
            /\ Exit(w, "bad image")
  BY <1>2 DEF Rebuild, Verified
<1>6. CASE Goto(w, "verify") \/ Goto(w, "tables")
  <2>1. /\ Rebuilds(w) /\ outcome' = outcome
        /\ pc'[w] \in {"verify", "tables"}
    BY <1>1, <1>5, <1>6 DEF Rebuilds, Goto, nodeVars, catalogVars, WriterTypeOK,
       Walking
  <2>2. CompareInv(w)'
    BY <1>1, <1>5, <2>1 DEF CompareInv, HasHead, Rebuilds, Txid
  <2> QED
    BY <2>1, <2>2, CleanGoes DEF WriterStep
<1>7. CASE /\ st \in streamConf[w] /\ ~AllCommitments(path)
           /\ Exit(w, "not a commitment")
  <2>1. PICK i \in Range(path) : ~chain[i].committed
    BY <1>7 DEF AllCommitments
  <2>2. Blended(st)
    BY <1>1, <1>3, <1>4, <1>7, <2>1 DEF Blended, HiddenStreams, InCatalog
  <2>3. /\ Rebuilds(w) /\ outcome'[w] = "not a commitment" /\ pc'[w] = "off"
        /\ head'[w] = head[w]
    BY <1>1, <1>5, <1>7 DEF Rebuilds, Exit, nodeVars, catalogVars, WriterTypeOK,
       Walking
  <2>4. EndInv(w)' /\ CompareInv(w)'
    BY <1>2, <2>2, <2>3 DEF EndInv, CompareInv, Blended, Walking
  <2> QED
    BY <2>3, <2>4, CleanRebuild DEF WriterStep
<1>8. CASE /\ st \notin streamConf[w] /\ ~NoCommitments(path)
           /\ Exit(w, "bad image")
  <2>1. PICK i \in Range(path) : chain[i].committed
    BY <1>8 DEF NoCommitments
  <2>2. st \in HiddenStreams
    BY <1>3, <1>4, <2>1 DEF HiddenStreams, InCatalog
  <2> QED
    BY <1>1, <1>8, <2>2
<1> QED
  BY <1>5, <1>6, <1>7, <1>8

LEMMA CleanCompare ==
  ASSUME CleanHypotheses, NEW w \in Writer,
         \/ ReadTables(w) \/ Compare(w) \/ \E t \in Table : ReadTable(w, t)
  PROVE  CleanInv'
<1>1. WriterTypeOK /\ CleanOf(w)
  BY DEF CleanHypotheses, SystemInv, WriterInv, CleanInv
<1>2. /\ pc[w] \in {"tables", "cells"}
      /\ UNCHANGED <<nodeVars, catalogVars, head>>
      /\ \/ Goto(w, "verify") \/ Goto(w, "cells") \/ UNCHANGED controlVars
         \/ Exit(w, "null") \/ Exit(w, "mismatch")
  <2>1. CASE ReadTables(w)
    BY <2>1 DEF ReadTables, At
  <2>2. CASE Compare(w)
    BY <2>2 DEF Compare, Verified, At
  <2>3. CASE \E t \in Table : ReadTable(w, t)
    BY <2>3 DEF ReadTable, At
  <2> QED
    BY <2>1, <2>2, <2>3
<1>3. CASE Goto(w, "verify") \/ Goto(w, "cells") \/ UNCHANGED controlVars
  <2>1. /\ Rebuilds(w) /\ outcome' = outcome
        /\ pc'[w] \in {"verify", "tables", "cells"}
    BY <1>1, <1>2, <1>3 DEF Rebuilds, Goto, nodeVars, catalogVars, controlVars,
       WriterTypeOK, Walking
  <2>2. CompareInv(w)'
    BY <1>1, <1>2, <2>1 DEF CompareInv, CleanOf, HasHead, Rebuilds, Txid, Walking
  <2> QED
    BY <2>1, <2>2, CleanGoes DEF WriterStep
<1>4. CASE Exit(w, "null") \/ Exit(w, "mismatch")
  <2>1. /\ Rebuilds(w) /\ pc'[w] = "off"
        /\ outcome'[w] \in {"null", "mismatch"}
    BY <1>1, <1>2, <1>4 DEF Rebuilds, Exit, nodeVars, catalogVars, WriterTypeOK,
       Walking
  <2> QED
    BY <2>1, CleanRebuild DEF WriterStep, CompareInv, EndInv, Walking
<1> QED
  BY <1>2, <1>3, <1>4

LEMMA CleanCrash ==
  ASSUME CleanHypotheses, NEW w \in Writer, Crash(w)
  PROVE  CleanInv'
<1>1. WriterTypeOK /\ HandInv
  BY DEF CleanHypotheses, SystemInv, WriterInv
<1>2. pc'[w] = "off" /\ outcome'[w] = "crash" /\ chain' = chain
  BY <1>1 DEF Crash, Exit, WriterTypeOK, nodeVars
<1>3. CleanOf(w)'
  BY <1>2 DEF CleanOf, ReadsInv, FundsInv, CompareInv, InFlight,
     MarksInv, EndInv, Unread, Walking
<1> QED
  BY <1>1, <1>2, <1>3, CleanByOwn DEF CleanHypotheses

LEMMA CleanInit == WriterInit => CleanInv
<1> SUFFICES ASSUME WriterInit PROVE CleanInv
  OBVIOUS
<1>1. Txid = {} /\ DOMAIN head = Writer
  BY DEF WriterInit, Txid
<1>2. \A w \in Writer : pc[w] = "off" /\ outcome[w] = "none"
  BY DEF WriterInit
<1>3. \A w \in Writer : CleanOf(w)
  BY <1>2 DEF CleanOf, ReadsInv, FundsInv, CompareInv, InFlight,
     MarksInv, EndInv, Unread, Walking
<1> QED
  BY <1>1, <1>3 DEF CleanInv, FlagInv

LEMMA CleanSurface ==
  ASSUME WriterTypeOK, HandInv, CleanInv, UNCHANGED writerVars
  PROVE  CleanInv'
<1>1. /\ UNCHANGED <<chain, mined, sent, chainIndex, pc, outcome, rels, conf>>
      /\ UNCHANGED <<streamConf, sats, todo, cur, txid, head>>
  BY DEF writerVars, dbVars, nodeVars, controlVars, catalogVars, coinVars,
     drainVars, verifyVars
<1>2. \A v \in Writer : UNCHANGED Private(v)
  BY <1>1 DEF Private
<1>3. ChainGrows /\ MarksGrow
  BY <1>1 DEF ChainGrows, MarksGrow, Txid, WriterTypeOK
<1>4. \A v \in Writer : CleanOf(v)'
  BY <1>2, <1>3, OthersClean DEF CleanInv
<1> QED
  BY <1>1, <1>4 DEF CleanInv, FlagInv, Flagged, Txid

LEMMA CleanStep ==
  ASSUME SystemInv, CatalogInv, CleanInv, [Next]_vars, MaxSeq <= Funding
  PROVE  CleanInv'
<1>1. CASE UNCHANGED writerVars
  BY <1>1, CleanSurface DEF SystemInv, WriterInv
<1>2. CASE WriterNext /\ UNCHANGED captureVars
  <2>1. CleanHypotheses
    BY <1>2 DEF CleanHypotheses
  <2>2. PICK w \in Writer : Start(w) \/ WriterStep(w) \/ Crash(w)
    BY <1>2 DEF WriterNext
  <2> QED
    BY <2>1, <2>2, CleanStart, CleanFunding, CleanLoadConfidential,
       CleanLoadStreamConf, CleanLoadPending, CleanSendEntry, CleanSendFails,
       CleanMineEntry, CleanMarkSent, CleanIndexEntry, CleanStoreBlinding,
       CleanCheckLeak, CleanBeginVerify, CleanReadHead, CleanWalk, CleanCompare,
       CleanFinish, CleanCrash DEF WriterStep
<1> QED
  BY <1>1, <1>2 DEF Next, vars

DrainInv == SystemInv /\ CatalogInv /\ CleanInv

LEMMA DrainInvariant ==
  ASSUME Registrations = {}, MaxSeq <= Funding
  PROVE  Spec => []DrainInv
<1>1. Init => DrainInv
  BY CaptureInvInit, WriterInvInit, CatalogInit, CleanInit
     DEF Init, DrainInv, SystemInv
<1>2. DrainInv /\ [Next]_vars => DrainInv'
  <2> SUFFICES ASSUME DrainInv, [Next]_vars PROVE DrainInv'
    OBVIOUS
  <2>1. SystemInv'
    BY SystemInvStep DEF DrainInv
  <2>2. [CaptureNext]_captureVars
    BY DEF Next, vars
  <2>3. CatalogInv'
    BY <2>2, CatalogStep DEF DrainInv, SystemInv
  <2>4. CleanInv'
    BY CleanStep DEF DrainInv
  <2> QED
    BY <2>1, <2>3, <2>4 DEF DrainInv
<1> QED
  BY <1>1, <1>2, PTL DEF Spec

\* However many writers run, crash and restart, a run that can pay for every
\* row fails on its own entries in two cases only: the plaintext of the row in
\* hand occurs in a transaction that is mined, marked and indexed, or a stream
\* has tables with different flags.
THEOREM CleanRunTheorem ==
  ASSUME Registrations = {}, MaxSeq <= Funding
  PROVE  Spec => []CleanRun
<1>1. DrainInv => CleanRun
  <2>1. DrainInv => \A w \in Writer : EndInv(w)
    BY DEF DrainInv, CleanInv, CleanOf
  <2>2. DrainInv => \A st : Blended(st) => Mixed(st)
    BY DEF DrainInv, CatalogInv, Blended, Mixed
  <2> QED
    BY <2>1, <2>2 DEF CleanRun, EndInv
<1> QED
  BY <1>1, DrainInvariant, PTL

-----------------------------------------------------------------------------
(* One run of one writer: the chain grows in step with what it remembers.  *)

OneRun == /\ \E w : Writer = {w}
          /\ MaxRuns <= 1
          /\ ~MayCrash

LEMMA OneRunWriter ==
  ASSUME OneRun
  PROVE  /\ Writer = {OnlyWriter} /\ OnlyWriter \in Writer
         /\ \A w \in Writer : w = OnlyWriter
  BY DEF OneRun, OnlyWriter

\* The writer has an entry on the chain that it is not done with, because it
\* is on its way or because it ended on it.
Unfinished(w) == pc[w] \in InFlight \/ outcome[w] = "leaked"

\* The entries the writer is done with.
Done(w) == IF Unfinished(w) THEN Len(chain) - 1 ELSE Len(chain)

\* The writer has not read the pending rows.
Fresh(w) ==
    \/ runs[w] = 0
    \/ pc[w] \in {"fund", "confirm", "find", "confidential", "streamConf", "pending"}

PhaseInv(w) ==
    /\ pc[w] # "off" => runs[w] = 1 /\ outcome[w] = "none"
    /\ outcome[w] = "leaked" => runs[w] = 1
    /\ Fresh(w) => chain = <<>> /\ todo[w] = {}
    /\ Drained(w) => todo[w] = {}

\* The unfinished entry is the last of the chain, at the remembered position.
InStep(w) ==
    Unfinished(w) =>
        /\ txid[w] = Len(chain)
        /\ chain[txid[w]].prev = prevLink[w][chain[txid[w]].stream]
        /\ chain[txid[w]].seq = streamSeq[w][chain[txid[w]].stream]

\* An entry links to the last one of its stream before it.
LinkInv ==
    \A n \in Txid : \A m \in 1 .. n - 1 :
        chain[m].stream = chain[n].stream =>
            m <= chain[n].prev /\ chain[m].seq < chain[n].seq

\* The remembered link is the last entry of its stream.
MemoryInv(w) ==
    \A st \in Stream :
        /\ prevLink[w][st] <= Done(w)
        /\ \A m \in 1 .. Done(w) :
              chain[m].stream = st =>
                  m <= prevLink[w][st] /\ chain[m].seq < streamSeq[w][st]

Indexed(i) == /\ IndexKey(chain[i]) \in DOMAIN chainIndex
              /\ chainIndex[IndexKey(chain[i])] = i
Opened(i) == /\ IndexKey(chain[i]) \in DOMAIN blinding
             /\ blinding[IndexKey(chain[i])] = chain[i].r
IndexedInv(w) ==
    /\ \A i \in 1 .. Done(w) :
          Indexed(i) /\ (chain[i].committed => Opened(i))
    /\ pc[w] = "blind" => Indexed(Len(chain))
    /\ pc[w] = "leak" \/ outcome[w] = "leaked" =>
          Indexed(Len(chain)) /\ Opened(Len(chain))

RunInv(w) == /\ PhaseInv(w) /\ InStep(w) /\ LinkInv /\ MemoryInv(w)
             /\ IndexedInv(w)

\* Steps that touch neither the chain, its indexes nor the memory.
LEMMA RunQuiet ==
  ASSUME NEW w, RunInv(w), PhaseInv(w)',
         UNCHANGED <<chain, chainIndex, blinding>>,
         prevLink'[w] = prevLink[w], streamSeq'[w] = streamSeq[w],
         Unfinished(w)' <=> Unfinished(w),
         Unfinished(w) => txid'[w] = txid[w],
         pc'[w] = "blind" => pc[w] = "blind",
         pc'[w] = "leak" => pc[w] = "leak",
         outcome'[w] = "leaked" => outcome[w] = "leaked"
  PROVE  RunInv(w)'
<1>1. Done(w)' = Done(w)
  BY DEF Done
<1>2. InStep(w)'
  BY DEF InStep, RunInv
<1>3. LinkInv'
  BY DEF LinkInv, RunInv, Txid
<1>4. MemoryInv(w)'
  BY <1>1 DEF MemoryInv, RunInv
<1>5. IndexedInv(w)'
  <2>1. \A i : Indexed(i)' = Indexed(i) /\ Opened(i)' = Opened(i)
    BY DEF Indexed, Opened, IndexKey
  <2> QED
    BY <1>1, <2>1 DEF IndexedInv, RunInv
<1> QED
  BY <1>2, <1>3, <1>4, <1>5 DEF RunInv

\* Positions of the entries are numbers, and so is what the writer remembers.
LEMMA ChainNumbers ==
  ASSUME WriterTypeOK
  PROVE  /\ Len(chain) \in Nat /\ Txid = 1 .. Len(chain)
         /\ \A n \in Txid : /\ chain[n] \in Entry /\ chain[n].seq \in Nat
                            /\ chain[n].prev \in Nat /\ chain[n].r \in Nat
                            /\ chain[n].stream \in Stream
                            /\ chain[n].committed \in BOOLEAN
                            /\ chain[n].change \in Nat
         /\ \A w \in Writer, st \in Stream :
               prevLink[w][st] \in Nat /\ streamSeq[w][st] \in Nat
<1>1. Len(chain) \in Nat /\ Txid = 1 .. Len(chain)
      /\ \A n \in Txid : chain[n] \in Entry
  BY DEF WriterTypeOK, Txid
<1>2. \A e \in Entry : /\ e.seq \in Nat /\ e.prev \in Nat /\ e.r \in Nat
                       /\ e.stream \in Stream /\ e.committed \in BOOLEAN
                       /\ e.change \in Nat
  BY DEF Entry
<1>3. \A w \in Writer, st \in Stream :
         prevLink[w][st] \in Nat /\ streamSeq[w][st] \in Nat
  BY DEF WriterTypeOK
<1> QED
  BY <1>1, <1>2, <1>3

LEMMA RunLoadPending ==
  ASSUME WriterInv, NEW w \in Writer, RunInv(w), LoadPending(w)
  PROVE  RunInv(w)'
<1>1. /\ pc[w] = "pending" /\ pc'[w] = "drain" /\ runs' = runs
      /\ outcome' = outcome /\ UNCHANGED <<chain, chainIndex, blinding>>
  BY DEF LoadPending, At, Goto, WriterInv, WriterTypeOK, nodeVars, dbVars
<1>2. chain = <<>> /\ runs[w] = 1 /\ outcome[w] = "none"
  BY <1>1 DEF RunInv, PhaseInv, Fresh
<1>3. Done(w)' = 0 /\ Txid' = {} /\ Len(chain) = 0
  BY <1>1, <1>2 DEF Done, Unfinished, InFlight, Txid
<1>4. \A st \in Stream : prevLink'[w][st] = 0
  BY DEF LoadPending, WriterInv, WriterTypeOK
<1>5. PhaseInv(w)' /\ InStep(w)'
  BY <1>1, <1>2 DEF PhaseInv, Fresh, Drained, InStep, Unfinished, InFlight
<1>6. LinkInv' /\ MemoryInv(w)' /\ IndexedInv(w)'
  BY <1>1, <1>2, <1>3, <1>4 DEF LinkInv, MemoryInv, IndexedInv
<1> QED
  BY <1>5, <1>6 DEF RunInv

\* The entry that is sent, as a rigid value.
LEMMA RunSendEntry ==
  ASSUME CaptureTypeOK, WriterInv, NEW w \in Writer, RunInv(w), SendEntry(w)
  PROVE  RunInv(w)'
<1> DEFINE k == Len(chain) + 1
<1>1. PICK n \in todo[w] : chain' = Append(chain, NewEntry(w, n))
  BY DEF SendEntry
<1>2. PICK e : e = NewEntry(w, n)
  OBVIOUS
<1>3. n \in DOMAIN outbox
  BY DEF WriterInv, TodoInv
<1>4. e \in Entry
  BY <1>2, <1>3, NewEntryFacts
<1>5. e.prev = prevLink[w][e.stream] /\ e.seq = streamSeq[w][e.stream]
  BY <1>2 DEF NewEntry
<1>6. /\ pc[w] = "drain" /\ pc'[w] = "mine" /\ runs' = runs
      /\ txid'[w] = k /\ outcome' = outcome /\ outcome[w] = "none"
      /\ UNCHANGED <<chainIndex, blinding, prevLink, streamSeq, todo>>
  BY DEF SendEntry, At, Goto, WriterInv, WriterTypeOK, dbVars, RunInv, PhaseInv
<1>7. /\ Len(chain) \in Nat /\ k \in Nat \ {0} /\ Len(chain') = k
      /\ \A i \in 1 .. Len(chain) : chain'[i] = chain[i]
      /\ chain'[k] = e
  BY <1>1, <1>2, <1>4, AppendFacts DEF WriterInv, WriterTypeOK
<1>8. Done(w)' = Len(chain) /\ Done(w) = Len(chain)
  BY <1>6, <1>7 DEF Done, Unfinished, InFlight
<1>9. PhaseInv(w)'
  BY <1>6 DEF PhaseInv, Fresh, Drained, RunInv
<1>10. InStep(w)'
  BY <1>5, <1>6, <1>7 DEF InStep
<1>11. e.stream \in Stream
  BY <1>4 DEF Entry
<1>12. LinkInv'
  <2> SUFFICES ASSUME NEW i \in 1 .. k, NEW m \in 1 .. i - 1,
                      chain'[m].stream = chain'[i].stream
               PROVE  m <= chain'[i].prev /\ chain'[m].seq < chain'[i].seq
    BY <1>7 DEF LinkInv, Txid
  <2>1. m \in 1 .. Len(chain)
    BY <1>7
  <2>2. CASE i = k
    <3>1. chain[m].stream = e.stream
      BY <1>7, <2>1, <2>2
    <3>2. m <= prevLink[w][e.stream] /\ chain[m].seq < streamSeq[w][e.stream]
      BY <1>8, <1>11, <2>1, <3>1 DEF RunInv, MemoryInv
    <3> QED
      BY <1>5, <1>7, <2>1, <2>2, <3>2
  <2>3. CASE i # k
    <3>1. i \in 1 .. Len(chain)
      BY <1>7, <2>3
    <3>2. chain'[i] = chain[i] /\ chain'[m] = chain[m]
      BY <1>7, <2>1, <3>1
    <3> QED
      BY <3>1, <3>2 DEF RunInv, LinkInv, Txid
  <2> QED
    BY <2>2, <2>3
<1>13. MemoryInv(w)'
  BY <1>6, <1>7, <1>8 DEF MemoryInv, RunInv
<1>14. IndexedInv(w)'
  <2>1. \A i \in 1 .. Len(chain) : /\ Indexed(i)' = Indexed(i)
                                   /\ Opened(i)' = Opened(i)
    BY <1>6, <1>7 DEF Indexed, Opened, IndexKey
  <2> QED
    BY <1>6, <1>7, <1>8, <2>1 DEF IndexedInv, RunInv
<1> QED
  BY <1>9, <1>10, <1>12, <1>13, <1>14 DEF RunInv

\* The positions of two entries differ in te.chain_index.
LEMMA KeysDiffer ==
  ASSUME WriterTypeOK, LinkInv, NEW m \in Txid, NEW n \in Txid, m # n
  PROVE  IndexKey(chain[m]) # IndexKey(chain[n])
<1>1. ASSUME NEW i \in Txid, NEW j \in Txid, i < j
      PROVE  IndexKey(chain[i]) # IndexKey(chain[j])
  <2>1. i \in 1 .. j - 1
    BY <1>1, ChainNumbers
  <2>2. chain[i].seq \in Nat /\ chain[j].seq \in Nat
    BY ChainNumbers
  <2>3. chain[i].stream = chain[j].stream => chain[i].seq # chain[j].seq
    BY <2>1, <2>2 DEF LinkInv
  <2> QED
    BY <2>3 DEF IndexKey
<1>2. m < n \/ n < m
  BY ChainNumbers
<1> QED
  BY <1>1, <1>2

\* The last entry is done.
LEMMA RunAdvance ==
  ASSUME WriterInv, NEW w \in Writer, RunInv(w),
         pc[w] \in {"index", "leak"}, Advance(w), Goto(w, "drain"),
         chain' = chain, runs' = runs,
         IndexedInv(w)'
  PROVE  RunInv(w)'
<1> DEFINE k == Len(chain)
           st == chain[k].stream
<1>1. /\ pc[w] \in InFlight /\ pc'[w] = "drain" /\ txid[w] \in Txid
      /\ outcome' = outcome /\ outcome[w] = "none"
  BY DEF Goto, WriterInv, WriterTypeOK, HandInv, InFlight, RunInv, PhaseInv
<1>2. /\ txid[w] = k /\ k \in Nat \ {0} /\ k \in Txid /\ st \in Stream
      /\ chain[k].seq \in Nat
  BY <1>1, ChainNumbers DEF RunInv, InStep, Unfinished, WriterInv
<1>3. /\ prevLink'[w][st] = k /\ streamSeq'[w][st] = chain[k].seq + 1
      /\ \A o \in Stream : o # st =>
            prevLink'[w][o] = prevLink[w][o] /\ streamSeq'[w][o] = streamSeq[w][o]
  BY <1>2 DEF Advance, WriterInv, WriterTypeOK
<1>4. Done(w)' = k /\ Done(w) = k - 1
  BY <1>1, <1>2 DEF Done, Unfinished, InFlight
<1>5. PhaseInv(w)' /\ InStep(w)' /\ LinkInv'
  BY <1>1 DEF PhaseInv, Fresh, Drained, RunInv, InStep, Unfinished, InFlight,
     LinkInv, Txid
<1>6. MemoryInv(w)'
  <2> SUFFICES ASSUME NEW o \in Stream
               PROVE  /\ prevLink'[w][o] <= k
                      /\ \A m \in 1 .. k : chain[m].stream = o =>
                            m <= prevLink'[w][o] /\ chain[m].seq < streamSeq'[w][o]
    BY <1>4 DEF MemoryInv
  <2>1. CASE o = st
    <3>1. \A m \in 1 .. k : m \in Nat /\ m <= k /\ (m = k \/ m \in 1 .. k - 1)
      BY <1>2
    <3>2. \A m \in 1 .. k - 1 : chain[m].stream = st =>
             chain[m].seq < chain[k].seq /\ chain[m].seq \in Nat
      <4>1. WriterTypeOK /\ LinkInv /\ k \in Txid
        BY <1>2 DEF RunInv, WriterInv
      <4>2. \A m \in 1 .. k - 1 : m \in Txid
        BY <1>2, <4>1, ChainNumbers
      <4>3. \A m \in 1 .. k - 1 : chain[m].seq \in Nat
        BY <4>1, <4>2, ChainNumbers
      <4> HIDE DEF k
      <4> QED
        BY <4>1, <4>3 DEF LinkInv
    <3>3. ASSUME NEW m \in 1 .. k, chain[m].stream = st
          PROVE  chain[m].seq < chain[k].seq + 1
      <4>1. CASE m = k
        BY <1>2, <4>1
      <4>2. CASE m \in 1 .. k - 1
        <5>1. chain[m].seq < chain[k].seq /\ chain[m].seq \in Nat
          BY <3>2, <3>3, <4>2
        <5> QED
          BY <1>2, <5>1
      <4> QED
        BY <3>1, <4>1, <4>2
    <3>4. prevLink'[w][o] = k /\ streamSeq'[w][o] = chain[k].seq + 1 /\ k <= k
      BY <1>2, <1>3, <2>1
    <3> HIDE DEF st, k
    <3> QED
      BY <2>1, <3>1, <3>3, <3>4
  <2>2. CASE o # st
    <3>1. \A m \in 1 .. k : chain[m].stream = o => m \in 1 .. k - 1
      BY <1>2, <2>2
    <3>2. prevLink[w][o] <= k - 1 /\ prevLink[w][o] \in Nat
      BY <1>4, ChainNumbers DEF RunInv, MemoryInv, WriterInv
    <3> HIDE DEF st
    <3> QED
      BY <1>2, <1>3, <1>4, <2>2, <3>1, <3>2 DEF RunInv, MemoryInv
  <2> QED
    BY <2>1, <2>2
<1> QED
  BY <1>5, <1>6 DEF RunInv

LEMMA RunIndexEntry ==
  ASSUME WriterInv, NEW w \in Writer, RunInv(w), IndexEntry(w)
  PROVE  RunInv(w)'
<1> DEFINE k == Len(chain)
<1>1. /\ pc[w] = "index" /\ runs' = runs /\ outcome' = outcome
      /\ chainIndex' = Put(chainIndex, IndexKey(chain[txid[w]]), txid[w])
      /\ UNCHANGED <<chain, blinding, txid>>
  BY DEF IndexEntry, At, nodeVars, Goto
<1>2. /\ txid[w] = k /\ k \in Nat \ {0} /\ k \in Txid /\ txid[w] \in Txid
      /\ chain[k].committed \in BOOLEAN /\ Txid = 1 .. k
      /\ outcome[w] = "none"
  BY <1>1, ChainNumbers DEF RunInv, InStep, WriterInv, HandInv, Unfinished,
     InFlight, PhaseInv
<1>3. Done(w) = k - 1
  BY <1>1, <1>2 DEF Done, Unfinished, InFlight
<1>4. \A i \in 1 .. k : i \in Txid /\ (i = k \/ i \in 1 .. k - 1)
  BY <1>2
<1>5. \A i \in 1 .. k : Indexed(i)'
  <2> SUFFICES ASSUME NEW i \in 1 .. k PROVE Indexed(i)'
    OBVIOUS
  <2>1. CASE i = k
    BY <1>1, <1>2, <2>1 DEF Indexed, Put
  <2>2. CASE i \in 1 .. k - 1
    <3>1. Indexed(i)
      BY <1>3, <2>2 DEF RunInv, IndexedInv
    <3>2. i # k /\ i \in Txid
      BY <1>2, <2>2
    <3>3. IndexKey(chain[i]) # IndexKey(chain[k])
      BY <1>2, <3>2, KeysDiffer DEF WriterInv, RunInv
    <3>4. PICK x, y : x = IndexKey(chain[i]) /\ y = IndexKey(chain[k])
      OBVIOUS
    <3>5. x # y /\ x \in DOMAIN chainIndex /\ chainIndex[x] = i
      BY <3>1, <3>3, <3>4 DEF Indexed
    <3>6. chainIndex' = Put(chainIndex, y, k)
      BY <1>1, <1>2, <3>4
    <3>7. x \in DOMAIN chainIndex' /\ chainIndex'[x] = i
      BY <3>5, <3>6 DEF Put
    <3>8. x = IndexKey(chain'[i])
      BY <1>1, <3>4
    <3> QED
      BY <3>7, <3>8 DEF Indexed, IndexKey
  <2> QED
    BY <1>4, <2>1, <2>2
<1>6. \A i \in 1 .. k - 1 : chain[i].committed => Opened(i)'
  <2>1. \A i : Opened(i)' = Opened(i)
    BY <1>1 DEF Opened, IndexKey
  <2> QED
    BY <1>3, <2>1 DEF RunInv, IndexedInv
<1>7. CASE chain[k].committed
  <2>1. /\ pc'[w] = "blind" /\ pc' = [pc EXCEPT ![w] = "blind"]
        /\ UNCHANGED <<prevLink, streamSeq, todo>>
    BY <1>1, <1>2, <1>7 DEF IndexEntry, Goto, WriterInv, WriterTypeOK
  <2>2. Done(w)' = k - 1
    BY <1>1, <1>2, <2>1 DEF Done, Unfinished, InFlight
  <2>3. PhaseInv(w)' /\ InStep(w)' /\ LinkInv'
    BY <1>1, <2>1 DEF PhaseInv, Fresh, Drained, RunInv, InStep, Unfinished,
       InFlight, LinkInv, Txid
  <2>4. MemoryInv(w)'
    BY <1>1, <1>3, <2>1, <2>2 DEF MemoryInv, RunInv
  <2>5. IndexedInv(w)'
    <3>1. \A i \in 1 .. k - 1 : i \in 1 .. k
      BY <1>2
    <3>2. k \in 1 .. k
      BY <1>2
    <3>3. chain' = chain
      BY <1>1
    <3> QED
      BY <1>1, <1>2, <1>5, <1>6, <2>1, <2>2, <3>1, <3>2, <3>3 DEF IndexedInv
  <2> QED
    BY <2>3, <2>4, <2>5 DEF RunInv
<1>8. CASE ~chain[k].committed
  <2>1. Goto(w, "drain") /\ Advance(w)
    BY <1>1, <1>2, <1>8 DEF IndexEntry
  <2>2. pc'[w] = "drain"
    BY <2>1 DEF Goto, WriterInv, WriterTypeOK
  <2>3. Done(w)' = k /\ chain' = chain
    BY <1>1, <1>2, <2>2 DEF Done, Unfinished, InFlight
  <2>4. IndexedInv(w)'
    <3>1. \A i \in 1 .. k : chain[i].committed => i \in 1 .. k - 1
      BY <1>4, <1>8
    <3> QED
      BY <1>1, <1>2, <1>5, <1>6, <2>2, <2>3, <3>1 DEF IndexedInv
  <2> QED
    BY <1>1, <2>1, <2>4, RunAdvance
<1> QED
  BY <1>7, <1>8

LEMMA RunStoreBlinding ==
  ASSUME WriterInv, NEW w \in Writer, RunInv(w), StoreBlinding(w)
  PROVE  RunInv(w)'
<1> DEFINE k == Len(chain)
<1>1. /\ pc[w] = "blind" /\ pc'[w] = "leak" /\ runs' = runs
      /\ outcome' = outcome
      /\ blinding' = Put(blinding, IndexKey(chain[txid[w]]), chain[txid[w]].r)
      /\ UNCHANGED <<chain, chainIndex, txid, prevLink, streamSeq, todo>>
  BY DEF StoreBlinding, At, nodeVars, drainVars, Goto, WriterInv, WriterTypeOK
<1>2. /\ txid[w] = k /\ k \in Nat \ {0} /\ k \in Txid /\ Txid = 1 .. k
      /\ chain[k].r \in Nat /\ outcome[w] = "none"
  BY <1>1, ChainNumbers DEF RunInv, InStep, WriterInv, HandInv, Unfinished,
     InFlight, PhaseInv
<1>3. Done(w) = k - 1 /\ Done(w)' = k - 1
  BY <1>1, <1>2 DEF Done, Unfinished, InFlight
<1>4. \A i \in 1 .. k : i \in Txid /\ (i = k \/ i \in 1 .. k - 1)
  BY <1>2
<1>5. \A i \in 1 .. k : Indexed(i)'
  <2>1. \A i : Indexed(i)' = Indexed(i)
    BY <1>1 DEF Indexed, IndexKey
  <2>2. \A i \in 1 .. k - 1 : Indexed(i)
    BY <1>3 DEF RunInv, IndexedInv
  <2>3. Indexed(k)
    BY <1>1 DEF RunInv, IndexedInv
  <2> QED
    BY <1>4, <2>1, <2>2, <2>3
<1>6. ASSUME NEW i \in 1 .. k, chain[i].committed PROVE Opened(i)'
  <2>1. CASE i = k
    BY <1>1, <1>2, <2>1 DEF Opened, Put
  <2>2. CASE i \in 1 .. k - 1
    <3>1. Opened(i)
      BY <1>3, <1>6, <2>2 DEF RunInv, IndexedInv
    <3>2. i # k /\ i \in Txid
      BY <1>2, <2>2
    <3>3. IndexKey(chain[i]) # IndexKey(chain[k])
      BY <1>2, <3>2, KeysDiffer DEF WriterInv, RunInv
    <3>4. PICK x, y, r, q : /\ x = IndexKey(chain[i]) /\ y = IndexKey(chain[k])
                            /\ r = chain[k].r /\ q = chain[i].r
      OBVIOUS
    <3>5. x # y /\ x \in DOMAIN blinding /\ blinding[x] = q
      BY <3>1, <3>3, <3>4 DEF Opened
    <3>6. blinding' = Put(blinding, y, r)
      BY <1>1, <1>2, <3>4
    <3>7. x \in DOMAIN blinding' /\ blinding'[x] = q
      BY <3>5, <3>6 DEF Put
    <3>8. x = IndexKey(chain'[i]) /\ q = chain'[i].r
      BY <1>1, <3>4
    <3> QED
      BY <3>7, <3>8 DEF Opened, IndexKey
  <2> QED
    BY <1>4, <2>1, <2>2
<1>7. IndexedInv(w)'
  <2>1. chain' = chain /\ k \in 1 .. k /\ \A i \in 1 .. k - 1 : i \in 1 .. k
    BY <1>1, <1>2
  <2>2. Opened(k)'
    BY <1>1, <1>2 DEF Opened, Put
  <2> QED
    BY <1>1, <1>3, <1>5, <1>6, <2>1, <2>2 DEF IndexedInv
<1>8. PhaseInv(w)' /\ InStep(w)' /\ LinkInv'
  BY <1>1 DEF PhaseInv, Fresh, Drained, RunInv, InStep, Unfinished, InFlight,
     LinkInv, Txid
<1>9. MemoryInv(w)'
  BY <1>1, <1>3 DEF MemoryInv, RunInv
<1> QED
  BY <1>7, <1>8, <1>9 DEF RunInv

\* The entry is found clean and done, or the run ends on it.
LEMMA RunCheckLeak ==
  ASSUME WriterInv, NEW w \in Writer, RunInv(w), CheckLeak(w)
  PROVE  RunInv(w)'
<1> DEFINE k == Len(chain)
<1>1. /\ pc[w] = "leak" /\ runs' = runs /\ txid' = txid
      /\ UNCHANGED <<chain, chainIndex, blinding>>
  BY DEF CheckLeak, At, nodeVars, dbVars, Goto, Exit
<1>2. /\ txid[w] = k /\ k \in Nat \ {0} /\ outcome[w] = "none" /\ runs[w] = 1
  BY <1>1, ChainNumbers DEF RunInv, InStep, WriterInv, HandInv, Unfinished,
     InFlight, PhaseInv, Txid
<1>3. Done(w) = k - 1
  BY <1>1 DEF Done, Unfinished, InFlight
<1>4. \A i \in 1 .. k : i = k \/ i \in 1 .. k - 1
  BY <1>2
<1>5. \A i \in 1 .. k : Indexed(i)' /\ (chain[i].committed => Opened(i)')
  <2>1. \A i : Indexed(i)' = Indexed(i) /\ Opened(i)' = Opened(i)
    BY <1>1 DEF Indexed, Opened, IndexKey
  <2>2. Indexed(k) /\ Opened(k)
    BY <1>1 DEF RunInv, IndexedInv
  <2>3. \A i \in 1 .. k - 1 : Indexed(i) /\ (chain[i].committed => Opened(i))
    BY <1>3 DEF RunInv, IndexedInv
  <2> QED
    BY <1>4, <2>1, <2>2, <2>3
<1>6. CASE Goto(w, "drain") /\ Advance(w)
  <2>1. pc'[w] = "drain" /\ outcome' = outcome
    BY <1>6 DEF Goto, WriterInv, WriterTypeOK
  <2>2. Done(w)' = k /\ chain' = chain
    BY <1>1, <1>2, <2>1 DEF Done, Unfinished, InFlight
  <2>3. IndexedInv(w)'
    BY <1>2, <1>5, <2>1, <2>2 DEF IndexedInv
  <2> QED
    BY <1>1, <1>6, <2>3, RunAdvance
<1>7. CASE Exit(w, "leaked") /\ UNCHANGED <<coinVars, todo, streamSeq, prevLink>>
  <2>1. /\ pc'[w] = "off" /\ outcome'[w] = "leaked"
        /\ UNCHANGED <<todo, streamSeq, prevLink>>
    BY <1>7 DEF Exit, WriterInv, WriterTypeOK
  <2>2. Done(w)' = k - 1 /\ Unfinished(w)' /\ Unfinished(w)
    BY <1>1, <2>1 DEF Done, Unfinished, InFlight
  <2>3. PhaseInv(w)' /\ InStep(w)' /\ LinkInv'
    BY <1>1, <1>2, <2>1, <2>2 DEF PhaseInv, Fresh, Drained, RunInv, InStep,
       LinkInv, Txid
  <2>4. MemoryInv(w)'
    BY <1>1, <1>3, <2>1, <2>2 DEF MemoryInv, RunInv
  <2>5. IndexedInv(w)'
    <3>1. Indexed(k)' /\ Opened(k)'
      <4>1. Indexed(k) /\ Opened(k)
        BY <1>1 DEF RunInv, IndexedInv
      <4> QED
        BY <1>1, <4>1 DEF Indexed, Opened, IndexKey
    <3>2. chain' = chain /\ \A i \in 1 .. k - 1 : i \in 1 .. k
      BY <1>1, <1>2
    <3> QED
      BY <1>5, <2>1, <2>2, <3>1, <3>2 DEF IndexedInv
  <2> QED
    BY <2>3, <2>4, <2>5 DEF RunInv
<1> QED
  BY <1>6, <1>7 DEF CheckLeak

\* All the other steps.
LEMMA RunQuietSteps ==
  ASSUME OneRun, WriterInv, NEW w \in Writer, RunInv(w),
         \/ Start(w) \/ SendToAddress(w) \/ ConfirmFunding(w) \/ FindFunding(w)
         \/ LoadConfidential(w) \/ LoadStreamConf(w) \/ SendFails(w)
         \/ MineEntry(w) \/ MarkSent(w) \/ BeginVerify(w) \/ ReadHead(w)
         \/ Rebuild(w) \/ ReadTables(w) \/ (\E t \in Table : ReadTable(w, t))
         \/ Compare(w) \/ Finish(w)
  PROVE  RunInv(w)'
<1> DEFINE Same == UNCHANGED <<chain, chainIndex, blinding, prevLink, streamSeq, todo>>
           Kept == /\ Same
                   /\ Unfinished(w)' <=> Unfinished(w)
                   /\ Unfinished(w) => txid'[w] = txid[w]
                   /\ pc'[w] = "blind" => pc[w] = "blind"
                   /\ pc'[w] = "leak" => pc[w] = "leak"
                   /\ outcome'[w] = "leaked" => outcome[w] = "leaked"
                   /\ PhaseInv(w)'
<1> USE DEF dbVars, nodeVars, catalogVars, coinVars, drainVars, verifyVars,
            controlVars, At, Goto, Exit, InFlight, PhaseInv, Fresh, Drained,
            Unfinished
<1>0. /\ WriterTypeOK /\ PhaseInv(w)
      /\ pc[w] \in Steps /\ runs[w] \in Nat
  BY WriterAssumption DEF WriterInv, WriterTypeOK, RunInv
<1>1. CASE Start(w)
  <2>1. runs[w] = 0 /\ runs'[w] = 1
    BY <1>0, <1>1, WriterAssumption DEF Start, WriterTypeOK, OneRun
  <2>2. Kept
    BY <1>0, <1>1, <2>1 DEF Start, WriterTypeOK
  <2> QED
    BY <2>2, RunQuiet
<1>2. CASE \/ SendToAddress(w) \/ ConfirmFunding(w) \/ FindFunding(w)
           \/ LoadConfidential(w) \/ LoadStreamConf(w)
  <2>1. /\ pc[w] \in {"fund", "confirm", "find", "confidential", "streamConf"}
        /\ pc'[w] \in {"confirm", "find", "confidential", "streamConf", "pending"}
        /\ runs' = runs /\ outcome' = outcome /\ Same
    BY <1>0, <1>2 DEF SendToAddress, ConfirmFunding, FindFunding,
       LoadConfidential, LoadStreamConf, WriterTypeOK
  <2>2. Kept
    BY <1>0, <2>1
  <2> QED
    BY <2>2, RunQuiet
<1>3. CASE SendFails(w) \/ Finish(w)
  <2>1. PICK how \in {"no keys", "rejected", "pass"} : Exit(w, how)
    BY <1>3 DEF SendFails, Finish
  <2>2. Same /\ txid' = txid
    BY <1>3 DEF SendFails, Finish
  <2>3. /\ pc'[w] = "off" /\ outcome'[w] = how /\ runs' = runs
        /\ pc[w] \in {"drain", "verify"}
    BY <1>0, <1>3, <2>1 DEF SendFails, Finish, WriterTypeOK
  <2>4. Kept
    BY <1>0, <2>2, <2>3
  <2> QED
    BY <2>4, RunQuiet
<1>4. CASE MineEntry(w) \/ MarkSent(w) \/ BeginVerify(w)
  <2>1. Kept
    BY <1>0, <1>4 DEF MineEntry, MarkSent, BeginVerify, WriterTypeOK
  <2> QED
    BY <2>1, RunQuiet
<1>5. CASE \/ ReadHead(w) \/ Rebuild(w) \/ ReadTables(w) \/ Compare(w)
           \/ \E t \in Table : ReadTable(w, t)
  <2>1. /\ pc[w] \in {"verify"} \cup Walking /\ Same
        /\ \/ (\E p \in {"verify"} \cup Walking : Goto(w, p))
           \/ UNCHANGED controlVars
           \/ (\E how \in Outcomes \ {"leaked"} : Exit(w, how))
    <3> USE DEF Walking, Outcomes
    <3>1. CASE ReadHead(w)
      BY <3>1 DEF ReadHead
    <3>2. CASE Rebuild(w)
      BY <3>2 DEF Rebuild, Verified
    <3>3. CASE ReadTables(w)
      BY <3>3 DEF ReadTables
    <3>4. CASE Compare(w)
      BY <3>4 DEF Compare, Verified
    <3>5. CASE \E t \in Table : ReadTable(w, t)
      BY <3>5 DEF ReadTable
    <3> QED
      BY <1>5, <3>1, <3>2, <3>3, <3>4, <3>5
  <2>2. /\ runs' = runs
        /\ \/ pc'[w] \in {"verify"} \cup Walking /\ outcome'[w] = outcome[w]
           \/ pc'[w] = "off" /\ outcome'[w] # "leaked"
    BY <1>0, <2>1 DEF WriterTypeOK
  <2>3. Kept
    BY <1>0, <2>1, <2>2 DEF Walking
  <2> QED
    BY <2>3, RunQuiet
<1> QED
  BY <1>1, <1>2, <1>3, <1>4, <1>5

LEMMA RunInit ==
  ASSUME WriterInit, NEW w \in Writer
  PROVE  RunInv(w)
<1>1. /\ pc[w] = "off" /\ runs[w] = 0 /\ chain = <<>> /\ todo[w] = {}
      /\ outcome[w] = "none"
      /\ \A st \in Stream : prevLink[w][st] = 0
  BY DEF WriterInit
<1>2. Done(w) = 0 /\ Txid = {} /\ Len(chain) = 0
  BY <1>1 DEF Done, Unfinished, InFlight, Txid
<1>3. PhaseInv(w) /\ InStep(w)
  BY <1>1 DEF PhaseInv, Fresh, Drained, InStep, Unfinished, InFlight
<1> QED
  BY <1>1, <1>2, <1>3 DEF RunInv, LinkInv, MemoryInv, IndexedInv

OneRunInv == SystemInv /\ RunInv(OnlyWriter)

LEMMA RunStep ==
  ASSUME OneRun, OneRunInv, [Next]_vars
  PROVE  RunInv(OnlyWriter)'
<1>1. PICK w \in Writer : w = OnlyWriter
  BY OneRunWriter
<1>2. RunInv(w) /\ WriterInv /\ CaptureTypeOK
  BY <1>1 DEF OneRunInv, SystemInv, CaptureInv
<1>3. RunInv(w)'
  <2>1. CASE UNCHANGED writerVars
    <3>1. UNCHANGED <<chain, chainIndex, blinding, prevLink, streamSeq, pc,
                      txid, runs, todo, outcome>>
      BY <2>1 DEF writerVars, dbVars, nodeVars, controlVars, drainVars
    <3>2. PhaseInv(w)' /\ (Unfinished(w)' <=> Unfinished(w))
      BY <1>2, <3>1 DEF RunInv, PhaseInv, Fresh, Drained, Unfinished
    <3> QED
      BY <1>2, <3>1, <3>2, RunQuiet
  <2>2. CASE WriterNext
    <3>1. ~Crash(w)
      BY DEF OneRun, Crash
    <3>2. Start(w) \/ WriterStep(w)
      BY <1>1, <2>2, <3>1, OneRunWriter DEF WriterNext
    <3> QED
      BY <1>2, <3>2, RunLoadPending, RunSendEntry, RunIndexEntry,
         RunStoreBlinding, RunCheckLeak, RunQuietSteps DEF WriterStep
  <2> QED
    BY <2>1, <2>2 DEF Next, vars
<1>4. PICK x : x = OnlyWriter
  OBVIOUS
<1> QED
  BY <1>1, <1>3

LEMMA OneRunInvariant ==
  ASSUME OneRun
  PROVE  Spec => []OneRunInv
<1>1. Init => OneRunInv
  BY OneRunWriter, CaptureInvInit, WriterInvInit, RunInit
     DEF Init, OneRunInv, SystemInv
<1>2. OneRunInv /\ [Next]_vars => OneRunInv'
  BY RunStep, SystemInvStep DEF OneRunInv
<1> QED
  BY <1>1, <1>2, PTL DEF Spec

\* A commitment on the chain can be opened with te.blinding once its writer
\* is past it, in the run of one writer that does not die on the way.
THEOREM CommitmentsOpenTheorem ==
  ASSUME OneRun
  PROVE  Spec => []CommitmentsOpen
<1>1. OneRunInv => CommitmentsOpen
  <2> SUFFICES ASSUME OneRunInv, NEW n \in Txid, chain[n].committed,
                      pc[OnlyWriter] \notin {"mine", "mark", "index", "blind"}
               PROVE  Opened(n)
    BY OneRunWriter DEF CommitmentsOpen, Opened, IndexKey
  <2>1. /\ Unfinished(OnlyWriter) => Opened(Len(chain))
        /\ \A i \in 1 .. Done(OnlyWriter) : chain[i].committed => Opened(i)
    BY DEF OneRunInv, RunInv, IndexedInv, Unfinished, InFlight
  <2>2. n \in 1 .. Len(chain) /\ Len(chain) \in Nat
    BY DEF Txid, OneRunInv, SystemInv, WriterInv, WriterTypeOK
  <2>3. n = Len(chain) \/ n \in 1 .. Len(chain) - 1
    BY <2>2
  <2> QED
    BY <2>1, <2>2, <2>3 DEF Done
<1> QED
  BY <1>1, OneRunInvariant, PTL

-----------------------------------------------------------------------------
(* The replay of a walk, entry by entry.                                   *)

\* The states of a replay.
Rebuilt == UNION {[D -> Value \cup {EmptyString}] : D \in SUBSET Cell}

CellOf(i) == <<chain[i].table, chain[i].row, chain[i].column>>

LEMMA RebuiltIs ==
  ASSUME NEW f
  PROVE  f \in Rebuilt <=> /\ f = [x \in DOMAIN f |-> f[x]]
                           /\ DOMAIN f \subseteq Cell
                           /\ \A x \in DOMAIN f : f[x] \in Value \cup {EmptyString}
<1>1. ASSUME f \in Rebuilt
      PROVE  /\ f = [x \in DOMAIN f |-> f[x]] /\ DOMAIN f \subseteq Cell
             /\ \A x \in DOMAIN f : f[x] \in Value \cup {EmptyString}
  <2>1. PICK D \in SUBSET Cell : f \in [D -> Value \cup {EmptyString}]
    BY <1>1 DEF Rebuilt
  <2> QED
    BY <2>1
<1>2. ASSUME /\ f = [x \in DOMAIN f |-> f[x]] /\ DOMAIN f \subseteq Cell
             /\ \A x \in DOMAIN f : f[x] \in Value \cup {EmptyString}
      PROVE  f \in Rebuilt
  <2>1. DOMAIN f \in SUBSET Cell /\ f \in [DOMAIN f -> Value \cup {EmptyString}]
    BY <1>2
  <2> QED
    BY <2>1 DEF Rebuilt
<1> QED
  BY <1>1, <1>2

LEMMA NothingRebuilt == NoMap \in Rebuilt
<1>1. DOMAIN NoMap = {} /\ NoMap = [x \in DOMAIN NoMap |-> NoMap[x]]
  BY DEF NoMap
<1> QED
  BY <1>1, RebuiltIs

LEMMA ApplyRebuilds ==
  ASSUME WriterTypeOK, NEW n \in Txid, NEW s \in Rebuilt
  PROVE  Apply(s, n) \in Rebuilt
<1>1. /\ CellOf(n) \in Cell /\ chain[n].value \in Value \cup {EmptyString}
  <2>1. chain[n] \in Entry
    BY ChainNumbers
  <2> QED
    BY <2>1 DEF Entry, Cell, CellOf
<1>2. /\ DOMAIN s \subseteq Cell
      /\ \A x \in DOMAIN s : s[x] \in Value \cup {EmptyString}
  BY RebuiltIs
<1>3. PICK c, v : c = CellOf(n) /\ v = chain[n].value
  OBVIOUS
<1>4. CASE chain[n].op = "DELETE"
  <2>1. Apply(s, n) = [x \in DOMAIN s \ {c} |-> s[x]]
    BY <1>3, <1>4 DEF Apply, CellOf
  <2>2. [x \in DOMAIN s \ {c} |-> s[x]] \in Rebuilt
    BY <1>2, RebuiltIs
  <2> QED
    BY <2>1, <2>2
<1>5. CASE chain[n].op # "DELETE"
  <2>1. Apply(s, n) = Put(s, c, v)
    BY <1>3, <1>5 DEF Apply, CellOf
  <2>2. Put(s, c, v) \in Rebuilt
    BY <1>1, <1>2, <1>3, RebuiltIs DEF Put
  <2> QED
    BY <2>1, <2>2
<1> QED
  BY <1>4, <1>5

\* The equation that FoldLeft chooses a solution of, and its first solution.
ReplayEquation(G, path) ==
    G = [s \in SUBSET (1 .. Len(path)) |->
            IF s = {} THEN NoMap
            ELSE Apply(G[s \ {Max(s)}], path[Max(s)])]
ApplyAt(path) ==
    [i \in 1 .. Len(path) |-> [s \in Rebuilt |-> Apply(s, path[i])]]
FoldOf(F, path) == FoldsBy(F, Len(path), Rebuilt, NoMap, ApplyAt(path))

LEMMA ReplayIsFold ==
  ASSUME WriterTypeOK, NEW path \in Seq(Txid)
  PROVE  \E F : FoldOf(F, path) /\ Replay(path) = F[1 .. Len(path)]
<1>1. Len(path) \in Nat /\ DOMAIN path = 1 .. Len(path)
      /\ \A i \in 1 .. Len(path) : path[i] \in Txid
  OBVIOUS
<1>2. \A i \in 1 .. Len(path) : \A s \in Rebuilt : ApplyAt(path)[i][s] \in Rebuilt
  BY <1>1, ApplyRebuilds DEF ApplyAt
<1>3. PICK F : FoldOf(F, path)
  <2>1. \E F : FoldsBy(F, Len(path), Rebuilt, NoMap, ApplyAt(path))
    BY <1>1, <1>2, NothingRebuilt, FoldHasSolution
  <2> QED
    BY <2>1 DEF FoldOf
<1>4. ReplayEquation(F, path)
  <2>1. ASSUME NEW s \in SUBSET (1 .. Len(path)), s # {}
        PROVE  F[s] = Apply(F[s \ {Max(s)}], path[Max(s)])
    <3>1. Max(s) \in 1 .. Len(path)
      BY <1>1, <2>1, MaxIs
    <3>2. F[s \ {Max(s)}] \in Rebuilt
      BY <1>3 DEF FoldOf, FoldsBy
    <3>3. F[s] = ApplyAt(path)[Max(s)][F[s \ {Max(s)}]]
      BY <1>3, <2>1 DEF FoldOf, FoldsBy
    <3> QED
      BY <3>1, <3>2, <3>3 DEF ApplyAt
  <2>2. F[{}] = NoMap /\ F \in [SUBSET (1 .. Len(path)) -> Rebuilt]
    BY <1>3 DEF FoldOf, FoldsBy
  <2> QED
    BY <2>1, <2>2 DEF ReplayEquation
<1>5. PICK G : G = CHOOSE H : ReplayEquation(H, path)
  OBVIOUS
<1>6. ReplayEquation(G, path)
  BY <1>4, <1>5
<1>7. Replay(path) = G[1 .. Len(path)]
  BY <1>1, <1>5 DEF Replay, FoldLeft, MapThenFoldSet, ReplayEquation
<1>8. G[1 .. Len(path)] = F[1 .. Len(path)]
  <2> DEFINE T == {k \in Nat : k <= Len(path) => G[1 .. k] = F[1 .. k]}
  <2>1. 0 \in T
    <3>1. 1 .. 0 = {} /\ {} \in SUBSET (1 .. Len(path))
      OBVIOUS
    <3>2. G[{}] = NoMap /\ F[{}] = NoMap
      BY <1>4, <1>6, <3>1 DEF ReplayEquation
    <3> QED
      BY <3>1, <3>2
  <2>2. ASSUME NEW k \in Nat, k \in T PROVE k + 1 \in T
    <3> SUFFICES ASSUME k + 1 <= Len(path) PROVE G[1 .. k + 1] = F[1 .. k + 1]
      OBVIOUS
    <3>1. PICK s : s = 1 .. k + 1
      OBVIOUS
    <3>2. s \in SUBSET (1 .. Len(path)) /\ s # {} /\ k + 1 \in s
      <4>1. k + 1 \in s
        BY <3>1
      <4>2. \A x \in s : x \in 1 .. Len(path)
        BY <1>1, <3>1
      <4> QED
        BY <4>1, <4>2
    <3>3. Max(s) \in s /\ \A x \in s : x <= Max(s)
      BY <1>1, <3>2, MaxIs
    <3>4. Max(s) = k + 1
      <4>1. Max(s) \in Nat /\ Max(s) <= k + 1
        BY <3>1, <3>3
      <4>2. k + 1 <= Max(s)
        BY <3>2, <3>3
      <4> QED
        BY <4>1, <4>2
    <3>5. s \ {Max(s)} = 1 .. k
      BY <3>1, <3>4
    <3>6. G[s] = Apply(G[1 .. k], path[k + 1]) /\ F[s] = Apply(F[1 .. k], path[k + 1])
      BY <1>4, <1>6, <3>2, <3>4, <3>5 DEF ReplayEquation
    <3>7. G[1 .. k] = F[1 .. k]
      BY <1>1, <2>2
    <3> QED
      BY <3>1, <3>6, <3>7
  <2> HIDE DEF T
  <2>3. Len(path) \in T
    BY <1>1, <2>1, <2>2, SetInduction
  <2> QED
    BY <2>3 DEF T
<1> QED
  BY <1>3, <1>7, <1>8

LEMMA ReplayNothing ==
  ASSUME WriterTypeOK
  PROVE  Replay(<<>>) = NoMap
<1>1. PICK path \in Seq(Txid) : path = <<>> /\ Len(path) = 0
  <2>1. <<>> \in Seq(Txid) /\ Len(<<>>) = 0
    OBVIOUS
  <2> QED
    BY <2>1
<1>2. PICK F : FoldOf(F, path) /\ Replay(path) = F[1 .. Len(path)]
  BY ReplayIsFold
<1>3. 1 .. Len(path) = {}
  BY <1>1
<1> QED
  BY <1>1, <1>2, <1>3 DEF FoldOf, FoldsBy

LEMMA ReplayAppend ==
  ASSUME WriterTypeOK, NEW path \in Seq(Txid), NEW n \in Txid
  PROVE  /\ Replay(path) \in Rebuilt
         /\ Replay(Append(path, n)) = Apply(Replay(path), n)
<1>1. PICK long : long = Append(path, n)
  OBVIOUS
<1>2. /\ long \in Seq(Txid) /\ Len(long) = Len(path) + 1 /\ Len(path) \in Nat
      /\ \A i \in 1 .. Len(path) : long[i] = path[i]
      /\ long[Len(path) + 1] = n
  BY <1>1, AppendFacts
<1>3. PICK F : FoldOf(F, path) /\ Replay(path) = F[1 .. Len(path)]
  BY ReplayIsFold
<1>4. PICK G : FoldOf(G, long) /\ Replay(long) = G[1 .. Len(long)]
  BY <1>2, ReplayIsFold
<1>5. ASSUME NEW k \in 1 .. Len(long)
      PROVE  G[1 .. k] = Apply(G[1 .. k - 1], long[k])
  <2>1. G[1 .. k] = ApplyAt(long)[k][G[1 .. k - 1]]
    BY <1>2, <1>4, FoldSegments DEF FoldOf
  <2>2. G[1 .. k - 1] \in Rebuilt
    <3>1. 1 .. k - 1 \in SUBSET (1 .. Len(long))
      BY <1>2
    <3> QED
      BY <1>4, <3>1 DEF FoldOf, FoldsBy
  <2> QED
    BY <2>1, <2>2 DEF ApplyAt
<1>6. ASSUME NEW k \in 1 .. Len(path)
      PROVE  F[1 .. k] = Apply(F[1 .. k - 1], path[k])
  <2>1. F[1 .. k] = ApplyAt(path)[k][F[1 .. k - 1]]
    BY <1>2, <1>3, FoldSegments DEF FoldOf
  <2>2. F[1 .. k - 1] \in Rebuilt
    <3>1. 1 .. k - 1 \in SUBSET (1 .. Len(path))
      BY <1>2
    <3> QED
      BY <1>3, <3>1 DEF FoldOf, FoldsBy
  <2> QED
    BY <2>1, <2>2 DEF ApplyAt
<1>7. G[1 .. Len(path)] = F[1 .. Len(path)]
  <2> DEFINE T == {k \in Nat : k <= Len(path) => G[1 .. k] = F[1 .. k]}
  <2>1. 0 \in T
    <3>1. 1 .. 0 = {}
      OBVIOUS
    <3>2. G[{}] = NoMap /\ F[{}] = NoMap
      BY <1>3, <1>4 DEF FoldOf, FoldsBy
    <3> QED
      BY <3>1, <3>2
  <2>2. ASSUME NEW k \in Nat, k \in T PROVE k + 1 \in T
    <3> SUFFICES ASSUME k + 1 <= Len(path) PROVE G[1 .. k + 1] = F[1 .. k + 1]
      OBVIOUS
    <3>1. k + 1 \in 1 .. Len(path) /\ k + 1 \in 1 .. Len(long) /\ (k + 1) - 1 = k
      BY <1>2
    <3>2. G[1 .. k + 1] = Apply(G[1 .. k], long[k + 1])
      BY <1>5, <3>1
    <3>3. F[1 .. k + 1] = Apply(F[1 .. k], path[k + 1])
      BY <1>6, <3>1
    <3>4. G[1 .. k] = F[1 .. k] /\ long[k + 1] = path[k + 1]
      BY <1>2, <2>2, <3>1
    <3> QED
      BY <3>2, <3>3, <3>4
  <2> HIDE DEF T
  <2>3. Len(path) \in T
    BY <1>2, <2>1, <2>2, SetInduction
  <2> QED
    BY <2>3 DEF T
<1>8. Replay(long) = Apply(F[1 .. Len(path)], n)
  <2>1. Len(long) \in 1 .. Len(long) /\ Len(long) - 1 = Len(path)
    BY <1>2
  <2>2. G[1 .. Len(long)] = Apply(G[1 .. Len(path)], long[Len(long)])
    BY <1>5, <2>1
  <2> QED
    BY <1>2, <1>4, <1>7, <2>2
<1>9. F[1 .. Len(path)] \in Rebuilt
  BY <1>3 DEF FoldOf, FoldsBy
<1> QED
  BY <1>1, <1>3, <1>8, <1>9

LEMMA WalkOfTxids ==
  ASSUME WriterTypeOK, ChainLinked, NEW n \in 0 .. Len(chain)
  PROVE  Path[n] \in Seq(Txid)
<1>1. Len(chain) \in Nat /\ Txid = 1 .. Len(chain)
  BY ChainNumbers
<1>2. PICK q : q = Path[n]
  OBVIOUS
<1>3. q \in Seq(Nat)
  BY <1>2, PathUnfolds
<1>4. CASE n = 0
  <2>1. q = <<>>
    BY <1>2, <1>4, PathUnfolds
  <2> QED
    BY <1>2, <2>1
<1>5. CASE n # 0
  <2>1. n \in Txid
    BY <1>1, <1>5
  <2>2. Range(q) \subseteq Txid
    BY <1>2, <2>1, WalkInStream DEF OneStream, OnWalk
  <2>3. \A i \in 1 .. Len(q) : q[i] \in Txid
    BY <1>3, <2>2 DEF Range
  <2>4. q \in Seq(Txid)
    BY <1>3, <2>3
  <2> QED
    BY <1>2, <2>4
<1> QED
  BY <1>4, <1>5

\* What a replay shows of a walk: the latest entry of every cell.
Latest(i, n) ==
    i \in OnWalk(n) /\ \A j \in OnWalk(n) : CellOf(j) = CellOf(i) => j <= i
ShowsEntry(R, i) ==
    IF chain[i].op = "DELETE" THEN CellOf(i) \notin DOMAIN R
    ELSE CellOf(i) \in DOMAIN R /\ R[CellOf(i)] = chain[i].value
Shows(R, n) ==
    /\ \A c \in DOMAIN R : \E i \in OnWalk(n) : CellOf(i) = c
    /\ \A i \in OnWalk(n) : Latest(i, n) => ShowsEntry(R, i)

LEMMA ApplyShows ==
  ASSUME WriterTypeOK, ChainLinked, NEW n \in Txid,
         NEW R \in Rebuilt, Shows(R, chain[n].prev)
  PROVE  Shows(Apply(R, n), n)
<1> DEFINE p == chain[n].prev
           S == Apply(R, n)
<1>1. /\ p \in 0 .. n - 1 /\ OnWalk(n) = OnWalk(p) \cup {n} /\ n \in Nat
  BY WalkMeets, ChainNumbers
<1>2. \A i \in OnWalk(p) : i \in Nat /\ i < n
  <2>1. CASE p = 0
    BY <2>1, WalkMeets
  <2>2. CASE p # 0
    <3>1. p \in Txid
      BY <1>1, <2>2, ChainNumbers
    <3>2. \A i \in OnWalk(p) : i \in Txid /\ i <= p
      BY <3>1, WalkInStream DEF OneStream
    <3> QED
      BY <1>1, <3>2, ChainNumbers
  <2> QED
    BY <2>1, <2>2
<1>3. PICK c, v : c = CellOf(n) /\ v = chain[n].value
  OBVIOUS
<1>4. S = IF chain[n].op = "DELETE" THEN [x \in DOMAIN R \ {c} |-> R[x]]
          ELSE Put(R, c, v)
  BY <1>3 DEF Apply, CellOf
<1>5. /\ \A x : x # c => /\ x \in DOMAIN S <=> x \in DOMAIN R
                         /\ x \in DOMAIN S => S[x] = R[x]
      /\ chain[n].op = "DELETE" => c \notin DOMAIN S
      /\ chain[n].op # "DELETE" => c \in DOMAIN S /\ S[c] = v
  <2>1. CASE chain[n].op = "DELETE"
    BY <1>4, <2>1
  <2>2. CASE chain[n].op # "DELETE"
    BY <1>4, <2>2 DEF Put
  <2> QED
    BY <2>1, <2>2
<1> HIDE DEF S, p
<1>6. \A x \in DOMAIN S : \E i \in OnWalk(n) : CellOf(i) = x
  BY <1>1, <1>3, <1>5 DEF Shows, p
<1>7. ASSUME NEW i \in OnWalk(n), Latest(i, n) PROVE ShowsEntry(S, i)
  <2>1. CASE i = n
    BY <1>3, <1>5, <2>1 DEF ShowsEntry
  <2>2. CASE i # n
    <3>1. i \in OnWalk(p) /\ i < n /\ i \in Nat
      BY <1>1, <1>2, <2>2
    <3>2. CellOf(i) # c
      BY <1>1, <1>3, <1>7, <3>1 DEF Latest
    <3>3. Latest(i, p)
      BY <1>1, <1>7, <3>1 DEF Latest
    <3>4. ShowsEntry(R, i)
      BY <3>1, <3>3 DEF Shows, p
    <3> QED
      BY <1>5, <3>2, <3>4 DEF ShowsEntry
  <2> QED
    BY <2>1, <2>2
<1> QED
  BY <1>6, <1>7 DEF Shows, S

LEMMA ReplayShows ==
  ASSUME WriterTypeOK, ChainLinked, NEW n \in 0 .. Len(chain)
  PROVE  Replay(Path[n]) \in Rebuilt /\ Shows(Replay(Path[n]), n)
<1> DEFINE Good(m) == Replay(Path[m]) \in Rebuilt /\ Shows(Replay(Path[m]), m)
           T == {k \in Nat : \A m \in 0 .. Len(chain) : m <= k => Good(m)}
<1>0. Len(chain) \in Nat /\ Txid = 1 .. Len(chain)
  BY ChainNumbers
<1>1. Good(0)
  <2>1. Replay(Path[0]) = NoMap
    BY PathUnfolds, ReplayNothing
  <2>2. Shows(NoMap, 0)
    BY WalkMeets DEF Shows, NoMap
  <2> QED
    BY <2>1, <2>2, NothingRebuilt
<1>2. 0 \in T
  BY <1>0, <1>1
<1>3. ASSUME NEW k \in Nat, k \in T PROVE k + 1 \in T
  <2> SUFFICES ASSUME NEW m \in 0 .. Len(chain), m <= k + 1 PROVE Good(m)
    OBVIOUS
  <2>1. CASE m = 0
    BY <1>1, <2>1
  <2>2. CASE m # 0
    <3>1. PICK p : p = chain[m].prev
      OBVIOUS
    <3>2. m \in Txid /\ p \in 0 .. m - 1
      BY <1>0, <2>2, <3>1, WalkMeets
    <3>3. p \in 0 .. Len(chain) /\ p <= k
      BY <1>0, <3>2
    <3>4. Good(p)
      BY <1>3, <3>3
    <3>5. Path[p] \in Seq(Txid) /\ Path[m] = Append(Path[p], m)
      BY <3>1, <3>2, <3>3, WalkOfTxids, PathUnfolds
    <3>6. Replay(Path[m]) = Apply(Replay(Path[p]), m)
      BY <3>2, <3>5, ReplayAppend
    <3>7. Replay(Path[m]) \in Rebuilt
      BY <3>2, <3>4, <3>6, ApplyRebuilds
    <3>8. Shows(Replay(Path[m]), m)
      <4>1. PICK R : R = Replay(Path[p])
        OBVIOUS
      <4>2. R \in Rebuilt /\ Shows(R, chain[m].prev)
        BY <3>1, <3>4, <4>1
      <4> QED
        BY <3>2, <3>6, <4>1, <4>2, ApplyShows
    <3> QED
      BY <3>7, <3>8
  <2> QED
    BY <2>1, <2>2
<1>4. n \in T
  <2> HIDE DEF T
  <2> QED
    BY <1>0, <1>2, <1>3, SetInduction
<1>5. Good(n)
  BY <1>0, <1>4
<1> QED
  BY <1>5

-----------------------------------------------------------------------------
(* One run of one writer: the chain records the rows it read, in order.    *)

\* The rows that the pending query returned.
RowsRead(w) == todo[w] \cup {chain[i].change : i \in 1 .. Done(w)}

\* N is what the outbox held of the tables' content S: the newest row of
\* each cell describes it, every row of a registered table has one, and the
\* rows committed since are newer.
Newest(n, N) == \A m \in N : SameCell(outbox[m], outbox[n]) => m <= n
DescribesIn(o, S) == Describes(o, S[<<o.table, o.row>>], o.column)
ReadOf(N, S) ==
    /\ N \subseteq DOMAIN outbox
    /\ \A n \in N : Newest(n, N) => DescribesIn(outbox[n], S)
    /\ \A t \in DOMAIN InitialJournalled, k \in Key, c \in Column :
          S[<<t, k>>] # Absent => \E n \in N : InCell(outbox[n], t, k, c)
    /\ \A n \in DOMAIN outbox \ N : \A m \in N :
          SameCell(outbox[n], outbox[m]) => m < n
SnapInv(w) == ~Fresh(w) => ReadOf(RowsRead(w), snap[w])

\* The entries record rows in the order of their identity values.
RecordsRow(i) == /\ chain[i].change \in DOMAIN outbox
                 /\ Records(chain[i], chain[i].change)
ChangeInv(w) ==
    /\ \A i \in Txid : RecordsRow(i)
    /\ \A j \in Txid : \A i \in 1 .. j - 1 : chain[i].change < chain[j].change
    /\ \A i \in 1 .. Done(w) : \A n \in todo[w] : chain[i].change < n
    /\ Unfinished(w) => cur[w] = chain[Len(chain)].change

\* The rows that are marked are rows it read.
MarkInv(w) == DOMAIN sent \subseteq RowsRead(w)

\* What the verification has in hand is the current head of a known stream.
HeadInv(w) ==
    /\ Drained(w) => toVerify[w] \subseteq rels[w]
    /\ pc[w] \in Walking => /\ head[w][1] \in rels[w]
                            /\ \A st \in Stream : head[w][1] = st
                                   => head[w][2] = HeadOf(st)

EntryInv(w) == /\ DOMAIN snap = Writer
               /\ ChangeInv(w) /\ SnapInv(w) /\ MarkInv(w) /\ HeadInv(w)

\* The cells that have been read are those of the snapshot, unless a change of
\* the stream is pending.
TablesOf(st) == {t \in DOMAIN InitialJournalled : InitialJournalled[t].stream = st}
NoPending(st) == \A n \in Pending : outbox[n].stream # st
SnapCells(w, T) ==
    [c \in {x \in T \X Key \X {Balance} : snap[w][<<x[1], x[2]>>] # Absent} |->
        snap[w][<<c[1], c[2]>>][Balance]]
CellsInv(w) ==
    (pc[w] = "cells" /\ NoPending(head[w][1])) =>
        /\ toRead[w] \subseteq TablesOf(head[w][1])
        /\ cells[w] = SnapCells(w, TablesOf(head[w][1]) \ toRead[w])
        /\ \A x \in DOMAIN cells[w] : cells[w][x] # NULL

WholeInv == /\ DrainInv /\ RowsInv /\ RunInv(OnlyWriter)
            /\ EntryInv(OnlyWriter) /\ CellsInv(OnlyWriter)

\* A row that is committed is newer than the committed rows of its cell.
NewerRows ==
    \A n \in DOMAIN outbox' \ DOMAIN outbox : \A m \in DOMAIN outbox :
        SameCell(outbox'[n], outbox[m]) => m < n

LEMMA CommittedAreNewer ==
  ASSUME CaptureInv, [CaptureNext]_captureVars
  PROVE  NewerRows
<1>1. ASSUME NEW s \in Session, Commit(s) PROVE NewerRows
  <2>1. outbox' = Join(outbox, captured[s])
    BY <1>1 DEF Commit
  <2> SUFFICES ASSUME NEW n \in DOMAIN outbox' \ DOMAIN outbox,
                      NEW m \in DOMAIN outbox, SameCell(outbox'[n], outbox[m])
               PROVE  m < n
    BY DEF NewerRows
  <2>2. n \in DOMAIN captured[s] /\ outbox'[n] = captured[s][n]
    BY <2>1 DEF Join
  <2>3. SameCell(outbox[m], captured[s][n])
    BY <2>2 DEF SameCell
  <2> QED
    BY <2>2, <2>3 DEF CaptureInv, NewerInv
<1>2. CASE outbox' = outbox
  BY <1>2 DEF NewerRows
<1>3. ASSUME NEW s \in Session, NEW t \in Table, NEW k \in Key,
             \/ Insert(s, t, k) \/ Update(s, t, k) \/ Delete(s, t, k)
             \/ \E k2 \in Key : UpdateKey(s, t, k, k2)
      PROVE  outbox' = outbox
  BY <1>3 DEF Insert, Update, UpdateKey, Delete, schemaVars
<1>4. ASSUME NEW s \in Session, Rollback(s) PROVE outbox' = outbox
  BY <1>4 DEF Rollback, schemaVars
<1>5. ASSUME NEW t \in Table, NEW st \in Stream, NEW cf \in BOOLEAN,
             JournalTable(t, st, cf)
      PROVE  outbox' = outbox
  BY <1>5 DEF JournalTable
<1>6. ASSUME NEW st \in Stream, AddRelationship(st) PROVE outbox' = outbox
  BY <1>6 DEF AddRelationship
<1>7. CASE UNCHANGED captureVars
  BY <1>7, <1>2 DEF captureVars, schemaVars
<1>8. CaptureNext => NewerRows
  BY <1>1, <1>2, <1>3, <1>4, <1>5, <1>6 DEF CaptureNext
<1> QED
  BY <1>7, <1>8

LEMMA ReadOfKept ==
  ASSUME OutboxGrows, NewerRows, NEW N, NEW S, ReadOf(N, S)
  PROVE  ReadOf(N, S)'
<1>1. N \subseteq DOMAIN outbox /\ \A n \in N : outbox'[n] = outbox[n]
  BY DEF ReadOf, OutboxGrows
<1>2. \A n \in N : Newest(n, N)' = Newest(n, N)
  BY <1>1 DEF Newest
<1>3. N \subseteq DOMAIN outbox'
  BY <1>1 DEF OutboxGrows
<1>4. \A n \in N : Newest(n, N)' => DescribesIn(outbox'[n], S)
  BY <1>1, <1>2 DEF ReadOf
<1>5. \A t \in DOMAIN InitialJournalled, k \in Key, c \in Column :
         S[<<t, k>>] # Absent => \E n \in N : InCell(outbox'[n], t, k, c)
  BY <1>1 DEF ReadOf
<1>6. \A n \in DOMAIN outbox' \ N : \A m \in N :
         SameCell(outbox'[n], outbox'[m]) => m < n
  BY <1>1 DEF ReadOf, NewerRows, OutboxGrows
<1>7. \A n : DescribesIn(outbox'[n], S) = DescribesIn(outbox[n], S)'
  BY DEF DescribesIn, Describes
<1> QED
  BY <1>3, <1>4, <1>5, <1>6, <1>7 DEF ReadOf, Newest

\* A step that sends nothing and moves no row on.
LEMMA EntryKept ==
  ASSUME OutboxGrows, NewerRows, NEW w, EntryInv(w), HeadInv(w)',
         DOMAIN snap' = DOMAIN snap,
         chain' = chain, todo'[w] = todo[w], snap'[w] = snap[w],
         Unfinished(w)' <=> Unfinished(w),
         Unfinished(w) => cur'[w] = cur[w],
         DOMAIN sent' \subseteq DOMAIN sent \cup RowsRead(w),
         Fresh(w) => Fresh(w)'
  PROVE  EntryInv(w)'
<1>1. Done(w)' = Done(w)
  BY DEF Done
<1>2. RowsRead(w)' = RowsRead(w)
  BY <1>1 DEF RowsRead
<1>3. SnapInv(w)'
  <2>1. PICK N, S : N = RowsRead(w) /\ S = snap[w]
    OBVIOUS
  <2>2. CASE Fresh(w)
    BY <2>2 DEF SnapInv
  <2>3. CASE ~Fresh(w)
    <3>1. ReadOf(N, S)
      BY <2>1, <2>3 DEF EntryInv, SnapInv
    <3>2. ReadOf(N, S)'
      BY <3>1, ReadOfKept
    <3> QED
      BY <1>2, <2>1, <3>2 DEF SnapInv
  <2> QED
    BY <2>2, <2>3
<1>4. ChangeInv(w)'
  <2>1. \A i \in Txid : RecordsRow(i)'
    BY DEF EntryInv, ChangeInv, RecordsRow, OutboxGrows, Records
  <2> QED
    BY <1>1, <2>1 DEF EntryInv, ChangeInv, Txid
<1>5. MarkInv(w)'
  BY <1>2 DEF EntryInv, MarkInv
<1> QED
  BY <1>3, <1>4, <1>5 DEF EntryInv

\* The surface does not concern the writer.
LEMMA EntrySurface ==
  ASSUME CaptureInv, [CaptureNext]_captureVars, UNCHANGED writerVars,
         NEW w, EntryInv(w)
  PROVE  EntryInv(w)'
<1>1. OutboxGrows /\ NewerRows
  BY OutboxOnlyGrows, CommittedAreNewer
<1>2. UNCHANGED <<chain, todo, snap, pc, cur, runs, outcome, toVerify, rels,
                  head, chainIndex, sent>>
  BY DEF writerVars, dbVars, nodeVars, controlVars, catalogVars, drainVars,
     verifyVars
<1>3. HeadInv(w)'
  <2>1. \A st \in Stream : HeadOf(st)' = HeadOf(st)
    BY <1>2 DEF HeadOf, StreamIndex
  <2> QED
    BY <1>2, <2>1 DEF EntryInv, HeadInv, Drained
<1>4. Fresh(w)' = Fresh(w) /\ (Unfinished(w)' <=> Unfinished(w))
  BY <1>2 DEF Fresh, Unfinished
<1> QED
  BY <1>1, <1>2, <1>3, <1>4, EntryKept

LEMMA SameOutbox ==
  ASSUME UNCHANGED captureVars
  PROVE  OutboxGrows /\ NewerRows
  BY DEF OutboxGrows, NewerRows, captureVars, schemaVars

\* Before it has read a row, the outbox is what the tables hold.
LEMMA OutboxIsLive ==
  ASSUME CaptureInv, RowsInv, rekeyed = {}
  PROVE  ReadOf(DOMAIN outbox, live)
<1>1. CaptureTypeOK /\ LastChangeIsLive /\ EveryRowCaptured
  BY DEF CaptureInv, RowsInv
<1>2. ASSUME NEW n \in DOMAIN outbox, Newest(n, DOMAIN outbox)
      PROVE  DescribesIn(outbox[n], live)
  <2> DEFINE o == outbox[n]
  <2>1. o.table \in Table /\ o.row \in Key /\ o.column \in Column
    BY <1>1 DEF CaptureTypeOK, IsPartialFcn, Change
  <2>2. IsLatest(n, o.table, o.row, o.column)
    BY <1>2 DEF IsLatest, CellChanges, Newest, SameCell
  <2>3. <<o.table, o.row>> \notin rekeyed
    OBVIOUS
  <2> QED
    BY <1>1, <2>1, <2>2, <2>3 DEF LastChangeIsLive, DescribesIn, Describes
<1>3. ASSUME NEW t \in DOMAIN InitialJournalled, NEW k \in Key, NEW c \in Column,
             live[<<t, k>>] # Absent
      PROVE  \E n \in DOMAIN outbox : InCell(outbox[n], t, k, c)
  <2>1. CellChanges(t, k, c) # {}
    BY <1>1, <1>3 DEF EveryRowCaptured
  <2> QED
    BY <2>1 DEF CellChanges, InCell
<1> QED
  BY <1>2, <1>3 DEF ReadOf

LEMMA EntryLoadPending ==
  ASSUME WholeInv, Rekeys = {}, UNCHANGED captureVars, NEW w \in Writer,
         w = OnlyWriter, LoadPending(w)
  PROVE  EntryInv(w)'
<1>1. /\ WriterInv /\ WriterTypeOK /\ CaptureInv /\ RowsInv /\ rekeyed = {}
      /\ RunInv(w) /\ EntryInv(w)
  BY DEF WholeInv, DrainInv, SystemInv, CatalogInv, WriterInv
<1>2. /\ pc[w] = "pending" /\ pc'[w] = "drain" /\ runs' = runs
      /\ UNCHANGED <<chain, outbox, live, outcome, sent>> /\ outcome[w] = "none"
      /\ todo'[w] = Pending /\ snap'[w] = live /\ DOMAIN snap' = Writer
  BY <1>1 DEF LoadPending, At, Goto, WriterTypeOK, nodeVars, dbVars, EntryInv,
     captureVars, schemaVars, RunInv, PhaseInv
<1>3. chain = <<>> /\ Len(chain) = 0 /\ Txid = {} /\ Txid' = {}
  BY <1>1, <1>2 DEF RunInv, PhaseInv, Fresh, Txid
<1>4. Pending = DOMAIN outbox /\ DOMAIN sent = {}
  <2>1. mined = 0
    BY <1>1, <1>3 DEF WriterTypeOK
  <2>2. 1 .. mined = {}
    BY <2>1
  <2>3. \A n \in DOMAIN sent : sent[n].txid \in 1 .. mined
    BY <1>1 DEF WriterInv, SentAnchored
  <2> QED
    BY <2>2, <2>3 DEF Pending
<1>5. Done(w)' = 0
  BY <1>2, <1>3 DEF Done, Unfinished, InFlight
<1>6. RowsRead(w)' = DOMAIN outbox
  <2>1. 1 .. 0 = {}
    OBVIOUS
  <2>2. {chain'[i].change : i \in {}} = {}
    OBVIOUS
  <2> QED
    BY <1>2, <1>4, <1>5, <2>1, <2>2 DEF RowsRead
<1>7. SnapInv(w)'
  <2>1. ReadOf(DOMAIN outbox, live)
    BY <1>1, OutboxIsLive
  <2>2. PICK N, S : N = DOMAIN outbox /\ S = live
    OBVIOUS
  <2>3. ReadOf(N, S)'
    BY <2>1, <2>2, SameOutbox, ReadOfKept
  <2>4. RowsRead(w)' = N /\ snap'[w] = S
    BY <1>2, <1>6, <2>2
  <2> QED
    BY <2>3, <2>4 DEF SnapInv
<1>8. ChangeInv(w)'
  BY <1>2, <1>3, <1>5 DEF ChangeInv, Unfinished, InFlight
<1>9. HeadInv(w)' /\ MarkInv(w)'
  BY <1>1, <1>2, <1>4 DEF EntryInv, HeadInv, MarkInv, Drained, Walking
<1> QED
  BY <1>2, <1>7, <1>8, <1>9 DEF EntryInv

LEMMA EntrySendEntry ==
  ASSUME WholeInv, UNCHANGED captureVars, NEW w \in Writer,
         w = OnlyWriter, SendEntry(w)
  PROVE  EntryInv(w)'
<1> DEFINE k == Len(chain) + 1
<1>1. /\ WriterInv /\ WriterTypeOK /\ CaptureTypeOK /\ TodoInv
      /\ RunInv(w) /\ EntryInv(w)
  BY DEF WholeInv, DrainInv, SystemInv, CaptureInv, WriterInv
<1>2. PICK n \in todo[w] : /\ NextRow(w, n)
                           /\ chain' = Append(chain, NewEntry(w, n))
                           /\ cur' = [cur EXCEPT ![w] = n]
  BY DEF SendEntry
<1>3. PICK e : e = NewEntry(w, n)
  OBVIOUS
<1>4. n \in DOMAIN outbox
  BY <1>1 DEF TodoInv
<1>5. e \in Entry /\ Records(e, n) /\ e.change = n
  <2>1. e \in Entry /\ Records(e, n)
    BY <1>1, <1>3, <1>4, NewEntryFacts
  <2> QED
    BY <1>3, <2>1 DEF NewEntry
<1>6. /\ pc[w] = "drain" /\ pc'[w] = "mine" /\ runs' = runs /\ cur'[w] = n
      /\ UNCHANGED <<todo, snap, outbox, outcome, sent>> /\ outcome[w] = "none"
  BY <1>1, <1>2 DEF SendEntry, At, Goto, WriterTypeOK, captureVars, schemaVars,
     dbVars, RunInv, PhaseInv
<1>7. /\ Len(chain) \in Nat /\ k \in Nat \ {0} /\ Len(chain') = k
      /\ \A i \in 1 .. Len(chain) : chain'[i] = chain[i]
      /\ chain'[k] = e
  BY <1>1, <1>2, <1>3, <1>5, AppendFacts DEF WriterTypeOK
<1>8. Done(w)' = Len(chain) /\ Done(w) = Len(chain)
  BY <1>6, <1>7 DEF Done, Unfinished, InFlight
<1>9. RowsRead(w)' = RowsRead(w)
  BY <1>6, <1>7, <1>8 DEF RowsRead
<1>10. ~Fresh(w) /\ ~Fresh(w)'
  BY <1>1, <1>6 DEF RunInv, PhaseInv, Fresh
<1>11. SnapInv(w)'
  <2>1. PICK N, S : N = RowsRead(w) /\ S = snap[w]
    OBVIOUS
  <2>2. ReadOf(N, S)
    BY <1>1, <1>10, <2>1 DEF EntryInv, SnapInv
  <2>3. ReadOf(N, S)'
    BY <2>2, SameOutbox, ReadOfKept
  <2> QED
    BY <1>6, <1>9, <2>1, <2>3 DEF SnapInv
<1>12. /\ \A i \in 1 .. Len(chain) : RecordsRow(i)
       /\ \A i \in 1 .. Len(chain) : chain[i].change < n
  BY <1>1, <1>8 DEF EntryInv, ChangeInv, Txid
<1>13. Txid = 1 .. Len(chain) /\ Txid' = 1 .. k
  BY <1>7 DEF Txid
<1>14. \A i \in 1 .. k : i = k \/ i \in 1 .. Len(chain)
  BY <1>7
<1>15. ChangeInv(w)'
  <2>1. \A i \in 1 .. k : RecordsRow(i)'
    <3>1. ASSUME NEW i \in 1 .. Len(chain) PROVE RecordsRow(i)'
      <4>1. PICK x : x = chain[i] /\ x = chain'[i]
        BY <1>7
      <4>2. x.change \in DOMAIN outbox /\ Records(x, x.change)
        BY <1>12, <4>1 DEF RecordsRow
      <4>3. x.change \in DOMAIN outbox' /\ Records(x, x.change)'
        BY <1>6, <4>2 DEF Records
      <4> QED
        BY <4>1, <4>3 DEF RecordsRow
    <3>2. ASSUME NEW i, i = k PROVE RecordsRow(i)'
      <4>1. n \in DOMAIN outbox' /\ Records(e, n)'
        BY <1>4, <1>5, <1>6 DEF Records
      <4> QED
        BY <1>5, <1>7, <3>2, <4>1 DEF RecordsRow
    <3> QED
      BY <1>14, <3>1, <3>2
  <2>2. ASSUME NEW j \in 1 .. k, NEW i \in 1 .. j - 1
        PROVE  chain'[i].change < chain'[j].change
    <3>1. i \in 1 .. Len(chain)
      BY <1>7
    <3>2. CASE j = k
      BY <1>5, <1>7, <1>12, <3>1, <3>2
    <3>3. CASE j \in 1 .. Len(chain)
      BY <1>1, <1>7, <1>13, <3>1, <3>3 DEF EntryInv, ChangeInv
    <3> QED
      BY <1>14, <3>2, <3>3
  <2>3. \A i \in 1 .. Len(chain) : \A m \in todo[w] : chain'[i].change < m
    BY <1>1, <1>7, <1>8 DEF EntryInv, ChangeInv
  <2>4. cur'[w] = chain'[Len(chain')].change
    BY <1>5, <1>6, <1>7
  <2> QED
    BY <1>6, <1>8, <1>13, <2>1, <2>2, <2>3, <2>4 DEF ChangeInv
<1>16. HeadInv(w)' /\ MarkInv(w)'
  BY <1>1, <1>6, <1>9 DEF EntryInv, HeadInv, MarkInv, Drained, Walking
<1> QED
  BY <1>1, <1>6, <1>11, <1>15, <1>16 DEF EntryInv

LEMMA EntryAdvance ==
  ASSUME WholeInv, UNCHANGED captureVars, NEW w \in Writer,
         w = OnlyWriter, pc[w] \in {"index", "leak"}, Advance(w),
         Goto(w, "drain"), UNCHANGED <<chain, snap, sent>>
  PROVE  EntryInv(w)'
<1> DEFINE k == Len(chain)
<1>1. /\ WriterInv /\ WriterTypeOK /\ HandInv /\ CleanOf(w)
      /\ RunInv(w) /\ EntryInv(w) /\ ChangeInv(w)
  BY DEF WholeInv, DrainInv, SystemInv, WriterInv, CleanInv, EntryInv
<1>2. /\ pc[w] \in InFlight /\ pc'[w] = "drain" /\ runs' = runs
      /\ outcome' = outcome /\ outcome[w] = "none" /\ outbox' = outbox
      /\ todo'[w] = todo[w] \ {cur[w]}
  BY <1>1 DEF Advance, Goto, WriterTypeOK, InFlight, captureVars, schemaVars,
     RunInv, PhaseInv
<1>3. /\ txid[w] = k /\ k \in Nat \ {0} /\ Txid = 1 .. k
  BY <1>1, <1>2, ChainNumbers DEF RunInv, InStep, Unfinished, HandInv
<1>4. Done(w)' = k /\ Done(w) = k - 1
  BY <1>2, <1>3 DEF Done, Unfinished, InFlight
<1>5. /\ cur[w] = chain[k].change /\ cur[w] \in todo[w]
      /\ \A n \in todo[w] : cur[w] <= n
  BY <1>1, <1>2 DEF ChangeInv, CleanOf, FundsInv, Unfinished
<1>6. \A i \in 1 .. k : i = k \/ i \in 1 .. k - 1
  BY <1>3
<1>7. k \in 1 .. k /\ 1 .. k - 1 \subseteq 1 .. k
  BY <1>3
<1>8. RowsRead(w)' = RowsRead(w)
  <2>1. RowsRead(w)' = (todo[w] \ {cur[w]}) \cup {chain[i].change : i \in 1 .. k}
    BY <1>2, <1>4 DEF RowsRead
  <2>2. RowsRead(w) = todo[w] \cup {chain[i].change : i \in 1 .. k - 1}
    BY <1>4 DEF RowsRead
  <2>3. {chain[i].change : i \in 1 .. k} =
           {chain[i].change : i \in 1 .. k - 1} \cup {cur[w]}
    BY <1>5, <1>6, <1>7
  <2>4. \A T, A, c : c \in T => (T \ {c}) \cup (A \cup {c}) = T \cup A
    OBVIOUS
  <2> DEFINE A == {chain[i].change : i \in 1 .. k - 1}
  <2>5. (todo[w] \ {cur[w]}) \cup (A \cup {cur[w]}) = todo[w] \cup A
    BY <1>5, <2>4
  <2> QED
    BY <2>1, <2>2, <2>3, <2>5
<1>9. ~Fresh(w) /\ ~Fresh(w)'
  BY <1>1, <1>2 DEF RunInv, PhaseInv, Fresh, InFlight
<1>10. SnapInv(w)'
  <2>1. PICK N, S : N = RowsRead(w) /\ S = snap[w]
    OBVIOUS
  <2>2. ReadOf(N, S)
    BY <1>1, <1>9, <2>1 DEF EntryInv, SnapInv
  <2>3. ReadOf(N, S)'
    BY <2>2, SameOutbox, ReadOfKept
  <2> QED
    BY <1>8, <2>1, <2>3 DEF SnapInv
<1>11. ChangeInv(w)'
  <2>1. \A i \in Txid : RecordsRow(i)'
    BY <1>1, <1>2 DEF ChangeInv, RecordsRow, Records
  <2>2. \A i \in 1 .. k : \A n \in todo[w] \ {cur[w]} : chain[i].change < n
    <3>1. \A n \in todo[w] \ {cur[w]} : chain[k].change < n
      <4>1. \A n \in todo[w] : n \in Nat
        BY <1>1 DEF WriterTypeOK
      <4>2. cur[w] \in Nat
        BY <1>5, <4>1
      <4> QED
        BY <1>5, <4>1, <4>2
    <3>2. \A i \in 1 .. k - 1 : \A n \in todo[w] : chain[i].change < n
      BY <1>1, <1>4 DEF ChangeInv
    <3> QED
      BY <1>6, <3>1, <3>2
  <2> HIDE DEF k
  <2> QED
    BY <1>1, <1>2, <1>4, <2>1, <2>2 DEF ChangeInv, Txid, Unfinished, InFlight
<1>12. HeadInv(w)' /\ MarkInv(w)'
  BY <1>1, <1>2, <1>8 DEF EntryInv, HeadInv, MarkInv, Drained, InFlight, Walking
<1> QED
  BY <1>1, <1>10, <1>11, <1>12 DEF EntryInv

\* The steps between the mark and the next row.
LEMMA EntryIndexBlind ==
  ASSUME WholeInv, UNCHANGED captureVars, NEW w \in Writer,
         w = OnlyWriter, IndexEntry(w) \/ StoreBlinding(w) \/ CheckLeak(w)
  PROVE  EntryInv(w)'
<1>0. WriterTypeOK /\ EntryInv(w) /\ PhaseInv(w)
  BY DEF WholeInv, DrainInv, SystemInv, WriterInv, RunInv
<1>1. CASE CheckLeak(w) /\ Goto(w, "drain") /\ Advance(w)
  BY <1>1, EntryAdvance DEF CheckLeak, At, nodeVars, dbVars
<1>2. CASE IndexEntry(w) /\ ~chain[txid[w]].committed
  BY <1>2, EntryAdvance DEF IndexEntry, At, nodeVars
<1>3. CASE \/ IndexEntry(w) /\ chain[txid[w]].committed
           \/ StoreBlinding(w)
           \/ CheckLeak(w) /\ Exit(w, "leaked") /\ UNCHANGED todo
  <2>1. /\ pc[w] \in {"index", "blind", "leak"} /\ runs[w] = 1 /\ runs' = runs
        /\ UNCHANGED <<chain, snap, todo, cur, sent>>
        /\ \/ pc'[w] \in {"blind", "leak"} /\ outcome' = outcome
           \/ pc'[w] = "off" /\ outcome'[w] = "leaked"
    <3>1. CASE IndexEntry(w) /\ chain[txid[w]].committed
      BY <1>0, <3>1 DEF IndexEntry, At, Goto, nodeVars, WriterTypeOK, PhaseInv
    <3>2. CASE StoreBlinding(w)
      BY <1>0, <3>2 DEF StoreBlinding, At, Goto, nodeVars, drainVars,
         WriterTypeOK, PhaseInv
    <3>3. CASE CheckLeak(w) /\ Exit(w, "leaked") /\ UNCHANGED todo
      BY <1>0, <3>3 DEF CheckLeak, At, Exit, nodeVars, dbVars, WriterTypeOK,
         PhaseInv
    <3> QED
      BY <1>3, <3>1, <3>2, <3>3
  <2>2. HeadInv(w)'
    BY <1>0, <2>1 DEF EntryInv, HeadInv, Drained, Walking
  <2>3. ~Fresh(w) /\ Unfinished(w) /\ Unfinished(w)'
    BY <2>1 DEF Fresh, Unfinished, InFlight
  <2> QED
    BY <1>0, <2>1, <2>2, <2>3, SameOutbox, EntryKept
<1> QED
  BY <1>1, <1>2, <1>3 DEF CheckLeak

\* What the steps that send nothing and finish no row keep.
LEMMA EntryQuietSteps ==
  ASSUME OneRun, WholeInv, UNCHANGED captureVars, NEW w \in Writer,
         w = OnlyWriter,
         \/ Start(w) \/ SendToAddress(w) \/ ConfirmFunding(w) \/ FindFunding(w)
         \/ LoadConfidential(w) \/ LoadStreamConf(w) \/ MineEntry(w) \/ MarkSent(w)
         \/ BeginVerify(w) \/ ReadHead(w) \/ Rebuild(w) \/ ReadTables(w)
         \/ (\E t \in Table : ReadTable(w, t)) \/ Compare(w) \/ Finish(w)
  PROVE  EntryInv(w)'
<1> DEFINE Kept == /\ HeadInv(w)'
                   /\ DOMAIN snap' = DOMAIN snap
                   /\ chain' = chain /\ todo'[w] = todo[w] /\ snap'[w] = snap[w]
                   /\ Unfinished(w)' <=> Unfinished(w)
                   /\ Unfinished(w) => cur'[w] = cur[w]
                   /\ DOMAIN sent' \subseteq DOMAIN sent \cup RowsRead(w)
                   /\ Fresh(w) => Fresh(w)'
<1> SUFFICES Kept
  <2>1. EntryInv(w)
    BY DEF WholeInv
  <2> HIDE DEF Fresh
  <2> QED
    BY <2>1, SameOutbox, EntryKept
<1> USE DEF dbVars, nodeVars, catalogVars, coinVars, drainVars, verifyVars,
            controlVars, At, Goto, Exit, InFlight, Unfinished, Fresh, Drained
<1>0. /\ WriterTypeOK /\ PhaseInv(w) /\ HeadInv(w) /\ FundsInv(w)
      /\ pc[w] \in Steps /\ DOMAIN head = Writer
  BY DEF WholeInv, DrainInv, SystemInv, CleanInv, CleanOf, WriterInv,
     WriterTypeOK, RunInv, EntryInv
<1>1. CASE Start(w)
  <2>1. runs[w] = 0
    BY <1>0, <1>1, WriterAssumption DEF Start, WriterTypeOK, OneRun
  <2>2. /\ pc[w] = "off" /\ pc'[w] = "fund" /\ outcome'[w] = "none"
        /\ UNCHANGED <<chain, todo, snap, sent>>
    BY <1>0, <1>1 DEF Start, WriterTypeOK
  <2> QED
    BY <1>0, <2>1, <2>2 DEF HeadInv, PhaseInv, Walking
<1>2. CASE \/ SendToAddress(w) \/ ConfirmFunding(w) \/ FindFunding(w)
           \/ LoadConfidential(w) \/ LoadStreamConf(w)
  <2>1. /\ pc[w] \in {"fund", "confirm", "find", "confidential", "streamConf"}
        /\ pc'[w] \in {"confirm", "find", "confidential", "streamConf", "pending"}
        /\ UNCHANGED <<chain, todo, snap, outcome, sent>>
    BY <1>0, <1>2 DEF SendToAddress, ConfirmFunding, FindFunding,
       LoadConfidential, LoadStreamConf, WriterTypeOK
  <2> QED
    BY <1>0, <2>1 DEF HeadInv, PhaseInv, Walking
<1>3. CASE MineEntry(w) \/ MarkSent(w)
  <2>1. /\ pc[w] \in {"mine", "mark"} /\ pc'[w] \in {"mark", "index"}
        /\ UNCHANGED <<chain, todo, snap, outcome, cur, runs>>
    BY <1>0, <1>3 DEF MineEntry, MarkSent, WriterTypeOK
  <2>2. DOMAIN sent' \subseteq DOMAIN sent \cup {cur[w]}
    BY <1>3 DEF MineEntry, MarkSent, Put
  <2>3. cur[w] \in RowsRead(w)
    BY <1>0, <2>1 DEF FundsInv, RowsRead
  <2> QED
    BY <1>0, <2>1, <2>2, <2>3 DEF HeadInv, PhaseInv, Walking
<1>4. CASE BeginVerify(w)
  <2>1. /\ pc[w] = "drain" /\ pc'[w] = "verify" /\ toVerify'[w] = rels'[w]
        /\ UNCHANGED <<chain, todo, snap, outcome, cur, runs, sent>>
    BY <1>0, <1>4 DEF BeginVerify, WriterTypeOK
  <2> QED
    BY <1>0, <2>1 DEF HeadInv, PhaseInv, Walking
<1>5. CASE ReadHead(w)
  <2>1. PICK st \in toVerify[w] :
           IF HeadOf(st) = 0
           THEN /\ toVerify' = [toVerify EXCEPT ![w] = @ \ {st}]
                /\ UNCHANGED <<head, controlVars>>
           ELSE /\ head' = [head EXCEPT ![w] = <<st, HeadOf(st)>>]
                /\ Goto(w, "rebuild")
                /\ UNCHANGED toVerify
    BY <1>5 DEF ReadHead
  <2>2. /\ pc[w] = "verify" /\ pc'[w] \in {"verify", "rebuild"}
        /\ UNCHANGED <<chain, todo, snap, outcome, cur, runs, rels>>
        /\ UNCHANGED <<chainIndex, sent>>
    BY <1>0, <1>5 DEF ReadHead, WriterTypeOK
  <2>3. toVerify'[w] \subseteq rels'[w] /\ st \in rels[w]
    BY <1>0, <2>1, <2>2 DEF HeadInv, WriterTypeOK
  <2>4. HeadInv(w)'
    <3>1. PICK h : h = HeadOf(st)
      OBVIOUS
    <3>2. HeadOf(st)' = h
      BY <2>2, <3>1 DEF HeadOf, StreamIndex
    <3>3. CASE pc'[w] = "verify"
      BY <1>0, <2>2, <2>3, <3>3 DEF HeadInv, Walking
    <3>4. CASE pc'[w] = "rebuild"
      <4>1. head'[w] = <<st, h>>
        BY <1>0, <2>1, <2>2, <3>1, <3>4
      <4>2. head'[w][1] = st /\ head'[w][2] = h
        BY <4>1
      <4>3. \A s \in Stream : head'[w][1] = s => head'[w][2] = HeadOf(s)'
        BY <3>2, <4>2
      <4>4. toVerify'[w] \subseteq rels'[w] /\ head'[w][1] \in rels'[w]
        BY <2>2, <2>3, <4>2
      <4> QED
        BY <4>3, <4>4 DEF HeadInv
    <3> QED
      BY <2>2, <3>3, <3>4
  <2> QED
    BY <1>0, <2>2, <2>4 DEF PhaseInv
<1>6. CASE \/ Rebuild(w) \/ ReadTables(w) \/ Compare(w)
           \/ \E t \in Table : ReadTable(w, t)
  <2>1. /\ pc[w] \in Walking
        /\ \/ (\E p \in {"verify"} \cup Walking : Goto(w, p))
           \/ UNCHANGED controlVars
           \/ (\E how \in Outcomes \ {"leaked"} : Exit(w, how))
        /\ \/ toVerify' = toVerify
           \/ \E S : toVerify' = [toVerify EXCEPT ![w] = @ \ S]
        /\ UNCHANGED <<chain, todo, snap, cur, rels, chainIndex, head, sent>>
    <3> USE DEF Walking, Outcomes
    <3>1. CASE Rebuild(w)
      BY <3>1 DEF Rebuild, Verified
    <3>2. CASE ReadTables(w)
      BY <3>2 DEF ReadTables
    <3>3. CASE Compare(w)
      BY <3>3 DEF Compare, Verified
    <3>4. CASE \E t \in Table : ReadTable(w, t)
      BY <3>4 DEF ReadTable
    <3> QED
      BY <1>6, <3>1, <3>2, <3>3, <3>4
  <2>2. /\ runs' = runs /\ toVerify'[w] \subseteq toVerify[w]
        /\ \/ pc'[w] \in {"verify"} \cup Walking /\ outcome'[w] = outcome[w]
           \/ pc'[w] = "off" /\ outcome'[w] # "leaked"
    BY <1>0, <2>1 DEF WriterTypeOK
  <2>3. \A s : HeadOf(s)' = HeadOf(s)
    BY <2>1 DEF HeadOf, StreamIndex
  <2>4. HeadInv(w)'
    BY <1>0, <2>1, <2>2, <2>3 DEF HeadInv, Walking
  <2> QED
    BY <1>0, <2>1, <2>2, <2>4 DEF PhaseInv, Walking
<1>7. CASE Finish(w)
  <2>1. /\ pc[w] = "verify" /\ pc'[w] = "off" /\ outcome'[w] = "pass"
        /\ UNCHANGED <<chain, todo, snap, runs, sent>>
    BY <1>0, <1>7 DEF Finish, WriterTypeOK
  <2> QED
    BY <1>0, <2>1 DEF HeadInv, PhaseInv, Walking
<1> QED
  BY <1>1, <1>2, <1>3, <1>4, <1>5, <1>6, <1>7

\* The hypotheses of a run that nothing disturbs: no table is registered and
\* no key changed meanwhile, and one writer with enough funds runs once.
Undisturbed ==
    /\ OneRun /\ MaxSeq <= Funding
    /\ Registrations = {} /\ Rekeys = {}

\* Of a stream no change of which is pending, the tables still are what they
\* were when the pending rows were read.
LEMMA LiveIsSnap ==
  ASSUME Rekeys = {}, WholeInv, NEW w \in Writer, w = OnlyWriter, Drained(w),
         NEW st, NoPending(st), NEW t \in TablesOf(st), NEW k \in Key,
         NEW c \in Column
  PROVE  AgreeAt(live[<<t, k>>], snap[w][<<t, k>>], c)
<1>1. PICK R, S : R = RowsRead(w) /\ S = snap[w]
  OBVIOUS
<1>2. /\ CaptureInv /\ CatalogInv /\ EveryRowCaptured /\ rekeyed = {}
      /\ MarkInv(w) /\ SnapInv(w) /\ PhaseInv(w)
  BY DEF WholeInv, DrainInv, SystemInv, RowsInv, RunInv, EntryInv, CatalogInv
<1>3. ReadOf(R, S)
  <2>1. ~Fresh(w)
    BY <1>2 DEF Drained, Fresh, PhaseInv
  <2> QED
    BY <1>1, <1>2, <2>1 DEF SnapInv
<1>4. t \in DOMAIN InitialJournalled /\ InitialJournalled[t].stream = st /\ t \in Table
  BY CaptureAssumption DEF TablesOf
<1>5. ASSUME NEW n \in CellChanges(t, k, c)
      PROVE  n \in R /\ InCell(outbox[n], t, k, c)
  <2>1. n \in DOMAIN outbox /\ InCell(outbox[n], t, k, c)
    BY DEF CellChanges, InCell
  <2>2. outbox[n].stream = st
    BY <1>2, <1>4, <2>1 DEF CatalogInv, InCatalog, InCell
  <2>3. n \in DOMAIN sent
    BY <2>1, <2>2 DEF NoPending, Pending
  <2> QED
    BY <1>1, <1>2, <2>1, <2>3 DEF MarkInv
<1>6. CASE CellChanges(t, k, c) = {}
  <2>1. live[<<t, k>>] = Absent
    BY <1>2, <1>4, <1>6 DEF EveryRowCaptured
  <2>2. \A n \in R : ~InCell(outbox[n], t, k, c)
    BY <1>3, <1>6 DEF ReadOf, CellChanges, InCell
  <2>3. S[<<t, k>>] = Absent
    BY <1>3, <1>4, <2>2 DEF ReadOf
  <2> QED
    BY <1>1, <2>1, <2>3 DEF AgreeAt
<1>7. CASE CellChanges(t, k, c) # {}
  <2>1. nextSeq \in Nat /\ CellChanges(t, k, c) \subseteq 0 .. nextSeq
    BY <1>2 DEF CaptureInv, CaptureTypeOK, IsPartialFcn, SeqInv, CellChanges
  <2>2. PICK n \in CellChanges(t, k, c) : \A m \in CellChanges(t, k, c) : m <= n
    BY <1>7, <2>1, GreatestBelow
  <2>3. n \in R /\ InCell(outbox[n], t, k, c)
    BY <1>5
  <2>4. Describes(outbox[n], live[<<t, k>>], c)
    <3>1. IsLatest(n, t, k, c)
      BY <2>2 DEF IsLatest
    <3> QED
      BY <1>2, <1>4, <3>1 DEF CaptureInv, LastChangeIsLive, Describes, IsLatest, CellChanges
  <2>5. Newest(n, R)
    <3> SUFFICES ASSUME NEW m \in R, SameCell(outbox[m], outbox[n]) PROVE m <= n
      BY DEF Newest
    <3>1. m \in CellChanges(t, k, c)
      BY <1>3, <2>3 DEF ReadOf, SameCell, InCell, CellChanges
    <3> QED
      BY <2>2, <3>1
  <2>6. Describes(outbox[n], S[<<t, k>>], c)
    BY <1>3, <2>3, <2>5 DEF ReadOf, DescribesIn, InCell
  <2> QED
    BY <1>1, <2>4, <2>6 DEF Describes, AgreeAt
<1> QED
  BY <1>6, <1>7

\* The cells that have been read stay those of the snapshot.
LEMMA CellsStep ==
  ASSUME OneRun, Rekeys = {}, WholeInv, [Next]_vars, NEW w \in Writer,
         w = OnlyWriter
  PROVE  CellsInv(w)'
<1>1. /\ WriterTypeOK /\ CellsInv(w) /\ CatalogInv /\ DOMAIN snap = Writer
  BY DEF WholeInv, DrainInv, SystemInv, WriterInv, EntryInv
<1>2. [CaptureNext]_captureVars /\ OutboxGrows
  BY OutboxOnlyGrows DEF Next, vars
<1>3. ASSUME NEW st, NoPending(st)', sent' = sent PROVE NoPending(st)
  BY <1>2, <1>3 DEF NoPending, Pending, OutboxGrows
<1>4. CASE UNCHANGED writerVars
  <2>1. /\ pc' = pc /\ head' = head /\ toRead' = toRead /\ cells' = cells
        /\ snap' = snap /\ sent' = sent
    BY <1>4 DEF writerVars, dbVars, controlVars, drainVars, verifyVars
  <2>2. \A T : SnapCells(w, T)' = SnapCells(w, T)
    BY <2>1 DEF SnapCells
  <2>3. \A st : TablesOf(st)' = TablesOf(st)
    BY DEF TablesOf
  <2>4. PICK st : st = head[w][1]
    OBVIOUS
  <2> QED
    BY <1>1, <1>3, <2>1, <2>2, <2>3, <2>4 DEF CellsInv
<1>5. CASE WriterNext /\ UNCHANGED captureVars
  <2>0. ~Crash(w)
    BY DEF OneRun, Crash
  <2>1. Start(w) \/ WriterStep(w)
    BY <1>5, <2>0, OneRunWriter DEF WriterNext
  <2>2. CASE ReadTables(w)
    <3>1. PICK st : st = head[w][1]
      OBVIOUS
    <3>2. toRead'[w] = TablesOf(st) /\ cells'[w] = NoMap /\ head' = head
      BY <1>1, <2>2, <3>1 DEF ReadTables, WriterTypeOK, TablesOf, CatalogInv
    <3>3. TablesOf(st) \ TablesOf(st) = {}
      OBVIOUS
    <3>4. SnapCells(w, {})' = NoMap /\ DOMAIN NoMap = {}
      BY DEF SnapCells, NoMap
    <3>5. TablesOf(st)' = TablesOf(st)
      BY DEF TablesOf
    <3>6. head'[w][1] = st
      BY <3>1, <3>2
    <3> QED
      BY <3>2, <3>3, <3>4, <3>5, <3>6 DEF CellsInv
  <2>3. CASE \E t \in Table : ReadTable(w, t)
    <3>1. PICK t \in Table : ReadTable(w, t)
      BY <2>3
    <3>2. PICK st, found : st = head[w][1] /\ found = CellsOf(live, t)
      OBVIOUS
    <3>3. /\ pc[w] = "cells" /\ t \in toRead[w] /\ UNCHANGED <<head, snap, sent>>
          /\ pc'[w] = "cells" =>
                /\ NULL \notin Range(found)
                /\ cells'[w] = Join(found, cells[w])
                /\ toRead'[w] = toRead[w] \ {t}
      BY <1>1, <3>1, <3>2 DEF ReadTable, At, Exit, WriterTypeOK, dbVars, drainVars
    <3> SUFFICES ASSUME pc'[w] = "cells", NoPending(st)'
                 PROVE  /\ toRead'[w] \subseteq TablesOf(st)
                        /\ cells'[w] = SnapCells(w, TablesOf(st) \ toRead'[w])
                        /\ \A x \in DOMAIN cells'[w] : cells'[w][x] # NULL
      <4>1. TablesOf(st)' = TablesOf(st) /\ head'[w][1] = st
        BY <3>2, <3>3 DEF TablesOf
      <4>2. \A T : SnapCells(w, T)' = SnapCells(w, T)
        BY <3>3 DEF SnapCells
      <4> QED
        BY <4>1, <4>2 DEF CellsInv
    <3>4. /\ NoPending(st) /\ toRead[w] \subseteq TablesOf(st)
          /\ cells[w] = SnapCells(w, TablesOf(st) \ toRead[w])
          /\ \A x \in DOMAIN cells[w] : cells[w][x] # NULL
      BY <1>1, <1>3, <3>2, <3>3 DEF CellsInv
    <3>5. t \in TablesOf(st)
      BY <3>3, <3>4
    <3>6. ASSUME NEW k \in Key
          PROVE  /\ live[<<t, k>>] = Absent <=> snap[w][<<t, k>>] = Absent
                 /\ live[<<t, k>>] # Absent =>
                       live[<<t, k>>][Balance] = snap[w][<<t, k>>][Balance]
      <4>1. Balance \in Column
        BY NumColumnsNat DEF Balance, Column
      <4>2. AgreeAt(live[<<t, k>>], snap[w][<<t, k>>], Balance)
        BY <3>3, <3>4, <3>5, <4>1, LiveIsSnap DEF Drained
      <4> QED
        BY <4>2 DEF AgreeAt
    <3>7. DOMAIN found = {x \in {t} \X Key \X {Balance} :
                             snap[w][<<x[1], x[2]>>] # Absent}
      BY <3>2, <3>6 DEF CellsOf
    <3>8. \A x \in DOMAIN found : found[x] = snap[w][<<x[1], x[2]>>][Balance]
      BY <3>2, <3>6, <3>7 DEF CellsOf
    <3>9. PICK T, U : T = TablesOf(st) \ toRead[w] /\ U = TablesOf(st) \ toRead'[w]
      OBVIOUS
    <3>10. U = T \cup {t}
      BY <3>3, <3>5, <3>9
    <3>11. PICK F : F = SnapCells(w, U)
      OBVIOUS
    <3>12. /\ DOMAIN F = {x \in U \X Key \X {Balance} : snap[w][<<x[1], x[2]>>] # Absent}
           /\ \A x \in DOMAIN F : F[x] = snap[w][<<x[1], x[2]>>][Balance]
           /\ F = [x \in DOMAIN F |-> F[x]]
      BY <3>11 DEF SnapCells
    <3>13. /\ DOMAIN cells[w] = {x \in T \X Key \X {Balance} :
                                    snap[w][<<x[1], x[2]>>] # Absent}
           /\ \A x \in DOMAIN cells[w] : cells[w][x] = snap[w][<<x[1], x[2]>>][Balance]
      BY <3>4, <3>9 DEF SnapCells
    <3>14. PICK C, J : C = cells[w] /\ J = Join(found, C)
      OBVIOUS
    <3>15. /\ J = [x \in DOMAIN J |-> J[x]]
           /\ DOMAIN J = DOMAIN found \cup DOMAIN C
           /\ \A x \in DOMAIN J : J[x] = IF x \in DOMAIN found THEN found[x] ELSE C[x]
      BY <3>14 DEF Join
    <3>16. DOMAIN J = DOMAIN F
      BY <3>7, <3>10, <3>12, <3>13, <3>14, <3>15
    <3>17. ASSUME NEW x \in DOMAIN J PROVE J[x] = F[x]
      <4>1. F[x] = snap[w][<<x[1], x[2]>>][Balance]
        BY <3>12, <3>16
      <4>2. CASE x \in DOMAIN found
        BY <3>8, <3>15, <4>1, <4>2
      <4>3. CASE x \notin DOMAIN found
        <5>1. x \in DOMAIN C /\ J[x] = C[x]
          BY <3>15, <4>3
        <5> QED
          BY <3>13, <3>14, <4>1, <5>1
      <4> QED
        BY <4>2, <4>3
    <3>18. J = F
      BY <3>12, <3>15, <3>16, <3>17
    <3>19. \A x \in DOMAIN J : J[x] # NULL
      <4>1. \A x \in DOMAIN found : found[x] # NULL
        BY <3>3 DEF Range
      <4> QED
        BY <3>4, <3>14, <3>15, <4>1
    <3> QED
      BY <3>3, <3>4, <3>9, <3>11, <3>14, <3>18, <3>19
  <2>4. CASE ~ReadTables(w) /\ ~(\E t \in Table : ReadTable(w, t))
    <3>1. pc'[w] # "cells"
      <4>1. \/ \E p \in Steps \ {"cells"} : Goto(w, p)
            \/ \E how \in Outcomes : Exit(w, how)
            \/ pc[w] = "verify" /\ UNCHANGED pc
            \/ pc' = [pc EXCEPT ![w] = "fund"]
        <5> USE DEF Steps, Outcomes
        <5>1. CASE Start(w)
          BY <5>1 DEF Start
        <5>2. CASE \/ SendToAddress(w) \/ ConfirmFunding(w) \/ FindFunding(w)
                   \/ LoadConfidential(w) \/ LoadStreamConf(w) \/ LoadPending(w)
          BY <5>2 DEF SendToAddress, ConfirmFunding, FindFunding,
             LoadConfidential, LoadStreamConf, LoadPending
        <5>3. CASE \/ SendEntry(w) \/ SendFails(w) \/ MineEntry(w) \/ MarkSent(w)
                   \/ IndexEntry(w) \/ StoreBlinding(w) \/ CheckLeak(w)
          BY <5>3 DEF SendEntry, SendFails, MineEntry, MarkSent, IndexEntry,
             StoreBlinding, CheckLeak
        <5>4. CASE BeginVerify(w) \/ Rebuild(w) \/ Compare(w) \/ Finish(w)
          BY <5>4 DEF BeginVerify, Rebuild, Compare, Finish, Verified
        <5>5. CASE ReadHead(w)
          BY <5>5 DEF ReadHead, At, controlVars
        <5> QED
          BY <2>1, <2>4, <5>1, <5>2, <5>3, <5>4, <5>5 DEF WriterStep
      <4> QED
        BY <1>1, <4>1 DEF Goto, Exit, WriterTypeOK
    <3> QED
      BY <3>1 DEF CellsInv
  <2> QED
    BY <2>2, <2>3, <2>4
<1> QED
  BY <1>4, <1>5 DEF Next, vars

LEMMA WholeStep ==
  ASSUME Undisturbed, WholeInv, [Next]_vars
  PROVE  WholeInv'
<1> USE DEF Undisturbed
<1>1. DrainInv'
  <2>1. SystemInv'
    BY SystemInvStep DEF DrainInv, WholeInv
  <2>2. [CaptureNext]_captureVars
    BY DEF Next, vars
  <2>3. CatalogInv'
    BY <2>2, CatalogStep DEF DrainInv, WholeInv, SystemInv
  <2>4. CleanInv'
    BY CleanStep DEF DrainInv, WholeInv
  <2> QED
    BY <2>1, <2>3, <2>4 DEF DrainInv
<1>2. [CaptureNext]_captureVars
  BY DEF Next, vars
<1>3. RowsInv'
  BY <1>2, RowsInvStep DEF WholeInv, DrainInv, SystemInv
<1>4. RunInv(OnlyWriter)'
  BY RunStep DEF OneRunInv, WholeInv, DrainInv
<1>5. PICK w \in Writer : w = OnlyWriter
  BY OneRunWriter
<1>6. EntryInv(w)'
  <2>1. CASE UNCHANGED writerVars
    BY <1>2, <1>5, <2>1, EntrySurface DEF WholeInv, DrainInv, SystemInv
  <2>2. CASE WriterNext /\ UNCHANGED captureVars
    <3>1. ~Crash(w)
      BY DEF OneRun, Crash
    <3>2. Start(w) \/ WriterStep(w)
      BY <1>5, <2>2, <3>1, OneRunWriter DEF WriterNext
    <3>3. ~SendFails(w)
      <4>1. CleanHypotheses
        BY <2>2 DEF CleanHypotheses, WholeInv, DrainInv
      <4> QED
        BY <4>1, CleanSendFails
    <3> QED
      BY <1>5, <2>2, <3>2, <3>3, EntryLoadPending, EntrySendEntry,
         EntryIndexBlind, EntryQuietSteps DEF WriterStep
  <2> QED
    BY <2>1, <2>2 DEF Next, vars
<1>7. EntryInv(OnlyWriter)' /\ CellsInv(OnlyWriter)'
  BY <1>5, <1>6, CellsStep
<1> QED
  BY <1>1, <1>3, <1>4, <1>7 DEF WholeInv

LEMMA WholeInit ==
  ASSUME Undisturbed, Init
  PROVE  WholeInv
<1>1. PICK w \in Writer : w = OnlyWriter
  BY OneRunWriter DEF Undisturbed
<1>2. DrainInv /\ RowsInv /\ RunInv(w)
  BY CaptureInvInit, WriterInvInit, CatalogInit, CleanInit, RowsInvInit, RunInit
     DEF Init, DrainInv, SystemInv
<1>3. /\ pc[w] = "off" /\ runs[w] = 0 /\ chain = <<>> /\ todo[w] = {}
      /\ Len(chain) = 0 /\ DOMAIN snap = Writer /\ outcome[w] = "none"
      /\ DOMAIN sent = {}
  BY DEF Init, WriterInit, NoMap
<1>4. Done(w) = 0 /\ Txid = {} /\ ~Unfinished(w)
  BY <1>3 DEF Done, Unfinished, InFlight, Txid
<1>5. EntryInv(w) /\ CellsInv(w)
  BY <1>3, <1>4 DEF EntryInv, CellsInv, ChangeInv, SnapInv, MarkInv, HeadInv,
     Fresh, Drained, Walking
<1> QED
  BY <1>1, <1>2, <1>5 DEF WholeInv

LEMMA WholeInvariant ==
  ASSUME Undisturbed
  PROVE  Spec => []WholeInv
<1>1. Init => WholeInv
  BY WholeInit
<1>2. WholeInv /\ [Next]_vars => WholeInv'
  BY WholeStep
<1> QED
  BY <1>1, <1>2, PTL DEF Spec

-----------------------------------------------------------------------------
(* The walk from a head is the whole stream, and replays to the snapshot.  *)

\* The entries of stream st among the first n.
InStream(n, st) == {i \in 1 .. n : chain[i].stream = st}

LEMMA WholeStream ==
  ASSUME WriterTypeOK, ChainLinked, LinkInv, NEW n \in Txid
  PROVE  OnWalk(n) = InStream(n, chain[n].stream)
<1> DEFINE Whole(m) == InStream(m, chain[m].stream) \subseteq OnWalk(m)
           T == {k \in Nat : \A m \in Txid : m <= k => Whole(m)}
<1>0. Len(chain) \in Nat /\ Txid = 1 .. Len(chain)
  BY ChainNumbers
<1>1. 0 \in T
  BY <1>0
<1>2. ASSUME NEW k \in Nat, k \in T PROVE k + 1 \in T
  <2> SUFFICES ASSUME NEW m \in Txid, m <= k + 1, NEW i \in 1 .. m,
                      chain[i].stream = chain[m].stream
               PROVE  i \in OnWalk(m)
    BY DEF InStream
  <2>1. PICK p : p = chain[m].prev
    OBVIOUS
  <2>2. p \in 0 .. m - 1 /\ OnWalk(m) = OnWalk(p) \cup {m}
    BY <2>1, WalkMeets
  <2>3. CASE i = m
    BY <2>2, <2>3
  <2>4. CASE i # m
    <3>1. i \in 1 .. m - 1
      BY <1>0, <2>4
    <3>2. i <= p
      BY <2>1, <3>1 DEF LinkInv
    <3>3. p \in Txid /\ p <= k /\ i \in 1 .. p
      BY <1>0, <2>2, <3>1, <3>2
    <3>4. chain[p].stream = chain[m].stream
      BY <2>1, <3>3, <1>0 DEF ChainLinked
    <3>5. i \in OnWalk(p)
      BY <1>2, <3>3, <3>4 DEF InStream
    <3> QED
      BY <2>2, <3>5
  <2> QED
    BY <2>3, <2>4
<1>3. Whole(n)
  <2> HIDE DEF T
  <2>1. n \in T
    BY <1>0, <1>1, <1>2, SetInduction
  <2> QED
    BY <1>0, <2>1 DEF T
<1>4. OnWalk(n) \subseteq InStream(n, chain[n].stream)
  BY <1>0, WalkInStream DEF OneStream, InStream
<1> QED
  BY <1>3, <1>4

\* Once nothing is in flight, the head of te.chain_index is the last entry of
\* its stream.
LEMMA WalkFromHead ==
  ASSUME WriterInv, NEW w \in Writer, RunInv(w), ~Unfinished(w),
         NEW st \in Stream
  PROVE  /\ HeadOf(st) \in 0 .. Len(chain)
         /\ OnWalk(HeadOf(st)) = {i \in Txid : chain[i].stream = st}
<1>1. /\ WriterTypeOK /\ ChainLinked /\ IndexSound /\ LinkInv
      /\ Len(chain) \in Nat /\ Txid = 1 .. Len(chain) /\ mined \in 0 .. Len(chain)
  BY ChainNumbers DEF WriterInv, RunInv, WriterTypeOK
<1>2. \A m \in Txid : Indexed(m)
  BY <1>1 DEF RunInv, IndexedInv, Done
<1>3. \A m \in Txid : chain[m].stream = st =>
         IndexKey(chain[m]) \in StreamIndex(st) /\ IndexKey(chain[m])[2] = chain[m].seq
  BY <1>2 DEF Indexed, IndexKey, StreamIndex
<1>4. CASE StreamIndex(st) = {}
  <2>1. HeadOf(st) = 0
    BY <1>4 DEF HeadOf
  <2>2. {i \in Txid : chain[i].stream = st} = {}
    BY <1>3, <1>4
  <2> QED
    BY <1>1, <2>1, <2>2, WalkMeets
<1>5. CASE StreamIndex(st) # {}
  <2>1. PICK x : IsHead(x, st)
    BY <1>1, <1>5, HeadOfIsIndexed
  <2>2. PICK h : h = HeadOf(st)
    OBVIOUS
  <2>3. h \in Txid /\ chain[h].stream = st /\ chain[h].seq = x[2]
    BY <1>1, <2>1, <2>2 DEF IsHead, IndexSound, StreamIndex
  <2>4. ASSUME NEW m \in Txid, chain[m].stream = st PROVE m \in 1 .. h
    <3>1. chain[m].seq <= chain[h].seq
      BY <1>3, <2>1, <2>3, <2>4 DEF IsHead
    <3>2. m > h => chain[h].seq < chain[m].seq
      <4>1. m > h => h \in 1 .. m - 1
        BY <1>1, <2>3
      <4> QED
        BY <1>1, <2>3, <2>4, <4>1 DEF LinkInv
    <3>3. chain[m].seq \in Nat /\ chain[h].seq \in Nat
      BY <1>1, <2>3, ChainNumbers
    <3> QED
      BY <1>1, <2>3, <3>1, <3>2, <3>3
  <2>5. OnWalk(h) = InStream(h, st)
    BY <1>1, <2>3, WholeStream
  <2>6. InStream(h, st) = {i \in Txid : chain[i].stream = st}
    BY <1>1, <2>3, <2>4 DEF InStream
  <2> QED
    BY <1>1, <2>2, <2>3, <2>5, <2>6
<1> QED
  BY <1>4, <1>5

\* What the snapshot says of a stream: the body of RebuildIsSnapshot.
Snapshot(w, st) ==
    [c \in {x \in Table \X Key \X Column :
               /\ x[1] \in DOMAIN journalled
               /\ journalled[x[1]].stream = st
               /\ snap[w][<<x[1], x[2]>>] # Absent} |->
        Image(snap[w][<<c[1], c[2]>>][c[3]])]

\* A verification reads what is left when every row that was read is recorded.
LEMMA RecordedIsRead ==
  ASSUME WholeInv, NEW w \in Writer, w = OnlyWriter, Drained(w)
  PROVE  /\ ReadOf(RowsRead(w), snap[w])
         /\ RowsRead(w) = {chain[i].change : i \in Txid}
         /\ \A i \in Txid : /\ RecordsRow(i)
                            /\ InCatalog(outbox[chain[i].change])
         /\ \A j \in Txid : \A i \in 1 .. j - 1 : chain[i].change < chain[j].change
<1>1. RunInv(w) /\ EntryInv(w) /\ WriterTypeOK /\ CatalogInv
  BY DEF WholeInv, DrainInv, SystemInv, WriterInv
<1>2. ~Unfinished(w) /\ todo[w] = {}
  BY <1>1 DEF Drained, Unfinished, InFlight, RunInv, PhaseInv
<1>3. Done(w) = Len(chain) /\ Txid = 1 .. Len(chain)
  BY <1>2 DEF Done, Txid
<1>4. ~Fresh(w)
  BY <1>1 DEF Fresh, Drained, RunInv, PhaseInv
<1>5. \A i \in Txid : RecordsRow(i)
  BY <1>1 DEF EntryInv, ChangeInv
<1>6. \A i \in Txid : InCatalog(outbox[chain[i].change])
  BY <1>1, <1>5 DEF RecordsRow, CatalogInv
<1>7. \A j \in Txid : \A i \in 1 .. j - 1 : chain[i].change < chain[j].change
  BY <1>1 DEF EntryInv, ChangeInv
<1>8. RowsRead(w) = {chain[i].change : i \in Txid}
  BY <1>2, <1>3 DEF RowsRead
<1>9. ReadOf(RowsRead(w), snap[w])
  BY <1>1, <1>4 DEF EntryInv, SnapInv
<1> QED
  BY <1>5, <1>6, <1>7, <1>8, <1>9

\* The latest entry of a cell describes the snapshot.
LEMMA LatestDescribes ==
  ASSUME WholeInv, NEW w \in Writer, w = OnlyWriter, Drained(w),
         NEW st \in Stream, NEW i, Latest(i, HeadOf(st))
  PROVE  DescribesIn(outbox[chain[i].change], snap[w])
<1> DEFINE n == chain[i].change
<1>1. WriterInv /\ RunInv(w) /\ ~Unfinished(w) /\ WriterTypeOK
  BY DEF WholeInv, DrainInv, SystemInv, WriterInv, RunInv, PhaseInv, Drained,
     Unfinished, InFlight
<1>2. OnWalk(HeadOf(st)) = {j \in Txid : chain[j].stream = st}
  BY <1>1, WalkFromHead
<1>3. /\ i \in Txid /\ chain[i].stream = st /\ Txid = 1 .. Len(chain)
      /\ Len(chain) \in Nat
  BY <1>1, <1>2, ChainNumbers DEF Latest
<1>4. n \in RowsRead(w) /\ n \in DOMAIN outbox
  BY <1>3, RecordedIsRead DEF RecordsRow
<1>5. ASSUME NEW m \in RowsRead(w), SameCell(outbox[m], outbox[n]) PROVE m <= n
  <2>1. PICK j \in Txid : m = chain[j].change
    BY RecordedIsRead
  <2>2. /\ RecordsRow(i) /\ RecordsRow(j)
        /\ InCatalog(outbox[n]) /\ InCatalog(outbox[m])
    BY <1>3, <2>1, RecordedIsRead
  <2>3. chain[j].stream = st /\ CellOf(j) = CellOf(i)
    BY <1>3, <1>5, <2>1, <2>2 DEF RecordsRow, Records, InCatalog, SameCell, CellOf
  <2>4. j <= i
    BY <1>2, <2>3 DEF Latest
  <2>5. j = i \/ j \in 1 .. i - 1
    BY <1>3, <2>4
  <2>6. m = n \/ m < n
    BY <1>3, <2>1, <2>5, RecordedIsRead
  <2>7. m \in Nat /\ n \in Nat
    BY <1>1, <1>3, <2>1, ChainNumbers
  <2> QED
    BY <2>6, <2>7
<1>6. Newest(n, RowsRead(w))
  BY <1>5 DEF Newest
<1> HIDE DEF n
<1>7. DescribesIn(outbox[n], snap[w])
  BY <1>4, <1>6, RecordedIsRead DEF ReadOf
<1> QED
  BY <1>7 DEF n

\* A cell met by a walk has a latest entry on it.
LEMMA LatestExists ==
  ASSUME WriterTypeOK, NEW n, OnWalk(n) \subseteq Txid, NEW j \in OnWalk(n)
  PROVE  \E i : Latest(i, n) /\ CellOf(i) = CellOf(j)
<1> DEFINE X == {i \in OnWalk(n) : CellOf(i) = CellOf(j)}
<1>1. Len(chain) \in Nat /\ X \subseteq 0 .. Len(chain) /\ X # {}
  BY ChainNumbers
<1> HIDE DEF X
<1>2. PICK i \in X : \A k \in X : k <= i
  BY <1>1, GreatestBelow
<1>3. Latest(i, n) /\ CellOf(i) = CellOf(j)
  BY <1>2 DEF X, Latest
<1> QED
  BY <1>3

LEMMA RebuildHolds ==
  ASSUME WholeInv, NEW w \in Writer, w = OnlyWriter, Drained(w),
         NEW st \in Stream
  PROVE  Replay(Path[HeadOf(st)]) = Snapshot(w, st)
<1>1. /\ WriterInv /\ RunInv(w) /\ WriterTypeOK /\ ChainLinked
      /\ ~Unfinished(w) /\ journalled = InitialJournalled /\ CaptureTypeOK
  BY DEF WholeInv, DrainInv, SystemInv, CaptureInv, WriterInv, CatalogInv,
     RunInv, PhaseInv, Drained, Unfinished, InFlight
<1>2. PICK h : h = HeadOf(st)
  OBVIOUS
<1>3. /\ h \in 0 .. Len(chain)
      /\ OnWalk(h) = {i \in Txid : chain[i].stream = st}
  BY <1>1, <1>2, WalkFromHead
<1>4. PICK R : R = Replay(Path[h])
  OBVIOUS
<1>5. R \in Rebuilt /\ Shows(R, h)
  BY <1>1, <1>3, <1>4, ReplayShows
<1>6. PICK S : S = snap[w]
  OBVIOUS
<1>7. ASSUME NEW i, Latest(i, h)
      PROVE  /\ i \in OnWalk(h) /\ ShowsEntry(R, i)
             /\ CellOf(i)[1] \in DOMAIN journalled
             /\ journalled[CellOf(i)[1]].stream = st
             /\ IF chain[i].op = "DELETE"
                THEN S[<<CellOf(i)[1], CellOf(i)[2]>>] = Absent
                ELSE /\ S[<<CellOf(i)[1], CellOf(i)[2]>>] # Absent
                     /\ chain[i].value =
                           Image(S[<<CellOf(i)[1], CellOf(i)[2]>>][CellOf(i)[3]])
  <2>1. i \in OnWalk(h) /\ ShowsEntry(R, i)
    BY <1>5, <1>7 DEF Latest, Shows
  <2>2. i \in Txid /\ chain[i].stream = st
    BY <1>3, <2>1
  <2>3. PICK o : o = outbox[chain[i].change]
    OBVIOUS
  <2>4. Records(chain[i], chain[i].change) /\ InCatalog(o)
    BY <2>2, <2>3, RecordedIsRead DEF RecordsRow
  <2>5. DescribesIn(o, S)
    BY <1>2, <1>6, <1>7, <2>3, LatestDescribes
  <2>6. /\ CellOf(i) = <<o.table, o.row, o.column>> /\ chain[i].op = o.op
        /\ chain[i].value = Image(o.value) /\ o.stream = st
    BY <2>2, <2>3, <2>4 DEF Records, CellOf
  <2>7. /\ CellOf(i)[1] = o.table /\ CellOf(i)[2] = o.row
        /\ CellOf(i)[3] = o.column
    BY <2>6
  <2> QED
    BY <1>1, <2>1, <2>4, <2>5, <2>6, <2>7 DEF InCatalog, DescribesIn, Describes
<1>8. ASSUME NEW x \in DOMAIN R
      PROVE  /\ x \in DOMAIN Snapshot(w, st)
             /\ R[x] = Snapshot(w, st)[x]
  <2>1. x \in Table \X Key \X Column
    BY <1>5, RebuiltIs DEF Cell
  <2>2. PICK j \in OnWalk(h) : CellOf(j) = x
    BY <1>5 DEF Shows
  <2>3. PICK i : Latest(i, h) /\ CellOf(i) = x
    BY <1>1, <1>3, <2>2, LatestExists
  <2>4. chain[i].op # "DELETE" /\ R[x] = chain[i].value
    BY <1>7, <2>3 DEF ShowsEntry
  <2>5. /\ x[1] \in DOMAIN journalled /\ journalled[x[1]].stream = st
        /\ S[<<x[1], x[2]>>] # Absent
        /\ R[x] = Image(S[<<x[1], x[2]>>][x[3]])
    BY <1>7, <2>3, <2>4
  <2> QED
    BY <1>6, <2>1, <2>5 DEF Snapshot
<1>9. ASSUME NEW x \in DOMAIN Snapshot(w, st) PROVE x \in DOMAIN R
  <2>1. /\ x \in Table \X Key \X Column
        /\ x[1] \in DOMAIN InitialJournalled /\ journalled[x[1]].stream = st
        /\ S[<<x[1], x[2]>>] # Absent
    BY <1>1, <1>6 DEF Snapshot
  <2>2. /\ x[1] \in Table /\ x[2] \in Key /\ x[3] \in Column
        /\ x = <<x[1], x[2], x[3]>>
    BY <2>1
  <2>3. PICK n \in RowsRead(w) : InCell(outbox[n], x[1], x[2], x[3])
    <3>1. ReadOf(RowsRead(w), S)
      BY <1>6, RecordedIsRead
    <3> QED
      BY <2>1, <2>2, <3>1 DEF ReadOf
  <2>4. PICK j \in Txid : n = chain[j].change
    BY RecordedIsRead
  <2>5. Records(chain[j], n) /\ InCatalog(outbox[n])
    BY <2>4, RecordedIsRead DEF RecordsRow
  <2>6. CellOf(j) = x
    BY <2>2, <2>3, <2>5 DEF Records, InCell, CellOf
  <2>7. chain[j].stream = st
    BY <1>1, <2>1, <2>3, <2>5 DEF Records, InCell, InCatalog
  <2>8. j \in OnWalk(h)
    BY <1>3, <2>7
  <2>9. PICK i : Latest(i, h) /\ CellOf(i) = x
    BY <1>1, <1>3, <2>6, <2>8, LatestExists
  <2>10. chain[i].op # "DELETE"
    BY <1>7, <2>1, <2>9
  <2> QED
    BY <1>7, <2>9, <2>10 DEF ShowsEntry
<1>10. R = [x \in DOMAIN R |-> R[x]]
  BY <1>5, RebuiltIs
<1>11. Snapshot(w, st) = [x \in DOMAIN Snapshot(w, st) |-> Snapshot(w, st)[x]]
  BY DEF Snapshot
<1>12. DOMAIN R = DOMAIN Snapshot(w, st)
  BY <1>8, <1>9
<1>13. R = Snapshot(w, st)
  <2>1. PICK F : F = Snapshot(w, st)
    OBVIOUS
  <2>2. F = [x \in DOMAIN F |-> F[x]] /\ DOMAIN R = DOMAIN F
    BY <1>11, <1>12, <2>1
  <2>3. \A x \in DOMAIN R : R[x] = F[x]
    BY <1>8, <2>1
  <2> QED
    BY <1>10, <2>1, <2>2, <2>3
<1> QED
  BY <1>2, <1>4, <1>13

\* RebuildIsSnapshot: in a run that nothing disturbs, replaying the walk from
\* the head of a stream gives the tables as they were when the pending rows
\* were read, whatever clients have committed since.
THEOREM RebuildIsSnapshotTheorem ==
  ASSUME Undisturbed
  PROVE  Spec => []RebuildIsSnapshot
<1>1. ASSUME WholeInv PROVE RebuildIsSnapshot
  <2>1. WriterTypeOK
    BY <1>1 DEF WholeInv, DrainInv, SystemInv, WriterInv
  <2>2. ASSUME NEW w \in Writer, Drained(w), NEW st \in rels[w] \ streamConf[w]
        PROVE  Replay(Path[HeadOf(st)]) = Snapshot(w, st)
    <3>1. w = OnlyWriter /\ st \in Stream
      BY <2>1, <2>2, OneRunWriter DEF Undisturbed, WriterTypeOK
    <3> QED
      BY <1>1, <2>2, <3>1, RebuildHolds
  <2> QED
    BY <2>2 DEF RebuildIsSnapshot, Snapshot
<1>2. Spec => []WholeInv
  BY WholeInvariant
<1>3. WholeInv => RebuildIsSnapshot
  BY <1>1
<1> QED
  BY <1>2, <1>3, PTL

-----------------------------------------------------------------------------
(* The comparison at the end of a run.                                     *)

\* Cells of one column that are the snapshot's compare equal to its rebuild.
LEMMA SnapshotCompares ==
  ASSUME WholeInv, NumColumns = 1, NEW w \in Writer, NEW st \in Stream,
         NEW G, G = SnapCells(w, TablesOf(st)), \A x \in DOMAIN G : G[x] # NULL
  PROVE  SameCells(Snapshot(w, st), G)
<1>1. TablesOf(st) \subseteq Table /\ journalled = InitialJournalled
  BY CaptureAssumption DEF WholeInv, DrainInv, CatalogInv, TablesOf
<1>2. Column = {Balance}
  BY DEF Column, Balance
<1>3. PICK F : F = Snapshot(w, st)
  OBVIOUS
<1>4. DOMAIN F = DOMAIN G
  <2>1. DOMAIN F = {x \in Table \X Key \X {Balance} :
                      /\ x[1] \in TablesOf(st)
                      /\ snap[w][<<x[1], x[2]>>] # Absent}
    BY <1>1, <1>2, <1>3 DEF Snapshot, TablesOf
  <2>2. DOMAIN G = {x \in TablesOf(st) \X Key \X {Balance} :
                      snap[w][<<x[1], x[2]>>] # Absent}
    BY DEF SnapCells
  <2> QED
    BY <1>1, <2>1, <2>2
<1>5. ASSUME NEW x \in DOMAIN G PROVE LookupOr(F, x) = G[x]
  <2>1. /\ x[3] = Balance /\ G[x] = snap[w][<<x[1], x[2]>>][Balance]
        /\ G[x] # NULL
    BY <1>5 DEF SnapCells
  <2>2. x \in DOMAIN F
    BY <1>4
  <2>3. F[x] = Image(snap[w][<<x[1], x[2]>>][x[3]])
    BY <1>3, <2>2 DEF Snapshot
  <2> QED
    BY <2>1, <2>2, <2>3 DEF LookupOr, Image
<1> QED
  BY <1>3, <1>4, <1>5 DEF SameCells

LEMMA AlarmIsCompare ==
  ASSUME OneRun, WholeInv, [Next]_vars, NEW w \in Writer,
         pc[w] = "cells", outcome'[w] = "mismatch"
  PROVE  /\ w = OnlyWriter /\ toRead[w] = {}
         /\ ~SameCells(Replay(Path[head[w][2]]), cells[w])
<1>1. w = OnlyWriter /\ RunInv(w) /\ WriterTypeOK
  BY OneRunWriter DEF WholeInv, DrainInv, SystemInv, WriterInv
<1>2. outcome[w] = "none"
  BY <1>1 DEF RunInv, PhaseInv
<1>3. ~UNCHANGED writerVars
  BY <1>2 DEF writerVars, controlVars
<1>4. WriterNext
  BY <1>3 DEF Next, vars
<1>5. Compare(w)
  <2>1. Start(w) \/ WriterStep(w) \/ Crash(w)
    BY <1>1, <1>4, OneRunWriter DEF WriterNext
  <2>2. ~Crash(w)
    BY DEF OneRun, Crash
  <2>3. ~Start(w)
    BY DEF Start, At
  <2>4. ~(\E t \in Table : ReadTable(w, t))
    BY <1>1, <1>2 DEF ReadTable, Exit, controlVars, WriterTypeOK
  <2> QED
    BY <2>1, <2>2, <2>3, <2>4 DEF WriterStep, SendToAddress, ConfirmFunding,
       FindFunding, LoadConfidential, LoadStreamConf, LoadPending, SendEntry,
       SendFails, MineEntry, MarkSent, IndexEntry, StoreBlinding, CheckLeak,
       BeginVerify, ReadHead, Rebuild, ReadTables, Finish, At
<1>6. ~SameCells(Replay(Path[head[w][2]]), cells[w])
  BY <1>2, <1>5 DEF Compare, Verified, Goto
<1> QED
  BY <1>1, <1>5, <1>6 DEF Compare

\* AlarmMeansPending: with the one column that the comparison projects, an
\* undisturbed run reports a mismatch on a stream only if it left a change of
\* the stream undelivered, whatever sessions commit between the statements
\* that read its tables.
THEOREM AlarmMeansPendingTheorem ==
  ASSUME Undisturbed, NumColumns = 1
  PROVE  Spec => AlarmMeansPending
<1>1. ASSUME WholeInv, [Next]_vars, NEW w \in Writer,
             pc[w] = "cells", outcome'[w] = "mismatch"
      PROVE  \E n \in Pending : outbox[n].stream = head[w][1]
  <2> SUFFICES ASSUME NoPending(head[w][1]) PROVE FALSE
    BY DEF NoPending
  <2>1. /\ w = OnlyWriter /\ toRead[w] = {}
        /\ ~SameCells(Replay(Path[head[w][2]]), cells[w])
    BY <1>1, AlarmIsCompare DEF Undisturbed
  <2>2. WriterTypeOK /\ EntryInv(w) /\ CellsInv(w) /\ Drained(w)
    BY <1>1, <2>1 DEF WholeInv, DrainInv, SystemInv, WriterInv, Drained
  <2>3. PICK st : st = head[w][1]
    OBVIOUS
  <2>4. st \in Stream /\ head[w][2] = HeadOf(st)
    BY <1>1, <2>2, <2>3 DEF EntryInv, HeadInv, Walking, WriterTypeOK
  <2>5. PICK G : G = cells[w]
    OBVIOUS
  <2>6. /\ G = SnapCells(w, TablesOf(st) \ toRead[w])
        /\ \A x \in DOMAIN G : G[x] # NULL
    BY <1>1, <2>2, <2>3, <2>5 DEF CellsInv
  <2>7. TablesOf(st) \ toRead[w] = TablesOf(st)
    BY <2>1
  <2>8. SameCells(Snapshot(w, st), G)
    BY <1>1, <2>4, <2>6, <2>7, SnapshotCompares
  <2>9. Replay(Path[HeadOf(st)]) = Snapshot(w, st)
    BY <1>1, <2>1, <2>2, <2>4, RebuildHolds
  <2> QED
    BY <2>1, <2>4, <2>5, <2>8, <2>9
<1>2. WholeInv /\ [Next]_vars =>
         [\A w \in Writer :
             (pc[w] = "cells" /\ outcome'[w] = "mismatch")
                 => \E n \in Pending : outbox[n].stream = head[w][1]]_vars
  BY <1>1
<1>3. Spec => []WholeInv
  BY WholeInvariant
<1> QED
  BY <1>2, <1>3, PTL DEF Spec, AlarmMeansPending

-----------------------------------------------------------------------------
(* The refinement of the abstract ledger.                                  *)

\* What the walks are, and which changes are in the ledger.
WalkFacts ==
    /\ Len(chain) \in Nat /\ Txid = 1 .. Len(chain)
    /\ \A n \in Txid : chain[n].prev \in 0 .. n - 1
    /\ Path[0] = <<>>
    /\ \A n \in Txid : Path[n] = Append(Path[chain[n].prev], n)
    /\ \A n \in 0 .. Len(chain) : Path[n] \in Seq(Txid)
LedgerFacts(w) ==
    /\ \A st \in Stream : prevLink[w][st] \in 0 .. Done(w)
    /\ \A st \in Stream : Range(Walk(st)) = InStream(Done(w), st)
    /\ InLedger = {chain[i].change : i \in 1 .. Done(w)}
    /\ Done(w) \in 0 .. Len(chain)

LEMMA WholeWalkFacts ==
  ASSUME WholeInv
  PROVE  WalkFacts
<1>1. WriterTypeOK /\ ChainLinked
  BY DEF WholeInv, DrainInv, SystemInv, WriterInv
<1> QED
  BY <1>1, ChainNumbers, PathUnfolds, WalkMeets, WalkOfTxids DEF WalkFacts

LEMMA WholeLedgerFacts ==
  ASSUME OneRun, WholeInv
  PROVE  LedgerFacts(OnlyWriter)
<1>1. PICK w \in Writer : w = OnlyWriter
  BY OneRunWriter
<1>2. /\ WriterTypeOK /\ ChainLinked /\ LinkInv /\ PositionInv /\ MemoryInv(w)
      /\ RunInv(w) /\ HandInv /\ CleanOf(w)
  BY <1>1 DEF WholeInv, DrainInv, SystemInv, WriterInv, RunInv, CleanInv
<1>3. /\ Len(chain) \in Nat /\ Txid = 1 .. Len(chain)
      /\ \A st \in Stream : prevLink[w][st] \in Nat
      /\ \A n \in Txid : chain[n].stream \in Stream
  BY <1>2, ChainNumbers
<1>4. Done(w) \in 0 .. Len(chain)
  <2>1. CASE Unfinished(w)
    <3>1. Len(chain) # 0
      <4>1. CASE pc[w] \in InFlight
        BY <1>2, <1>3, <4>1 DEF HandInv
      <4>2. CASE outcome[w] = "leaked"
        <5>1. mined \in 0 .. Len(chain) /\ txid[w] \in 1 .. mined
          BY <1>2, <4>2 DEF CleanOf, EndInv, WriterTypeOK
        <5> QED
          BY <1>3, <5>1
      <4> QED
        BY <2>1, <4>1, <4>2 DEF Unfinished
    <3> QED
      BY <1>3, <2>1, <3>1 DEF Done
  <2>2. CASE ~Unfinished(w)
    BY <1>3, <2>2 DEF Done
  <2> QED
    BY <2>1, <2>2
<1>5. ASSUME NEW st \in Stream
      PROVE  /\ prevLink[w][st] \in 0 .. Done(w)
             /\ Range(Walk(st)) = InStream(Done(w), st)
  <2>1. PICK p : p = prevLink[w][st]
    OBVIOUS
  <2>2. p \in 0 .. Done(w)
    BY <1>2, <1>3, <1>4, <2>1 DEF MemoryInv
  <2>3. Range(Walk(st)) = OnWalk(p)
    BY <1>1, <2>1 DEF Walk, OnWalk
  <2>4. \A m \in 1 .. Done(w) : chain[m].stream = st => m <= p
    BY <1>2, <2>1 DEF MemoryInv
  <2>5. CASE p = 0
    <3>1. OnWalk(p) = {}
      BY <1>2, <2>5, WalkMeets
    <3>2. InStream(Done(w), st) = {}
      BY <1>4, <2>4, <2>5 DEF InStream
    <3> QED
      BY <2>2, <2>1, <2>3, <3>1, <3>2
  <2>6. CASE p # 0
    <3>1. p \in Txid /\ chain[p].stream = st
      BY <1>2, <2>1, <2>6 DEF PositionInv
    <3>2. OnWalk(p) = InStream(p, st)
      BY <1>2, <3>1, WholeStream
    <3>3. InStream(p, st) = InStream(Done(w), st)
      <4>1. \A m \in 1 .. p : m \in 1 .. Done(w)
        BY <1>4, <2>2
      <4>2. \A m \in 1 .. Done(w) : m <= p => m \in 1 .. p
        BY <1>4, <2>2
      <4> QED
        BY <2>4, <4>1, <4>2 DEF InStream
    <3> QED
      BY <2>2, <2>1, <2>3, <3>2, <3>3
  <2> QED
    BY <2>5, <2>6
<1>6. UNION {Range(Walk(st)) : st \in Stream} = 1 .. Done(w)
  <2>1. \A i \in 1 .. Done(w) : i \in Txid
    BY <1>3, <1>4
  <2>2. \A i \in 1 .. Done(w) : i \in InStream(Done(w), chain[i].stream)
    BY DEF InStream
  <2>3. \A i \in 1 .. Done(w) : chain[i].stream \in Stream
    BY <1>3, <2>1
  <2>4. \A st \in Stream : InStream(Done(w), st) \subseteq 1 .. Done(w)
    BY DEF InStream
  <2> QED
    BY <1>5, <2>2, <2>3, <2>4
<1>7. InLedger = {chain[i].change : i \in 1 .. Done(w)}
  BY <1>6 DEF InLedger
<1>8. LedgerFacts(w)
  BY <1>4, <1>5, <1>7 DEF LedgerFacts
<1> QED
  BY <1>1, <1>8

LEMMA FactsNext ==
  ASSUME OneRun
  PROVE  WholeInv' => WalkFacts' /\ LedgerFacts(OnlyWriter)'
<1>1. WholeInv => WalkFacts /\ LedgerFacts(OnlyWriter)
  BY WholeWalkFacts, WholeLedgerFacts
<1> QED
  BY <1>1, PTL

\* Entries that come later leave the walks from earlier ones alone.
LEMMA PathKept ==
  ASSUME WalkFacts, WalkFacts', Len(chain) <= Len(chain'),
         \A i \in Txid : chain'[i] = chain[i]
  PROVE  \A n \in 0 .. Len(chain) : Path'[n] = Path[n]
<1> DEFINE T == {k \in Nat : \A n \in 0 .. Len(chain) :
                                n <= k => Path'[n] = Path[n]}
<1>0. Len(chain) \in Nat /\ Txid = 1 .. Len(chain)
      /\ Len(chain') \in Nat /\ Txid' = 1 .. Len(chain')
  BY DEF WalkFacts
<1>1. 0 \in T
  <2>1. Path'[0] = Path[0]
    BY DEF WalkFacts
  <2>2. \A n \in 0 .. Len(chain) : n <= 0 => n = 0
    BY <1>0
  <2> QED
    BY <2>1, <2>2
<1>2. ASSUME NEW k \in Nat, k \in T PROVE k + 1 \in T
  <2> SUFFICES ASSUME NEW n \in 0 .. Len(chain), n <= k + 1
               PROVE  Path'[n] = Path[n]
    OBVIOUS
  <2>1. CASE n = 0
    BY <2>1 DEF WalkFacts
  <2>2. CASE n # 0
    <3>1. PICK p : p = chain[n].prev
      OBVIOUS
    <3>2. n \in Txid /\ n \in Txid' /\ chain'[n].prev = p
      BY <1>0, <2>2, <3>1
    <3>3. p \in 0 .. n - 1
      BY <3>1, <3>2 DEF WalkFacts
    <3>4. p \in 0 .. Len(chain) /\ p <= k
      BY <1>0, <3>2, <3>3
    <3>5. Path'[p] = Path[p]
      BY <1>2, <3>4
    <3>6. Path[n] = Append(Path[p], n) /\ Path'[n] = Append(Path'[p], n)
      BY <3>1, <3>2 DEF WalkFacts
    <3> QED
      BY <3>5, <3>6
  <2> QED
    BY <2>1, <2>2
<1> HIDE DEF T
<1>3. Len(chain) \in T
  BY <1>0, <1>1, <1>2, SetInduction
<1> QED
  BY <1>0, <1>3 DEF T

\* Walks that stay what they are leave the ledger alone: what is committed
\* meanwhile waits.
LEMMA LedgerCommits ==
  ASSUME OneRun, WholeInv, WholeInv', OutboxGrows,
         Len(chain) <= Len(chain'), \A i \in Txid : chain'[i] = chain[i],
         \A st \in Stream : prevLink'[OnlyWriter][st] = prevLink[OnlyWriter][st]
  PROVE  Ledger!Commit
<1>1. WalkFacts /\ WalkFacts' /\ LedgerFacts(OnlyWriter)
  BY WholeWalkFacts, WholeLedgerFacts, FactsNext
<1>2. ASSUME NEW st \in Stream
      PROVE  /\ Walk(st)' = Walk(st)
             /\ \A i \in Range(Walk(st)) : chain'[i] = chain[i]
  <2>1. prevLink[OnlyWriter][st] \in 0 .. Len(chain)
    BY <1>1 DEF LedgerFacts, WalkFacts
  <2>2. Walk(st)' = Walk(st)
    BY <1>1, <2>1, PathKept DEF Walk
  <2>3. \A i \in Range(Walk(st)) : i \in Txid
    BY <1>1 DEF LedgerFacts, WalkFacts, InStream
  <2> QED
    BY <2>2, <2>3
<1>3. PICK W : W = [st \in Stream |-> Walk(st)]
  OBVIOUS
<1>4. /\ \A st \in Stream : W[st] = Walk(st) /\ W[st] = Walk(st)'
      /\ \A st \in Stream : \A i \in Range(W[st]) : chain'[i] = chain[i]
  BY <1>2, <1>3
<1>5. Recorded' = Recorded
  <2>1. \A st \in Stream : \A i \in DOMAIN W[st] : chain'[W[st][i]] = chain[W[st][i]]
    BY <1>4 DEF Range
  <2>2. Recorded = [st \in Stream |->
                       [i \in DOMAIN W[st] |->
                           [id |-> chain[W[st][i]].change,
                            change |-> Content(chain[W[st][i]])]]]
    BY <1>4 DEF Recorded
  <2>3. Recorded' = [st \in Stream |->
                        [i \in DOMAIN W[st] |->
                            [id |-> chain'[W[st][i]].change,
                             change |-> Content(chain'[W[st][i]])]]]
    BY <1>4 DEF Recorded
  <2> QED
    BY <2>1, <2>2, <2>3
<1>6. InLedger' = InLedger
  <2>1. PICK U : U = UNION {Range(W[st]) : st \in Stream}
    OBVIOUS
  <2>2. \A i \in U : chain'[i] = chain[i]
    BY <1>4, <2>1
  <2>3. InLedger = {chain[i].change : i \in U}
    BY <1>4, <2>1 DEF InLedger
  <2>4. InLedger' = {chain'[i].change : i \in U}
    BY <1>4, <2>1 DEF InLedger
  <2> QED
    BY <2>2, <2>3, <2>4
<1>7. /\ DOMAIN Waiting = DOMAIN outbox \ InLedger
      /\ DOMAIN Waiting' = DOMAIN outbox' \ InLedger
      /\ \A n \in DOMAIN Waiting : Waiting[n] = OnChainForm(outbox[n])
      /\ \A n \in DOMAIN Waiting' : Waiting'[n] = OnChainForm(outbox'[n])
  BY <1>6 DEF Waiting
<1>8. ASSUME NEW n, Ledger!IsRecorded(n) PROVE n \in InLedger
  <2>1. PICK st \in Stream : \E i \in DOMAIN Recorded[st] : Recorded[st][i].id = n
    BY <1>8 DEF Ledger!IsRecorded
  <2>2. PICK i \in DOMAIN Recorded[st] : Recorded[st][i].id = n
    BY <2>1
  <2>3. i \in DOMAIN Walk(st) /\ n = chain[Walk(st)[i]].change
    BY <2>2 DEF Recorded
  <2>4. Walk(st)[i] \in Range(Walk(st))
    BY <2>3 DEF Range
  <2> QED
    BY <2>3, <2>4 DEF InLedger
<1> QED
  BY <1>5, <1>7, <1>8 DEF Ledger!Commit, OutboxGrows

LEMMA MapAppend ==
  ASSUME NEW S, NEW V, NEW q \in Seq(S), NEW e \in S, NEW G, \A x \in S : G[x] \in V
  PROVE  [i \in DOMAIN Append(q, e) |-> G[Append(q, e)[i]]] =
            Append([i \in DOMAIN q |-> G[q[i]]], G[e])
<1>1. PICK long, m : long = Append(q, e) /\ m = [i \in DOMAIN q |-> G[q[i]]]
  OBVIOUS
<1>2. /\ Len(q) \in Nat /\ DOMAIN q = 1 .. Len(q)
      /\ \A i \in 1 .. Len(q) : q[i] \in S /\ long[i] = q[i]
      /\ DOMAIN long = 1 .. Len(q) + 1 /\ long[Len(q) + 1] = e
  BY <1>1, AppendFacts
<1>3. m \in Seq(V) /\ Len(m) = Len(q) /\ \A i \in 1 .. Len(q) : m[i] = G[q[i]]
  BY <1>1, <1>2
<1>4. G[e] \in V
  OBVIOUS
<1>5. PICK r : r = Append(m, G[e])
  OBVIOUS
<1>6. /\ r \in Seq(V) /\ Len(r) = Len(q) + 1 /\ DOMAIN r = 1 .. Len(q) + 1
      /\ \A i \in 1 .. Len(q) : r[i] = G[q[i]]
      /\ r[Len(q) + 1] = G[e]
  BY <1>3, <1>4, <1>5, AppendFacts
<1>7. \A i \in 1 .. Len(q) + 1 : i \in 1 .. Len(q) \/ i = Len(q) + 1
  BY <1>2
<1>8. \A i \in 1 .. Len(q) + 1 : r[i] = G[long[i]]
  BY <1>2, <1>6, <1>7
<1>9. r = [i \in 1 .. Len(q) + 1 |-> r[i]]
  BY <1>6
<1>10. [i \in DOMAIN long |-> G[long[i]]] = r
  BY <1>2, <1>8, <1>9
<1> QED
  BY <1>1, <1>5, <1>10

\* The change that the writer moves on from is recorded, the oldest waiting
\* one of its cell.
LEMMA LedgerRecords ==
  ASSUME OneRun, WholeInv, WholeInv', UNCHANGED captureVars, NEW w \in Writer,
         w = OnlyWriter, pc[w] \in {"index", "leak"}, Advance(w),
         Goto(w, "drain"), chain' = chain
  PROVE  \E n \in DOMAIN Waiting : Ledger!Record(n)
<1>1. /\ WriterInv /\ WriterTypeOK /\ HandInv /\ CleanOf(w) /\ CaptureTypeOK
      /\ RunInv(w) /\ EntryInv(w) /\ ChangeInv(w)
  BY DEF WholeInv, DrainInv, SystemInv, WriterInv, CaptureInv, CleanInv, EntryInv
<1>2. /\ WalkFacts /\ WalkFacts' /\ LedgerFacts(w) /\ LedgerFacts(w)'
  BY WholeWalkFacts, WholeLedgerFacts, FactsNext
<1>3. PICK k, n, e, st : /\ k = Len(chain) /\ n = cur[w] /\ e = chain[k]
                         /\ st = chain[k].stream
  OBVIOUS
<1>4. /\ pc[w] \in InFlight /\ pc'[w] = "drain" /\ outbox' = outbox
  BY <1>1 DEF Goto, WriterTypeOK, InFlight, captureVars, schemaVars
<1>5. /\ txid[w] = k /\ k \in Nat \ {0} /\ Txid = 1 .. k /\ k \in Txid
      /\ e \in Entry /\ st \in Stream /\ e.stream = st
      /\ e.prev = prevLink[w][st]
  BY <1>1, <1>3, <1>4, ChainNumbers DEF RunInv, InStep, Unfinished, HandInv
<1>6. /\ prevLink'[w][st] = k
      /\ \A o \in Stream \ {st} : prevLink'[w][o] = prevLink[w][o]
  BY <1>1, <1>3, <1>5 DEF Advance, WriterTypeOK
<1>7. Done(w)' = k /\ Done(w) = k - 1
  <2>1. outcome'[w] = "none"
    BY <1>1, <1>4 DEF Goto, RunInv, PhaseInv, InFlight
  <2> QED
    BY <1>3, <1>4, <2>1 DEF Done, Unfinished, InFlight
<1>8. /\ n = e.change /\ n \in todo[w] /\ n \in Nat
      /\ \A m \in todo[w] : n <= m
  BY <1>1, <1>3, <1>4, <1>5 DEF ChangeInv, CleanOf, FundsInv, Unfinished, WriterTypeOK
<1>9. n \in DOMAIN outbox /\ Records(e, n)
  BY <1>1, <1>3, <1>5, <1>8 DEF ChangeInv, RecordsRow
<1>10. \A i \in 1 .. k - 1 : chain[i].change < n
  BY <1>1, <1>3, <1>5, <1>8 DEF ChangeInv
<1>11. \A i \in 1 .. k : chain[i].change \in Nat
  BY <1>1, <1>5, ChainNumbers
<1>12. n \notin InLedger
  BY <1>2, <1>7, <1>8, <1>10 DEF LedgerFacts
<1>13. InLedger' = InLedger \cup {n}
  <2>1. InLedger' = {chain[i].change : i \in 1 .. k}
    BY <1>2, <1>7 DEF LedgerFacts
  <2>2. InLedger = {chain[i].change : i \in 1 .. k - 1}
    BY <1>2, <1>7 DEF LedgerFacts
  <2>3. \A i \in 1 .. k : i = k \/ i \in 1 .. k - 1
    BY <1>5
  <2>4. k \in 1 .. k /\ \A i \in 1 .. k - 1 : i \in 1 .. k
    BY <1>5
  <2> QED
    BY <1>3, <1>8, <2>1, <2>2, <2>3, <2>4
<1>14. OnChainForm(outbox[n]) = Content(e)
  <2>1. PICK o : o = outbox[n] /\ o \in Change
    BY <1>1, <1>9 DEF CaptureTypeOK, IsPartialFcn
  <2>2. OnChainForm(o) = [stream |-> o.stream, table |-> o.table, row |-> o.row,
                          column |-> o.column, op |-> o.op,
                          value |-> Image(o.value)]
    BY <2>1 DEF OnChainForm, Change
  <2> QED
    BY <1>9, <2>1, <2>2 DEF Content, Records
<1>15. \A m \in DOMAIN Waiting :
          /\ m \in DOMAIN outbox /\ m \notin InLedger
          /\ Waiting[m] = OnChainForm(outbox[m])
  BY DEF Waiting
<1>16. n \in DOMAIN Waiting /\ Waiting[n] = Content(e)
  BY <1>9, <1>12, <1>14 DEF Waiting
<1>17. ASSUME NEW m \in DOMAIN Waiting, Ledger!Cell(Waiting[m]) = Ledger!Cell(Content(e))
       PROVE  n <= m
  <2>1. SameCell(outbox[m], outbox[n])
    <3>1. /\ OnChainForm(outbox[m]).table = outbox[m].table
          /\ OnChainForm(outbox[m]).row = outbox[m].row
          /\ OnChainForm(outbox[m]).column = outbox[m].column
      <4>1. PICK o : o = outbox[m] /\ o \in Change
        BY <1>1, <1>15 DEF CaptureTypeOK, IsPartialFcn
      <4> QED
        BY <4>1 DEF OnChainForm, Change
    <3>2. /\ Content(e).table = e.table /\ Content(e).row = e.row
          /\ Content(e).column = e.column
      BY DEF Content
    <3> QED
      BY <1>9, <1>15, <1>17, <3>1, <3>2 DEF Ledger!Cell, Records, SameCell
  <2>2. CASE m \in RowsRead(w)
    <3>1. m \in todo[w]
      BY <1>2, <1>15, <2>2 DEF RowsRead, LedgerFacts
    <3> QED
      BY <1>8, <3>1
  <2>3. CASE m \notin RowsRead(w)
    <3>1. ReadOf(RowsRead(w), snap[w])
      BY <1>1, <1>4 DEF EntryInv, SnapInv, RunInv, PhaseInv, Fresh, InFlight
    <3>2. n \in RowsRead(w)
      BY <1>8 DEF RowsRead
    <3>3. n < m
      BY <1>15, <2>1, <2>3, <3>1, <3>2 DEF ReadOf
    <3>4. m \in Nat
      BY <1>1, <1>15 DEF CaptureTypeOK, IsPartialFcn
    <3> QED
      BY <1>8, <3>3, <3>4
  <2> QED
    BY <2>2, <2>3
<1>18. Waiting' = [m \in DOMAIN Waiting \ {n} |-> Waiting[m]]
  <2>1. DOMAIN outbox' \ InLedger' = DOMAIN Waiting \ {n}
    BY <1>4, <1>13 DEF Waiting
  <2>2. \A m \in DOMAIN Waiting \ {n} : OnChainForm(outbox'[m]) = Waiting[m]
    BY <1>4, <1>15
  <2>3. Waiting' = [m \in DOMAIN outbox' \ InLedger' |-> OnChainForm(outbox'[m])]
    BY DEF Waiting
  <2> QED
    BY <2>1, <2>2, <2>3
<1>19. /\ Walk(st) \in Seq(Txid) /\ Walk(st)' = Append(Walk(st), k)
       /\ \A o \in Stream \ {st} : Walk(o)' = Walk(o)
       /\ \A o \in Stream : Walk(o) \in Seq(Txid)
  <2>1. \A x \in 0 .. k : Path'[x] = Path[x]
    <3>1. Len(chain) <= Len(chain') /\ \A i \in Txid : chain'[i] = chain[i]
      BY <1>3, <1>5
    <3> QED
      BY <1>2, <1>3, <3>1, PathKept
  <2>2. \A o \in Stream : prevLink[w][o] \in 0 .. k /\ Walk(o) = Path[prevLink[w][o]]
    <3>1. \A o \in Stream : prevLink[w][o] \in 0 .. k - 1
      BY <1>2, <1>7 DEF LedgerFacts
    <3>2. \A x \in 0 .. k - 1 : x \in 0 .. k
      BY <1>5
    <3> QED
      BY <3>1, <3>2 DEF Walk
  <2>3. \A o \in Stream : Walk(o) \in Seq(Txid)
    BY <1>2, <1>3, <2>2 DEF WalkFacts
  <2>4. \A o \in Stream \ {st} : Walk(o)' = Walk(o)
    BY <1>6, <2>1, <2>2 DEF Walk
  <2>5. Walk(st)' = Path'[k]
    BY <1>6 DEF Walk
  <2>6. Path'[k] = Path[k] /\ Path[k] = Append(Path[e.prev], k)
    <3>1. k \in 0 .. k
      BY <1>5
    <3>2. Path[k] = Append(Path[chain[k].prev], k)
      BY <1>2, <1>5 DEF WalkFacts
    <3> QED
      BY <1>3, <2>1, <3>1, <3>2
  <2>7. Walk(st) = Path[e.prev]
    BY <1>5, <2>2
  <2> QED
    BY <1>5, <2>3, <2>4, <2>5, <2>6, <2>7
<1>20. Recorded' = [Recorded EXCEPT ![st] = Append(@, Ledger!Item(n, Content(e)))]
  <2>1. PICK G : G = [i \in Txid |-> [id |-> chain[i].change,
                                     change |-> Content(chain[i])]]
    OBVIOUS
  <2>2. PICK W, V : /\ W = [o \in Stream |-> Walk(o)]
                    /\ V = [o \in Stream |-> IF o = st THEN Append(W[o], k) ELSE W[o]]
    OBVIOUS
  <2>3. \A o \in Stream : W[o] = Walk(o) /\ W[o] \in Seq(Txid) /\ V[o] = Walk(o)'
    BY <1>19, <2>2
  <2>4. \A o \in Stream : V[o] \in Seq(Txid)
    BY <1>5, <2>2, <2>3, AppendFacts
  <2>5. Recorded = [o \in Stream |-> [i \in DOMAIN W[o] |-> G[W[o][i]]]]
    <3>1. \A o \in Stream : \A i \in DOMAIN W[o] : W[o][i] \in Txid
      BY <2>3
    <3>2. Recorded = [o \in Stream |->
                        [i \in DOMAIN W[o] |->
                            [id |-> chain[W[o][i]].change,
                             change |-> Content(chain[W[o][i]])]]]
      BY <2>3 DEF Recorded
    <3> QED
      BY <2>1, <3>1, <3>2
  <2>6. Recorded' = [o \in Stream |-> [i \in DOMAIN V[o] |-> G[V[o][i]]]]
    <3>1. \A o \in Stream : \A i \in DOMAIN V[o] : V[o][i] \in Txid
      BY <2>4
    <3>2. Recorded' = [o \in Stream |->
                         [i \in DOMAIN V[o] |->
                             [id |-> chain[V[o][i]].change,
                              change |-> Content(chain[V[o][i]])]]]
      BY <2>3 DEF Recorded, Content
    <3> QED
      BY <2>1, <3>1, <3>2
  <2>7. [i \in DOMAIN V[st] |-> G[V[st][i]]] =
           Append([i \in DOMAIN W[st] |-> G[W[st][i]]], G[k])
    <3>1. PICK q : q = W[st] /\ q \in Seq(Txid)
      BY <1>5, <2>3
    <3>2. V[st] = Append(q, k)
      BY <1>5, <2>2, <3>1
    <3>3. PICK S, Y : S = Txid /\ Y = {G[i] : i \in Txid}
      OBVIOUS
    <3>4. q \in Seq(S) /\ k \in S /\ \A x \in S : G[x] \in Y
      BY <1>5, <3>1, <3>3
    <3>5. [i \in DOMAIN Append(q, k) |-> G[Append(q, k)[i]]] =
             Append([i \in DOMAIN q |-> G[q[i]]], G[k])
      BY <3>4, MapAppend
    <3> QED
      BY <3>1, <3>2, <3>5
  <2>8. G[k] = Ledger!Item(n, Content(e))
    BY <1>3, <1>5, <1>8, <2>1 DEF Ledger!Item
  <2>9. \A o \in Stream \ {st} : V[o] = W[o]
    BY <2>2
  <2>10. Recorded[st] = [i \in DOMAIN W[st] |-> G[W[st][i]]]
    BY <1>5, <2>5
  <2>11. PICK A, B, x : /\ A = Recorded /\ x = Ledger!Item(n, Content(e))
                        /\ B = [o \in Stream |-> [i \in DOMAIN V[o] |-> G[V[o][i]]]]
    OBVIOUS
  <2>12. A = [o \in Stream |-> A[o]] /\ B = [o \in Stream |-> B[o]]
    BY <2>5, <2>11
  <2>13. \A o \in Stream \ {st} : B[o] = A[o]
    <3> SUFFICES ASSUME NEW o \in Stream \ {st} PROVE B[o] = A[o]
      OBVIOUS
    <3>1. PICK q : q = V[o] /\ q = W[o]
      BY <2>9
    <3>2. B[o] = [i \in DOMAIN q |-> G[q[i]]]
      BY <2>11, <3>1
    <3>3. A[o] = [i \in DOMAIN q |-> G[q[i]]]
      BY <2>5, <2>11, <3>1
    <3> QED
      BY <3>2, <3>3
  <2>14. B[st] = Append(A[st], x)
    <3>1. B[st] = [i \in DOMAIN V[st] |-> G[V[st][i]]]
      BY <1>5, <2>11
    <3> QED
      BY <2>7, <2>8, <2>10, <2>11, <3>1
  <2>15. B = [A EXCEPT ![st] = Append(A[st], x)]
    BY <1>5, <2>12, <2>13, <2>14
  <2> QED
    BY <2>6, <2>11, <2>15
<1>21. Ledger!Record(n)
  <2>1. Waiting[n].stream = st
    BY <1>5, <1>16 DEF Content
  <2> QED
    BY <1>16, <1>17, <1>18, <1>20, <2>1 DEF Ledger!Record
<1> QED
  BY <1>16, <1>21

LEMMA LedgerInit ==
  ASSUME OneRun, Init, WholeInv
  PROVE  Ledger!Init
<1>1. WalkFacts /\ LedgerFacts(OnlyWriter) /\ OnlyWriter \in Writer
  BY WholeWalkFacts, WholeLedgerFacts, OneRunWriter
<1>2. /\ DOMAIN outbox = {} /\ Len(chain) = 0
  BY DEF Init, CaptureInit, WriterInit, NoMap
<1>3. \A st \in Stream : Walk(st) = <<>>
  BY <1>1, <1>2 DEF Walk, LedgerFacts, WalkFacts
<1>4. Waiting = [n \in {} |-> n]
  BY <1>2 DEF Waiting
<1>5. Recorded = [st \in Stream |-> <<>>]
  <2>1. PICK W : W = [st \in Stream |-> Walk(st)]
    OBVIOUS
  <2>2. \A st \in Stream : W[st] = <<>> /\ Walk(st) = W[st] /\ DOMAIN W[st] = {}
    BY <1>3, <2>1
  <2>3. Recorded = [st \in Stream |->
                       [i \in DOMAIN W[st] |->
                           [id |-> chain[W[st][i]].change,
                            change |-> Content(chain[W[st][i]])]]]
    BY <2>2 DEF Recorded
  <2>4. \A st \in Stream : [i \in DOMAIN W[st] |->
                              [id |-> chain[W[st][i]].change,
                               change |-> Content(chain[W[st][i]])]] = <<>>
    BY <2>2
  <2> QED
    BY <2>3, <2>4
<1> QED
  BY <1>4, <1>5 DEF Ledger!Init

LEMMA LedgerStep ==
  ASSUME Undisturbed, WholeInv, WholeInv', [Next]_vars
  PROVE  Ledger!Next
<1> USE DEF Undisturbed
<1>1. PICK w \in Writer : w = OnlyWriter
  BY OneRunWriter
<1>2. /\ WriterInv /\ WriterTypeOK /\ CaptureInv /\ RunInv(w) /\ CaptureTypeOK
  BY <1>1 DEF WholeInv, DrainInv, SystemInv, WriterInv, CaptureInv
<1>3. [CaptureNext]_captureVars /\ OutboxGrows
  BY <1>2, OutboxOnlyGrows DEF Next, vars
<1> DEFINE Keeps == /\ Len(chain) <= Len(chain')
                    /\ \A i \in Txid : chain'[i] = chain[i]
                    /\ \A st \in Stream : prevLink'[w][st] = prevLink[w][st]
<1>4. ASSUME Keeps PROVE Ledger!Next
  <2>1. Ledger!Commit
    BY <1>1, <1>3, <1>4, LedgerCommits
  <2> QED
    BY <2>1 DEF Ledger!Next
<1>5. Len(chain) \in Nat
  BY <1>2 DEF WriterTypeOK
<1>6. ASSUME chain' = chain, prevLink'[w] = prevLink[w] PROVE Keeps
  BY <1>5, <1>6
<1>7. CASE UNCHANGED writerVars
  <2>1. chain' = chain /\ prevLink' = prevLink
    BY <1>7 DEF writerVars, nodeVars, drainVars
  <2> QED
    BY <1>4, <1>6, <2>1
<1>8. ASSUME UNCHANGED captureVars, pc[w] \in {"index", "leak"}, Advance(w),
             Goto(w, "drain"), chain' = chain
      PROVE  Ledger!Next
  BY <1>1, <1>8, LedgerRecords DEF Ledger!Next
<1>9. CASE WriterNext /\ UNCHANGED captureVars
  <2>1. ~Crash(w)
    BY DEF OneRun, Crash
  <2>2. Start(w) \/ WriterStep(w)
    BY <1>1, <1>9, <2>1, OneRunWriter DEF WriterNext
  <2>3. CASE LoadPending(w)
    <3>1. chain = <<>> /\ chain' = chain /\ Done(w) = 0
      BY <1>2, <2>3 DEF LoadPending, At, nodeVars, RunInv, PhaseInv, Fresh, Done,
         Unfinished, InFlight
    <3>2. \A st \in Stream : prevLink[w][st] = 0
      BY <1>1, <3>1, WholeLedgerFacts DEF LedgerFacts
    <3>3. \A st \in Stream : prevLink'[w][st] = 0
      BY <1>2, <2>3 DEF LoadPending, WriterTypeOK
    <3> QED
      BY <1>4, <1>5, <3>1, <3>2, <3>3
  <2>4. CASE SendEntry(w)
    <3>1. PICK n \in todo[w] : chain' = Append(chain, NewEntry(w, n))
      BY <2>4 DEF SendEntry
    <3>2. prevLink' = prevLink
      BY <2>4 DEF SendEntry
    <3>3. NewEntry(w, n) \in Entry
      BY <1>2, NewEntryFacts DEF WriterInv, TodoInv
    <3>4. Len(chain') = Len(chain) + 1 /\ \A i \in 1 .. Len(chain) : chain'[i] = chain[i]
      BY <1>2, <3>1, <3>3, AppendFacts DEF WriterTypeOK
    <3> QED
      BY <1>4, <1>5, <3>2, <3>4 DEF Txid
  <2>5. CASE IndexEntry(w) \/ CheckLeak(w)
    <3>1. CASE CheckLeak(w)
      <4>1. pc[w] = "leak" /\ chain' = chain
        BY <3>1 DEF CheckLeak, At, nodeVars
      <4>2. CASE Goto(w, "drain") /\ Advance(w)
        BY <1>8, <1>9, <4>1, <4>2
      <4>3. CASE prevLink' = prevLink
        BY <1>4, <1>6, <4>1, <4>3
      <4> QED
        BY <3>1, <4>2, <4>3 DEF CheckLeak
    <3>2. CASE IndexEntry(w) /\ ~chain[txid[w]].committed
      BY <1>8, <1>9, <3>2 DEF IndexEntry, At, nodeVars
    <3>3. CASE IndexEntry(w) /\ chain[txid[w]].committed
      <4>1. chain' = chain /\ prevLink' = prevLink
        BY <3>3 DEF IndexEntry, nodeVars
      <4> QED
        BY <1>4, <1>6, <4>1
    <3> QED
      BY <2>5, <3>1, <3>2, <3>3
  <2>6. CASE \/ Start(w) \/ SendToAddress(w) \/ ConfirmFunding(w)
             \/ FindFunding(w) \/ LoadConfidential(w) \/ LoadStreamConf(w)
             \/ SendFails(w) \/ MineEntry(w) \/ MarkSent(w) \/ StoreBlinding(w)
    <3>1. chain' = chain /\ prevLink' = prevLink
      BY <2>6 DEF Start, SendToAddress, ConfirmFunding, FindFunding,
         LoadConfidential, LoadStreamConf, SendFails, MineEntry, MarkSent,
         StoreBlinding, nodeVars, drainVars
    <3> QED
      BY <1>4, <1>6, <3>1
  <2>7. CASE \/ BeginVerify(w) \/ ReadHead(w) \/ Rebuild(w) \/ ReadTables(w)
             \/ Compare(w) \/ Finish(w) \/ \E t \in Table : ReadTable(w, t)
    <3>1. chain' = chain /\ prevLink' = prevLink
      BY <2>7 DEF BeginVerify, ReadHead, Rebuild, ReadTables, ReadTable, Compare,
         Finish, nodeVars, drainVars
    <3> QED
      BY <1>4, <1>6, <3>1
  <2> QED
    BY <2>2, <2>3, <2>4, <2>5, <2>6, <2>7 DEF WriterStep
<1> QED
  BY <1>7, <1>9 DEF Next, vars

\* ImplementsLedger: an undisturbed run records each change that its query
\* returned exactly once, in its stream, the changes of one cell oldest first,
\* and what clients commit meanwhile waits.
THEOREM LedgerImplemented ==
  ASSUME Undisturbed
  PROVE  Spec => ImplementsLedger
<1>1. Init /\ WholeInv => Ledger!Init
  BY LedgerInit DEF Undisturbed
<1>2. WholeInv /\ WholeInv' /\ [Next]_vars => [Ledger!Next]_<<Waiting, Recorded>>
  BY LedgerStep
<1>3. Spec => []WholeInv
  BY WholeInvariant
<1> QED
  BY <1>1, <1>2, <1>3, PTL DEF Spec, ImplementsLedger, Ledger!Spec, Ledger!vars

=============================================================================
