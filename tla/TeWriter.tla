------------------------------ MODULE TeWriter ------------------------------
(***************************************************************************)
(* The third-entry writer (services-go/cmd/tewriter/main.go): a process    *)
(* that an operator starts, that funds itself, reads the catalogs, drains  *)
(* the pending outbox rows onto the chain one at a time, then rebuilds     *)
(* every stream from the chain and compares it with the tables.            *)
(*                                                                         *)
(* Every statement to the database or the node is a step of its own: the   *)
(* process can die, or an RPC can time out after the node has obeyed it,   *)
(* between any two (ck and fail end the process, lines 470-478).           *)
(*                                                                         *)
(* External: the node.  It appends a transaction to chain iff the output   *)
(* it spends is unspent and covers the outputs, and a generated block      *)
(* confirms every transaction it knows.  Transaction number n has txid n;  *)
(* 0 stands for the empty prev_txid.  Amounts count envelopes (1000 sat).  *)
(***************************************************************************)
EXTENDS TeSchema, SequencesExt

CONSTANTS
    Writer,      \* writer processes (one is deployed: SECURITY-REVIEW.md:57)
    Funding,     \* what one walletFund provides (20 BSV in the code)
    Occurring,   \* values whose octets a transaction can hold by chance
    MaxRuns,     \* bound on the starts of each writer
    MayCrash     \* whether a writer can die between two steps

ASSUME WriterAssumption ==
    /\ Funding \in Nat
    /\ Occurring \subseteq Value \ {NULL, EmptyString}
    /\ MaxRuns \in Nat
    /\ MayCrash \in BOOLEAN

VARIABLES
    \* the database, written by the writer only
    sent,        \* outbox rows with status 'sent': seq -> stream_seq, txid
    chainIndex,  \* te.chain_index: <<stream, seq>> -> txid
    blinding,    \* te.blinding: <<stream, seq>> -> r
    \* the node
    chain,       \* the entry transactions, in the order it accepted them
    mined,       \* how many of them are in a block
    fundings,    \* the funding transactions so far
    \* each writer process
    pc, runs, outcome,
    rels, conf, streamConf,           \* what it read from the catalogs
    utxo, sats,                       \* the output it spends next
    todo, cur, txid,                  \* the pending rows, the one in hand
    streamSeq, prevLink,              \* per stream, in memory only
    toVerify, head, toRead, cells,    \* cold rebuild and comparison
    snap                              \* history: live as of LoadPending

dbVars == <<sent, chainIndex, blinding>>
nodeVars == <<chain, mined, fundings>>
controlVars == <<pc, runs, outcome>>
catalogVars == <<rels, conf, streamConf>>
coinVars == <<utxo, sats>>
drainVars == <<todo, cur, txid, streamSeq, prevLink, snap>>
verifyVars == <<toVerify, head, toRead, cells>>
writerVars == <<dbVars, nodeVars, controlVars, catalogVars, coinVars,
                drainVars, verifyVars>>

Txid == 1 .. Len(chain)

\* Outputs a writer can spend: a funding's, or a writer transaction's change.
NoOutput == <<"none", 0>>
Funded(n) == <<"funding", n>>
ChangeOf(n) == <<"change", n>>
Output == {"none", "funding", "change"} \X Nat

\* A third entry as the transaction carries it: M(c), the change image and
\* the spent output.  An image is a value, hidden under the blinding r when
\* committed; r = 0 in a plaintext image.  The field change is a history
\* variable: the outbox row the entry was built from.
Entry == [stream : Stream, table : Table, row : Key, column : Column, op : Op,
          seq : Nat, prev : Nat, value : Value \cup {EmptyString},
          committed : BOOLEAN, r : Nat, spends : Output, change : Nat]

Image(v) == IF v = NULL THEN EmptyString ELSE v

Pending == DOMAIN outbox \ DOMAIN sent

WriterInit ==
    /\ sent = NoMap /\ chainIndex = NoMap /\ blinding = NoMap
    /\ chain = <<>> /\ mined = 0 /\ fundings = 0
    /\ pc = [w \in Writer |-> "off"]
    /\ runs = [w \in Writer |-> 0]
    /\ outcome = [w \in Writer |-> "none"]
    /\ rels = [w \in Writer |-> {}]
    /\ conf = [w \in Writer |-> NoMap]
    /\ streamConf = [w \in Writer |-> {}]
    /\ utxo = [w \in Writer |-> NoOutput]
    /\ sats = [w \in Writer |-> 0]
    /\ todo = [w \in Writer |-> {}]
    /\ cur = [w \in Writer |-> 0]
    /\ txid = [w \in Writer |-> 0]
    /\ streamSeq = [w \in Writer |-> [st \in Stream |-> 0]]
    /\ prevLink = [w \in Writer |-> [st \in Stream |-> 0]]
    /\ toVerify = [w \in Writer |-> {}]
    /\ head = [w \in Writer |-> <<>>]
    /\ toRead = [w \in Writer |-> {}]
    /\ cells = [w \in Writer |-> NoMap]
    /\ snap = [w \in Writer |-> live]

-----------------------------------------------------------------------------
(* Control: at(w, p) when w's next step is p, goto it, or exit.            *)

At(w, p) == pc[w] = p
Goto(w, p) == /\ pc' = [pc EXCEPT ![w] = p]
              /\ UNCHANGED <<runs, outcome>>
Exit(w, how) == /\ pc' = [pc EXCEPT ![w] = "off"]
                /\ outcome' = [outcome EXCEPT ![w] = how]
                /\ UNCHANGED runs

\* The operator starts the process; it reads te.relationship.
Start(w) ==
    /\ At(w, "off") /\ runs[w] < MaxRuns
    /\ pc' = [pc EXCEPT ![w] = "fund"]
    /\ runs' = [runs EXCEPT ![w] = @ + 1]
    /\ outcome' = [outcome EXCEPT ![w] = "none"]
    /\ rels' = [rels EXCEPT ![w] = relationship]
    /\ UNCHANGED <<dbVars, nodeVars, conf, streamConf, coinVars, drainVars,
                   verifyVars>>

\* walletFund: a wallet payment to the writer's key ...
SendToAddress(w) ==
    /\ At(w, "fund")
    /\ fundings' = fundings + 1
    /\ utxo' = [utxo EXCEPT ![w] = Funded(fundings + 1)]
    /\ Goto(w, "confirm")
    /\ UNCHANGED <<dbVars, chain, mined, catalogVars, sats, drainVars,
                   verifyVars>>

\* ... a block that confirms it, and whatever else the node knows ...
ConfirmFunding(w) ==
    /\ At(w, "confirm")
    /\ mined' = Len(chain)
    /\ Goto(w, "find")
    /\ UNCHANGED <<dbVars, chain, fundings, catalogVars, coinVars, drainVars,
                   verifyVars>>

\* ... and the output, found by its script with what it holds.
FindFunding(w) ==
    /\ At(w, "find")
    /\ sats' = [sats EXCEPT ![w] = Funding]
    /\ Goto(w, "confidential")
    /\ UNCHANGED <<dbVars, nodeVars, catalogVars, utxo, drainVars, verifyVars>>

LoadConfidential(w) ==
    /\ At(w, "confidential")
    /\ conf' = [conf EXCEPT ![w] =
                   [t \in DOMAIN journalled |-> journalled[t].confidential]]
    /\ Goto(w, "streamConf")
    /\ UNCHANGED <<dbVars, nodeVars, rels, streamConf, coinVars, drainVars,
                   verifyVars>>

\* bool_or(confidential) over the tables of each stream.
LoadStreamConf(w) ==
    /\ At(w, "streamConf")
    /\ streamConf' = [streamConf EXCEPT ![w] =
                         {journalled[t].stream : t \in
                            {u \in DOMAIN journalled :
                                journalled[u].confidential}}]
    /\ Goto(w, "pending")
    /\ UNCHANGED <<dbVars, nodeVars, rels, conf, coinVars, drainVars,
                   verifyVars>>

\* Mutant of LoadPending: the position is resumed, the link is not.
LoadPendingResumesSeq(w) ==
    /\ At(w, "pending")
    /\ todo' = [todo EXCEPT ![w] = Pending]
    /\ streamSeq' = [streamSeq EXCEPT ![w] = [st \in Stream |->
                        Cardinality({i \in DOMAIN chainIndex : i[1] = st})]]
    /\ prevLink' = [prevLink EXCEPT ![w] = [st \in Stream |-> 0]]
    /\ snap' = [snap EXCEPT ![w] = live]
    /\ Goto(w, "drain")
    /\ UNCHANGED <<dbVars, nodeVars, catalogVars, coinVars, cur, txid,
                   verifyVars>>

\* Mutant of LoadPending: the rows are claimed as they are read, before they
\* have a transaction.
LoadPendingClaims(w) ==
    /\ At(w, "pending")
    /\ sent' = Join(sent, [n \in Pending |-> [stream_seq |-> 0, txid |-> 0]])
    /\ todo' = [todo EXCEPT ![w] = Pending]
    /\ streamSeq' = [streamSeq EXCEPT ![w] = [st \in Stream |-> 0]]
    /\ prevLink' = [prevLink EXCEPT ![w] = [st \in Stream |-> 0]]
    /\ snap' = [snap EXCEPT ![w] = live]
    /\ Goto(w, "drain")
    /\ UNCHANGED <<chainIndex, blinding, nodeVars, catalogVars, coinVars, cur,
                   txid, verifyVars>>

\* The pending rows are read once; the per-stream position starts from
\* nothing, whatever te.chain_index holds.
LoadPending(w) ==
    /\ At(w, "pending")
    /\ todo' = [todo EXCEPT ![w] = Pending]
    /\ streamSeq' = [streamSeq EXCEPT ![w] = [st \in Stream |-> 0]]
    /\ prevLink' = [prevLink EXCEPT ![w] = [st \in Stream |-> 0]]
    /\ snap' = [snap EXCEPT ![w] = live]
    /\ Goto(w, "drain")
    /\ UNCHANGED <<dbVars, nodeVars, catalogVars, coinVars, cur, txid,
                   verifyVars>>

-----------------------------------------------------------------------------
(* Draining one outbox row.                                                *)

\* Mutant of NextRow: ORDER BY seq DESC.
NewestRow(w, n) == n \in todo[w] /\ \A m \in todo[w] : m <= n

\* ORDER BY seq.
NextRow(w, n) == n \in todo[w] /\ \A m \in todo[w] : n <= m

\* Mutant of Confidential: the flag is never read.
NeverConfidential(w, t) == FALSE

\* A table the writer read no flag for is not confidential (a Go map's zero).
Confidential(w, t) == t \in DOMAIN conf[w] /\ conf[w][t]

NewEntry(w, n) ==
    LET o == outbox[n] IN
    [stream |-> o.stream, table |-> o.table, row |-> o.row,
     column |-> o.column, op |-> o.op,
     seq |-> streamSeq[w][o.stream], prev |-> prevLink[w][o.stream],
     value |-> Image(o.value),
     committed |-> Confidential(w, o.table),
     r |-> IF Confidential(w, o.table) THEN Len(chain) + 1 ELSE 0,
     spends |-> utxo[w], change |-> n]

Unspent(u) == \A i \in Txid : chain[i].spends # u

\* External, the node's verdict; change := utxoSats - envelopeSats wraps below zero.
Accepts(w) == Unspent(utxo[w]) /\ sats[w] >= 1

SendEntry(w) ==
    /\ At(w, "drain")
    /\ \E n \in todo[w] :
          /\ NextRow(w, n)
          /\ outbox[n].stream \in rels[w]
          /\ Accepts(w)
          /\ chain' = Append(chain, NewEntry(w, n))
          /\ cur' = [cur EXCEPT ![w] = n]
    /\ txid' = [txid EXCEPT ![w] = Len(chain) + 1]
    /\ Goto(w, "mine")
    /\ UNCHANGED <<dbVars, mined, fundings, catalogVars, coinVars, todo,
                   streamSeq, prevLink, snap, verifyVars>>

\* No keys for the row's stream, or the node refuses the transaction.
SendFails(w) ==
    /\ At(w, "drain")
    /\ \E n \in todo[w] :
          /\ NextRow(w, n)
          /\ \/ outbox[n].stream \notin rels[w] /\ Exit(w, "no keys")
             \/ /\ outbox[n].stream \in rels[w]
                /\ ~Accepts(w)
                /\ Exit(w, "rejected")
    /\ UNCHANGED <<dbVars, nodeVars, catalogVars, coinVars, drainVars,
                   verifyVars>>

\* Mutant of MineEntry: the row is marked without waiting for a block.
MineLater(w) ==
    /\ At(w, "mine")
    /\ Goto(w, "mark")
    /\ UNCHANGED <<dbVars, nodeVars, catalogVars, coinVars, drainVars,
                   verifyVars>>

MineEntry(w) ==
    /\ At(w, "mine")
    /\ mined' = Len(chain)
    /\ Goto(w, "mark")
    /\ UNCHANGED <<dbVars, chain, fundings, catalogVars, coinVars, drainVars,
                   verifyVars>>

\* Mutant of MarkSent: WHERE seq = the entry's stream position.
MarkSentByStreamSeq(w) ==
    /\ At(w, "mark")
    /\ sent' = Put(sent, chain[txid[w]].seq,
                   [stream_seq |-> chain[txid[w]].seq, txid |-> txid[w]])
    /\ Goto(w, "index")
    /\ UNCHANGED <<chainIndex, blinding, nodeVars, catalogVars, coinVars,
                   drainVars, verifyVars>>

\* UPDATE te.outbox SET status='sent', stream_seq, txid WHERE seq = ...
MarkSent(w) ==
    /\ At(w, "mark")
    /\ sent' = Put(sent, cur[w],
                   [stream_seq |-> chain[txid[w]].seq, txid |-> txid[w]])
    /\ Goto(w, "index")
    /\ UNCHANGED <<chainIndex, blinding, nodeVars, catalogVars, coinVars,
                   drainVars, verifyVars>>

\* Mutant of Advance: one link for all streams.
AdvanceOneLink(w) ==
    LET e == chain[txid[w]] IN
    /\ streamSeq' = [streamSeq EXCEPT ![w][e.stream] = e.seq + 1]
    /\ prevLink' = [prevLink EXCEPT ![w] = [st \in Stream |-> txid[w]]]
    /\ utxo' = [utxo EXCEPT ![w] = ChangeOf(txid[w])]
    /\ sats' = [sats EXCEPT ![w] = @ - 1]
    /\ todo' = [todo EXCEPT ![w] = @ \ {cur[w]}]

\* Mutant of Advance: the spent output is kept.
AdvanceKeepsOutput(w) ==
    LET e == chain[txid[w]] IN
    /\ streamSeq' = [streamSeq EXCEPT ![w][e.stream] = e.seq + 1]
    /\ prevLink' = [prevLink EXCEPT ![w][e.stream] = txid[w]]
    /\ todo' = [todo EXCEPT ![w] = @ \ {cur[w]}]
    /\ UNCHANGED coinVars

\* The row is done: lines 227-229.
Advance(w) ==
    LET e == chain[txid[w]] IN
    /\ streamSeq' = [streamSeq EXCEPT ![w][e.stream] = e.seq + 1]
    /\ prevLink' = [prevLink EXCEPT ![w][e.stream] = txid[w]]
    /\ utxo' = [utxo EXCEPT ![w] = ChangeOf(txid[w])]
    /\ sats' = [sats EXCEPT ![w] = @ - 1]
    /\ todo' = [todo EXCEPT ![w] = @ \ {cur[w]}]

\* Mutant of IndexKey: the position is advanced before it is stored.
NextKey(e) == <<e.stream, e.seq + 1>>

\* The primary key of te.chain_index, and of te.blinding, for an entry.
IndexKey(e) == <<e.stream, e.seq>>

\* INSERT INTO te.chain_index ... ON CONFLICT (stream_id, seq) DO UPDATE.
IndexEntry(w) ==
    LET e == chain[txid[w]] IN
    /\ At(w, "index")
    /\ chainIndex' = Put(chainIndex, IndexKey(e), txid[w])
    /\ IF e.committed
       THEN /\ Goto(w, "blind")
            /\ UNCHANGED <<coinVars, todo, streamSeq, prevLink>>
       ELSE Goto(w, "drain") /\ Advance(w)
    /\ UNCHANGED <<sent, blinding, nodeVars, catalogVars, cur, txid, snap,
                   verifyVars>>

\* Mutant of StoreBlinding: the insert is left out.
SkipBlinding(w) ==
    /\ At(w, "blind")
    /\ Goto(w, "leak")
    /\ UNCHANGED <<dbVars, nodeVars, catalogVars, coinVars, drainVars,
                   verifyVars>>

\* INSERT INTO te.blinding ... ON CONFLICT (stream_id, seq) DO UPDATE.
StoreBlinding(w) ==
    LET e == chain[txid[w]] IN
    /\ At(w, "blind")
    /\ blinding' = Put(blinding, IndexKey(e), e.r)
    /\ Goto(w, "leak")
    /\ UNCHANGED <<sent, chainIndex, nodeVars, catalogVars, coinVars, drainVars,
                   verifyVars>>

\* Mutant of MayOccur: the whole image is searched, an empty one occurs.
EmptyOccurs(e) == e.value \in Occurring \cup {EmptyString}

\* The commitment hides the value, but the rest of the transaction (names,
\* hashes, keys, the signature) can hold its octets too.
MayOccur(e) == e.value \in Occurring

\* The raw transaction is searched for the plaintext: the run ends if it is
\* found, and goes on to the next row otherwise.
CheckLeak(w) ==
    /\ At(w, "leak")
    /\ \/ Goto(w, "drain") /\ Advance(w)
       \/ /\ MayOccur(chain[txid[w]])
          /\ Exit(w, "leaked")
          /\ UNCHANGED <<coinVars, todo, streamSeq, prevLink>>
    /\ UNCHANGED <<dbVars, nodeVars, catalogVars, cur, txid, snap, verifyVars>>

-----------------------------------------------------------------------------
(* Cold rebuild: walk from the head to genesis, verify, replay, compare.   *)

\* The entries from genesis to n, following prev_txid back from n.
Path ==
    LET p[n \in 0 .. Len(chain)] ==
            IF n = 0 THEN <<>> ELSE Append(p[chain[n].prev], n)
    IN  p

\* SELECT txid FROM te.chain_index ... ORDER BY seq DESC LIMIT 1.
StreamIndex(st) == {i \in DOMAIN chainIndex : i[1] = st}
HeadOf(st) ==
    IF StreamIndex(st) = {} THEN 0
    ELSE chainIndex[CHOOSE i \in StreamIndex(st) :
                        \A j \in StreamIndex(st) : j[2] <= i[2]]

Cell == Table \X Key \X Column

\* Mutant of Apply: a DELETE entry does not remove the cell.
ApplyKeepsDeleted(state, n) ==
    Put(state, <<chain[n].table, chain[n].row, chain[n].column>>,
        chain[n].value)

\* One step of the replay.
Apply(state, n) ==
    LET e == chain[n]
        c == <<e.table, e.row, e.column>>
    IN  IF e.op = "DELETE"
        THEN [x \in DOMAIN state \ {c} |-> state[x]]
        ELSE Put(state, c, e.value)
Replay(path) == FoldLeft(Apply, NoMap, path)

\* What SELECT id, balance finds in a table: liveCells projects the column
\* balance, the demo's only one.
Balance == 1
CellsOf(tables, t) ==
    [c \in {x \in {t} \X Key \X {Balance} : tables[<<x[1], x[2]>>] # Absent} |->
        tables[<<c[1], c[2]>>][Balance]]

BeginVerify(w) ==
    /\ At(w, "drain") /\ todo[w] = {}
    /\ toVerify' = [toVerify EXCEPT ![w] = rels[w]]
    /\ Goto(w, "verify")
    /\ UNCHANGED <<dbVars, nodeVars, catalogVars, coinVars, drainVars, head, toRead, cells>>

\* Go's comparison: as many cells, and every live cell's value found, where a
\* cell missing from the rebuilt map reads as the empty string.
LookupOr(f, x) == IF x \in DOMAIN f THEN f[x] ELSE EmptyString
SameCells(rebuilt, tables) ==
    /\ Cardinality(DOMAIN tables) = Cardinality(DOMAIN rebuilt)
    /\ \A x \in DOMAIN tables : LookupOr(rebuilt, x) = tables[x]

\* A stream without index rows is skipped.
ReadHead(w) ==
    /\ At(w, "verify")
    /\ \E st \in toVerify[w] :
          IF HeadOf(st) = 0
          THEN /\ toVerify' = [toVerify EXCEPT ![w] = @ \ {st}]
               /\ UNCHANGED <<head, controlVars>>
          ELSE /\ head' = [head EXCEPT ![w] = <<st, HeadOf(st)>>]
               /\ Goto(w, "rebuild")
               /\ UNCHANGED toVerify
    /\ UNCHANGED <<dbVars, nodeVars, catalogVars, coinVars, drainVars, toRead,
                   cells>>

\* coldVerifyConfidential accepts 32-byte commitments only, and
\* plaintextValue refuses to decode one.
AllCommitments(path) == \A n \in Range(path) : chain[n].committed
NoCommitments(path) == \A n \in Range(path) : ~chain[n].committed

\* Stream st is verified: on to the next.
Verified(w, st) ==
    /\ Goto(w, "verify")
    /\ toVerify' = [toVerify EXCEPT ![w] = @ \ {st}]

\* The walk from the head to genesis, one RPC per entry; entries never change,
\* so it is one step.  Every tag verifies: the entries carry the tags the same
\* keys computed.
Rebuild(w) ==
    LET st == head[w][1]
        path == Path[head[w][2]]
        Ends(how) == Exit(w, how) /\ UNCHANGED toVerify
    IN
    /\ At(w, "rebuild")
    /\ IF st \in streamConf[w]
       THEN IF AllCommitments(path)
            THEN Verified(w, st)
            ELSE Ends("not a commitment")
       ELSE IF NoCommitments(path)
            THEN Goto(w, "tables") /\ UNCHANGED toVerify
            ELSE Ends("bad image")
    /\ UNCHANGED <<dbVars, nodeVars, catalogVars, coinVars, drainVars, head,
                   toRead, cells>>

\* liveCells: SELECT ... FROM te.journalled WHERE stream_id = ...
ReadTables(w) ==
    /\ At(w, "tables")
    /\ toRead' = [toRead EXCEPT ![w] = {t \in DOMAIN journalled :
                                         journalled[t].stream = head[w][1]}]
    /\ cells' = [cells EXCEPT ![w] = NoMap]
    /\ Goto(w, "cells")
    /\ UNCHANGED <<dbVars, nodeVars, catalogVars, coinVars, drainVars, toVerify,
                   head>>

\* ... then one SELECT per table, with sessions committing in between; Scan
\* into a string fails on NULL.
ReadTable(w, t) ==
    LET found == CellsOf(live, t) IN
    /\ At(w, "cells") /\ t \in toRead[w]
    /\ IF NULL \in Range(found)
       THEN Exit(w, "null") /\ UNCHANGED <<toRead, cells>>
       ELSE /\ cells' = [cells EXCEPT ![w] = Join(found, @)]
            /\ toRead' = [toRead EXCEPT ![w] = @ \ {t}]
            /\ UNCHANGED controlVars
    /\ UNCHANGED <<dbVars, nodeVars, catalogVars, coinVars, drainVars, toVerify,
                   head>>

Compare(w) ==
    /\ At(w, "cells") /\ toRead[w] = {}
    /\ IF SameCells(Replay(Path[head[w][2]]), cells[w])
       THEN Verified(w, head[w][1])
       ELSE Exit(w, "mismatch") /\ UNCHANGED toVerify
    /\ UNCHANGED <<dbVars, nodeVars, catalogVars, coinVars, drainVars, head,
                   toRead, cells>>

Finish(w) ==
    /\ At(w, "verify") /\ toVerify[w] = {}
    /\ Exit(w, "pass")
    /\ UNCHANGED <<dbVars, nodeVars, catalogVars, coinVars, drainVars,
                   verifyVars>>

\* The process dies, or an RPC or statement returns an error, between steps:
\* what it had in memory is gone.
Crash(w) ==
    /\ MayCrash /\ ~At(w, "off")
    /\ Exit(w, "crash")
    /\ rels' = [rels EXCEPT ![w] = {}]
    /\ conf' = [conf EXCEPT ![w] = NoMap]
    /\ streamConf' = [streamConf EXCEPT ![w] = {}]
    /\ utxo' = [utxo EXCEPT ![w] = NoOutput]
    /\ sats' = [sats EXCEPT ![w] = 0]
    /\ todo' = [todo EXCEPT ![w] = {}]
    /\ cur' = [cur EXCEPT ![w] = 0]
    /\ txid' = [txid EXCEPT ![w] = 0]
    /\ streamSeq' = [streamSeq EXCEPT ![w] = [st \in Stream |-> 0]]
    /\ prevLink' = [prevLink EXCEPT ![w] = [st \in Stream |-> 0]]
    /\ toVerify' = [toVerify EXCEPT ![w] = {}]
    /\ head' = [head EXCEPT ![w] = <<>>]
    /\ toRead' = [toRead EXCEPT ![w] = {}]
    /\ cells' = [cells EXCEPT ![w] = NoMap]
    /\ snap' = [snap EXCEPT ![w] = [l \in Loc |-> Absent]]
    /\ UNCHANGED <<dbVars, nodeVars>>

WriterStep(w) ==
    \/ SendToAddress(w) \/ ConfirmFunding(w) \/ FindFunding(w)
    \/ LoadConfidential(w) \/ LoadStreamConf(w) \/ LoadPending(w)
    \/ SendEntry(w) \/ SendFails(w) \/ MineEntry(w) \/ MarkSent(w)
    \/ IndexEntry(w) \/ StoreBlinding(w) \/ CheckLeak(w)
    \/ BeginVerify(w) \/ ReadHead(w) \/ Rebuild(w) \/ ReadTables(w)
    \/ \E t \in Table : ReadTable(w, t)
    \/ Compare(w) \/ Finish(w)

WriterNext ==
    \E w \in Writer : Start(w) \/ WriterStep(w) \/ Crash(w)
=============================================================================
