---------------------------- MODULE TripleEntry ----------------------------
(***************************************************************************)
(* The triple-entry system: client sessions on the SQL surface (TeCapture) *)
(* and writer processes (TeWriter), interleaved at the granularity of one  *)
(* SQL statement or one RPC, sharing the database.                         *)
(***************************************************************************)
EXTENDS TeCapture, TeWriter

vars == <<captureVars, writerVars>>

Init == CaptureInit /\ WriterInit

Next ==
    \/ CaptureNext /\ UNCHANGED writerVars
    \/ WriterNext /\ UNCHANGED captureVars

Spec == Init /\ [][Next]_vars

\* A started writer runs until it exits; nothing obliges clients to issue
\* statements, or an operator to start a writer.
FairSpec ==
    Spec /\ \A w \in Writer : WF_vars(UNCHANGED captureVars /\ WriterStep(w))

-----------------------------------------------------------------------------
(* Type invariant of the writer and its chain.                             *)

Steps == {"off", "fund", "confirm", "find", "confidential", "streamConf",
          "pending", "drain", "mine", "mark", "index", "blind", "leak",
          "verify", "rebuild", "tables", "cells"}
Outcomes == {"none", "pass", "crash", "no keys", "rejected", "leaked",
             "not a commitment", "bad image", "null", "mismatch"}
SentRow == [stream_seq : Nat, txid : Nat \ {0}]

WriterTypeOK ==
    /\ IsPartialFcn(sent, Nat \ {0}, SentRow)
    /\ IsPartialFcn(chainIndex, Stream \X Nat, Nat \ {0})
    /\ IsPartialFcn(blinding, Stream \X Nat, Nat)
    /\ chain \in Seq(Entry)
    /\ mined \in 0 .. Len(chain)
    /\ fundings \in Nat
    /\ pc \in [Writer -> Steps]
    /\ runs \in [Writer -> 0 .. MaxRuns]
    /\ outcome \in [Writer -> Outcomes]
    /\ rels \in [Writer -> SUBSET Stream]
    /\ DOMAIN conf = Writer
    /\ \A w \in Writer : IsPartialFcn(conf[w], Table, BOOLEAN)
    /\ streamConf \in [Writer -> SUBSET Stream]
    /\ utxo \in [Writer -> Output]
    /\ sats \in [Writer -> 0 .. Funding]
    /\ todo \in [Writer -> SUBSET (Nat \ {0})]
    /\ cur \in [Writer -> Nat]
    /\ txid \in [Writer -> Nat]
    /\ streamSeq \in [Writer -> [Stream -> Nat]]
    /\ prevLink \in [Writer -> [Stream -> Nat]]
    /\ toVerify \in [Writer -> SUBSET Stream]
    /\ toRead \in [Writer -> SUBSET Table]
    /\ DOMAIN cells = Writer
    /\ \A w \in Writer : IsPartialFcn(cells[w], Cell, Value)

TypeOK == CaptureTypeOK /\ WriterTypeOK

-----------------------------------------------------------------------------
(* Safety, whatever crashes, restarts, writers and sessions do.            *)

\* An entry of the chain records outbox row n.
Records(e, n) ==
    /\ e.stream = outbox[n].stream
    /\ e.table = outbox[n].table
    /\ e.row = outbox[n].row
    /\ e.column = outbox[n].column
    /\ e.op = outbox[n].op
    /\ e.value = Image(outbox[n].value)

\* No change is lost on its way to the chain: a row leaves 'pending' only
\* when a mined transaction carries its content at the position the row
\* names, although the row is read, sent, mined and updated in separate
\* steps (main.go:139-207).
SentAnchored ==
    \A n \in DOMAIN sent :
        /\ n \in DOMAIN outbox
        /\ sent[n].txid \in 1 .. mined
        /\ Records(chain[sent[n].txid], n)
        /\ chain[sent[n].txid].seq = sent[n].stream_seq

\* te.chain_index names, for (stream, seq), a mined entry of that stream with
\* that seq, also after restarts overwrote it (main.go:208-210).
IndexSound ==
    \A i \in DOMAIN chainIndex :
        /\ chainIndex[i] \in 1 .. mined
        /\ chain[chainIndex[i]].stream = i[1]
        /\ chain[chainIndex[i]].seq = i[2]

\* Every entry continues an earlier entry of its own stream or is a genesis,
\* so a walk along prev_txid ends and counts seq down to 0, even when two
\* runs or two writers interleave on one stream (main.go:156-157, 227-228).
ChainLinked ==
    \A n \in Txid :
        LET e == chain[n] IN
        \/ e.prev = 0 /\ e.seq = 0
        \/ /\ e.prev \in 1 .. n - 1
           /\ chain[e.prev].stream = e.stream
           /\ chain[e.prev].seq + 1 = e.seq

\* A writer never loses a race for its coins: when it is about to send, the
\* output it spends is unspent and no other writer's (main.go:109, 229).
CoinsOwned ==
    \A w \in Writer :
        pc[w] = "drain" =>
            /\ Unspent(utxo[w])
            /\ \A v \in Writer \ {w} : pc[v] = "drain" => utxo[v] # utxo[w]

\* What te.verify calls anchored is true of the table: if the latest outbox
\* row of a cell has a txid, that transaction is mined and records the
\* cell's committed content (001_te_schema.sql:137-145), unless a key-changing
\* UPDATE named the row.
VerifyTellsTruth ==
    \A t \in Table, k \in Key, c \in Column, n \in DOMAIN sent :
        (IsLatest(n, t, k, c) /\ <<t, k>> \notin rekeyed) =>
            LET e == chain[sent[n].txid] IN
            /\ sent[n].txid \in 1 .. mined
            /\ IF e.op = "DELETE"
               THEN live[<<t, k>>] = Absent
               ELSE /\ live[<<t, k>>] # Absent
                    /\ e.value = Image(live[<<t, k>>][c])

-----------------------------------------------------------------------------
(* One run of one writer.                                                  *)

Drained(w) == pc[w] \in {"verify", "rebuild", "tables", "cells"}

\* The rebuilt stream is the database at the instant the pending rows were
\* read, whatever the sessions have committed since and in whatever order
\* their identity values were assigned (main.go:139-149, 233-263).
RebuildIsSnapshot ==
    \A w \in Writer : Drained(w) =>
        \A st \in rels[w] \ streamConf[w] :
            Replay(Path[HeadOf(st)]) =
                [c \in {x \in Table \X Key \X Column :
                           /\ x[1] \in DOMAIN journalled
                           /\ journalled[x[1]].stream = st
                           /\ snap[w][<<x[1], x[2]>>] # Absent} |->
                    Image(snap[w][<<c[1], c[2]>>][c[3]])]

\* The comparison raises an alarm on a stream only if the run left a change of
\* that stream undelivered, although it reads te.journalled and each table in
\* statements of their own, so that what it compares need not be what the
\* tables held at any one time (main.go:247-261, 268-295).
AlarmMeansPending ==
    [][\A w \in Writer :
          (pc[w] = "cells" /\ outcome'[w] = "mismatch")
              => \E n \in Pending : outbox[n].stream = head[w][1]]_vars

\* Every commitment that has been marked, indexed and left behind can be
\* opened with te.blinding (main.go:212-216, 001_te_schema.sql:48-50).
CommitmentsOpen ==
    \A w \in Writer, n \in Txid :
        (/\ pc[w] \notin {"mine", "mark", "index", "blind"}
         /\ chain[n].committed)
            => LET i == <<chain[n].stream, chain[n].seq>>
               IN  i \in DOMAIN blinding /\ blinding[i] = chain[n].r

\* The run implements the ledger: a change is in the ledger once the writer
\* has moved on to the next row.
OnlyWriter == CHOOSE w \in Writer : TRUE
Walk(st) == Path[prevLink[OnlyWriter][st]]
InLedger == {chain[n].change : n \in
                UNION {Range(Walk(st)) : st \in Stream}}
Content(e) == [stream |-> e.stream, table |-> e.table, row |-> e.row,
               column |-> e.column, op |-> e.op, value |-> e.value]
OnChainForm(o) == [o EXCEPT !.value = Image(@)]

\* The ledger's two variables.
Waiting == [n \in DOMAIN outbox \ InLedger |-> OnChainForm(outbox[n])]
Recorded == [st \in Stream |->
                [i \in DOMAIN Walk(st) |->
                    [id |-> chain[Walk(st)[i]].change,
                     change |-> Content(chain[Walk(st)[i]])]]]

Ledger == INSTANCE ThirdEntryLedger WITH waiting <- Waiting, ledger <- Recorded

ImplementsLedger == Ledger!Spec

\* The tables of stream st are registered with different flags.
Mixed(st) ==
    \E t, u \in DOMAIN journalled :
        /\ journalled[t].stream = st /\ journalled[u].stream = st
        /\ journalled[t].confidential # journalled[u].confidential

\* With funds and keys, a run fails on its own entries in two cases only: on
\* the entry of a confidential change whose plaintext other octets of the
\* transaction can repeat, which is then on the chain, marked and indexed
\* (main.go:217-222), and on the walk of a stream whose tables have different
\* flags (main.go:102-130, 241-246, 426-428).
CleanRun ==
    \A w \in Writer :
        /\ outcome[w] \notin {"no keys", "rejected", "bad image"}
        /\ outcome[w] = "not a commitment" => Mixed(head[w][1])
        /\ outcome[w] = "leaked" =>
              /\ txid[w] \in 1 .. mined
              /\ chain[txid[w]].committed
              /\ chain[txid[w]].value \in Occurring
              /\ cur[w] \in DOMAIN sent
              /\ IndexKey(chain[txid[w]]) \in DOMAIN chainIndex

\* A row that a run has read is done only once it is marked sent, and a
\* started run with funds and keys ends with all of them done unless it takes
\* one for a leak, whatever sessions do meanwhile (main.go:150-229, 231-265).
RunDelivers ==
    /\ [][\A w \in Writer : todo[w] \ todo'[w] \subseteq DOMAIN sent]_vars
    /\ \A w \in Writer :
          pc[w] # "off" ~>
              pc[w] = "off" /\ (todo[w] = {} \/ outcome[w] = "leaked")

-----------------------------------------------------------------------------
(* What the documents promise across restarts.                             *)

\* SECURITY-REVIEW.md:32-34 "a restart re-delivers without double-recording".
RecordedOnce ==
    \A m, n \in Txid : chain[m].change = chain[n].change => m = n

\* SECURITY-REVIEW.md:32-34 "... or losing entries": while no writer runs,
\* the walk from the indexed head reaches the transaction of every sent row.
NoEntryLost ==
    (\A w \in Writer : pc[w] = "off") =>
        \A n \in DOMAIN sent :
            sent[n].txid \in Range(Path[HeadOf(outbox[n].stream)])

\* main.go:262 "cold-rebuild == live DB": a run that passes has rebuilt the
\* cells it read from the tables.
PassMeansEqual ==
    [][\A w \in Writer :
          (pc[w] = "cells" /\ pc'[w] = "verify")
              => Replay(Path[head[w][2]]) = cells[w]]_vars
=============================================================================
