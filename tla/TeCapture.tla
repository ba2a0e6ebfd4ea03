----------------------------- MODULE TeCapture -----------------------------
(***************************************************************************)
(* The SQL surface: client sessions run transactions on the user tables,   *)
(* the te.capture() trigger writes one outbox row per changed column in    *)
(* the same transaction, and te.journal_table() registers a table.         *)
(*                                                                         *)
(* PostgreSQL at READ COMMITTED is external: a statement sees committed    *)
(* rows and its own transaction's; it waits while another open             *)
(* transaction has written the row or the key; a rollback discards rows    *)
(* and outbox rows but not the identity values they consumed.              *)
(*                                                                         *)
(* Identity values are compared only by order: a capturing statement       *)
(* reserves one per column of the table.                                   *)
(***************************************************************************)
EXTENDS TeSchema

CONSTANTS
    Session,           \* concurrent database sessions
    MaxSeq,            \* bound on the identity values of te.outbox.seq
    Rekeys,            \* pairs <<old, new>> a key-changing UPDATE may use
    Registrations,     \* <<table, stream, confidential>> journal_table calls
    NewRelationships,  \* streams an operator may add while clients run
    InitialJournalled  \* the registrations made before the clients start

ASSUME CaptureAssumption ==
    /\ MaxSeq \in Nat
    /\ Rekeys \subseteq Key \X Key
    /\ \A p \in Rekeys : p[1] # p[2]
    /\ Registrations \subseteq Table \X Stream \X BOOLEAN
    /\ NewRelationships \subseteq Stream
    /\ DOMAIN InitialJournalled \subseteq Table
    /\ \A t \in DOMAIN InitialJournalled :
          InitialJournalled[t] \in Registration

VARIABLES
    nextSeq,   \* the identity sequence of te.outbox
    writes,    \* per session, rows written by its open transaction
    captured,  \* per session, outbox rows inserted by its open transaction
    rekeyed    \* history: the rows key-changing UPDATEs have named

sessionVars == <<nextSeq, writes, captured, rekeyed>>
captureVars == <<schemaVars, sessionVars>>

CaptureInit ==
    /\ live = [l \in Loc |-> Absent]
    /\ journalled = InitialJournalled
    /\ relationship = {InitialJournalled[t].stream :
                          t \in DOMAIN InitialJournalled}
    /\ outbox = NoMap
    /\ nextSeq = 1
    /\ writes = [s \in Session |-> NoMap]
    /\ captured = [s \in Session |-> NoMap]
    /\ rekeyed = {}

-----------------------------------------------------------------------------
View(s, l) == IF l \in DOMAIN writes[s] THEN writes[s][l] ELSE live[l]

\* The row or key lock of l is not held by another open transaction.
Lockable(s, l) == \A o \in Session \ {s} : l \notin DOMAIN writes[o]

\* The outbox rows the trigger inserts for the columns cols of row (t, k).
CaptureRows(t, k, op, cols, row) ==
    [n \in {nextSeq + c - 1 : c \in cols} |->
        LET c == n - nextSeq + 1
        IN  [stream |-> journalled[t].stream, table |-> t, row |-> k,
             column |-> c, op |-> op,
             value |-> IF op = "DELETE" THEN NULL ELSE row[c]]]

\* te.capture(): nothing for a table that is not journalled.
Capture(s, t, k, op, cols, row) ==
    IF t \notin DOMAIN journalled \/ cols = {}
    THEN UNCHANGED <<nextSeq, captured>>
    ELSE /\ nextSeq + NumColumns <= MaxSeq + 1
         /\ captured' = [captured EXCEPT ![s] =
                            Join(@, CaptureRows(t, k, op, cols, row))]
         /\ nextSeq' = nextSeq + NumColumns

\* Mutant of ChangedColumns: v_new <> v_old, which is NULL for a NULL.
UnequalColumns(old, new) ==
    {c \in Column : new[c] # old[c] /\ NULL \notin {new[c], old[c]}}

\* The columns an UPDATE reports: v_new IS DISTINCT FROM v_old.
ChangedColumns(old, new) == {c \in Column : new[c] # old[c]}

Insert(s, t, k) ==
    /\ Lockable(s, <<t, k>>)
    /\ View(s, <<t, k>>) = Absent
    /\ \E row \in RowValue :
          /\ writes' = [writes EXCEPT ![s] = Put(@, <<t, k>>, row)]
          /\ Capture(s, t, k, "INSERT", Column, row)
    /\ UNCHANGED <<schemaVars, rekeyed>>

Update(s, t, k) ==
    /\ Lockable(s, <<t, k>>)
    /\ View(s, <<t, k>>) # Absent
    /\ \E row \in RowValue :
          /\ writes' = [writes EXCEPT ![s] = Put(@, <<t, k>>, row)]
          /\ Capture(s, t, k, "UPDATE",
                     ChangedColumns(View(s, <<t, k>>), row), row)
    /\ UNCHANGED <<schemaVars, rekeyed>>

\* An UPDATE that changes the primary key: the trigger takes the row identity
\* from NEW and still reports only the columns whose value changed.
UpdateKey(s, t, k, k2) ==
    /\ <<k, k2>> \in Rekeys
    /\ Lockable(s, <<t, k>>) /\ Lockable(s, <<t, k2>>)
    /\ View(s, <<t, k>>) # Absent
    /\ View(s, <<t, k2>>) = Absent
    /\ \E row \in RowValue :
          /\ writes' = [writes EXCEPT ![s] =
                           Put(Put(@, <<t, k>>, Absent), <<t, k2>>, row)]
          /\ Capture(s, t, k2, "UPDATE",
                     ChangedColumns(View(s, <<t, k>>), row), row)
    /\ rekeyed' = rekeyed \cup {<<t, k>>, <<t, k2>>}
    /\ UNCHANGED schemaVars

Delete(s, t, k) ==
    /\ Lockable(s, <<t, k>>)
    /\ View(s, <<t, k>>) # Absent
    /\ writes' = [writes EXCEPT ![s] = Put(@, <<t, k>>, Absent)]
    /\ Capture(s, t, k, "DELETE", Column, View(s, <<t, k>>))
    /\ UNCHANGED <<schemaVars, rekeyed>>

\* Mutant of Commit: the rows become visible without their outbox rows.
CommitRowsOnly(s) ==
    /\ writes[s] # NoMap
    /\ live' = [l \in Loc |-> View(s, l)]
    /\ writes' = [writes EXCEPT ![s] = NoMap]
    /\ captured' = [captured EXCEPT ![s] = NoMap]
    /\ UNCHANGED <<journalled, relationship, outbox, nextSeq, rekeyed>>

\* COMMIT publishes the rows and their outbox rows together (SYS-PG-003).
Commit(s) ==
    /\ writes[s] # NoMap
    /\ live' = [l \in Loc |-> View(s, l)]
    /\ outbox' = Join(outbox, captured[s])
    /\ writes' = [writes EXCEPT ![s] = NoMap]
    /\ captured' = [captured EXCEPT ![s] = NoMap]
    /\ UNCHANGED <<journalled, relationship, nextSeq, rekeyed>>

Rollback(s) ==
    /\ writes[s] # NoMap
    /\ writes' = [writes EXCEPT ![s] = NoMap]
    /\ captured' = [captured EXCEPT ![s] = NoMap]
    /\ UNCHANGED <<schemaVars, nextSeq, rekeyed>>

\* te.journal_table(): CREATE TRIGGER waits for every open transaction that
\* wrote the table, and te.journalled.stream_id references te.relationship.
\* Rows already in the table are not captured.
JournalTable(t, st, cf) ==
    /\ <<t, st, cf>> \in Registrations
    /\ st \in relationship
    /\ \A s \in Session : \A l \in DOMAIN writes[s] : l[1] # t
    /\ journalled' = Put(journalled, t, [stream |-> st, confidential |-> cf])
    /\ UNCHANGED <<live, relationship, outbox, sessionVars>>

\* INSERT INTO te.relationship ... ON CONFLICT DO NOTHING.
AddRelationship(st) ==
    /\ st \in NewRelationships \ relationship
    /\ relationship' = relationship \cup {st}
    /\ UNCHANGED <<live, journalled, outbox, sessionVars>>

CaptureNext ==
    \/ \E s \in Session, t \in Table, k \in Key :
          \/ Insert(s, t, k)
          \/ Update(s, t, k)
          \/ \E k2 \in Key : UpdateKey(s, t, k, k2)
          \/ Delete(s, t, k)
    \/ \E s \in Session : Commit(s) \/ Rollback(s)
    \/ \E t \in Table, st \in Stream, cf \in BOOLEAN : JournalTable(t, st, cf)
    \/ \E st \in Stream : AddRelationship(st)

CaptureSpec == CaptureInit /\ [][CaptureNext]_captureVars

-----------------------------------------------------------------------------
IsPartialFcn(f, D, R) == DOMAIN f \subseteq D /\ \A x \in DOMAIN f : f[x] \in R

CaptureTypeOK ==
    /\ live \in [Loc -> RowValue \cup {Absent}]
    /\ IsPartialFcn(journalled, Table, Registration)
    /\ relationship \subseteq Stream
    /\ IsPartialFcn(outbox, Nat \ {0}, Change)
    /\ nextSeq \in Nat \ {0}
    /\ rekeyed \subseteq Loc
    /\ DOMAIN writes = Session
    /\ DOMAIN captured = Session
    /\ \A s \in Session :
          /\ IsPartialFcn(writes[s], Loc, RowValue \cup {Absent})
          /\ IsPartialFcn(captured[s], Nat \ {0}, Change)

\* The third entry agrees with the first two: of the committed outbox rows of
\* a cell, the one with the highest seq, which te.verify reports and with
\* which a replay in seq order ends, says what the table holds, although seq
\* is assigned when the statement runs and not when it commits
\* (001_te_schema.sql:25 and 59-114).  A key-changing UPDATE breaks this for
\* the two rows it names.
LastChangeIsLive ==
    \A t \in Table, k \in Key, c \in Column, n \in DOMAIN outbox :
        (IsLatest(n, t, k, c) /\ <<t, k>> \notin rekeyed) =>
            IF outbox[n].op = "DELETE"
            THEN live[<<t, k>>] = Absent
            ELSE /\ live[<<t, k>>] # Absent
                 /\ outbox[n].value = live[<<t, k>>][c]

\* Every committed row of a table journalled from the start has been
\* captured in every column (SYS-PG-002, 001_te_schema.sql:58), with the same
\* exception.
EveryRowCaptured ==
    \A t \in DOMAIN InitialJournalled, k \in Key, c \in Column :
        (live[<<t, k>>] # Absent /\ <<t, k>> \notin rekeyed)
            => CellChanges(t, k, c) # {}
=============================================================================
