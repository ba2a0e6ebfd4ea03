------------------------------ MODULE TeSchema ------------------------------
(***************************************************************************)
(* The part of the database that the capture trigger and the writer share: *)
(* the user's tables, the te.relationship and te.journalled catalogs and   *)
(* the content columns of te.outbox (pg-fork/sql-surface/001_te_schema.sql).*)
(*                                                                         *)
(* The three columns of te.outbox that the writer fills (status,           *)
(* stream_seq, txid) are the variable sent of TeWriter: one UPDATE         *)
(* statement assigns all three, so a row is 'pending' exactly while it has *)
(* no image in sent.                                                       *)
(***************************************************************************)
EXTENDS Integers, Sequences, FiniteSets

CONSTANTS
    Table,       \* user tables
    Key,         \* primary-key values (te.outbox.row_id)
    NumColumns,  \* non-key columns, numbered as jsonb_object_keys lists them
    Value,       \* column values, NULL among them where a column is nullable
    NULL,        \* SQL NULL, the value of every DELETE entry
    EmptyString, \* what the writer puts on chain for NULL
    Stream,      \* te.relationship.stream_id
    Absent       \* no row with this key

Column == 1 .. NumColumns
Loc == Table \X Key                        \* a row's identity
RowValue == [Column -> Value]
Op == {"INSERT", "UPDATE", "DELETE"}

Registration == [stream : Stream, confidential : BOOLEAN]

\* The content of an outbox row.
Change == [stream : Stream, table : Table, row : Key, column : Column,
           op : Op, value : Value \cup {NULL}]

ASSUME SchemaAssumption ==
    /\ NumColumns \in Nat \ {0}
    /\ Absent \notin RowValue

VARIABLES
    live,          \* the committed content of the user tables
    journalled,    \* te.journalled: a partial function on Table
    relationship,  \* te.relationship: the streams that have keys
    outbox         \* te.outbox, committed rows: a partial function on seq

schemaVars == <<live, journalled, relationship, outbox>>

-----------------------------------------------------------------------------
NoMap == [x \in {} |-> x]

\* Partial functions: f overridden or extended at k by v; f together with g.
Put(f, k, v) == [x \in DOMAIN f \cup {k} |-> IF x = k THEN v ELSE f[x]]
Join(f, g) == [x \in DOMAIN f \cup DOMAIN g |->
                   IF x \in DOMAIN f THEN f[x] ELSE g[x]]

\* The outbox rows of one cell.
CellChanges(t, k, c) ==
    {n \in DOMAIN outbox :
        outbox[n].table = t /\ outbox[n].row = k /\ outbox[n].column = c}
\* Mutant of IsLatest: ORDER BY seq without DESC.
IsOldest(n, t, k, c) ==
    n \in CellChanges(t, k, c) /\ \A m \in CellChanges(t, k, c) : n <= m

\* The row te.verify's DISTINCT ON (column_id) ... ORDER BY column_id, seq DESC
\* selects.
IsLatest(n, t, k, c) ==
    /\ n \in CellChanges(t, k, c)
    /\ \A m \in CellChanges(t, k, c) : m <= n
=============================================================================
