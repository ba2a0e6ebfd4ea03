--------------------------- MODULE TeCaptureProofs ---------------------------
(***************************************************************************)
(* Proofs about the SQL surface: for every set of sessions, tables, keys   *)
(* and columns, and however transactions interleave, the latest committed  *)
(* outbox row of a cell says what the table holds.                         *)
(*                                                                         *)
(* LastChangeIsLive is not inductive: a COMMIT makes it depend on what the *)
(* committing transaction holds privately.  CaptureInv adds that row locks *)
(* exclude each other, that seq values are fresh, that a transaction's     *)
(* outbox rows are newer than the committed ones of their cells (it holds  *)
(* the row lock), and that they describe its private rows.                 *)
(***************************************************************************)
EXTENDS TeCapture, TLAPS

SameCell(x, y) == x.table = y.table /\ x.row = y.row /\ x.column = y.column
InCell(x, t, k, c) == x.table = t /\ x.row = k /\ x.column = c

\* Two contents of a row agree at column c; change ch describes content x.
AgreeAt(x, y, c) ==
    /\ x = Absent <=> y = Absent
    /\ x # Absent => x[c] = y[c]
Describes(ch, x, c) ==
    IF ch.op = "DELETE" THEN x = Absent ELSE x # Absent /\ ch.value = x[c]

LockInv ==
    \A s, o \in Session : s # o => DOMAIN writes[s] \cap DOMAIN writes[o] = {}

SeqInv ==
    /\ \A n \in DOMAIN outbox : n < nextSeq
    /\ \A s \in Session : \A n \in DOMAIN captured[s] :
          n < nextSeq /\ n \notin DOMAIN outbox
    /\ \A s, o \in Session :
          s # o => DOMAIN captured[s] \cap DOMAIN captured[o] = {}

NewerInv ==
    /\ \A n \in DOMAIN outbox : outbox[n].table \in DOMAIN journalled
    /\ \A s \in Session : \A n \in DOMAIN captured[s] :
          /\ <<captured[s][n].table, captured[s][n].row>> \in DOMAIN writes[s]
          /\ captured[s][n].table \in DOMAIN journalled
          /\ \A m \in DOMAIN outbox :
                SameCell(outbox[m], captured[s][n]) => m < n

PrivateChanges(s, t, k, c) ==
    {n \in DOMAIN captured[s] : InCell(captured[s][n], t, k, c)}

WriteInv ==
    \A s \in Session, t \in DOMAIN journalled, k \in Key, c \in Column :
        (<<t, k>> \in DOMAIN writes[s] /\ <<t, k>> \notin rekeyed) =>
            /\ PrivateChanges(s, t, k, c) = {} =>
                  AgreeAt(writes[s][<<t, k>>], live[<<t, k>>], c)
            /\ \A n \in PrivateChanges(s, t, k, c) :
                  (\A m \in PrivateChanges(s, t, k, c) : m <= n) =>
                      Describes(captured[s][n], writes[s][<<t, k>>], c)

CaptureInv ==
    /\ CaptureTypeOK
    /\ LockInv
    /\ SeqInv
    /\ NewerInv
    /\ WriteInv
    /\ LastChangeIsLive

-----------------------------------------------------------------------------
LEMMA NumColumnsNat == NumColumns \in Nat \ {0}
  BY SchemaAssumption

LEMMA AbsentNotRow == Absent \notin RowValue
  BY SchemaAssumption

\* The rows one statement captures carry the seq values nextSeq, ...,
\* nextSeq + NumColumns - 1, one per reported column, and are typed.
FreshRows(rows, t, k, op, cols, row) ==
    /\ \A n \in DOMAIN rows :
          /\ n \in Nat \ {0} /\ nextSeq <= n /\ n < nextSeq + NumColumns
          /\ n - nextSeq + 1 \in cols
          /\ rows[n] \in Change
          /\ rows[n].table = t /\ rows[n].row = k
          /\ rows[n].column = n - nextSeq + 1
          /\ rows[n].op = op
          /\ rows[n].value =
                IF op = "DELETE" THEN NULL ELSE row[n - nextSeq + 1]
    /\ \A c \in cols : nextSeq + c - 1 \in DOMAIN rows

LEMMA CaptureRowsFresh ==
  ASSUME NEW t \in DOMAIN journalled, NEW k \in Key, NEW op \in Op,
         NEW cols, cols \subseteq Column,
         NEW row, op # "DELETE" => row \in RowValue,
         CaptureTypeOK
  PROVE  FreshRows(CaptureRows(t, k, op, cols, row), t, k, op, cols, row)
<1> DEFINE rows == CaptureRows(t, k, op, cols, row)
<1>1. DOMAIN rows = {nextSeq + c - 1 : c \in cols}
  BY DEF CaptureRows
<1>2. nextSeq \in Nat \ {0} /\ \A c \in cols : c \in Nat \ {0} /\ c <= NumColumns
  BY NumColumnsNat DEF CaptureTypeOK, Column
<1>3. ASSUME NEW n \in DOMAIN rows
      PROVE  /\ n \in Nat \ {0} /\ nextSeq <= n /\ n < nextSeq + NumColumns
             /\ n - nextSeq + 1 \in cols
  <2>1. PICK c \in cols : n = nextSeq + c - 1
    BY <1>1
  <2>2. n - nextSeq + 1 = c
    BY <2>1, <1>2
  <2> QED
    BY <2>1, <2>2, <1>2, NumColumnsNat
<1>4. ASSUME NEW n \in DOMAIN rows
      PROVE  rows[n] = [stream |-> journalled[t].stream, table |-> t,
                        row |-> k, column |-> n - nextSeq + 1, op |-> op,
                        value |-> IF op = "DELETE" THEN NULL
                                  ELSE row[n - nextSeq + 1]]
  BY <1>1 DEF CaptureRows
<1>5. ASSUME NEW n \in DOMAIN rows
      PROVE  rows[n] \in Change
  <2>1. journalled[t].stream \in Stream /\ t \in Table
    BY DEF CaptureTypeOK, IsPartialFcn, Registration
  <2>2. n - nextSeq + 1 \in Column
    BY <1>3
  <2>3. (IF op = "DELETE" THEN NULL ELSE row[n - nextSeq + 1])
            \in Value \cup {NULL}
    BY <2>2 DEF RowValue
  <2> QED
    BY <1>4, <2>1, <2>2, <2>3 DEF Change
<1>6. ASSUME NEW n \in DOMAIN rows
      PROVE  /\ rows[n].table = t /\ rows[n].row = k
             /\ rows[n].column = n - nextSeq + 1 /\ rows[n].op = op
             /\ rows[n].value = IF op = "DELETE" THEN NULL
                                ELSE row[n - nextSeq + 1]
  BY <1>4
<1>7. \A c \in cols : nextSeq + c - 1 \in DOMAIN rows
  BY <1>1
<1>8. FreshRows(rows, t, k, op, cols, row)
  <2> HIDE DEF rows
  <2> QED
    BY <1>3, <1>5, <1>6, <1>7 DEF FreshRows
<1> QED
  BY <1>8

-----------------------------------------------------------------------------
\* One SQL statement of session s: it replaces s's private rows by W, where
\* it locked every row it added, and captures columns cols of row (t, k).
Statement(s, t, k, op, cols, row, W) ==
    /\ cols \subseteq Column
    /\ op # "DELETE" => row \in RowValue
    /\ IsPartialFcn(W, Loc, RowValue \cup {Absent})
    /\ DOMAIN writes[s] \subseteq DOMAIN W
    /\ <<t, k>> \in DOMAIN W
    /\ \A l \in DOMAIN W \ DOMAIN writes[s] : Lockable(s, l)
    /\ writes' = [writes EXCEPT ![s] = W]
    /\ Capture(s, t, k, op, cols, row)
    /\ rekeyed \subseteq rekeyed'
    /\ rekeyed' \subseteq Loc
    /\ UNCHANGED schemaVars
    /\ \A u \in Table, j \in Key, c \in Column :
          (<<u, j>> \in DOMAIN W /\ <<u, j>> \notin rekeyed') =>
             IF <<u, j>> = <<t, k>> /\ c \in cols
             THEN IF op = "DELETE" THEN W[<<u, j>>] = Absent
                  ELSE W[<<u, j>>] # Absent /\ W[<<u, j>>][c] = row[c]
             ELSE AgreeAt(W[<<u, j>>], View(s, <<u, j>>), c)

SomeStatement(s) ==
    \E t \in Table, k \in Key, op \in Op : \E cols, row, W :
        Statement(s, t, k, op, cols, row, W)

LEMMA StatementStep ==
  ASSUME CaptureInv,
         NEW s \in Session, NEW t \in Table, NEW k \in Key, NEW op \in Op,
         NEW cols, NEW row, NEW W, Statement(s, t, k, op, cols, row, W)
  PROVE  CaptureInv'
<1> DEFINE rows == CaptureRows(t, k, op, cols, row)
<1> DEFINE fires == t \in DOMAIN journalled /\ cols # {}
<1> USE DEF CaptureInv, Statement
<1>1. /\ live' = live /\ journalled' = journalled
      /\ relationship' = relationship /\ outbox' = outbox
  BY DEF schemaVars
<1>2. /\ writes'[s] = W
      /\ \A o \in Session : o # s => writes'[o] = writes[o]
      /\ DOMAIN writes' = Session
  BY DEF CaptureTypeOK
<1>3. CASE fires
  <2>1. /\ captured' = [captured EXCEPT ![s] = Join(@, rows)]
        /\ nextSeq' = nextSeq + NumColumns
    BY <1>3 DEF Capture
  <2>2. /\ captured'[s] = Join(captured[s], rows)
        /\ \A o \in Session : o # s => captured'[o] = captured[o]
        /\ DOMAIN captured' = Session
    BY <2>1 DEF CaptureTypeOK
  <2>3. nextSeq' \in Nat \ {0} /\ nextSeq < nextSeq' /\ nextSeq \in Nat \ {0}
    BY <2>1, NumColumnsNat DEF CaptureTypeOK
  <2>4. /\ \A n \in DOMAIN rows :
               /\ n \in Nat \ {0} /\ nextSeq <= n /\ n < nextSeq'
               /\ n - nextSeq + 1 \in cols
               /\ rows[n] \in Change
               /\ rows[n].table = t /\ rows[n].row = k
               /\ rows[n].column = n - nextSeq + 1
               /\ rows[n].op = op
               /\ rows[n].value =
                     IF op = "DELETE" THEN NULL ELSE row[n - nextSeq + 1]
        /\ \A c \in cols : nextSeq + c - 1 \in DOMAIN rows
    <3>1. t \in DOMAIN journalled /\ CaptureTypeOK
      BY <1>3
    <3>2. FreshRows(rows, t, k, op, cols, row)
      BY <3>1, CaptureRowsFresh
    <3> HIDE DEF rows
    <3> QED
      BY <3>2, <2>1 DEF FreshRows
  <2>5. /\ DOMAIN captured'[s] = DOMAIN captured[s] \cup DOMAIN rows
        /\ \A n \in DOMAIN captured[s] : captured'[s][n] = captured[s][n]
        /\ \A n \in DOMAIN rows : n \notin DOMAIN captured[s]
        /\ \A n \in DOMAIN rows : captured'[s][n] = rows[n]
    <3>1. \A n \in DOMAIN rows : n \notin DOMAIN captured[s]
      BY <2>4, <2>3 DEF SeqInv, CaptureTypeOK, IsPartialFcn
    <3> HIDE DEF rows
    <3> QED
      BY <2>2, <3>1 DEF Join
  <2> HIDE DEF rows
  <2>6. CaptureTypeOK'
    <3>1. \A o \in Session : IsPartialFcn(captured'[o], Nat \ {0}, Change)
      <4>1. IsPartialFcn(captured'[s], Nat \ {0}, Change)
        BY <2>4, <2>5 DEF CaptureTypeOK, IsPartialFcn
      <4> QED
        BY <4>1, <2>2 DEF CaptureTypeOK
    <3>2. \A o \in Session : IsPartialFcn(writes'[o], Loc, RowValue \cup {Absent})
      BY <1>2 DEF CaptureTypeOK
    <3> QED
      BY <1>1, <1>2, <2>2, <2>3, <3>1, <3>2 DEF CaptureTypeOK
  <2>7. LockInv'
    BY <1>2 DEF LockInv, Lockable
  <2>8. SeqInv'
    <3>1. \A n \in DOMAIN outbox' : n < nextSeq'
      BY <1>1, <2>3 DEF SeqInv, CaptureTypeOK, IsPartialFcn
    <3>2. \A o \in Session : \A n \in DOMAIN captured'[o] :
             n < nextSeq' /\ n \notin DOMAIN outbox'
      <4>1. \A n \in DOMAIN rows : n < nextSeq' /\ n \notin DOMAIN outbox
        BY <2>4, <2>3 DEF SeqInv, CaptureTypeOK, IsPartialFcn
      <4>2. \A o \in Session : \A n \in DOMAIN captured[o] :
               n < nextSeq' /\ n \notin DOMAIN outbox
        BY <2>3 DEF SeqInv, CaptureTypeOK, IsPartialFcn
      <4> QED
        BY <4>1, <4>2, <2>2, <2>5, <1>1
    <3>3. \A o \in Session : \A n \in DOMAIN captured[o] : n \notin DOMAIN rows
      BY <2>4, <2>3 DEF SeqInv, CaptureTypeOK, IsPartialFcn
    <3>4. \A o, p \in Session :
             o # p => DOMAIN captured'[o] \cap DOMAIN captured'[p] = {}
      BY <3>3, <2>2, <2>5 DEF SeqInv
    <3> QED
      BY <3>1, <3>2, <3>4 DEF SeqInv
  <2>9. NewerInv'
    <3>1. ASSUME NEW n \in DOMAIN rows
          PROVE  /\ <<rows[n].table, rows[n].row>> \in DOMAIN writes'[s]
                 /\ rows[n].table \in DOMAIN journalled
                 /\ \A m \in DOMAIN outbox : m < n
      BY <2>4, <2>3, <1>2, <1>3 DEF SeqInv, CaptureTypeOK, IsPartialFcn
    <3>2. ASSUME NEW n \in DOMAIN captured[s]
          PROVE  <<captured[s][n].table, captured[s][n].row>> \in DOMAIN writes'[s]
      BY <1>2 DEF NewerInv
    <3> QED
      BY <3>1, <3>2, <1>1, <1>2, <2>2, <2>5 DEF NewerInv, SameCell
  <2>10. WriteInv'
    <3> SUFFICES ASSUME NEW o \in Session, NEW u \in DOMAIN journalled,
                        NEW j \in Key, NEW c \in Column,
                        <<u, j>> \in DOMAIN writes'[o], <<u, j>> \notin rekeyed'
                 PROVE  /\ PrivateChanges(o, u, j, c)' = {} =>
                              AgreeAt(writes'[o][<<u, j>>], live[<<u, j>>], c)
                        /\ \A n \in PrivateChanges(o, u, j, c)' :
                              (\A m \in PrivateChanges(o, u, j, c)' : m <= n) =>
                                 Describes(captured'[o][n],
                                           writes'[o][<<u, j>>], c)
      BY <1>1 DEF WriteInv
    <3>1. CASE o # s
      <4>1. PrivateChanges(o, u, j, c)' = PrivateChanges(o, u, j, c)
        BY <3>1, <2>2 DEF PrivateChanges
      <4> QED
        BY <4>1, <3>1, <1>1, <1>2, <2>2 DEF WriteInv, PrivateChanges
    <3>2. CASE o = s /\ <<u, j>> = <<t, k>> /\ c \in cols
      <4> DEFINE new == nextSeq + c - 1
      <4>1. new \in DOMAIN rows /\ new - nextSeq + 1 = c
        BY <2>4, <2>3, <3>2 DEF Column
      <4>2. new \in PrivateChanges(s, u, j, c)'
        BY <4>1, <2>4, <2>5, <3>2 DEF PrivateChanges, InCell
      <4>3. ASSUME NEW n \in PrivateChanges(s, u, j, c)',
                   \A m \in PrivateChanges(s, u, j, c)' : m <= n
            PROVE  n = new
        <5>1. n \in DOMAIN captured'[s] /\ captured'[s][n].column = c /\ new <= n
          BY <4>3, <4>2 DEF PrivateChanges, InCell
        <5>2. n \in DOMAIN rows
          BY <5>1, <2>5, <4>1, <2>3, <2>4 DEF SeqInv, CaptureTypeOK, IsPartialFcn
        <5>3. n - nextSeq + 1 = c
          BY <5>1, <5>2, <2>4, <2>5
        <5> QED
          BY <5>2, <5>3, <2>3, <2>4, <4>1
      <4>4. Describes(captured'[s][new], W[<<u, j>>], c)
        <5>1. captured'[s][new] = rows[new] /\ rows[new].op = op
              /\ rows[new].value = IF op = "DELETE" THEN NULL ELSE row[c]
          BY <4>1, <2>4, <2>5
        <5> QED
          BY <5>1, <3>2, <1>2 DEF Describes
      <4> HIDE DEF new
      <4> QED
        BY <4>2, <4>3, <4>4, <3>2, <1>2
    <3>3. CASE o = s /\ ~(<<u, j>> = <<t, k>> /\ c \in cols)
      <4>1. PrivateChanges(s, u, j, c)' = PrivateChanges(s, u, j, c)
        BY <3>3, <2>4, <2>5 DEF PrivateChanges, InCell
      <4>2. AgreeAt(W[<<u, j>>], View(s, <<u, j>>), c)
        BY <3>3, <1>2 DEF CaptureTypeOK, IsPartialFcn
      <4>3. CASE <<u, j>> \in DOMAIN writes[s]
        <5>1. <<u, j>> \notin rekeyed /\ View(s, <<u, j>>) = writes[s][<<u, j>>]
          BY <4>3 DEF View
        <5>2. \A n \in PrivateChanges(s, u, j, c) :
                 captured'[s][n] = captured[s][n]
          BY <2>5 DEF PrivateChanges
        <5> QED
          BY <5>1, <5>2, <4>1, <4>2, <4>3, <3>3, <1>2
             DEF WriteInv, AgreeAt, Describes
      <4>4. CASE <<u, j>> \notin DOMAIN writes[s]
        <5>1. PrivateChanges(s, u, j, c) = {}
          BY <4>4 DEF PrivateChanges, InCell, NewerInv
        <5> QED
          BY <5>1, <4>1, <4>2, <4>4, <3>3, <1>2 DEF View
      <4> QED
        BY <4>3, <4>4
    <3> QED
      BY <3>1, <3>2, <3>3
  <2>11. LastChangeIsLive'
    BY <1>1 DEF LastChangeIsLive, IsLatest, CellChanges
  <2> QED
    BY <2>6, <2>7, <2>8, <2>9, <2>10, <2>11
<1>4. CASE ~fires
  <2>1. captured' = captured /\ nextSeq' = nextSeq
    BY <1>4 DEF Capture
  <2>2. CaptureTypeOK'
    <3>1. \A o \in Session : IsPartialFcn(writes'[o], Loc, RowValue \cup {Absent})
      BY <1>2 DEF CaptureTypeOK
    <3> QED
      BY <1>1, <1>2, <2>1, <3>1 DEF CaptureTypeOK
  <2>3. LockInv'
    BY <1>2 DEF LockInv, Lockable
  <2>4. SeqInv'
    BY <1>1, <2>1 DEF SeqInv
  <2>5. NewerInv'
    BY <1>1, <1>2, <2>1 DEF NewerInv, SameCell
  <2>6. WriteInv'
    <3> SUFFICES ASSUME NEW o \in Session, NEW u \in DOMAIN journalled,
                        NEW j \in Key, NEW c \in Column,
                        <<u, j>> \in DOMAIN writes'[o], <<u, j>> \notin rekeyed'
                 PROVE  /\ PrivateChanges(o, u, j, c) = {} =>
                              AgreeAt(writes'[o][<<u, j>>], live[<<u, j>>], c)
                        /\ \A n \in PrivateChanges(o, u, j, c) :
                              (\A m \in PrivateChanges(o, u, j, c) : m <= n) =>
                                 Describes(captured[o][n],
                                           writes'[o][<<u, j>>], c)
      BY <1>1, <2>1 DEF WriteInv, PrivateChanges
    <3>1. CASE o # s
      BY <3>1, <1>2 DEF WriteInv
    <3>2. CASE o = s
      <4>1. ~(<<u, j>> = <<t, k>> /\ c \in cols)
        BY <1>4
      <4>2. AgreeAt(W[<<u, j>>], View(s, <<u, j>>), c)
        BY <3>2, <4>1, <1>2 DEF CaptureTypeOK, IsPartialFcn
      <4>3. CASE <<u, j>> \in DOMAIN writes[s]
        <5>1. <<u, j>> \notin rekeyed /\ View(s, <<u, j>>) = writes[s][<<u, j>>]
          BY <4>3 DEF View
        <5> QED
          BY <5>1, <4>2, <4>3, <3>2, <1>2 DEF WriteInv, AgreeAt, Describes
      <4>4. CASE <<u, j>> \notin DOMAIN writes[s]
        <5>1. PrivateChanges(s, u, j, c) = {}
          BY <4>4 DEF PrivateChanges, InCell, NewerInv
        <5> QED
          BY <5>1, <4>2, <4>4, <3>2, <1>2 DEF View
      <4> QED
        BY <4>3, <4>4
    <3> QED
      BY <3>1, <3>2
  <2>7. LastChangeIsLive'
    BY <1>1 DEF LastChangeIsLive, IsLatest, CellChanges
  <2> QED
    BY <2>2, <2>3, <2>4, <2>5, <2>6, <2>7
<1> QED
  BY <1>3, <1>4

-----------------------------------------------------------------------------
LEMMA SomeStatementStep ==
  ASSUME CaptureInv, NEW s \in Session, SomeStatement(s)
  PROVE  CaptureInv'
  BY StatementStep DEF SomeStatement

LEMMA ViewType ==
  ASSUME CaptureTypeOK, NEW s \in Session, NEW l \in Loc
  PROVE  View(s, l) \in RowValue \cup {Absent}
  BY DEF CaptureTypeOK, IsPartialFcn, View

\* A statement that writes one row of a table, which it can lock.
Writes(s, t, k, op, cols, row, y) ==
    /\ cols \subseteq Column
    /\ op # "DELETE" => row \in RowValue
    /\ y \in RowValue \cup {Absent}
    /\ Lockable(s, <<t, k>>)
    /\ writes' = [writes EXCEPT ![s] = Put(@, <<t, k>>, y)]
    /\ Capture(s, t, k, op, cols, row)
    /\ UNCHANGED <<schemaVars, rekeyed>>
    /\ \A c \in cols : IF op = "DELETE" THEN y = Absent
                       ELSE y # Absent /\ y[c] = row[c]
    /\ \A c \in Column \ cols : AgreeAt(y, View(s, <<t, k>>), c)

LEMMA RowStatement ==
  ASSUME CaptureInv,
         NEW s \in Session, NEW t \in Table, NEW k \in Key, NEW op \in Op,
         NEW cols, NEW row, NEW y, Writes(s, t, k, op, cols, row, y)
  PROVE  SomeStatement(s)
<1> USE DEF Writes
<1> DEFINE W == Put(writes[s], <<t, k>>, y)
<1>1. /\ DOMAIN W = DOMAIN writes[s] \cup {<<t, k>>}
      /\ W[<<t, k>>] = y
      /\ \A z \in DOMAIN writes[s] : z # <<t, k>> => W[z] = writes[s][z]
  BY DEF Put
<1>2. IsPartialFcn(writes[s], Loc, RowValue \cup {Absent}) /\ rekeyed \subseteq Loc
      /\ writes' = [writes EXCEPT ![s] = W]
  BY DEF CaptureInv, CaptureTypeOK
<1> HIDE DEF W
<1>3. IsPartialFcn(W, Loc, RowValue \cup {Absent})
  BY <1>1, <1>2 DEF IsPartialFcn, Loc
<1>4. \A l \in DOMAIN W \ DOMAIN writes[s] : Lockable(s, l)
  BY <1>1
<1>5. ASSUME NEW u \in Table, NEW j \in Key, NEW c \in Column,
             <<u, j>> \in DOMAIN W, <<u, j>> \notin rekeyed'
      PROVE  IF <<u, j>> = <<t, k>> /\ c \in cols
             THEN IF op = "DELETE" THEN W[<<u, j>>] = Absent
                  ELSE W[<<u, j>>] # Absent /\ W[<<u, j>>][c] = row[c]
             ELSE AgreeAt(W[<<u, j>>], View(s, <<u, j>>), c)
  <2>1. CASE <<u, j>> = <<t, k>>
    BY <2>1, <1>1
  <2>2. CASE <<u, j>> # <<t, k>>
    <3>1. <<u, j>> \in DOMAIN writes[s] /\ W[<<u, j>>] = writes[s][<<u, j>>]
      BY <2>2, <1>1, <1>5
    <3>2. W[<<u, j>>] = View(s, <<u, j>>)
      BY <3>1 DEF View
    <3> QED
      BY <3>2, <2>2 DEF AgreeAt
  <2> QED
    BY <2>1, <2>2
<1>6. /\ DOMAIN writes[s] \subseteq DOMAIN W
      /\ <<t, k>> \in DOMAIN W
      /\ rekeyed \subseteq rekeyed' /\ rekeyed' \subseteq Loc
  BY <1>1, <1>2
<1>7. Statement(s, t, k, op, cols, row, W)
  BY <1>2, <1>3, <1>4, <1>5, <1>6 DEF Statement
<1> QED
  BY <1>7 DEF SomeStatement

LEMMA InsertIsStatement ==
  ASSUME CaptureInv, NEW s \in Session, NEW t \in Table, NEW k \in Key,
         Insert(s, t, k)
  PROVE  SomeStatement(s)
<1>1. PICK row \in RowValue :
         /\ writes' = [writes EXCEPT ![s] = Put(@, <<t, k>>, row)]
         /\ Capture(s, t, k, "INSERT", Column, row)
  BY DEF Insert
<1>2. Lockable(s, <<t, k>>) /\ UNCHANGED <<schemaVars, rekeyed>>
  BY DEF Insert
<1>3. row # Absent /\ "INSERT" \in Op
  BY AbsentNotRow DEF Op
<1>4. Writes(s, t, k, "INSERT", Column, row, row)
  BY <1>1, <1>2, <1>3 DEF Writes
<1> QED
  BY <1>3, <1>4, RowStatement

LEMMA UpdateIsStatement ==
  ASSUME CaptureInv, NEW s \in Session, NEW t \in Table, NEW k \in Key,
         Update(s, t, k)
  PROVE  SomeStatement(s)
<1> DEFINE old == View(s, <<t, k>>)
<1>1. PICK row \in RowValue :
         /\ writes' = [writes EXCEPT ![s] = Put(@, <<t, k>>, row)]
         /\ Capture(s, t, k, "UPDATE", ChangedColumns(old, row), row)
  BY DEF Update
<1>2. Lockable(s, <<t, k>>) /\ old # Absent /\ UNCHANGED <<schemaVars, rekeyed>>
  BY DEF Update
<1>3. row # Absent /\ "UPDATE" \in Op
  BY AbsentNotRow DEF Op
<1> HIDE DEF old
<1>4. ChangedColumns(old, row) \subseteq Column
      /\ \A c \in Column \ ChangedColumns(old, row) : AgreeAt(row, old, c)
  BY <1>2, <1>3 DEF ChangedColumns, AgreeAt
<1>5. Writes(s, t, k, "UPDATE", ChangedColumns(old, row), row, row)
  BY <1>1, <1>2, <1>3, <1>4 DEF Writes, old
<1> QED
  BY <1>3, <1>5, RowStatement

LEMMA DeleteIsStatement ==
  ASSUME CaptureInv, NEW s \in Session, NEW t \in Table, NEW k \in Key,
         Delete(s, t, k)
  PROVE  SomeStatement(s)
<1>1. /\ Lockable(s, <<t, k>>)
      /\ writes' = [writes EXCEPT ![s] = Put(@, <<t, k>>, Absent)]
      /\ Capture(s, t, k, "DELETE", Column, View(s, <<t, k>>))
      /\ UNCHANGED <<schemaVars, rekeyed>>
      /\ "DELETE" \in Op
  BY DEF Delete, Op
<1>2. Writes(s, t, k, "DELETE", Column, View(s, <<t, k>>), Absent)
  BY <1>1 DEF Writes
<1> QED
  BY <1>1, <1>2, RowStatement

LEMMA UpdateKeyIsStatement ==
  ASSUME CaptureInv, NEW s \in Session, NEW t \in Table, NEW k \in Key,
         NEW k2 \in Key, UpdateKey(s, t, k, k2)
  PROVE  SomeStatement(s)
<1> DEFINE old == View(s, <<t, k>>)
<1>1. PICK row \in RowValue :
         /\ writes' = [writes EXCEPT ![s] =
                           Put(Put(@, <<t, k>>, Absent), <<t, k2>>, row)]
         /\ Capture(s, t, k2, "UPDATE", ChangedColumns(old, row), row)
  BY DEF UpdateKey
<1> DEFINE W == Put(Put(writes[s], <<t, k>>, Absent), <<t, k2>>, row)
<1>2. /\ Lockable(s, <<t, k>>) /\ Lockable(s, <<t, k2>>)
      /\ rekeyed' = rekeyed \cup {<<t, k>>, <<t, k2>>}
      /\ UNCHANGED schemaVars
  BY DEF UpdateKey
<1>3. k # k2
  BY CaptureAssumption DEF UpdateKey
<1>4. /\ DOMAIN W = DOMAIN writes[s] \cup {<<t, k>>, <<t, k2>>}
      /\ W[<<t, k>>] = Absent /\ W[<<t, k2>>] = row
      /\ \A z \in DOMAIN writes[s] :
            z \notin {<<t, k>>, <<t, k2>>} => W[z] = writes[s][z]
  BY <1>3 DEF Put
<1>5. IsPartialFcn(writes[s], Loc, RowValue \cup {Absent}) /\ rekeyed \subseteq Loc
      /\ writes' = [writes EXCEPT ![s] = W]
  BY <1>1 DEF CaptureInv, CaptureTypeOK
<1> HIDE DEF W, old
<1>6. IsPartialFcn(W, Loc, RowValue \cup {Absent})
  BY <1>4, <1>5 DEF IsPartialFcn, Loc
<1>7. /\ \A l \in DOMAIN W \ DOMAIN writes[s] : Lockable(s, l)
      /\ DOMAIN writes[s] \subseteq DOMAIN W /\ <<t, k2>> \in DOMAIN W
      /\ rekeyed \subseteq rekeyed' /\ rekeyed' \subseteq Loc
  BY <1>2, <1>4, <1>5 DEF Loc
<1>8. ASSUME NEW u \in Table, NEW j \in Key, NEW c \in Column,
             <<u, j>> \in DOMAIN W, <<u, j>> \notin rekeyed'
      PROVE  <<u, j>> # <<t, k2>> /\ AgreeAt(W[<<u, j>>], View(s, <<u, j>>), c)
  <2>1. <<u, j>> \in DOMAIN writes[s] /\ W[<<u, j>>] = writes[s][<<u, j>>]
        /\ <<u, j>> # <<t, k2>>
    BY <1>2, <1>4, <1>8
  <2>2. W[<<u, j>>] = View(s, <<u, j>>)
    BY <2>1 DEF View
  <2> QED
    BY <2>1, <2>2 DEF AgreeAt
<1>9. "UPDATE" \in Op /\ ChangedColumns(old, row) \subseteq Column
  BY DEF Op, ChangedColumns
<1>10. \A u \in Table, j \in Key, c \in Column :
          (<<u, j>> \in DOMAIN W /\ <<u, j>> \notin rekeyed') =>
             IF <<u, j>> = <<t, k2>> /\ c \in ChangedColumns(old, row)
             THEN IF "UPDATE" = "DELETE" THEN W[<<u, j>>] = Absent
                  ELSE W[<<u, j>>] # Absent /\ W[<<u, j>>][c] = row[c]
             ELSE AgreeAt(W[<<u, j>>], View(s, <<u, j>>), c)
  BY <1>8
<1>11. Statement(s, t, k2, "UPDATE", ChangedColumns(old, row), row, W)
  BY <1>1, <1>2, <1>5, <1>6, <1>7, <1>9, <1>10 DEF Statement
<1> QED
  BY <1>9, <1>11 DEF SomeStatement

-----------------------------------------------------------------------------
LEMMA CommitStep ==
  ASSUME CaptureInv, NEW s \in Session, Commit(s)
  PROVE  CaptureInv'
<1> USE DEF CaptureInv
<1>1. /\ live' = [l \in Loc |-> View(s, l)]
      /\ outbox' = Join(outbox, captured[s])
      /\ writes'[s] = NoMap /\ captured'[s] = NoMap
      /\ \A o \in Session : o # s => /\ writes'[o] = writes[o]
                                     /\ captured'[o] = captured[o]
      /\ DOMAIN writes' = Session /\ DOMAIN captured' = Session
      /\ journalled' = journalled /\ relationship' = relationship
      /\ nextSeq' = nextSeq /\ rekeyed' = rekeyed
  BY DEF Commit, CaptureTypeOK
<1>2. /\ DOMAIN outbox' = DOMAIN outbox \cup DOMAIN captured[s]
      /\ \A n \in DOMAIN outbox : outbox'[n] = outbox[n]
      /\ \A n \in DOMAIN captured[s] :
            n \notin DOMAIN outbox /\ outbox'[n] = captured[s][n]
  BY <1>1 DEF Join, SeqInv
<1>3. DOMAIN NoMap = {}
  BY DEF NoMap
<1>4. \A l \in Loc : l \notin DOMAIN writes[s] => live'[l] = live[l]
  BY <1>1 DEF View, CaptureTypeOK
<1>5. \A l \in Loc : l \in DOMAIN writes[s] => live'[l] = writes[s][l]
  BY <1>1 DEF View
<1>6. CaptureTypeOK'
  <2>1. live' \in [Loc -> RowValue \cup {Absent}]
    BY <1>1, ViewType
  <2>2. IsPartialFcn(outbox', Nat \ {0}, Change)
    BY <1>2 DEF CaptureTypeOK, IsPartialFcn
  <2>3. \A o \in Session :
           /\ IsPartialFcn(writes'[o], Loc, RowValue \cup {Absent})
           /\ IsPartialFcn(captured'[o], Nat \ {0}, Change)
    BY <1>1, <1>3 DEF CaptureTypeOK, IsPartialFcn
  <2> QED
    BY <1>1, <2>1, <2>2, <2>3 DEF CaptureTypeOK
<1>7. LockInv'
  BY <1>1, <1>3 DEF LockInv
<1>8. SeqInv'
  <2>1. \A n \in DOMAIN outbox' : n < nextSeq'
    BY <1>1, <1>2 DEF SeqInv
  <2>2. \A o \in Session : \A n \in DOMAIN captured'[o] :
           n < nextSeq' /\ n \notin DOMAIN outbox'
    BY <1>1, <1>2, <1>3 DEF SeqInv
  <2>3. \A o, p \in Session :
           o # p => DOMAIN captured'[o] \cap DOMAIN captured'[p] = {}
    BY <1>1, <1>3 DEF SeqInv
  <2> QED
    BY <2>1, <2>2, <2>3 DEF SeqInv
<1>9. NewerInv'
  <2>1. \A n \in DOMAIN outbox' : outbox'[n].table \in DOMAIN journalled
    BY <1>2 DEF NewerInv
  <2>2. ASSUME NEW o \in Session, o # s, NEW n \in DOMAIN captured[o],
               NEW m \in DOMAIN outbox', SameCell(outbox'[m], captured[o][n])
        PROVE  m < n
    <3>1. CASE m \in DOMAIN outbox
      BY <3>1, <2>2, <1>2 DEF NewerInv
    <3>2. CASE m \in DOMAIN captured[s]
      <4>1. <<captured[s][m].table, captured[s][m].row>> \in DOMAIN writes[s]
        BY <3>2 DEF NewerInv
      <4>2. <<captured[o][n].table, captured[o][n].row>> \in DOMAIN writes[o]
        BY <2>2 DEF NewerInv
      <4>3. SameCell(captured[s][m], captured[o][n])
        BY <3>2, <2>2, <1>2
      <4> QED
        BY <4>1, <4>2, <4>3, <2>2 DEF LockInv, SameCell
    <3> QED
      BY <3>1, <3>2, <1>2
  <2> QED
    BY <1>1, <1>3, <2>1, <2>2 DEF NewerInv
<1>10. WriteInv'
  <2> SUFFICES ASSUME NEW o \in Session, NEW u \in DOMAIN journalled,
                      NEW j \in Key, NEW c \in Column,
                      <<u, j>> \in DOMAIN writes'[o], <<u, j>> \notin rekeyed
               PROVE  /\ PrivateChanges(o, u, j, c)' = {} =>
                            AgreeAt(writes'[o][<<u, j>>], live'[<<u, j>>], c)
                      /\ \A n \in PrivateChanges(o, u, j, c)' :
                            (\A m \in PrivateChanges(o, u, j, c)' : m <= n) =>
                               Describes(captured'[o][n],
                                         writes'[o][<<u, j>>], c)
    BY <1>1 DEF WriteInv
  <2>1. o # s /\ <<u, j>> \in DOMAIN writes[o] /\ <<u, j>> \notin DOMAIN writes[s]
    BY <1>1, <1>3 DEF LockInv
  <2>2. <<u, j>> \in Loc
    BY <2>1 DEF CaptureTypeOK, IsPartialFcn
  <2>3. PrivateChanges(o, u, j, c)' = PrivateChanges(o, u, j, c)
    BY <2>1, <1>1 DEF PrivateChanges
  <2> QED
    BY <2>1, <2>2, <2>3, <1>1, <1>4 DEF WriteInv
<1>11. LastChangeIsLive'
  <2> SUFFICES ASSUME NEW t \in Table, NEW k \in Key, NEW c \in Column,
                      NEW n \in DOMAIN outbox',
                      IsLatest(n, t, k, c)', <<t, k>> \notin rekeyed
               PROVE  Describes(outbox'[n], live'[<<t, k>>], c)
    BY <1>1 DEF LastChangeIsLive, Describes
  <2>1. <<t, k>> \in Loc /\ InCell(outbox'[n], t, k, c)
    BY DEF Loc, IsLatest, CellChanges, InCell
  <2>2. CASE <<t, k>> \notin DOMAIN writes[s]
    <3>1. n \in DOMAIN outbox
      BY <2>1, <2>2, <1>2 DEF NewerInv, InCell
    <3>2. IsLatest(n, t, k, c)
      BY <3>1, <1>2 DEF IsLatest, CellChanges
    <3> QED
      BY <2>1, <2>2, <3>1, <3>2, <1>2, <1>4 DEF LastChangeIsLive, Describes
  <2>3. CASE <<t, k>> \in DOMAIN writes[s] /\ PrivateChanges(s, t, k, c) = {}
    <3>1. n \in DOMAIN outbox
      BY <2>1, <2>3, <1>2 DEF PrivateChanges
    <3>2. IsLatest(n, t, k, c)
      BY <3>1, <1>2 DEF IsLatest, CellChanges
    <3>3. Describes(outbox[n], live[<<t, k>>], c)
      BY <3>1, <3>2 DEF LastChangeIsLive, Describes
    <3>4. t \in DOMAIN journalled
      BY <3>1, <2>1, <1>2 DEF NewerInv, InCell
    <3>5. AgreeAt(writes[s][<<t, k>>], live[<<t, k>>], c)
      BY <2>3, <3>4 DEF WriteInv
    <3> QED
      BY <2>1, <2>3, <3>1, <3>3, <3>5, <1>2, <1>5 DEF Describes, AgreeAt
  <2>4. CASE <<t, k>> \in DOMAIN writes[s] /\ PrivateChanges(s, t, k, c) # {}
    <3>1. PICK m \in PrivateChanges(s, t, k, c) : TRUE
      BY <2>4
    <3>2. m <= n /\ m \in DOMAIN captured[s] /\ InCell(captured[s][m], t, k, c)
      BY <1>2 DEF IsLatest, CellChanges, PrivateChanges, InCell
    <3>3. n \in DOMAIN captured[s]
      <4> SUFFICES ASSUME n \in DOMAIN outbox PROVE FALSE
        BY <1>2
      <4>1. SameCell(outbox[n], captured[s][m])
        BY <2>1, <3>2, <1>2 DEF SameCell, InCell
      <4>2. n < m
        BY <4>1, <3>2 DEF NewerInv
      <4>3. n \in Nat /\ m \in Nat
        BY <3>2 DEF CaptureTypeOK, IsPartialFcn
      <4> QED
        BY <4>2, <4>3, <3>2
    <3>4. n \in PrivateChanges(s, t, k, c)
      BY <3>3, <2>1, <1>2 DEF PrivateChanges
    <3>5. \A i \in PrivateChanges(s, t, k, c) : i <= n
      BY <1>2 DEF IsLatest, CellChanges, PrivateChanges, InCell
    <3>6. t \in DOMAIN journalled
      BY <3>3, <2>1, <1>2 DEF NewerInv, InCell
    <3> QED
      BY <2>1, <2>4, <3>3, <3>4, <3>5, <3>6, <1>2, <1>5 DEF WriteInv
  <2> QED
    BY <2>2, <2>3, <2>4
<1> QED
  BY <1>6, <1>7, <1>8, <1>9, <1>10, <1>11

LEMMA RollbackStep ==
  ASSUME CaptureInv, NEW s \in Session, Rollback(s)
  PROVE  CaptureInv'
<1> USE DEF CaptureInv
<1>1. /\ writes'[s] = NoMap /\ captured'[s] = NoMap
      /\ \A o \in Session : o # s => /\ writes'[o] = writes[o]
                                     /\ captured'[o] = captured[o]
      /\ DOMAIN writes' = Session /\ DOMAIN captured' = Session
      /\ live' = live /\ outbox' = outbox
      /\ journalled' = journalled /\ relationship' = relationship
      /\ nextSeq' = nextSeq /\ rekeyed' = rekeyed
      /\ DOMAIN NoMap = {}
  BY DEF Rollback, CaptureTypeOK, schemaVars, NoMap
<1>2. CaptureTypeOK'
  BY <1>1 DEF CaptureTypeOK, IsPartialFcn
<1> HIDE DEF CaptureInv
<1>3. LockInv'
  BY <1>1 DEF CaptureInv, LockInv
<1>4. SeqInv'
  BY <1>1 DEF CaptureInv, SeqInv
<1>5. NewerInv'
  <2> SUFFICES ASSUME NEW o \in Session, NEW n \in DOMAIN captured'[o]
        PROVE  /\ <<captured'[o][n].table, captured'[o][n].row>>
                     \in DOMAIN writes'[o]
               /\ captured'[o][n].table \in DOMAIN journalled
               /\ \A m \in DOMAIN outbox :
                     SameCell(outbox[m], captured'[o][n]) => m < n
    BY <1>1 DEF CaptureInv, NewerInv, SameCell
  <2>1. o # s
    BY <1>1
  <2> QED
    BY <1>1, <2>1 DEF CaptureInv, NewerInv
<1>6. WriteInv'
  BY <1>1 DEF CaptureInv, WriteInv, PrivateChanges
<1>7. LastChangeIsLive'
  BY <1>1 DEF CaptureInv, LastChangeIsLive, IsLatest, CellChanges
<1> QED
  BY <1>2, <1>3, <1>4, <1>5, <1>6, <1>7 DEF CaptureInv

LEMMA JournalTableStep ==
  ASSUME CaptureInv, NEW t \in Table, NEW st \in Stream, NEW cf \in BOOLEAN,
         JournalTable(t, st, cf)
  PROVE  CaptureInv'
<1> USE DEF CaptureInv
<1>1. /\ DOMAIN journalled' = DOMAIN journalled \cup {t}
      /\ IsPartialFcn(journalled', Table, Registration)
      /\ \A s \in Session : \A l \in DOMAIN writes[s] : l[1] # t
      /\ live' = live /\ outbox' = outbox /\ relationship' = relationship
      /\ nextSeq' = nextSeq /\ rekeyed' = rekeyed
      /\ writes' = writes /\ captured' = captured
  BY DEF JournalTable, Put, CaptureTypeOK, IsPartialFcn, Registration, sessionVars
<1>2. CaptureTypeOK'
  BY <1>1 DEF CaptureTypeOK
<1>3. LockInv' /\ SeqInv' /\ NewerInv'
  BY <1>1 DEF LockInv, SeqInv, NewerInv
<1>4. WriteInv'
  BY <1>1 DEF WriteInv, PrivateChanges
<1>5. LastChangeIsLive'
  BY <1>1 DEF LastChangeIsLive, IsLatest, CellChanges
<1> QED
  BY <1>2, <1>3, <1>4, <1>5

LEMMA SameSurface ==
  ASSUME CaptureInv,
         UNCHANGED <<live, journalled, outbox, sessionVars>>,
         relationship' \subseteq Stream
  PROVE  CaptureInv'
<1> USE DEF CaptureInv, sessionVars
<1>1. CaptureTypeOK'
  BY DEF CaptureTypeOK
<1>2. LockInv' /\ SeqInv' /\ NewerInv'
  BY DEF LockInv, SeqInv, NewerInv
<1>3. WriteInv'
  BY DEF WriteInv, PrivateChanges
<1>4. LastChangeIsLive'
  BY DEF LastChangeIsLive, IsLatest, CellChanges
<1> QED
  BY <1>1, <1>2, <1>3, <1>4

LEMMA CaptureInvInit == CaptureInit => CaptureInv
<1> SUFFICES ASSUME CaptureInit PROVE CaptureInv
  OBVIOUS
<1>1. DOMAIN NoMap = {} /\ DOMAIN outbox = {}
      /\ \A s \in Session : writes[s] = NoMap /\ captured[s] = NoMap
  BY DEF CaptureInit, NoMap
<1>2. CaptureTypeOK
  <2>1. IsPartialFcn(journalled, Table, Registration) /\ relationship \subseteq Stream
    BY CaptureAssumption DEF CaptureInit, IsPartialFcn, Registration
  <2> QED
    BY <1>1, <2>1 DEF CaptureTypeOK, CaptureInit, IsPartialFcn
<1>3. LockInv /\ SeqInv /\ NewerInv /\ WriteInv
  BY <1>1 DEF LockInv, SeqInv, NewerInv, WriteInv
<1>4. LastChangeIsLive
  BY <1>1 DEF LastChangeIsLive
<1> QED
  BY <1>2, <1>3, <1>4 DEF CaptureInv

LEMMA CaptureInvStep == CaptureInv /\ [CaptureNext]_captureVars => CaptureInv'
<1> SUFFICES ASSUME CaptureInv, [CaptureNext]_captureVars
             PROVE  CaptureInv'
  OBVIOUS
<1>1. ASSUME NEW s \in Session, NEW t \in Table, NEW k \in Key, Insert(s, t, k)
      PROVE  CaptureInv'
  BY <1>1, InsertIsStatement, SomeStatementStep
<1>2. ASSUME NEW s \in Session, NEW t \in Table, NEW k \in Key, Update(s, t, k)
      PROVE  CaptureInv'
  BY <1>2, UpdateIsStatement, SomeStatementStep
<1>3. ASSUME NEW s \in Session, NEW t \in Table, NEW k \in Key, NEW k2 \in Key,
             UpdateKey(s, t, k, k2)
      PROVE  CaptureInv'
  BY <1>3, UpdateKeyIsStatement, SomeStatementStep
<1>4. ASSUME NEW s \in Session, NEW t \in Table, NEW k \in Key, Delete(s, t, k)
      PROVE  CaptureInv'
  BY <1>4, DeleteIsStatement, SomeStatementStep
<1>5. ASSUME NEW s \in Session, Commit(s) PROVE CaptureInv'
  BY <1>5, CommitStep
<1>6. ASSUME NEW s \in Session, Rollback(s) PROVE CaptureInv'
  BY <1>6, RollbackStep
<1>7. ASSUME NEW t \in Table, NEW st \in Stream, NEW cf \in BOOLEAN,
             JournalTable(t, st, cf)
      PROVE  CaptureInv'
  BY <1>7, JournalTableStep
<1>8. ASSUME NEW st \in Stream, AddRelationship(st) PROVE CaptureInv'
  <2>1. relationship' \subseteq Stream
    BY <1>8 DEF AddRelationship, CaptureInv, CaptureTypeOK
  <2> QED
    BY <1>8, <2>1, SameSurface DEF AddRelationship
<1>9. CASE UNCHANGED captureVars
  <2>1. relationship' \subseteq Stream
    BY <1>9 DEF captureVars, schemaVars, CaptureInv, CaptureTypeOK
  <2> QED
    BY <1>9, <2>1, SameSurface DEF captureVars, schemaVars
<1> QED
  BY <1>1, <1>2, <1>3, <1>4, <1>5, <1>6, <1>7, <1>8, <1>9 DEF CaptureNext

\* No step removes or changes a committed outbox row's content.
OutboxGrows ==
    /\ DOMAIN outbox \subseteq DOMAIN outbox'
    /\ \A n \in DOMAIN outbox : outbox'[n] = outbox[n]

LEMMA OutboxOnlyGrows == [CaptureNext]_captureVars => OutboxGrows
<1> SUFFICES ASSUME [CaptureNext]_captureVars PROVE OutboxGrows
  OBVIOUS
<1>1. ASSUME NEW s \in Session, Commit(s) PROVE OutboxGrows
  BY <1>1 DEF Commit, Join, OutboxGrows
<1>2. CASE outbox' = outbox
  BY <1>2 DEF OutboxGrows
<1>3. ASSUME NEW s \in Session, NEW t \in Table, NEW k \in Key,
             \/ Insert(s, t, k) \/ Update(s, t, k) \/ Delete(s, t, k)
             \/ \E k2 \in Key : UpdateKey(s, t, k, k2)
      PROVE  outbox' = outbox
  BY <1>3 DEF Insert, Update, UpdateKey, Delete, schemaVars
<1>4. ASSUME NEW s \in Session, Rollback(s) PROVE outbox' = outbox
  BY <1>4 DEF Rollback, schemaVars
<1>5. ASSUME NEW t \in Table, NEW st \in Stream, NEW cf \in BOOLEAN,
             JournalTable(t, st, cf)
      PROVE  outbox' = outbox
  BY <1>5 DEF JournalTable
<1>6. ASSUME NEW st \in Stream, AddRelationship(st) PROVE outbox' = outbox
  BY <1>6 DEF AddRelationship
<1>7. CASE UNCHANGED captureVars
  BY <1>7, <1>2 DEF captureVars, schemaVars
<1>8. CaptureNext => OutboxGrows
  BY <1>1, <1>2, <1>3, <1>4, <1>5, <1>6 DEF CaptureNext
<1> QED
  BY <1>7, <1>8

-----------------------------------------------------------------------------
(* Every row is captured.  EveryRowCaptured depends at a COMMIT on what the *)
(* transaction holds: RowsInv says it of the private rows as well.          *)

\* Some outbox row of the cell is committed or in session s's transaction.
KnownTo(s, t, k, c) ==
    CellChanges(t, k, c) # {} \/ PrivateChanges(s, t, k, c) # {}

PrivateCaptured ==
    \A s \in Session, t \in DOMAIN InitialJournalled, k \in Key, c \in Column :
        (/\ <<t, k>> \in DOMAIN writes[s]
         /\ writes[s][<<t, k>>] # Absent
         /\ <<t, k>> \notin rekeyed)
            => KnownTo(s, t, k, c)

RowsInv ==
    /\ DOMAIN InitialJournalled \subseteq DOMAIN journalled
    /\ EveryRowCaptured
    /\ PrivateCaptured

LEMMA RowsStatementStep ==
  ASSUME CaptureInv, RowsInv,
         NEW s \in Session, NEW t \in Table, NEW k \in Key, NEW op \in Op,
         NEW cols, NEW row, NEW W, Statement(s, t, k, op, cols, row, W)
  PROVE  RowsInv'
<1> DEFINE rows == CaptureRows(t, k, op, cols, row)
<1> USE DEF Statement
<1>1. /\ live' = live /\ journalled' = journalled /\ outbox' = outbox
      /\ rekeyed \subseteq rekeyed'
  BY DEF schemaVars
<1>2. /\ writes'[s] = W
      /\ \A o \in Session : o # s => writes'[o] = writes[o]
  BY DEF CaptureInv, CaptureTypeOK
<1>3. ASSUME NEW u, NEW j, NEW c
      PROVE  CellChanges(u, j, c)' = CellChanges(u, j, c)
  BY <1>1 DEF CellChanges
\* What the transactions hold is kept.
<1>4. ASSUME NEW o \in Session
      PROVE  /\ DOMAIN captured[o] \subseteq DOMAIN captured'[o]
             /\ \A n \in DOMAIN captured[o] : captured'[o][n] = captured[o][n]
  <2>1. \/ captured' = captured
        \/ captured' = [captured EXCEPT ![s] = Join(@, rows)]
    BY DEF Capture
  <2> HIDE DEF rows
  <2> QED
    BY <2>1 DEF Join, CaptureInv, CaptureTypeOK
<1>5. ASSUME NEW o \in Session, NEW u, NEW j, NEW c, KnownTo(o, u, j, c)
      PROVE  KnownTo(o, u, j, c)'
  BY <1>3, <1>4, <1>5 DEF KnownTo, PrivateChanges
\* A reported column of a journalled table is in the transaction's rows.
<1>6. ASSUME t \in DOMAIN journalled, NEW c \in cols
      PROVE  KnownTo(s, t, k, c)'
  <2>1. CaptureTypeOK /\ cols # {}
    BY <1>6 DEF CaptureInv
  <2>2. captured' = [captured EXCEPT ![s] = Join(@, rows)]
    BY <1>6, <2>1 DEF Capture
  <2>3. FreshRows(rows, t, k, op, cols, row)
    BY <1>6, <2>1, CaptureRowsFresh
  <2> HIDE DEF rows
  <2> DEFINE new == nextSeq + c - 1
  <2>4. new \in DOMAIN rows /\ new \notin DOMAIN captured[s]
    <3>1. nextSeq \in Nat /\ c \in Nat /\ c >= 1
      BY <2>1, NumColumnsNat DEF CaptureTypeOK, Column
    <3>2. new \in DOMAIN rows
      BY <2>3 DEF FreshRows
    <3> QED
      BY <3>1, <3>2 DEF CaptureInv, SeqInv
  <2>5. rows[new].table = t /\ rows[new].row = k /\ rows[new].column = c
    <3>1. rows[new].column = new - nextSeq + 1
      BY <2>3, <2>4 DEF FreshRows
    <3>2. new - nextSeq + 1 = c
      BY <2>1, NumColumnsNat DEF CaptureTypeOK, Column
    <3> QED
      BY <2>3, <2>4, <3>1, <3>2 DEF FreshRows
  <2> HIDE DEF new
  <2>6. new \in DOMAIN captured'[s] /\ captured'[s][new] = rows[new]
    BY <2>1, <2>2, <2>4 DEF Join, CaptureTypeOK
  <2> QED
    BY <2>5, <2>6 DEF KnownTo, PrivateChanges, InCell
<1>7. EveryRowCaptured'
  BY <1>1, <1>3 DEF RowsInv, EveryRowCaptured
<1>8. PrivateCaptured'
  <2> SUFFICES ASSUME NEW o \in Session, NEW u \in DOMAIN InitialJournalled,
                      NEW j \in Key, NEW c \in Column,
                      <<u, j>> \in DOMAIN writes'[o],
                      writes'[o][<<u, j>>] # Absent, <<u, j>> \notin rekeyed'
               PROVE  KnownTo(o, u, j, c)'
    BY DEF PrivateCaptured
  <2>1. CASE o # s
    <3>1. KnownTo(o, u, j, c)
      BY <1>1, <1>2, <2>1 DEF RowsInv, PrivateCaptured
    <3> QED
      BY <1>5, <3>1
  <2>2. CASE o = s /\ <<u, j>> = <<t, k>> /\ c \in cols
    BY <1>6, <2>2 DEF RowsInv
  <2>3. CASE o = s /\ ~(<<u, j>> = <<t, k>> /\ c \in cols)
    <3>1. AgreeAt(W[<<u, j>>], View(s, <<u, j>>), c)
      BY <2>3, <1>2, CaptureAssumption
    <3>2. View(s, <<u, j>>) # Absent
      BY <3>1, <2>3, <1>2 DEF AgreeAt
    <3>3. KnownTo(s, u, j, c)
      <4>1. CASE <<u, j>> \in DOMAIN writes[s]
        BY <1>1, <3>2, <4>1 DEF View, RowsInv, PrivateCaptured
      <4>2. CASE <<u, j>> \notin DOMAIN writes[s]
        BY <1>1, <3>2, <4>2 DEF View, RowsInv, EveryRowCaptured, KnownTo
      <4> QED
        BY <4>1, <4>2
    <3> QED
      BY <1>5, <2>3, <3>3
  <2> QED
    BY <2>1, <2>2, <2>3
<1> QED
  BY <1>1, <1>7, <1>8 DEF RowsInv

LEMMA RowsCommitStep ==
  ASSUME CaptureInv, RowsInv, NEW s \in Session, Commit(s)
  PROVE  RowsInv'
<1>1. /\ live' = [l \in Loc |-> View(s, l)]
      /\ outbox' = Join(outbox, captured[s])
      /\ writes'[s] = NoMap
      /\ \A o \in Session : o # s => /\ writes'[o] = writes[o]
                                     /\ captured'[o] = captured[o]
      /\ journalled' = journalled /\ rekeyed' = rekeyed
      /\ DOMAIN NoMap = {}
  BY DEF Commit, CaptureInv, CaptureTypeOK, NoMap
<1>2. ASSUME NEW t, NEW k, NEW c, KnownTo(s, t, k, c)
      PROVE  CellChanges(t, k, c)' # {}
  <2>1. \A n \in DOMAIN captured[s] : n \notin DOMAIN outbox
    BY DEF CaptureInv, SeqInv
  <2> QED
    BY <1>1, <1>2, <2>1
       DEF KnownTo, CellChanges, PrivateChanges, InCell, Join
<1>3. ASSUME NEW t, NEW k, NEW c, CellChanges(t, k, c) # {}
      PROVE  CellChanges(t, k, c)' # {}
  BY <1>2, <1>3 DEF KnownTo
<1>4. EveryRowCaptured'
  <2> SUFFICES ASSUME NEW t \in DOMAIN InitialJournalled, NEW k \in Key,
                      NEW c \in Column,
                      live'[<<t, k>>] # Absent, <<t, k>> \notin rekeyed
               PROVE  CellChanges(t, k, c)' # {}
    BY <1>1 DEF EveryRowCaptured
  <2>1. View(s, <<t, k>>) # Absent
    BY <1>1, CaptureAssumption DEF Loc
  <2>2. KnownTo(s, t, k, c)
    BY <2>1 DEF View, RowsInv, EveryRowCaptured, PrivateCaptured, KnownTo
  <2> QED
    BY <1>2, <2>2
<1>5. PrivateCaptured'
  <2> SUFFICES ASSUME NEW o \in Session, NEW t \in DOMAIN InitialJournalled,
                      NEW k \in Key, NEW c \in Column,
                      <<t, k>> \in DOMAIN writes'[o],
                      writes'[o][<<t, k>>] # Absent, <<t, k>> \notin rekeyed
               PROVE  KnownTo(o, t, k, c)'
    BY <1>1 DEF PrivateCaptured
  <2>1. o # s
    BY <1>1
  <2>2. KnownTo(o, t, k, c)
    BY <1>1, <2>1 DEF RowsInv, PrivateCaptured
  <2>3. PrivateChanges(o, t, k, c)' = PrivateChanges(o, t, k, c)
    BY <1>1, <2>1 DEF PrivateChanges
  <2> QED
    BY <1>3, <2>2, <2>3 DEF KnownTo
<1> QED
  BY <1>1, <1>4, <1>5 DEF RowsInv

\* A step that publishes nothing and lets each transaction keep its rows or
\* lose them all.
LEMMA RowsQuietStep ==
  ASSUME RowsInv,
         UNCHANGED <<live, outbox, rekeyed>>,
         DOMAIN journalled \subseteq DOMAIN journalled',
         \A o \in Session : \/ writes'[o] = NoMap
                            \/ /\ writes'[o] = writes[o]
                               /\ captured'[o] = captured[o]
  PROVE  RowsInv'
<1>1. EveryRowCaptured'
  BY DEF RowsInv, EveryRowCaptured, CellChanges
<1>2. DOMAIN NoMap = {}
  BY DEF NoMap
<1>3. PrivateCaptured'
  BY <1>2 DEF RowsInv, PrivateCaptured, KnownTo, CellChanges, PrivateChanges
<1> QED
  BY <1>1, <1>3 DEF RowsInv

LEMMA RowsInvInit == CaptureInit => RowsInv
  BY CaptureAssumption
     DEF CaptureInit, RowsInv, EveryRowCaptured, PrivateCaptured, NoMap, Loc

LEMMA RowsInvStep ==
  CaptureInv /\ RowsInv /\ [CaptureNext]_captureVars => RowsInv'
<1> SUFFICES ASSUME CaptureInv, RowsInv, [CaptureNext]_captureVars
             PROVE  RowsInv'
  OBVIOUS
<1>1. ASSUME NEW s \in Session, SomeStatement(s) PROVE RowsInv'
  BY <1>1, RowsStatementStep DEF SomeStatement
<1>2. ASSUME NEW s \in Session, NEW t \in Table, NEW k \in Key,
             \/ Insert(s, t, k) \/ Update(s, t, k) \/ Delete(s, t, k)
             \/ \E k2 \in Key : UpdateKey(s, t, k, k2)
      PROVE  RowsInv'
  BY <1>1, <1>2, InsertIsStatement, UpdateIsStatement, DeleteIsStatement,
     UpdateKeyIsStatement
<1>3. ASSUME NEW s \in Session, Commit(s) PROVE RowsInv'
  BY <1>3, RowsCommitStep
<1>4. ASSUME NEW s \in Session, Rollback(s) PROVE RowsInv'
  <2>1. \A o \in Session : \/ writes'[o] = NoMap
                           \/ /\ writes'[o] = writes[o]
                              /\ captured'[o] = captured[o]
    BY <1>4 DEF Rollback, CaptureInv, CaptureTypeOK
  <2> QED
    BY <1>4, <2>1, RowsQuietStep DEF Rollback, schemaVars
<1>5. ASSUME NEW t \in Table, NEW st \in Stream, NEW cf \in BOOLEAN,
             JournalTable(t, st, cf)
      PROVE  RowsInv'
  BY <1>5, RowsQuietStep DEF JournalTable, Put, sessionVars
<1>6. ASSUME NEW st \in Stream, AddRelationship(st) PROVE RowsInv'
  BY <1>6, RowsQuietStep DEF AddRelationship, sessionVars
<1>7. CASE UNCHANGED captureVars
  BY <1>7, RowsQuietStep DEF captureVars, schemaVars, sessionVars
<1> QED
  BY <1>2, <1>3, <1>4, <1>5, <1>6, <1>7 DEF CaptureNext

-----------------------------------------------------------------------------
\* In every state of the SQL surface, what open transactions have written is
\* locked by them alone and captured by their newest outbox rows.
THEOREM CaptureInvariant == CaptureSpec => []CaptureInv
  BY CaptureInvInit, CaptureInvStep, PTL DEF CaptureSpec

\* The catalog, the tables, the outbox and the open transactions keep their
\* types under every statement the trigger reacts to.
THEOREM CaptureTypeCorrect == CaptureSpec => []CaptureTypeOK
<1>1. CaptureInv => CaptureTypeOK
  BY DEF CaptureInv
<1> QED
  BY <1>1, CaptureInvariant, PTL

\* Whatever sessions do, the latest committed outbox row of a cell says what
\* the table holds, except where a key-changing UPDATE named the row.
THEOREM LatestChangeTheorem == CaptureSpec => []LastChangeIsLive
<1>1. CaptureInv => LastChangeIsLive
  BY DEF CaptureInv
<1> QED
  BY <1>1, CaptureInvariant, PTL

\* Whatever sessions do, every committed row of a table that was journalled
\* before they started has an outbox row for each of its columns, except
\* where a key-changing UPDATE named the row.
THEOREM EveryRowTheorem == CaptureSpec => []EveryRowCaptured
<1>1. CaptureInit => RowsInv
  BY RowsInvInit
<1>2. CaptureInv /\ RowsInv /\ [CaptureNext]_captureVars => RowsInv'
  BY RowsInvStep
<1>3. RowsInv => EveryRowCaptured
  BY DEF RowsInv
<1> QED
  BY <1>1, <1>2, <1>3, CaptureInvariant, PTL DEF CaptureSpec
=============================================================================
