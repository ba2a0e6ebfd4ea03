-------------------------- MODULE ThirdEntryLedger --------------------------
(***************************************************************************)
(* What the triple-entry log promises, without database, chain or process: *)
(* committed changes wait, and each is appended exactly once to its        *)
(* stream's ledger, the changes of one cell in the order of their capture. *)
(* (SYS-PG-002, SYS-PG-003 and SYS-HMAC-008 of the build specification.)   *)
(***************************************************************************)
EXTENDS Integers, Sequences

CONSTANT Stream

VARIABLES
    waiting,   \* committed changes not yet recorded: id -> change
    ledger     \* per stream, the sequence of recorded changes

vars == <<waiting, ledger>>

\* A change as the ledger records it, under the id it was captured with.
Item(n, change) == [id |-> n, change |-> change]

Cell(change) == <<change.table, change.row, change.column>>

IsRecorded(n) == \E st \in Stream : \E i \in DOMAIN ledger[st] :
                    ledger[st][i].id = n

Init ==
    /\ waiting = [n \in {} |-> n]
    /\ ledger = [st \in Stream |-> <<>>]

\* A database transaction commits: new changes wait.
Commit ==
    /\ DOMAIN waiting \subseteq DOMAIN waiting'
    /\ \A n \in DOMAIN waiting : waiting'[n] = waiting[n]
    /\ \A n \in DOMAIN waiting' \ DOMAIN waiting : ~IsRecorded(n)
    /\ UNCHANGED ledger

\* The oldest waiting change of some cell is recorded.
Record(n) ==
    LET c == waiting[n] IN
    /\ \A m \in DOMAIN waiting : Cell(waiting[m]) = Cell(c) => n <= m
    /\ ledger' = [ledger EXCEPT ![c.stream] = Append(@, Item(n, c))]
    /\ waiting' = [m \in DOMAIN waiting \ {n} |-> waiting[m]]

Next == Commit \/ \E n \in DOMAIN waiting : Record(n)

Spec == Init /\ [][Next]_vars
=============================================================================
