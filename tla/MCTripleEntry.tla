--------------------------- MODULE MCTripleEntry ---------------------------
(***************************************************************************)
(* Small instances of TripleEntry.                                         *)
(***************************************************************************)
EXTENDS TripleEntry, TLC

CONSTANTS s1, s2, t1, t2, t3, k1, k2, a, b, st1, st2, w1, w2

SymSessions == Permutations({s1, s2})
SymWriters == Permutations({w1, w2})

NoCalls == {}
Rekey == {<<k1, k2>>}
LateTable == {<<t1, st1, FALSE>>}
Plain(st) == [stream |-> st, confidential |-> FALSE]
Hidden(st) == [stream |-> st, confidential |-> TRUE]
NoneYet == NoMap
OnePlain == [t \in {t1} |-> Plain(st1)]
PlainTwiceAndHidden ==
    [t \in {t1, t2, t3} |-> IF t = t2 THEN Hidden(st2) ELSE Plain(st1)]
=============================================================================
