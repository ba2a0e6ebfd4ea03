----------------------------- MODULE MCCapture -----------------------------
(***************************************************************************)
(* Small instances of TeCapture.                                           *)
(***************************************************************************)
EXTENDS TeCapture, TLC

CONSTANTS s1, s2, t1, t2, k1, k2, a, b, st1, st2

SymSessions == Permutations({s1, s2})

NoRekeys == {}
NoCalls == {}
RekeyOne == {<<k1, k2>>}
ReRegister == {<<t1, st2, TRUE>>}
JournalledT1 == [t \in {t1} |-> [stream |-> st1, confidential |-> FALSE]]
=============================================================================
