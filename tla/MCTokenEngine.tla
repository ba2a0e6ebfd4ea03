--------------------------- MODULE MCTokenEngine ---------------------------
(***************************************************************************)
(* Small instances of the token engine.  Amounts are unsigned numbers of   *)
(* four bits and a pegging rate is in halves.                              *)
(***************************************************************************)
EXTENDS TokenEngine, TLC

CONSTANTS cash, goods

\* cash: half a satoshi per unit; goods: three, at least four.
TwoTypes == cash :> [peg |-> 1, threshold |-> 0]
            @@ goods :> [peg |-> 6, threshold |-> 4]

SymParties == Permutations(Party)
=============================================================================
