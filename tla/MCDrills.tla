------------------------------ MODULE MCDrills ------------------------------
(***************************************************************************)
(* A hardening drill next to a stream funded by a coinbase and one funded  *)
(* by the wallet.                                                          *)
(***************************************************************************)
EXTENDS Drills

CONSTANTS coinbaseStream, walletStream, secretStream

Change(row, op, value) == [row |-> row, op |-> op, value |-> value]
Updates == << Change(1, "insert", "old"), Change(1, "update", "new") >>

Plans ==
    [s \in Stream |->
        [funding |-> IF s = coinbaseStream THEN "coinbase" ELSE "wallet",
         ordered |-> s = coinbaseStream,
         confidential |-> s = secretStream,
         program |-> IF s = secretStream THEN SubSeq(Updates, 1, 1)
                     ELSE Updates]]
=============================================================================
