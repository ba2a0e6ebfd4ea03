-------------------------- MODULE MCDocumentEngine --------------------------
(***************************************************************************)
(* Small instances of the document engine.                                 *)
(***************************************************************************)
EXTENDS DocumentEngine, DocumentTables

TradeTypes == DOMAIN TradeDocuments
SymNames == Permutations(Party) \cup Permutations(ObjectID)
=============================================================================
