--------------------------- MODULE MCConsignment ---------------------------
(***************************************************************************)
(* Small instances of Consignment, with the automata of the repository.    *)
(***************************************************************************)
EXTENDS Consignment, DocumentTables

CONSTANTS shipper, carrier, consignee, seller

ConsignmentTypes == DOMAIN ConsignmentDocuments
Bodies == GoodsBody \cup {NoBody}
=============================================================================
