------------------------- MODULE MandatedDocuments -------------------------
(***************************************************************************)
(* The first part of services-go/cmd/edie2e/main.go: every mandated        *)
(* document is originated and driven along its automaton to a final state. *)
(***************************************************************************)
EXTENDS Naturals, DocumentTables

Mandated ==
    {"rfq", "quotation", "purchase_order", "order_ack", "invoice",
     "payment_note", "credit_note", "debit_note", "despatch_advice",
     "bill_of_lading", "sea_waybill", "air_waybill", "cmr",
     "rail_consignment_note", "packing_list", "booking_confirmation",
     "arrival_notice", "proof_of_delivery", "certificate_of_origin",
     "customs_declaration", "inspection_certificate", "insurance_certificate"}

\* DFADef.From and DFADef.next: the edges out of a state, in table order, and
\* where the first edge with an event leads.
From(def, s) == SelectSeq(def.transitions, LAMBDA x : x[1] = s)
Target(def, s, event) ==
    SelectSeq(From(def, s), LAMBDA x : x[2] = event)[1][3]

\* Mutant of Chosen: the first edge.
ChosenFirst(edges, visited) == edges[1]

\* An edge to a state not visited yet, or else the first.
Chosen(edges, visited) ==
    LET fresh == SelectSeq(edges, LAMBDA x : x[3] \notin visited)
    IN  IF fresh = <<>> THEN edges[1] ELSE fresh[1]

\* driveToFinal: at most 16 events, each fired on the engine, which takes the
\* first edge that carries it.
DriveToFinal(def) ==
    LET drive[k \in 0 .. 16] ==
            IF k = 0 THEN <<def.initial, {def.initial}>>
            ELSE LET s == drive[k - 1][1]
                     edges == From(def, s)
                 IN  IF s \in def.final \/ edges = <<>> THEN drive[k - 1]
                     ELSE LET to == Target(def, s,
                                           Chosen(edges, drive[k - 1][2])[2])
                          IN  <<to, drive[k - 1][2] \cup {to}>>
    IN  drive[16][1]

\* A mandated document is in the registry, and the drive ends in a final
\* state although tables have loops, and whichever edge a state lists first
\* (edie2e:87-92, 161-185).
DriveEnds(type) ==
    /\ type \in DOMAIN AllDocuments
    /\ DriveToFinal(AllDocuments[type]) \in AllDocuments[type].final
=============================================================================
