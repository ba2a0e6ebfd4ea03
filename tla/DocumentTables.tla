--------------------------- MODULE DocumentTables ---------------------------
(***************************************************************************)
(* The automata of edi-dfa/document-defs.json.  Those of a consignment and *)
(* those whose tables have a loop, an edge out of a final state or several *)
(* final states, have names.                                               *)
(***************************************************************************)
EXTENDS SequencesExt

Automaton(initial, final, transitions) ==
    [initial |-> initial, final |-> final, transitions |-> transitions]

Invoice == Automaton("DRAFTED", {"PAID"},
    << <<"DRAFTED", "issue", "ISSUED">>, <<"ISSUED", "dispute", "DISPUTED">>,
       <<"DISPUTED", "resolve", "ISSUED">>, <<"ISSUED", "settle", "PAID">> >>)

PaymentNote == Automaton("DRAFTED", {"SETTLED"},
    << <<"DRAFTED", "instruct", "INSTRUCTED">>,
       <<"INSTRUCTED", "settle", "SETTLED">> >>)

BillOfLading == Automaton("ISSUED", {"SURRENDERED"},
    << <<"ISSUED", "endorse", "ENDORSED">>,
       <<"ENDORSED", "endorse", "ENDORSED">>,
       <<"ENDORSED", "surrender", "SURRENDERED">>,
       <<"ISSUED", "surrender", "SURRENDERED">> >>)

BookingConfirmation == Automaton("REQUESTED", {"CONFIRMED", "CANCELLED"},
    << <<"REQUESTED", "confirm", "CONFIRMED">>,
       <<"CONFIRMED", "amend", "CONFIRMED">>,
       <<"REQUESTED", "cancel", "CANCELLED">> >>)

ProofOfDelivery == Automaton("PENDING", {"SIGNED"},
    << <<"PENDING", "sign", "SIGNED">> >>)

CustomsDeclaration == Automaton("DRAFTED", {"CLEARED", "HELD"},
    << <<"DRAFTED", "lodge", "LODGED">>, <<"LODGED", "clear", "CLEARED">>,
       <<"LODGED", "hold", "HELD">>, <<"HELD", "clear", "CLEARED">> >>)

ConsignmentAutomaton == Automaton("CREATED", {"SETTLED", "RECOVERED"},
    << <<"CREATED", "book", "BOOKED">>, <<"BOOKED", "pickup", "PICKED_UP">>,
       <<"PICKED_UP", "depart", "IN_TRANSIT">>,
       <<"IN_TRANSIT", "customs_hold", "CUSTOMS_HELD">>,
       <<"IN_TRANSIT", "customs_clear", "CUSTOMS_CLEARED">>,
       <<"CUSTOMS_HELD", "customs_clear", "CUSTOMS_CLEARED">>,
       <<"CUSTOMS_CLEARED", "inspect", "INSPECTED">>,
       <<"INSPECTED", "custody_transfer", "CUSTODY_TRANSFER">>,
       <<"CUSTODY_TRANSFER", "depart", "IN_TRANSIT">>,
       <<"CUSTODY_TRANSFER", "deliver", "DELIVERED">>,
       <<"INSPECTED", "deliver", "DELIVERED">>,
       <<"DELIVERED", "accept", "ACCEPTED">>,
       <<"DELIVERED", "reject", "REJECTED">>,
       <<"ACCEPTED", "settle", "SETTLED">>,
       <<"IN_TRANSIT", "dispute", "DISPUTED">>,
       <<"DISPUTED", "resolve", "IN_TRANSIT">>,
       <<"REJECTED", "recover", "RECOVERED">> >>)

TradeDocuments ==
    "invoice" :> Invoice @@ "bill_of_lading" :> BillOfLading
    @@ "booking_confirmation" :> BookingConfirmation
    @@ "customs_declaration" :> CustomsDeclaration

ConsignmentDocuments ==
    "consignment" :> ConsignmentAutomaton @@ "payment_note" :> PaymentNote
    @@ "proof_of_delivery" :> ProofOfDelivery
    @@ "bill_of_lading" :> BillOfLading

\* From one state to a final one, by any of the events of choices; the same
\* once issued; and over a state in between.
Choice(initial, choices) ==
    Automaton(initial, {c[2] : c \in Range(choices)},
              [i \in DOMAIN choices |-> <<initial>> \o choices[i]])
Issued(choices) ==
    LET end == Choice("ISSUED", choices)
    IN  Automaton("DRAFTED", end.final,
                  << <<"DRAFTED", "issue", "ISSUED">> >> \o end.transitions)
Via(initial, event, between, last, final) ==
    Automaton(initial, {final}, << <<initial, event, between>>,
                                   <<between, last, final>> >>)

OtherDocuments ==
    "rfq" :> Issued(<< <<"quote", "QUOTED">>, <<"cancel", "CANCELLED">> >>)
    @@ "quotation" :> Issued(<< <<"accept", "ACCEPTED">>,
                         <<"reject", "REJECTED">>, <<"expire", "EXPIRED">> >>)
    @@ "purchase_order" :> Automaton("DRAFTED", {"FULFILLED", "CANCELLED"},
           << <<"DRAFTED", "issue", "ISSUED">>,
              <<"ISSUED", "acknowledge", "ACKNOWLEDGED">>,
              <<"ACKNOWLEDGED", "fulfil", "FULFILLED">>,
              <<"ISSUED", "cancel", "CANCELLED">>,
              <<"ACKNOWLEDGED", "cancel", "CANCELLED">> >>)
    @@ "order_ack" :> Choice("PENDING", << <<"accept", "ACCEPTED">>,
                         <<"change", "CHANGED">>, <<"reject", "REJECTED">> >>)
    @@ "credit_note" :> Issued(<< <<"apply", "APPLIED">> >>)
    @@ "debit_note" :> Issued(<< <<"apply", "APPLIED">> >>)
    @@ "despatch_advice" :>
           Via("DRAFTED", "send", "SENT", "receive", "RECEIVED")
    @@ "sea_waybill" :> Choice("ISSUED", << <<"deliver", "DELIVERED">> >>)
    @@ "air_waybill" :> Choice("ISSUED", << <<"deliver", "DELIVERED">> >>)
    @@ "cmr" :> Via("ISSUED", "depart", "IN_TRANSIT", "deliver", "DELIVERED")
    @@ "rail_consignment_note" :>
           Via("ISSUED", "depart", "IN_TRANSIT", "deliver", "DELIVERED")
    @@ "packing_list" :> Choice("DRAFTED", << <<"finalise", "FINALISED">> >>)
    @@ "arrival_notice" :>
           Choice("ISSUED", << <<"acknowledge", "ACKNOWLEDGED">> >>)
    @@ "certificate_of_origin" :> Issued(<< <<"verify", "VERIFIED">> >>)
    @@ "inspection_certificate" :>
           Choice("PENDING", << <<"pass", "PASSED">>, <<"fail", "FAILED">> >>)
    @@ "insurance_certificate" :>
           Issued(<< <<"claim", "CLAIMED">>, <<"expire", "EXPIRED">> >>)

\* The registry: every document type of the file.
AllDocuments == TradeDocuments @@ ConsignmentDocuments @@ OtherDocuments
=============================================================================
