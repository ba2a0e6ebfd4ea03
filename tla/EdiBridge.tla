----------------------------- MODULE EdiBridge -----------------------------
(***************************************************************************)
(* The bridge to X12 and EDIFACT messages                                  *)
(* (services-go/edibridge/bridge.go).  A message is its syntax, its type   *)
(* and what it says; layout is left out.                                   *)
(***************************************************************************)
EXTENDS SequencesExt

\* The standards there are messages of; a partner's is any string.
Standard == {"X12", "EDIFACT"}
NoType == ""
NoAction == [doc |-> "", event |-> "error"]
NoMessage == [syntax |-> "none"]

\* An Action originates the document (event "") or fires the event.
Act(doc, event) == [doc |-> doc, event |-> event]

\* Mutant of X12Map: the event is named as the message is.
X12MapRemits ==
    "855" :> Act("purchase_order", "acknowledge")
    @@ "820" :> Act("payment_note", "remit")

X12Map ==
    [t \in {"850", "855", "856", "810", "210", "820", "214", "990"} |->
        CASE t = "850" -> Act("purchase_order", "")
          [] t = "855" -> Act("purchase_order", "acknowledge")
          [] t = "856" -> Act("despatch_advice", "")
          [] t \in {"810", "210"} -> Act("invoice", "")
          [] t = "820" -> Act("payment_note", "settle")
          [] t = "214" -> Act("consignment", "depart")
          [] t = "990" -> Act("booking_confirmation", "confirm")]

EdifactMap ==
    [ORDERS |-> Act("purchase_order", ""), ORDRSP |-> Act("order_ack", ""),
     DESADV |-> Act("despatch_advice", ""), INVOIC |-> Act("invoice", ""),
     REMADV |-> Act("payment_note", "settle"),
     IFTMIN |-> Act("booking_confirmation", ""),
     IFTSTA |-> Act("consignment", "depart"),
     PAYORD |-> Act("payment_note", "instruct")]

\* An unknown standard is read with one table and written with the other.
InboundMap(std) == IF std = "X12" THEN X12Map ELSE EdifactMap
OutboundMap(std) == IF std = "EDIFACT" THEN EdifactMap ELSE X12Map

\* The segment that names the type is not there in the other syntax, and an
\* unknown standard is an error.
DetectType(std, msg) ==
    IF std \in Standard /\ msg.syntax = std THEN msg.type ELSE NoType

\* Partner: what it speaks and which message types it may send.
PartnerProfile ==
    [standard : STRING, enabled : BOOLEAN, subset : SUBSET STRING]

Inbound(p, msg) ==
    LET type == DetectType(p.standard, msg)
    IN  IF p.enabled /\ type \in p.subset \cap DOMAIN InboundMap(p.standard)
        THEN InboundMap(p.standard)[type] ELSE NoAction

\* The code takes the least type; which one does not matter here.
ReverseLookup(std, doc) ==
    LET types == {t \in DOMAIN OutboundMap(std) : OutboundMap(std)[t].doc = doc}
    IN  IF types = {} THEN NoType ELSE CHOOSE t \in types : TRUE

\* The partner's subset is not asked on the way out, and whatever is not X12
\* is written as EDIFACT.
Outbound(p, doc, state) ==
    LET type == ReverseLookup(p.standard, doc)
    IN  IF ~p.enabled \/ type = NoType THEN NoMessage
        ELSE [syntax |-> IF p.standard = "X12" THEN "X12" ELSE "EDIFACT",
              type |-> type, state |-> state]

\* Whatever a message is resolved to is something the registry's automata
\* can do: originate a document they define, or fire an event that some
\* state of that document has (bridge.go:46-64, 92-116).
ResolvesToAutomaton(p, msg, registry) ==
    LET a == Inbound(p, msg) IN
    a # NoAction =>
        /\ a.doc \in DOMAIN registry
        /\ a.event = "" \/ \E x \in Range(registry[a.doc].transitions) :
                               x[2] = a.event

\* What a partner of standard std, otherwise p and with the type in its
\* subset, makes of a message.
ReadAs(p, std, msg) ==
    Inbound([p EXCEPT !.standard = std, !.subset = {msg.type}], msg)

\* A message sent for a document to a partner that speaks X12 or EDIFACT is
\* read back as a message about that document.  What is sent to a partner
\* whose standard is unknown is an X12 type in an EDIFACT envelope: nobody
\* reads it, under that standard or under either of the two
\* (bridge.go:69-116, 119-149).
ComesBack(p, doc, state) ==
    LET msg == Outbound(p, doc, state) IN
    msg # NoMessage =>
        IF p.standard \in Standard THEN ReadAs(p, p.standard, msg).doc = doc
        ELSE \A std \in Standard \cup {p.standard} :
                ReadAs(p, std, msg) = NoAction
=============================================================================
