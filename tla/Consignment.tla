---------------------------- MODULE Consignment ----------------------------
(***************************************************************************)
(* A consignment: the document engine and the goods store, driven by one   *)
(* client as services-go/cmd/edie2e/main.go drives them (lines 90-154).    *)
(*                                                                         *)
(* The client instructs the payment, stores the goods record, originates   *)
(* the consignment with the record's hash, moves custody, collects the     *)
(* proof of delivery, settles, and passes the bill of lading.  It calls    *)
(* the engine and the store in turn, so the two are updated in separate    *)
(* steps, and it gives up on the first error (ck).  Where the program      *)
(* fires one sequence of events the model fires any the automaton allows,  *)
(* re-keying on the same events.                                           *)
(***************************************************************************)
EXTENDS DocumentEngine, GoodsRecord

CONSTANTS
    Shipper, Carrier, Consignee, Seller,   \* keys
    TheGoods, TheLocation,                 \* the consigned goods
    Nobody                                 \* no registration is due

ASSUME ConsignmentAssumption ==
    /\ {Shipper, Carrier, Consignee, Seller} \subseteq Party
    /\ Nobody \notin Party
    /\ TheGoods \in Goods /\ TheLocation \in Location
    /\ {"payment_note", "consignment", "proof_of_delivery",
        "bill_of_lading"} \subseteq DocType
    /\ {"PAY", "CON", "POD", "BL"} \subseteq ObjectID
    /\ H(<<TheGoods, 0>>) \in BodyHash

\* An instruction alone settles nothing.
ASSUME PaymentAssumption ==
    /\ DocDef["payment_note"].initial # "SETTLED"
    /\ \A x \in Range(Transitions("payment_note")) :
          x[2] = "instruct" => x[3] # "SETTLED"

\* Delivery is a state of its own.
ASSUME DeliveryAssumption ==
    \A x \in Range(Transitions("consignment")) :
        x[2] = "deliver" => x[3] = "DELIVERED"

VARIABLE dueOwner   \* the custodian the client is about to register

consignmentVars == <<docVars, store, dueOwner>>

GoodsH4 == H(<<TheGoods, 0>>)
GoodsH2 == H2(GoodsH4, TheLocation)

ConsignmentInit == DocInit /\ GoodsInit /\ dueOwner = Nobody

-----------------------------------------------------------------------------
\* The client's variable for a document: the last Doc it was given.
Begun(id) == id \in {d.row : d \in docs}
Held(id) == {d \in docs : d.row = id /\ \A c \in docs :
                                           c.row = id => c.seq <= d.seq}
InState(id, s) == \E d \in Held(id) : d.state = s

\* The program is running and its last call has returned.
Ready == lost = {} /\ dueOwner = Nobody
UnchangedGoods == UNCHANGED <<store, dueOwner>>

Begin(id, type, controller, body) ==
    ~Begun(id) /\ Originate(type, id, controller, body) /\ UnchangedGoods
Fire(id, event, controller) ==
    \E d \in Held(id) : Transition(d, event, controller) /\ UnchangedGoods
FireSame(id, event) ==
    \E d \in Held(id) : Transition(d, event, d.controller) /\ UnchangedGoods

FundClient ==
    Ready /\ txs = <<>> /\ FundFromWallet /\ UNCHANGED docs /\ UnchangedGoods

PreparePayment ==
    /\ Ready /\ txs # <<>>
    /\ \/ Begin("PAY", "payment_note", Seller, NoBody)
       \/ FireSame("PAY", "instruct")

StoreGoods ==
    /\ Ready /\ InState("PAY", "INSTRUCTED") /\ DOMAIN store = {}
    /\ PutGoods(<<TheGoods, 0>>, TheLocation, Shipper)
    /\ UNCHANGED <<docVars, dueOwner>>

BeginConsignment ==
    /\ Ready /\ DOMAIN store # {}
    /\ Begin("CON", "consignment", Shipper, GoodsH4)

\* Every event but the ones that re-key and the last.
Move(event) ==
    /\ Ready /\ event \notin {"custody_transfer", "deliver", "settle"}
    /\ FireSame("CON", event)

\* The engine re-keys the output; the store is updated by the next call.
TransferCustody ==
    /\ Ready
    /\ \E d \in Held("CON") : Transition(d, "custody_transfer", Carrier)
    /\ dueOwner' = IF lost' = {} THEN Carrier ELSE Nobody
    /\ UNCHANGED store

RegisterCustodian ==
    /\ dueOwner # Nobody
    /\ UpdateOwner(GoodsH2, dueOwner)
    /\ dueOwner' = Nobody
    /\ UNCHANGED docVars

\* Delivery re-keys to the consignee and registers nobody.
Deliver == Ready /\ Fire("CON", "deliver", Consignee)

ProveDelivery ==
    /\ Ready /\ InState("CON", "ACCEPTED")
    /\ \/ Begin("POD", "proof_of_delivery", Consignee, NoBody)
       \/ FireSame("POD", "sign")

\* Mutant of SettlePayment: acceptance is enough.
SettleOnAcceptance ==
    /\ Ready /\ InState("CON", "ACCEPTED")
    /\ FireSame("PAY", "settle")

SettlePayment ==
    /\ Ready /\ InState("CON", "ACCEPTED") /\ InState("POD", "SIGNED")
    /\ FireSame("PAY", "settle")

SettleConsignment ==
    Ready /\ InState("PAY", "SETTLED") /\ FireSame("CON", "settle")

PassTitle ==
    /\ Ready /\ InState("CON", "SETTLED")
    /\ \/ Begin("BL", "bill_of_lading", Shipper, GoodsH4)
       \/ Fire("BL", "endorse", Consignee)
       \/ FireSame("BL", "surrender")

TamperWithGoods == Tamper(GoodsH2) /\ UNCHANGED <<docVars, dueOwner>>

ConsignmentNext ==
    \/ FundClient \/ PreparePayment \/ StoreGoods \/ BeginConsignment
    \/ \E event \in DocEvent : Move(event)
    \/ TransferCustody \/ RegisterCustodian \/ Deliver
    \/ ProveDelivery \/ SettlePayment \/ SettleConsignment \/ PassTitle
    \/ TamperWithGoods

ConsignmentSpec == ConsignmentInit /\ [][ConsignmentNext]_consignmentVars

-----------------------------------------------------------------------------
(* What anyone can read from the chain.                                    *)

\* The unspent state outputs of an object.
Standing(id) ==
    {o \in (DOMAIN txs) \X {1} :
        /\ 1 \in StateOutputs(o[1])
        /\ OutputAt(o).record.row = id
        /\ ~IsSpent(o)}
StandingRecord(id) == OutputAt(CHOOSE o \in Standing(id) : TRUE).record
Reached(id, s) ==
    \E n \in DOMAIN txs : \E i \in StateOutputs(n) :
        txs[n].outs[i].record.row = id /\ txs[n].outs[i].record.state = s

OwnerVerifies ==
    Standing("CON") # {} =>
        VerifyOwnership(GoodsH2, StandingRecord("CON").controller)

\* Up to delivery, and unless a call failed between the two updates, the
\* custodian registered in the store is the key that controls the consignment
\* on chain (main.go:122-125, dht.go:54-60).
CustodyRegistered ==
    (Ready /\ ~Reached("CON", "DELIVERED")) => OwnerVerifies

\* Delivery versus payment: whatever fails, the payment note is settled only
\* on chain evidence of acceptance and of a signed proof (main.go:139-143).
PaidOnDelivery ==
    Reached("PAY", "SETTLED") =>
        Reached("CON", "ACCEPTED") /\ Reached("POD", "SIGNED")

\* The two integrity checks hold against the hash on the consignment's
\* current output exactly while nobody has changed the stored body, through
\* every transition and transfer (dfa.go:345, dht.go:44-51, 82-88).
IntegrityExact ==
    Standing("CON") # {} =>
        ((/\ VerifyIntegrity(GoodsH2)
          /\ AnchorMatches(GoodsH2, StandingRecord("CON").body))
            <=> store[GoodsH2].body = <<TheGoods, 0>>)

\* SYS-LOG-005: "any authorised party MUST be able to verify current
\* ownership/custody of a consignment from the chain plus the DHT".
OwnershipVerifiable == Ready => OwnerVerifies
=============================================================================
