SPECIFICATION ConsignmentSpec
CONSTANTS
    shipper = shipper
    carrier = carrier
    consignee = consignee
    seller = seller
    Party = {shipper, carrier, consignee, seller}
    Shipper = shipper
    Carrier = carrier
    Consignee = consignee
    Seller = seller
    Owner = {shipper, carrier, consignee, seller}
    WalletKey = fee
    NoRecord = none
    Nobody = nobody
    NoBody = nil
    Goods = {widgets}
    TheGoods = widgets
    Location = {dht}
    TheLocation = dht
    MaxTampers = 1
    Funding = 8
    Width = 16
    MaxTxs = 21
    MayFail = TRUE
    DocType <- ConsignmentTypes
    DocDef <- ConsignmentDocuments
    ObjectID = {"CON", "PAY", "POD", "BL"}
    BodyHash <- Bodies
    StateSats = 1
INVARIANTS CustodyRegistered PaidOnDelivery IntegrityExact
CHECK_DEADLOCK FALSE
