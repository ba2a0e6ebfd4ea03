---------------------------- MODULE GoodsRecord ----------------------------
(***************************************************************************)
(* The off-chain store of goods records (services-go/edi/dht.go): a map    *)
(* keyed by H2 = hash of (H4, location).  Hashes are injective: the hash   *)
(* of a body is the body, H2 the pair.  A body is named by the goods it    *)
(* describes and the number of bytes tampering has appended to it.         *)
(***************************************************************************)
EXTENDS Integers

CONSTANTS
    Goods,      \* bodies as first stored
    Location,   \* locations of full records
    Owner,      \* registered owner keys
    MaxTampers  \* bound on the bytes appended to one body

VARIABLE store  \* partial function: H2 -> the entry

GoodsBody == Goods \X (0 .. MaxTampers)
H(body) == body
H2(h4, location) == <<h4, location>>
GoodsEntry == [h4 : GoodsBody, body : GoodsBody, location : Location,
               owner : Owner]

GoodsInit == store = [x \in {} |-> x]

\* A record stored again replaces the entry, its owner included.
PutGoods(body, location, owner) ==
    LET h2 == H2(H(body), location) IN
    store' = [x \in DOMAIN store \cup {h2} |->
                 IF x = h2
                 THEN [h4 |-> H(body), body |-> body, location |-> location,
                       owner |-> owner]
                 ELSE store[x]]

\* Mutant of UpdateOwner: the changed copy is not written back.
UpdateOwnerOfCopy(h2, owner) == UNCHANGED store

UpdateOwner(h2, owner) ==
    store' = IF h2 \in DOMAIN store
             THEN [store EXCEPT ![h2].owner = owner] ELSE store

\* Someone changes a stored body: one more byte.
Tamper(h2) ==
    /\ h2 \in DOMAIN store
    /\ store[h2].body[2] < MaxTampers
    /\ store' = [store EXCEPT ![h2].body = <<@[1], @[2] + 1>>]

\* An error (no entry) is a failed check.
VerifyIntegrity(h2) ==
    h2 \in DOMAIN store /\ H(store[h2].body) = store[h2].h4
VerifyOwnership(h2, controller) ==
    h2 \in DOMAIN store /\ store[h2].owner = controller
AnchorMatches(h2, h4) ==
    h2 \in DOMAIN store /\ store[h2].h4 = h4
=============================================================================
