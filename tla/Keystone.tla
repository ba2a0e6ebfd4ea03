------------------------------ MODULE Keystone ------------------------------
(***************************************************************************)
(* The keys of a third entry (crypto-core/go/keystone.go): the common      *)
(* secret both sides derive for a change, the HMAC key under it, the tag.  *)
(*                                                                         *)
(* A point is the scalar it is a multiple of, modulo the group order, and  *)
(* the point at infinity is 0.  Hashes, HKDF and HMAC are injective: what  *)
(* they return is the value they are given.  The two models meet in the    *)
(* generator value, the hash of M(c).                                      *)
(***************************************************************************)
EXTENDS Integers, MessageCodec

CONSTANT GroupOrder   \* a prime

ASSUME KeystoneAssumption == GroupOrder \in Nat /\ GroupOrder > 2

Scalars == 0 .. GroupOrder - 1
NoPoint == -1

\* SubPub: P1 + gv.G; a key that does not parse or a sum at infinity fails.
SubPub(pub, gv) ==
    LET p2 == (pub + gv) % GroupOrder
    IN  IF pub = 0 \/ p2 = 0 THEN NoPoint ELSE p2

\* Mutant of CommonSecret: the master key instead of the key of the change.
CommonSecretOfMaster(priv, otherPub, gv) ==
    LET p2 == SubPub(otherPub, gv)
    IN  IF priv = 0 \/ p2 = NoPoint THEN NoPoint
        ELSE (priv * p2) % GroupOrder

\* commonSecret: (v + gv) . P2, for the writer and for the counterparty.
CommonSecret(priv, otherPub, gv) ==
    LET v2 == (priv + gv) % GroupOrder
        p2 == SubPub(otherPub, gv)
    IN  IF priv = 0 \/ v2 = 0 \/ p2 = NoPoint \/ (v2 * p2) % GroupOrder = 0
        THEN NoPoint
        ELSE (v2 * p2) % GroupOrder

\* The salt joins table, row and column without their lengths.
Salt(m) == m.table \o m.row \o m.column

\* DeriveHMACKey under the common secret of m, which depends on m by its
\* generator value SHA-256(EncodeMessage(m)).
HMACKey(m) == <<Salt(m), EncodeMessage(m), m.seq>>
Tag(m, image) == <<HMACKey(m), image>>

-----------------------------------------------------------------------------
\* The writer and the counterparty derive the same secret for a change, or
\* both are refused one, with the one's private and the other's public key
\* (keystone.go:97-130).
SidesAgree(w, c, gv) == CommonSecret(w, c, gv) = CommonSecret(c, w, gv)

\* While no name is so long that its length wraps, a tag belongs to one
\* change and one image: although the salt is the same for names that join to
\* the same octets, the key is not, since the common secret comes from the
\* length-prefixed M(c) (keystone.go:77-88, 136-143, bytes.go:33).
TagBindsChange(m, n, image, other) ==
    (MessageFits(m) /\ MessageFits(n) /\ Tag(m, image) = Tag(n, other))
        => m = n /\ image = other
=============================================================================
