----------------------------- MODULE Libraries -----------------------------
(***************************************************************************)
(* The packages that keep no state of their own, and the computation       *)
(* market, as their callers see them: a caller calls one of the former     *)
(* with any arguments, or works on the market.                             *)
(*                                                                         *)
(* input holds the arguments of the call, and each property says what must *)
(* come back.                                                              *)
(***************************************************************************)
EXTENDS ComputeMarket, Keystone, EnvelopeScripts, MerkleProofs,
        ThresholdCustody, EdiBridge, MandatedDocuments

CONSTANTS
    Records,     \* field records, also ones an encoder or decoder refuses
    Buffers,     \* octets, also cut, extended or altered encodings
    Changes,     \* messages M(c) of one relationship
    Images,      \* change images
    Payloads,    \* envelope payloads and key hashes
    Blocks,      \* sequences of transaction ids
    Indexes,     \* positions callers claim, also negative
    MaxShares,   \* bound: the largest number of shares
    Partners     \* bridge configurations

TxIDs == UNION {Range(b) : b \in Blocks}

ASSUME CallerAssumption ==
    /\ Records \subseteq FieldRecord
    /\ Buffers \subseteq Octets
    /\ Changes \subseteq ChangeMessage
    /\ Payloads \subseteq Octets
    /\ Blocks \subseteq Seq(TxIDs) /\ EmptyText \notin TxIDs
    /\ Partners \subseteq PartnerProfile

VARIABLE input

vars == <<input, marketVars>>

NoCall == [call |-> "none"]
DocTypes == DOMAIN AllDocuments
Messages == [syntax : Standard, type : DOMAIN X12Map \cup DOMAIN EdifactMap]

Init == MarketInit /\ input = NoCall

CallDecoder ==
    \/ \E r \in Records : input' = [call |-> "record", record |-> r]
    \/ \E b \in Buffers : input' = [call |-> "buffer", buffer |-> b]
CallKeystone ==
    \/ \E w, c, gv \in Scalars \ {0} :
          input' = [call |-> "secret", w |-> w, c |-> c, gv |-> gv]
    \/ \E m, n \in {c \in Changes : EncodeMessage(c) # NoEncoding},
          i, j \in Images :
          input' = [call |-> "tag", m |-> m, n |-> n, image |-> i, other |-> j]
CallEnvelope ==
    \E d, k \in Payloads : input' = [call |-> "envelope", data |-> d, pkh |-> k]
CallProofs ==
    \E b \in Blocks, i \in Indexes :
        input' = [call |-> "prove", leaves |-> b, index |-> i]
CallCustody ==
    \E s \in Field, need, total \in 1 .. MaxShares :
        /\ ~SplitRefuses(need, total)
        /\ \E p \in Polynomials(s, need) :
              input' = [call |-> "split", secret |-> s, need |-> need,
                        total |-> total, poly |-> p]
CallBridge ==
    \E p \in Partners :
        \/ \E m \in Messages : input' = [call |-> "in", p |-> p, msg |-> m]
        \/ \E t \in DocTypes : input' = [call |-> "out", p |-> p, doc |-> t]
DriveDocument == \E t \in Mandated : input' = [call |-> "drive", type |-> t]

Call ==
    /\ input = NoCall
    /\ \A id \in TaskID : tasks[id] = NoTask
    /\ \/ CallDecoder \/ CallKeystone \/ CallEnvelope \/ CallProofs
       \/ CallCustody \/ CallBridge \/ DriveDocument
    /\ UNCHANGED marketVars

Next == Call \/ (input = NoCall /\ MarketNext /\ UNCHANGED input)

Spec == Init /\ [][Next]_vars

-----------------------------------------------------------------------------
\* A record that was encoded decodes to itself or is rejected while no length
\* in it wraps, and octets have one reading and a record one encoding
\* (bytes.go, message.go).
CodecExact ==
    /\ input.call = "record" => DecodesBack(input.record)
    /\ input.call = "buffer" => Canonical(input.buffer)

\* Both sides of a relationship derive the same secret (keystone.go).
SecretsAgree ==
    input.call = "secret" => SidesAgree(input.w, input.c, input.gv)

\* No two changes or images have one tag while no length wraps (keystone.go).
TagsBind ==
    input.call = "tag" =>
        TagBindsChange(input.m, input.n, input.image, input.other)

\* An envelope is spendable by its key and its payload is found in a
\* transaction (envelope.go, streame2e).
EnvelopesReadBack ==
    input.call = "envelope" => CarriersReadBack(input.data, input.pkh)

\* Every transaction of a block, and no other, has a proof (spv.go).
InclusionExact ==
    input.call = "prove" =>
        ProvesExactly(input.leaves, input.index, TxIDs, Indexes)

\* Enough shares recover the secret, fewer tell nothing about it (custody.go).
ThresholdExact ==
    input.call = "split" =>
        /\ EnoughSharesRecover(input.secret, input.need, input.poly, input.total)
        /\ FewerSharesTellNothing(input.need, input.poly, input.total)

\* The bridge asks of an automaton only what it can do, and reads what it
\* sends unless the partner's standard is unknown, when nobody does
\* (bridge.go, and the tables of document-defs.json).
BridgeConsistent ==
    /\ input.call = "in" => ResolvesToAutomaton(input.p, input.msg, AllDocuments)
    /\ input.call = "out" => ComesBack(input.p, input.doc, "any")

\* Every mandated document reaches a final state (edie2e).
DocumentsComplete == input.call = "drive" => DriveEnds(input.type)
=============================================================================
