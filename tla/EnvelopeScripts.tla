-------------------------- MODULE EnvelopeScripts --------------------------
(***************************************************************************)
(* Spendable locking scripts that carry data                               *)
(* (services-go/bsvscript/envelope.go).  A script is a sequence of parsed  *)
(* operations; only a push has data.                                       *)
(***************************************************************************)
EXTENDS Naturals, SequencesExt

CONSTANT PkhLen   \* 20 octets

ASSUME EnvelopeAssumption == PkhLen \in Nat

NotFound == <<>>   \* an error: no payload and no hash is empty

\* What AppendOpcodes and AppendPushData append: no octets are pushed as
\* OP_FALSE, which has no data.
OpCode(op) == <<[op |-> op, data |-> <<>>]>>
Push(d) == <<[op |-> IF d = <<>> THEN "FALSE" ELSE "PUSH", data |-> d]>>

PayToKey(pkh) ==
    OpCode("DUP") \o OpCode("HASH160") \o Push(pkh) \o OpCode("EQUALVERIFY")
    \o OpCode("CHECKSIG")

BuildEnvelopeIf(data, pkh) ==
    IF Len(pkh) # PkhLen THEN NotFound
    ELSE OpCode("FALSE") \o OpCode("IF") \o Push(data) \o OpCode("ENDIF")
         \o PayToKey(pkh)

BuildEnvelopeDrop(data, pkh) ==
    IF Len(pkh) # PkhLen THEN NotFound
    ELSE Push(data) \o OpCode("DROP") \o PayToKey(pkh)

\* Mutant of ExtractEnvelopeData: any first push is taken for the payload.
ExtractFirstPush(s) ==
    IF Len(s) < 2 THEN NotFound
    ELSE IF s[1].op = "FALSE" /\ s[2].op = "IF"
    THEN IF Len(s) < 4 THEN NotFound ELSE s[3].data
    ELSE SelectSeq(s, LAMBDA x : x.data # <<>>)[1].data

ExtractEnvelopeData(s) ==
    IF Len(s) < 2 THEN NotFound
    ELSE IF s[1].op = "FALSE" /\ s[2].op = "IF"
    THEN IF Len(s) < 4 \/ s[4].op # "ENDIF" THEN NotFound ELSE s[3].data
    ELSE IF s[2].op = "DROP" THEN s[1].data ELSE NotFound

EndsWith(s, ops) ==
    Len(s) >= 5 /\ \A i \in DOMAIN ops : ops[i] = "any"
                                         \/ s[Len(s) - 5 + i].op = ops[i]

EnvelopePubKeyHash(s) ==
    IF EndsWith(s, <<"DUP", "HASH160", "any", "EQUALVERIFY", "CHECKSIG">>)
       /\ Len(s[Len(s) - 2].data) = PkhLen
    THEN s[Len(s) - 2].data ELSE NotFound

\* P2SH is a form of three operations, which the tail rules out.
AssertNativeSpendable(s) ==
    /\ \A i \in DOMAIN s : s[i].op # "RETURN"
    /\ EndsWith(s, <<"any", "any", "any", "EQUALVERIFY", "CHECKSIG">>)

\* findEnvelope: the first output that carries a payload.
FindEnvelope(outs) ==
    LET i == SelectInSeq(outs, LAMBDA s : ExtractEnvelopeData(s) # NotFound)
    IN  IF i = 0 THEN NotFound ELSE outs[i]

\* Both carriers are spendable by the key they were built for, and a reader
\* of a transaction finds its payload, whatever the order of the envelope
\* and the change output, which is never taken for an envelope; an empty
\* payload is not found at all (envelope.go:20-120, streame2e:289-299).
CarriersReadBack(data, pkh) ==
    \A s \in {BuildEnvelopeIf(data, pkh), BuildEnvelopeDrop(data, pkh)} :
        IF Len(pkh) # PkhLen THEN s = NotFound
        ELSE /\ AssertNativeSpendable(s)
             /\ EnvelopePubKeyHash(s) = pkh
             /\ \A outs \in {<<s, PayToKey(pkh)>>, <<PayToKey(pkh), s>>} :
                    FindEnvelope(outs) = IF data = <<>> THEN NotFound ELSE s
             /\ ExtractEnvelopeData(s) = data
=============================================================================
