---------------------------- MODULE MessageCodec ----------------------------
(***************************************************************************)
(* The canonical encoding of M(c) and of the on-chain field record         *)
(* (crypto-core/go/bytes.go and message.go).                               *)
(*                                                                         *)
(* A buffer is a sequence of words: an octet, or a fixed-width integer,    *)
(* which is never split.  A buffer cut inside an integer is cut before it, *)
(* since the Reader rejects both.                                          *)
(***************************************************************************)
EXTENDS Naturals, SequencesExt

CONSTANTS
    MagicM, MagicR, Version,   \* first words of a message and of a record
    NotUTF8,                   \* an octet that no UTF-8 string contains
    TxidLen, TagLen,           \* 32 octets each
    LenWrap                    \* the lengths that a u32 tells apart: 2^32

ASSUME CodecAssumption ==
    /\ {MagicM, MagicR, Version, NotUTF8, TxidLen, TagLen, LenWrap} \subseteq Nat
    /\ TxidLen < LenWrap /\ TagLen < LenWrap

Octets == Seq(Nat)
ChangeMessage ==
    [table : Octets, row : Octets, column : Octets, op : Nat, seq : Nat,
     prev : Octets]
FieldRecord ==
    [stream : Octets, message : ChangeMessage, kind : Nat, image : Octets,
     tag : Octets]

NoEncoding == <<>>
Rejected == [rejected |-> TRUE]

Ops == 1 .. 3           \* OpInsert, OpUpdate, OpDelete
ImageKinds == 0 .. 1    \* ImagePlaintext, ImageCommitment

-----------------------------------------------------------------------------
(* Writer.                                                                 *)

\* Mutant of Bytes: no length prefix.
BytesRaw(p) == p

\* Writer.Bytes and Writer.Str: u32(len), which wraps, and the octets.
Bytes(p) == <<Len(p) % LenWrap>> \o p

\* EncodeMessage: [table, row, column, op, seq, prev]; the op is not checked.
MessageOctets(m) ==
    <<MagicM, Version>> \o Bytes(m.table) \o Bytes(m.row) \o Bytes(m.column)
    \o <<m.op, m.seq>> \o Bytes(m.prev)
EncodeMessage(m) ==
    IF Len(m.prev) \in {0, TxidLen} THEN MessageOctets(m) ELSE NoEncoding

\* EncodeRecord: [stream, message, kind, image, tag].
EncodeRecord(r) ==
    IF Len(r.tag) # TagLen \/ EncodeMessage(r.message) = NoEncoding
    THEN NoEncoding
    ELSE <<MagicR, Version>> \o Bytes(r.stream)
         \o Bytes(EncodeMessage(r.message)) \o <<r.kind>>
         \o Bytes(r.image) \o Bytes(r.tag)

-----------------------------------------------------------------------------
(* Reader: once an error is recorded nothing more is read.                 *)

NewReader(buf) == [buf |-> buf, off |-> 0, ok |-> TRUE, vals |-> <<>>]

Raw(r, n) ==
    IF r.ok /\ r.off + n <= Len(r.buf)
    THEN [r EXCEPT !.off = @ + n,
                   !.vals = Append(@, SubSeq(r.buf, r.off + 1, r.off + n))]
    ELSE [r EXCEPT !.ok = FALSE]

\* The last value read, converted by Op, in place of the keep-th.
Word(r) ==
    LET x == Raw(r, 1)
    IN  IF x.ok THEN [x EXCEPT !.vals = Append(r.vals, Last(@)[1])] ELSE x

\* The length is a u32: no buffer holds a larger one.
ReadBytes(r) ==
    LET n == Word(r)
        x == Raw(n, Last(n.vals))
    IN  IF n.ok /\ x.ok /\ Last(n.vals) < LenWrap
        THEN [x EXCEPT !.vals = Append(r.vals, Last(@))]
        ELSE [r EXCEPT !.ok = FALSE]
Str(r) ==
    LET x == ReadBytes(r)
    IN  [x EXCEPT !.ok = x.ok /\ NotUTF8 \notin Range(Last(x.vals))]

\* A word that must be one of S.
Checked(r, S) == LET x == Word(r) IN [x EXCEPT !.ok = x.ok /\ Last(x.vals) \in S]

\* Mutant of End: trailing octets are left alone.
EndAnywhere(r) == r.ok

End(r) == r.ok /\ r.off = Len(r.buf)

DecodeMessage(buf) ==
    LET magic == Checked(Checked(NewReader(buf), {MagicM}), {Version})
        names == Str(ReadBytes(Str(magic)))
        r == ReadBytes(Word(Checked(names, Ops)))
        v == r.vals
    IN  IF End(r) /\ Len(v[8]) \in {0, TxidLen}
        THEN [table |-> v[3], row |-> v[4], column |-> v[5], op |-> v[6],
              seq |-> v[7], prev |-> v[8]]
        ELSE Rejected

DecodeRecord(buf) ==
    LET magic == Checked(Checked(NewReader(buf), {MagicR}), {Version})
        kind == Checked(ReadBytes(ReadBytes(magic)), ImageKinds)
        r == ReadBytes(ReadBytes(kind))
        v == r.vals
    IN  IF End(r) /\ Len(v[7]) = TagLen /\ DecodeMessage(v[4]) # Rejected
        THEN [stream |-> v[3], message |-> DecodeMessage(v[4]),
              kind |-> v[5], image |-> v[6], tag |-> v[7]]
        ELSE Rejected

-----------------------------------------------------------------------------
\* The length of a field is not lost in its prefix.
Fits(p) == Len(p) < LenWrap
MessageFits(m) == Fits(m.table) /\ Fits(m.row) /\ Fits(m.column)
RecordFits(r) ==
    /\ MessageFits(r.message) /\ Fits(MessageOctets(r.message))
    /\ Fits(r.stream) /\ Fits(r.image)

\* What EncodeRecord accepts and its own decoder accepts too.
Decodable(r) ==
    /\ r.kind \in ImageKinds /\ r.message.op \in Ops
    /\ NotUTF8 \notin Range(r.message.table) \cup Range(r.message.column)
    /\ RecordFits(r)

\* A record that was encoded is decoded to itself exactly if its names are
\* UTF-8, its op and kind known, which only the decoder checks, and no length
\* wraps, which nothing checks; while no length wraps, it is rejected
\* otherwise (message.go:38, 104, 116-143, bytes.go:33).
DecodesBack(r) ==
    EncodeRecord(r) # NoEncoding =>
        LET d == DecodeRecord(EncodeRecord(r)) IN
        /\ d = r <=> Decodable(r)
        /\ RecordFits(r) /\ ~Decodable(r) => d = Rejected

\* A buffer has at most one reading and a record one encoding: what decodes
\* encodes to the same buffer, so nothing may be cut off, added or changed
\* in length without a rejection (bytes.go:57-66, 119-128).
Canonical(buf) ==
    DecodeRecord(buf) # Rejected => EncodeRecord(DecodeRecord(buf)) = buf
=============================================================================
