---------------------------- MODULE MCLibraries ----------------------------
(***************************************************************************)
(* Small arguments for the libraries.                                      *)
(***************************************************************************)
EXTENDS Libraries

\* Octets are 1 and 2, and 7 is in no UTF-8 string.  Sums of lengths collide
\* as soon as names can be empty and of two octets.  The length of the longest
\* name wraps to nothing, and so does that of the longest message of names
\* that fit.
Names == {<<>>, <<1>>, <<1, 1>>, <<7>>}
Wraps == [i \in 1 .. LenWrap |-> 1]
Message(t, r, c, op, seq, prev) ==
    [table |-> t, row |-> r, column |-> c, op |-> op, seq |-> seq,
     prev |-> prev]
Record(m, kind, image, tag) ==
    [stream |-> <<1>>, message |-> m, kind |-> kind, image |-> image,
     tag |-> tag]

SmallRecords ==
    {Record(Message(t, r, c, op, 1, prev), kind, image, tag) :
        t \in Names, r \in {<<>>, <<7>>, Wraps}, c \in Names, op \in {0, 1},
        prev \in {<<>>, <<1>>, <<1, 2>>}, kind \in {0, 2},
        image \in {<<>>, <<1>>}, tag \in {<<1>>, <<1, 2>>}}

\* Encodings, cut short, with a word more, or with one word replaced.
Encodings ==
    {EncodeRecord(Record(Message(t, <<1>>, c, 1, 1, p), 0, image, <<1, 2>>)) :
        t \in {<<>>, <<1>>}, c \in {<<1>>, <<1, 1>>}, p \in {<<>>, <<1, 2>>},
        image \in {<<>>, <<1>>}}
AlteredEncodings ==
    UNION {{SubSeq(e, 1, n) : n \in 0 .. Len(e)}
           \cup {Append(e, w) : w \in 0 .. 2}
           \cup {[e EXCEPT ![i] = w] : i \in DOMAIN e, w \in 0 .. 3}
             : e \in Encodings}

SmallChanges ==
    {Message(t, r, c, 1, seq, <<>>) :
        t, r, c \in {<<>>, <<1>>, <<1, 1>>}, seq \in {0, 1}}
    \cup {Message(Wraps, <<>>, c, 1, 0, <<>>) : c \in {<<>>, <<1>>}}

SmallPayloads == {<<>>, <<1>>, <<1, 1>>, <<2, 1>>, <<2, 2, 1>>}

\* Blocks of none to seven transactions, and one other transaction.
SmallBlocks == {[i \in 1 .. n |-> <<i>>] : n \in 0 .. 7} \cup {<< <<9>> >>}

SmallIndexes == -3 .. 9

SmallPartners ==
    [standard : Standard \cup {"TRADACOMS"}, enabled : BOOLEAN,
     subset : {{}, {"850", "820", "ORDERS"},
               DOMAIN X12Map \cup DOMAIN EdifactMap}]
=============================================================================
